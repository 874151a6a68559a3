---------------------------- MODULE MCPublication ----------------------------
(* A small instance of Publication: a page from a session whose AI text was    *)
(* replaced by hand, another page under the same request id, and candidates    *)
(* that must be refused.                                                       *)
EXTENDS Publication, TLC

CONSTANTS w1, w2

MCAi == {"generation"}

\* A session that writes block "b" once per entry of writes (<<text, activity>>).
Op(writes, n) ==
    [document |-> "article", sequence |-> n,
     before |-> [b \in {"b" : k \in 1..(n - 1)} |-> writes[n - 1][1]],
     after |-> [b \in {"b"} |-> writes[n][1]],
     block |-> "b", text |-> writes[n][1], activity |-> writes[n][2], at |-> 0]
First(writes) == [previous |-> Genesis] @@ Op(writes, 1)
Second(writes) == [previous |-> First(writes)] @@ Op(writes, 2)
Source(operations) ==
    [document |-> "article", operations |-> operations,
     checkpoint |-> [document |-> "article", sequence |-> Len(operations),
                     head |-> operations[Len(operations)],
                     content |-> operations[Len(operations)].after, at |-> 0]]

Drafted == <<<<"x", "generation">>, <<"y", "manual_edit">>>>
ByHand == <<<<"x", "import">>, <<"y", "manual_edit">>>>

DraftedSource == Source(<<First(Drafted), Second(Drafted)>>)
PlainSource == Source(<<First(ByHand)>>)

Policy == [from |-> 0, until |-> 3, prohibited |-> {}]

Prepare(source, disclosure, policy) ==
    LET html == Rendered(source, disclosure) IN
    [id |-> "i1", source |-> source, disclosure |-> disclosure, html |-> html,
     subject |-> html, prepared |-> 0,
     manifest |-> {[block |-> a.block, revision |-> a.revision] : a \in Adopted(source)},
     activities |-> Adopted(source), from |-> source.operations[1].at, policy |-> policy]

MCContents ==
    [page |-> Prepare(DraftedSource, {"generation"}, Policy),
     other |-> Prepare(PlainSource, {}, Policy),
     undisclosed |-> Prepare(DraftedSource, {}, Policy),
     prohibited |-> Prepare(DraftedSource, {"generation"},
                            [Policy EXCEPT !.prohibited = {"generation"}])]

MCCandidate == DOMAIN MCContents
MCApproval == {[candidate |-> c, at |-> 1, until |-> IF c = "other" THEN 3 ELSE 2] :
                  c \in MCCandidate}
MCSymmetry == Permutations({w1, w2})
=============================================================================
