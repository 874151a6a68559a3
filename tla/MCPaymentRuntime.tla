-------------------------- MODULE MCPaymentRuntime --------------------------
(* Small instances of PaymentRuntime for TLC. *)
EXTENDS PaymentRuntime, TLC

CONSTANTS j1, w1, w2, p1, alice, bob, s1, u1

Older == [epoch |-> 1, config |-> "first"]
Newer == [epoch |-> 2, config |-> "second"]

\* Two requests that clash on the idempotency key, one per generation, and one
\* that competes with the first for the money.  With the limit of the run with two
\* adapters, the first fills bob's account, and the second one, of the opposite
\* direction and all bob has, fits into alice's only after the rival.
Pay == [op |-> "o1", key |-> "k1", gen |-> Older, scope |-> s1, unit |-> u1,
        source |-> alice, beneficiary |-> bob, amount |-> 2]
SameKey == [Pay EXCEPT !.op = "o2", !.gen = Newer, !.source = bob, !.beneficiary = alice,
                       !.amount = 1]
Rival == [Pay EXCEPT !.op = "o3", !.key = "k3"]

MCRequest == {Pay, SameKey, Rival}
MCTwo == {Pay, SameKey}
MCGeneration == {Older, Newer}
MCBalance == (alice :> 3) @@ (bob :> 1)
MCJournalOf == (w1 :> j1) @@ (w2 :> j1)
MCJournalOfOne == (w1 :> j1)
=============================================================================
