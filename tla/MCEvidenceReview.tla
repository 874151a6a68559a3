--------------------------- MODULE MCEvidenceReview ---------------------------
(* Small cases for EvidenceReview: in each, the statements that fit together   *)
(* are numbered from 1 and the odd ones (late, forged, contradicting) from 20. *)
EXTENDS EvidenceReview, Sequences, TLC

Numbered(sound, odd) ==
    [i \in DOMAIN sound |-> sound[i]] @@
    [i \in {19 + k : k \in DOMAIN odd} |-> odd[i - 19]]
Slot(slot, signed) == [slot |-> slot, signed |-> signed]

-----------------------------------------------------------------------------
(* A payment dispatched at 4.                                              *)

PayBase == [scope |-> "prod", order |-> "pay", policy |-> "policy", from |-> 2, until |-> 6]
PayOp == PayBase @@ [payload |-> PayBase @@ [payload |-> Absent]]
\* An envelope whose digest is d.
Env(d, key, body) ==
    [digest |-> d, key |-> key, genuine |-> TRUE, bound |-> TRUE, body |-> body]
Approval(id, from, until) ==
    [id |-> id, op |-> PayOp, policy |-> "policy", at |-> from, until |-> until]
Refs(checker) == [policy |-> "policy", maker |-> "maker", checker |-> checker,
                  status |-> "status", control |-> "control"]
DispatchBody(checker) ==
    [op |-> PayOp, actual |-> PayOp, request |-> PayOp.payload, refs |-> Refs(checker), at |-> 4]
StatusBody == [op |-> PayOp, policy |-> "policy", scope |-> "prod", at |-> 3, until |-> 6,
               refs |-> [maker |-> "maker", checker |-> "checker"],
               state |-> "active", revoked |-> Absent]
PolicyBody == [scope |-> "prod", orders |-> {"pay"}, provider |-> "bank", from |-> 0, until |-> 9,
               routes |-> DOMAIN Wallet!Routes]
ReceiptBody == [op |-> PayOp, payload |-> PayOp.payload, scope |-> "prod", dispatch |-> "dispatch",
                provider |-> "bank", at |-> 5, status |-> "settled"]
ControlBody == [op |-> PayOp, scope |-> "prod", at |-> 3, routes |-> Wallet!Routes]
CollectorBody == [op |-> PayOp, scope |-> "prod", at |-> 6, gap |-> FALSE,
                  retained |-> [s \in Wallet!PaymentSlots \ {"collector"} |-> s]]

PaySound == <<
    Slot("policy", Env("policy", "kp", PolicyBody)),
    Slot("maker", Env("maker", "km", Approval("a1", 1, 6))),
    Slot("checker", Env("checker", "kc", Approval("a2", 2, 6))),
    Slot("status", Env("status", "ks", StatusBody)),
    Slot("dispatch", Env("dispatch", "kd", DispatchBody("checker"))),
    Slot("receipt", Env("receipt", "kr", ReceiptBody)),
    Slot("control", Env("control", "ko", ControlBody)),
    Slot("collector", Env("collector", "kl", CollectorBody))>>
PayOdd == <<
    Slot("policy", Env("policy", "kp", [PolicyBody EXCEPT !.until = 4])),
    Slot("maker", Env("maker", "stranger", Approval("a1", 1, 6))),
    Slot("checker", Env("checker", "km", Approval("a2", 2, 6))),
    Slot("checker", Env("checker2", "kc", Approval("a2", 2, 4))),
    Slot("status", Env("status", "ks", [StatusBody EXCEPT !.state = "revoked", !.revoked = 2])),
    Slot("status", Env("status", "ks", [StatusBody EXCEPT !.at = 1])),
    Slot("dispatch", Env("dispatch", "kd", DispatchBody("checker2"))),
    Slot("dispatch", [Env("dispatch", "kd", DispatchBody("checker")) EXCEPT !.genuine = FALSE]),
    Slot("receipt", Env("receipt", "kr", [ReceiptBody EXCEPT !.status = "pending"])),
    Slot("control", Env("control", "ko", [ControlBody EXCEPT !.routes.deployment = "bypassed"])),
    Slot("collector", Env("collector", "kl", [CollectorBody EXCEPT !.at = 4]))>>
Payment == [workflow |-> "payment", base |-> PayOp, stock |-> Numbered(PaySound, PayOdd)]

MCPaymentKeys == [policy |-> {"kp"}, maker |-> {"km", "kc"}, checker |-> {"km", "kc"},
                  status |-> {"ks"}, dispatch |-> {"kd"}, receipt |-> {"kr"},
                  control |-> {"ko"}, collector |-> {"kl"}]
MCIdentity == [k \in {"km", "kc"} |-> [person |-> k, roles |-> {"maker", "checker"},
                                       scope |-> "prod", from |-> 0, until |-> 9]]

-----------------------------------------------------------------------------
(* A delegation of a wallet, signed at 4.                                   *)

WalOp == [scope |-> "agent", terms |-> "w", action |-> "delegate", target |-> "c",
          payload |-> "bytes", policy |-> "policy"]
WalPolicy == [scope |-> "agent", terms |-> {"w"}, actions |-> {"delegate"}, targets |-> {"c"},
              finality |-> "observed", routes |-> DOMAIN Wallet!WalletRoutes, from |-> 0, until |-> 6]
WalApproval == [id |-> "a", scope |-> "agent", op |-> WalOp, policy |-> "policy", at |-> 2, until |-> 6]
WalRevocation == [op |-> WalOp, policy |-> "policy", approval |-> "approval", at |-> 3, until |-> 6,
                  approvals |-> {}, credentials |-> {}]
WalControl == [op |-> WalOp, scope |-> "agent", at |-> 3, routes |-> Wallet!WalletRoutes]
WalExecution == [op |-> WalOp, policy |-> "policy", actual |-> WalOp, payload |-> "bytes",
                 refs |-> [approval |-> "approval", revocation |-> "revocation", control |-> "control"],
                 state |-> "included", at |-> 4]
WalChain == [op |-> WalOp, terms |-> "w", execution |-> "execution", at |-> 5, block |-> 7, hash |-> "h",
             included |-> [block |-> 7, hash |-> "h"], code |-> "c", finality |-> "finalized"]
WalSound == <<
    Slot("policy", Env("policy", "kp", WalPolicy)),
    Slot("approval", Env("approval", "ka", WalApproval)),
    Slot("revocation", Env("revocation", "kv", WalRevocation)),
    Slot("control", Env("control", "ko", WalControl)),
    Slot("execution", Env("execution", "ke", WalExecution)),
    Slot("chain", Env("chain", "kb", WalChain))>>
WalOdd == <<
    Slot("policy", Env("policy", "kp", [WalPolicy EXCEPT !.until = 4])),
    Slot("approval", Env("approval", "ka", [WalApproval EXCEPT !.until = 4])),
    Slot("revocation", Env("revocation", "kv", [WalRevocation EXCEPT !.credentials = {"agent"}])),
    Slot("revocation", Env("revocation", "kv", [WalRevocation EXCEPT !.at = 1])),
    Slot("control", Env("control", "ko", [WalControl EXCEPT !.at = 5])),
    Slot("execution", [Env("execution", "ke", WalExecution) EXCEPT !.bound = FALSE]),
    Slot("execution", Env("execution", "ke", [WalExecution EXCEPT !.state = "signed"])),
    Slot("chain", Env("chain", "kb", [WalChain EXCEPT !.code = "empty"])),
    Slot("chain", Env("chain", "ke", WalChain))>>
WalletCase == [workflow |-> "wallet", base |-> WalOp, stock |-> Numbered(WalSound, WalOdd)]
MCWalletKeys == [policy |-> {"kp"}, approval |-> {"ka"}, revocation |-> {"kv"}, control |-> {"ko"},
                 execution |-> {"ke"}, chain |-> {"kb", "ke"}]

-----------------------------------------------------------------------------
(* A scope over two events, to be delivered by 5.                            *)

Obligation(id, disclosure) ==
    [id |-> id, source |-> "s", type |-> "t", disclosure |-> disclosure, notification |-> Absent]
Notified == [id |-> "n", source |-> "s", type |-> "notification_receipt", disclosure |-> "full",
             notification |-> [trigger |-> "e", recipient |-> "r", stage |-> "attempted", deadline |-> 5]]
EventBody(id, type, payload) == [id |-> id, source |-> "s", type |-> type, payload |-> payload]
Event(i, body) ==
    [signed |-> [digest |-> body, key |-> "ks", genuine |-> TRUE, bound |-> TRUE],
     body |-> body, hash |-> body, index |-> i, path |-> TRUE]
EventE == EventBody("e", "t", [value |-> "done"])
EventN == EventBody("n", "notification_receipt",
                    [value |-> "done", trigger |-> "e", recipient |-> "r", stage |-> "attempted", at |-> 4])
EntryOf(body) == [id |-> body.id, source |-> body.source, type |-> body.type, leaf |-> body]
Index == <<EntryOf(EventE), EntryOf(EventN)>>
ScopeBase(events, proofs) ==
    [policy |-> TRUE, anchor |-> [Env("anchor", "ka", [index |-> Index]) EXCEPT !.bound = TRUE],
     index |-> Index, events |-> events, proofs |-> proofs, delivery |-> "delivered", x |-> <<>>]

Obligations(disclosure) == {Obligation("e", disclosure), Notified}
Declared(mode, disclosure) ==
    Env("scope", "kq", [cutoff |-> 1, end |-> 3, deadline |-> 5, timed |-> TRUE, closable |-> TRUE,
        derivable |-> TRUE, amended |-> FALSE, mode |-> mode, expected |-> Obligations(disclosure),
        individuals |-> {Notified}, relationships |-> {}, configuration |-> "cfg", source |-> "src"])
ScopeReceipt(digest, target, purpose, accepted) ==
    Env(digest, "kr", [target |-> target, purpose |-> purpose, accepted |-> accepted, uncertainty |-> 0])
Closure(gaps, sources, disclosure) ==
    Env("closure", "kq", [scope |-> "scope", configuration |-> "cfg", source |-> "src", end |-> 3,
        closed |-> TRUE, closedAt |-> 4, gaps |-> gaps, sources |-> sources,
        records |-> "records", expected |-> Obligations(disclosure)])
Manifest(entries, finalized) ==
    Env("manifest", "kq", [scope |-> "scope", anchor |-> "anchor", delivery |-> "delivered",
        final |-> TRUE, finalizedAt |-> finalized, entries |-> entries])
Register(receipt, first) ==
    Env("register", "kt", [scope |-> "scope", receipt |-> receipt, id |-> "reg", closed |-> TRUE,
        closedAt |-> 4, first |-> first])

ScopeSound(mode, disclosure, state) == <<
    Slot("scope", Declared(mode, disclosure)),
    Slot("anchor_receipt", ScopeReceipt("r0", "anchor", "anchor", 3)),
    Slot("scope_receipt", ScopeReceipt("r1", "scope", "scope", 1)),
    Slot("inventory", Env("inventory", "kq", [scope |-> "scope", obligations |-> Obligations(disclosure)])),
    Slot("closure", Closure({}, {"s"}, disclosure)),
    Slot("manifest", Manifest([id \in {"e", "n"} |-> IF id = "e" THEN state ELSE "included"], 5)),
    Slot("source_records", Env("records", "kq", Obligations(disclosure)))>>
ScopeOdd(disclosure) == <<
    Slot("scope_receipt", ScopeReceipt("r2", "scope", "scope", 3)),
    Slot("timing_register", Register("r2", 3)),
    Slot("timing_register", Register("r2", 1)),
    Slot("closure", Closure({"outage"}, {}, disclosure)),
    Slot("closure", Closure({}, {"s"}, "other")),
    Slot("manifest", Manifest([id \in {"e"} |-> "included"], 5)),
    Slot("inventory", Env("inventory", "kq", [scope |-> "other", obligations |-> {}]))>>
ScopeCase(mode, disclosure, state, events, proofs) ==
    [workflow |-> "scope", base |-> ScopeBase(events, proofs),
     stock |-> Numbered(ScopeSound(mode, disclosure, state), ScopeOdd(disclosure))]
MCScopeKeys == [anchor |-> {"ka"}, receipt |-> {"kr"}, event |-> {"ks"}, scope |-> {"kq"},
                inventory |-> {"kq"}, closure |-> {"kq"}, manifest |-> {"kq"}, register |-> {"kt"}]
MCEventSigners == [s |-> {"ks"}]
\* The two events are to say the same; they do, or not, or under a rule nobody knows.
Equality == [left |-> "e", right |-> "n", supported |-> TRUE]
EventF == [EventE EXCEPT !.payload.value = "not done"]
OtherIndex == <<EntryOf(EventF), EntryOf(EventN)>>
Both == <<Event(1, EventE), Event(2, EventN)>>
Hidden == <<[index |-> 1, entry |-> EntryOf(EventE), path |-> TRUE]>>

-----------------------------------------------------------------------------
(* The assessor's cases: the operation is at 3.                              *)

Record(id, kind, recorded, diff, data) ==
    [id |-> id, kind |-> kind, key |-> Transfer!RequiredRole(kind), genuine |-> TRUE,
     issuer |-> Transfer!RequiredRole(kind), recorded |-> recorded, mine |-> TRUE,
     diff |-> diff, data |-> data]
Roles == {"policy", "gateway", "collector", "responder", "provider", "reviewer", "author",
          "recipient"}
MCKeys ==
    [k \in Roles \cup {"former"} |->
        [issuer |-> IF k = "former" THEN "gateway" ELSE k,
         organization |-> IF k = "reviewer" THEN "auditor"
                          ELSE IF k = "provider" THEN "cloud" ELSE "us",
         roles |-> {IF k = "former" THEN "gateway" ELSE k},
         from |-> 0, until |-> IF k = "former" THEN 2 ELSE 9]]
MCAuthorities == [role \in Roles |-> role]
\* A list of records, numbered.
Listed(records) == [i \in DOMAIN records |-> [records[i] EXCEPT !.id = i]]

Decision(recorded, diff, from, decision) ==
    Record(0, "transfer.decision", recorded, diff, [from |-> from, until |-> 6, decision |-> decision])
CoverageOf(complete) ==
    Record(0, "transfer.coverage", 5, {}, [from |-> 1, until |-> 5, route |-> TRUE,
                                           complete |-> complete, dispatch |-> FALSE])
Health(at, recorded, available, durable) ==
    Record(0, "transfer.collector_health", recorded, {},
           [at |-> at, available |-> available, durable |-> durable])
Happening(kind, at, recorded) == Record(0, kind, recorded, {}, [at |-> at])
TransferCase(grants) ==
    LET rules == [from |-> 0, until |-> 6, grants |-> grants, collector |-> TRUE] IN
    [workflow |-> "transfer", base |-> rules, stock |-> Listed(<<
        Record(0, "transfer.policy", 1, {"account_id"}, rules),
        Decision(2, {}, 0, "permit"), Decision(2, {}, 0, "deny"), Decision(5, {}, 0, "deny"),
        Decision(4, {}, 4, "permit"), Decision(1, {"payload_sha256"}, 0, "permit"),
        [Decision(2, {}, 0, "permit") EXCEPT !.key = "former"],
        CoverageOf(TRUE), CoverageOf(FALSE), Health(3, 3, TRUE, TRUE), Health(3, 5, TRUE, FALSE),
        Health(3, 3, FALSE, TRUE), Health(4, 4, TRUE, TRUE),
        Happening("transfer.dispatch", 4, 4), Happening("transfer.egress", 5, 5),
        Happening("transfer.timeout", 5, 5)>>)]

Doc == [artifact |-> "doc", category |-> "text"]
Fig == [artifact |-> "fig", category |-> "figure"]
StagePolicy == [from |-> 0, until |-> 6, prohibited |-> {"generation"}, categories |-> {"figure"},
                approval |-> TRUE, resolved |-> TRUE]
Approving(recorded, diff) == Record(0, "publication_approval", recorded, diff, [from |-> 0, until |-> 6])
PublicationCase ==
    [workflow |-> "publication", base |-> StagePolicy, stock |-> Listed(<<
        Record(0, "publication_policy", 1, {}, StagePolicy),
        Record(0, "publication_policy", 4, {}, StagePolicy),
        Record(0, "publication_manifest", 2, {}, [at |-> 2, components |-> <<Doc, Fig>>]),
        Record(0, "publication_manifest", 4, {}, [at |-> 2, components |-> <<Fig, Doc>>]),
        Record(0, "publication_activity", 2, {}, [at |-> 2, activity |-> "generation", included |-> TRUE,
                                                  adopted |-> TRUE, component |-> Fig]),
        Record(0, "publication_declaration", 4, {}, [at |-> 4, activities |-> {"translation"}]),
        Record(0, "publication_disclosure", 3, {}, [at |-> 3, exact |-> TRUE, categories |-> {"text"}]),
        Approving(2, {}), Approving(4, {}), Approving(2, {"revision_id"}),
        Happening("publication_dispatch", 4, 4),
        [Record(0, "publication_receipt", 5, {}, [at |-> 5, accepted |-> TRUE]) EXCEPT !.genuine = FALSE],
        Record(0, "publication_receipt", 5, {}, [at |-> 5, accepted |-> TRUE]),
        Record(0, "publication_coverage", 5, {}, [from |-> 5, until |-> 4])>>)]

Request(recorded) == Record(0, "erasure.request", recorded, {}, [at |-> 3, locations |-> {"l1", "l2"}])
Ack(diff) == Record(0, "erasure.acknowledgement", 4, diff, [at |-> 4, request |-> 1])
Attest(at, diff, locations) ==
    Record(0, "erasure.provider_attestation", 5, diff, [at |-> at, request |-> 1, locations |-> locations, exclusions |-> {"l3"}])
Review(cited, conclusion) ==
    Record(0, "erasure.review", 6, {}, [request |-> 1, attestation |-> 5, from |-> 3, until |-> 5,
        cited |-> cited, locations |-> {"l1"}, conclusion |-> conclusion])
ErasureCase ==
    [workflow |-> "erasure", base |-> 0, stock |-> Listed(<<
        Request(3), Request(4), Ack({}), Ack({"object_ids", "tenant_id"}),
        Attest(4, {}, {"l1"}), Attest(4, {"object_ids"}, {"l1"}), Attest(5, {}, {"l3"}),
        Review({1, 5}, "deletion-observed"), Review({1, 3, 5}, "deletion-observed"),
        Review({1, 5}, "inconclusive"),
        [Review({1, 5}, "inconclusive") EXCEPT !.key = "provider"]>>)]

Asking(recorded) ==
    Record(0, "info_request", recorded, {}, [at |-> 3, until |-> 5, questions |-> {"q1", "q2"}])
Reply(at, recorded, answered) ==
    Record(0, "info_response", recorded, {}, [at |-> at, request |-> 1, answered |-> answered,
                                              complete |-> answered = {"q1", "q2"}])
Removal(urgent) ==
    Record(0, "containment_action", 4, {}, [at |-> 3, account |-> TRUE, urgent |-> urgent,
                                            delay |-> FALSE, minimum |-> FALSE, decided |-> 2,
                                            unavailable |-> {"logs"}])
ResponseCase ==
    [workflow |-> "response", base |-> 0, stock |-> Listed(<<
        Asking(3), Asking(6), Record(0, "info_receipt", 4, {}, [at |-> 4, request |-> 1]),
        Reply(4, 4, {"q1"}), Reply(4, 5, {"q1", "q2"}), Reply(4, 6, {"q1", "q2"}), Reply(4, 4, {"q3"}), Reply(4, 4, {}),
        Removal(TRUE), Removal(FALSE),
        Record(0, "containment_anchor_claim", 5, {}, [at |-> 5, records |-> {9}])>>)]

Receipt(at, recorded, scope) ==
    Record(0, "cross_provider_receipt", recorded, {}, [at |-> at, scope |-> scope])
CrossCase ==
    [workflow |-> "cross", base |-> 0, stock |-> Listed(<<
        Receipt(3, 3, {"l1"}), Receipt(4, 5, {"l1"}), Receipt(2, 3, {"l1"}), Receipt(4, 4, {}),
        [Receipt(4, 4, {"l1"}) EXCEPT !.genuine = FALSE], [Receipt(4, 4, {"l1"}) EXCEPT !.mine = FALSE],
        Record(0, "cross_anchor_claim", 4, {}, [records |-> {1}, parties |-> {"cloud"}])>>)]

-----------------------------------------------------------------------------
AllCases ==
    [payment |-> Payment, wallet |-> WalletCase, misfit |-> [WalletCase EXCEPT !.base.target = "zero"],
     full |-> ScopeCase("fixed", "full", "included", Both, <<>>),
     derived |-> [ScopeCase("derived", "full", "included", Both, <<>>) EXCEPT
                     !.stock[1].signed.body.relationships = {Equality}],
     unequal |-> [ScopeCase("fixed", "full", "included", <<Event(1, EventF), Event(2, EventN)>>, <<>>)
                     EXCEPT !.base.index = OtherIndex, !.base.anchor.body.index = OtherIndex,
                            !.stock[1].signed.body.relationships = {Equality}],
     missing |-> ScopeCase("fixed", "full", "included", <<Event(2, EventN)>>, <<>>),
     withheld |-> ScopeCase("fixed", "commitment", "withheld", <<Event(2, EventN)>>, Hidden),
     refused |-> ScopeCase("derived", "full", "withheld", <<Event(2, EventN)>>, Hidden),
     silent |-> ScopeCase("fixed", "full", "included", <<Event(1, EventE)>>, <<>>),
     unnotified |-> ScopeCase("derived", "full", "included", <<Event(1, EventE)>>, <<>>),
     disputed |-> [ScopeCase("derived", "full", "included", <<Event(1, EventE)>>, <<>>) EXCEPT
                      !.stock[1].signed.body.individuals = {[Notified EXCEPT !.disclosure = "commitment"]}],
     twice |-> [ScopeCase("fixed", "full", "included", Both \o <<Event(1, EventE)>>, <<>>) EXCEPT
                   !.stock[1].signed.body.relationships = {Equality, [Equality EXCEPT !.supported = FALSE]}],
     granted |-> TransferCase({{}}), denied |-> TransferCase({{"tenant_id"}}),
     publication |-> PublicationCase, erasure |-> ErasureCase, response |-> ResponseCase,
     cross |-> CrossCase]

MCCases == AllCases

\* Bounds: of the odd statements two come in, and of the assessor's records some.
MaxRecords == 5
FewStatements ==
    IF Workflow \in Slotted THEN Cardinality({i \in file : i >= 20}) <= 2
    ELSE Cardinality(file) <= MaxRecords
=============================================================================
