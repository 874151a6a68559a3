----------------------- MODULE MCPaymentAuthorization -----------------------
(* A small instance of PaymentAuthorization for TLC: one request, an adapter *)
(* that may be started with either of two gates or plain, and a second one   *)
(* on the same journal.                                                       *)
EXTENDS PaymentAuthorization, TLC

CONSTANTS j1, w1, w2, p1, alice, bob, s1, u1, agent, k1, k2, k3, ka

Only == [epoch |-> 1, config |-> "first"]

Pay == [op |-> "o1", key |-> "k1", gen |-> Only, scope |-> s1, unit |-> u1,
        source |-> alice, beneficiary |-> bob, amount |-> 2]

Policy == [scope |-> s1, unit |-> u1, gen |-> Only, principal |-> agent,
           sources |-> {alice}, beneficiaries |-> {bob}, max |-> 2, from |-> 0, until |-> 9]

\* Keys k1 and k3 belong to one person, k2 to another.
Identity(person, until) ==
    [person |-> person, roles |-> {"maker", "checker"}, scope |-> s1, from |-> 0, until |-> until]
People == (k1 :> Identity("ann", 9)) @@ (k2 :> Identity("ben", 3)) @@ (k3 :> Identity("ann", 9))

Gate == [policy |-> Policy, approvers |-> {k1, k2, k3}, authorities |-> {ka},
         identity |-> People, maxAge |-> 1]
\* The same gate after ben has been taken out of the identities.
LaterGate == [Gate EXCEPT !.identity = (k1 :> Identity("ann", 9)) @@ (k3 :> Identity("ann", 9))]

Approve(kind, key, id, issued) ==
    [kind |-> kind, key |-> key, genuine |-> TRUE, id |-> id, request |-> Pay, policy |-> Policy,
     issued |-> issued, expires |-> 3]
Status(m, c, observed) ==
    [key |-> ka, genuine |-> TRUE, request |-> Pay, policy |-> Policy,
     principal |-> agent, gen |-> Only,
     approval |-> ("maker" :> m) @@ ("checker" :> c),
     observed |-> observed, validUntil |-> 4, state |-> "active", revokedAt |-> Absent]
Pack(m, c, st) == ("maker" :> m) @@ ("checker" :> c) @@ ("status" :> st)

Ann == Approve("maker", k1, "a1", 0)
Ben == Approve("checker", k2, "a2", 0)
AnnAgain == Approve("checker", k3, "a2", 0)
Active == Status(Ann, Ben, 1)

Good == Pack(Ann, Ben, Active)
MCEvidence ==
    { Good,
      Pack(Ann, AnnAgain, Status(Ann, AnnAgain, 1)),                \* one person, two keys
      Pack(Ann, [Ben EXCEPT !.id = "a1"], Status(Ann, [Ben EXCEPT !.id = "a1"], 1)),
      Pack(Ann, [Ben EXCEPT !.genuine = FALSE], Active),
      Pack(Ann, Absent, Active),
      Pack(Ann, [Ben EXCEPT !.kind = "maker"], Status(Ann, [Ben EXCEPT !.kind = "maker"], 1)),
      Pack(Ann, Ben, [Active EXCEPT !.state = "revoked", !.revokedAt = 1]),
      Pack(Ann, [Ben EXCEPT !.issued = 2], Active),                 \* status precedes approval
      Pack(Ann, Ben, Absent) }

MCRequest == {Pay}
MCGeneration == {Only}
MCBalance == (alice :> 3) @@ (bob :> 0)
MCJournalOf == (w1 :> j1) @@ (w2 :> j1)
MCConfig == {Gate, LaterGate}
=============================================================================
