--------------------------- MODULE MCPaymentCustody ---------------------------
(* A small instance of PaymentCustody for TLC: one request that any two people *)
(* approved, and wrapped adapters on one journal.                             *)
EXTENDS PaymentCustody, TLC

CONSTANTS j1, w1, w2, p1, c1, c2, alice, bob, s1, u1, agent, k1, k2, ka

Only == [epoch |-> 1, config |-> "first"]

Pay == [op |-> "o1", key |-> "k1", gen |-> Only, scope |-> s1, unit |-> u1,
        source |-> alice, beneficiary |-> bob, amount |-> 2]

Policy == [scope |-> s1, unit |-> u1, gen |-> Only, principal |-> agent,
           sources |-> {alice}, beneficiaries |-> {bob}, max |-> 2, from |-> 0, until |-> 9]

Identity(person) ==
    [person |-> person, roles |-> Approvals, scope |-> s1, from |-> 0, until |-> 9]

Gate == [policy |-> Policy, approvers |-> {k1, k2}, authorities |-> {ka},
         identity |-> (k1 :> Identity("ann")) @@ (k2 :> Identity("ben")), maxAge |-> 9]

Approve(kind, key, id) ==
    [kind |-> kind, key |-> key, genuine |-> TRUE, id |-> id, request |-> Pay, policy |-> Policy,
     issued |-> 0, expires |-> 9]
Signed == ("maker" :> Approve("maker", k1, "a1")) @@ ("checker" :> Approve("checker", k2, "a2"))
Status == [key |-> ka, genuine |-> TRUE, request |-> Pay, policy |-> Policy,
           principal |-> agent, gen |-> Only, approval |-> Signed,
           observed |-> 1, validUntil |-> 9, state |-> "active", revokedAt |-> Absent]

MCEvidence == {Signed @@ ("status" :> Status)}
MCRequest == {Pay}
MCGeneration == {Only}
MCBalance == (alice :> 3) @@ (bob :> 0)
MCJournalOf == (w1 :> j1) @@ (w2 :> j1)
MCJournalOfOne == (w1 :> j1)
MCConfig == {Gate}

\* What a call reported is read by no step and by none of the properties.
MCView == <<dispatches, jgen, agen, pc, req, reply, provider, storeVars, networkVars, sent,
            authVars, custodyVars>>

\* Collector processes differ in nothing but their name.
MCSymmetry == Permutations({c1, c2})

\* Bounds of the run with two adapters: the provider does not crash, adapters are
\* restarted with their gate, the second one claims nothing and does not crash, and
\* what is left on the wire is lost.
MCFocus ==
    /\ \A p \in Provider : provider[p] # None => provider'[p] # None
    /\ \A w \in Worker : gate'[w] # None \/ agen'[w] = None
    /\ pc'[w2] # "claimed"
    /\ agen[w2] # None => agen'[w2] # None
    /\ late' = {}

=============================================================================
