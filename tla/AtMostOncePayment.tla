-------------------------- MODULE AtMostOncePayment --------------------------
(***************************************************************************)
(* What the payment runtime promises, without processes, messages or       *)
(* crashes: a journal may open a claim, a claim is worth one send, the     *)
(* provider decides a sent request at most once and moves money exactly    *)
(* when it decides "settled", and a journal learns the decision.           *)
(***************************************************************************)
EXTENDS Integers

CONSTANTS Request, Journal, Receipt, None, Claimed

VARIABLES
    view,       \* per journal and request: None, Claimed, or the decision learned
    sent,       \* per journal and request: sends made
    ledger,     \* per request: None or the provider's decision
    moved       \* requests whose money has moved

vars == <<view, sent, ledger, moved>>

Clash(r, s) == r # s /\ (r.op = s.op \/ r.key = s.key)

Init ==
    /\ view = [j \in Journal |-> [r \in Request |-> None]]
    /\ sent = [j \in Journal |-> [r \in Request |-> 0]]
    /\ ledger = [r \in Request |-> None]
    /\ moved = {}

Claim(j, r) ==
    /\ view[j][r] = None
    /\ \A s \in Request : Clash(r, s) => view[j][s] = None
    /\ view' = [view EXCEPT ![j][r] = Claimed]
    /\ UNCHANGED <<sent, ledger, moved>>

\* The journal may meanwhile have learned a decision another journal brought
\* about; its own send is still to come, and harmless.
Send(j, r) ==
    /\ view[j][r] # None
    /\ sent[j][r] = 0
    /\ sent' = [sent EXCEPT ![j][r] = 1]
    /\ UNCHANGED <<view, ledger, moved>>

Decide(r, d) ==
    /\ ledger[r] = None
    /\ \E j \in Journal : sent[j][r] = 1
    /\ \A s \in Request : Clash(r, s) => ledger[s] = None
    /\ d.request = r
    /\ ledger' = [ledger EXCEPT ![r] = d]
    /\ moved' = IF d.status = "settled" THEN moved \cup {r} ELSE moved
    /\ UNCHANGED <<view, sent>>

Learn(j, r) ==
    /\ view[j][r] = Claimed
    /\ ledger[r] # None
    /\ view' = [view EXCEPT ![j][r] = ledger[r]]
    /\ UNCHANGED <<sent, ledger, moved>>

Next ==
    \/ \E j \in Journal, r \in Request : Claim(j, r) \/ Send(j, r) \/ Learn(j, r)
    \/ \E r \in Request, d \in Receipt : Decide(r, d)

Spec == Init /\ [][Next]_vars

=============================================================================
