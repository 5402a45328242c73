------------------------ MODULE AgreementLifecycle -------------------------
(***************************************************************************)
(* What an employment agreement promises the programs that pay and certify *)
(* against it.  An agreement is offered once and accepted at most once; it *)
(* may be paused, and runs again only after all three parties have         *)
(* consented since that pause; once closed (terminated or superseded) it   *)
(* never runs again.  EmployerAgreement implements this specification.     *)
(***************************************************************************)
CONSTANTS
    Agreement,    \* agreement ids
    Party         \* the roles whose consent a resumption needs

VARIABLES
    phase,        \* [Agreement -> Phase]
    consents      \* [Agreement -> SUBSET Party], given since the last pause

vars == <<phase, consents>>

Phase == {"absent", "pending", "active", "paused", "closed"}

Init ==
    /\ phase = [a \in Agreement |-> "absent"]
    /\ consents = [a \in Agreement |-> {}]

\* The agreement moves to another phase, which voids the consents given.
Move(a, from, to) ==
    /\ phase[a] \in from
    /\ phase' = [phase EXCEPT ![a] = to]
    /\ consents' = [consents EXCEPT ![a] = {}]

Offer(a)  == Move(a, {"absent"}, "pending")
Accept(a) == Move(a, {"pending"}, "active")
Pause(a)  == Move(a, {"active"}, "paused")
Close(a)  == Move(a, {"pending", "active", "paused", "closed"}, "closed")

Consent(a, p) ==
    /\ phase[a] = "paused"
    /\ consents' = [consents EXCEPT ![a] = @ \cup {p}]
    /\ UNCHANGED phase

Resume(a) ==
    /\ consents[a] = Party
    /\ Move(a, {"paused"}, "active")

Next ==
    \E a \in Agreement :
        \/ Offer(a) \/ Accept(a) \/ Pause(a) \/ Resume(a) \/ Close(a)
        \/ \E p \in Party : Consent(a, p)

Spec == Init /\ [][Next]_vars
=============================================================================
