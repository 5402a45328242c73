------------------------------ MODULE MCPortal ------------------------------
(***************************************************************************)
(* What the portal asks of the programs: the steps its routers plan        *)
(* (PortalRouter), and the requests of an audit from their plan to the end *)
(* of the authorization (AuditWorkflow).  The two share no state and are   *)
(* taken one at a time.                                                    *)
(***************************************************************************)
EXTENDS MCAuditWorkflow, PortalRouter

VARIABLE
    subject              \* the part of the two that moves

portalVars == <<subject, vars, routerVars>>

PortalInit == subject \in {"router", "audit"} /\ Init /\ RouterInit

PortalNext ==
    \/ subject = "router" /\ RouterNext /\ UNCHANGED <<subject, vars>>
    \/ subject = "audit" /\ Next /\ UNCHANGED <<subject, routerVars>>

PortalSpec == PortalInit /\ [][PortalNext]_portalVars
=============================================================================
