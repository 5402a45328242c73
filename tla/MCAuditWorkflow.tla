-------------------------- MODULE MCAuditWorkflow --------------------------
EXTENDS AuditWorkflow

CONSTANT MaxEvents   \* bound on the events anchored

Scope(c, a, b, d) ==
    [data_categories |-> c, period_start_epoch |-> a, period_end_epoch |-> b,
     access_duration_epochs |-> d]

\* A scope that is accepted, for two epochs of issue, and one for each way to be
\* refused: the third lasts beyond the largest epoch.
SomeScopes ==
    {Scope(1, 1, 1, 1), Scope(0, 1, 1, 1), Scope(1, 1, 1, 3), Scope(1, 2, 1, 1),
     Scope(1, 1, 1, 0)}

SomeVersions == {[schema_v |-> 1, policy_v |-> 1], [schema_v |-> 1, policy_v |-> 0]}

\* Behaviours are followed up to so many events, and after mints of scopes the portal
\* accepts.
Bounded ==
    /\ Cardinality(audit_event_height) <= MaxEvents
    /\ \A n \in minted :
          n.args.scope_hash \in {encodeAuditScope(s) : s \in {x \in Scopes : ValidScope(x)}}
=============================================================================
