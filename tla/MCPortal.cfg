\* One request planned up to twice, over epochs of which the last are so near
\* the largest that an expiry overflows; plans of up to two steps.
CONSTANTS
    AuthId = {a}
    Attestation = {t}
    MaxU32 = 3
    RequestId = {r}
    Auditor = {auditor}
    Scopes <- SomeScopes
    Versions <- SomeVersions
    OtherEvent = other
    MaxWorkflows = 2
    MaxEvents = 3
    MaxSteps = 2
SPECIFICATION PortalSpec
CHECK_DEADLOCK FALSE
CONSTRAINT Bounded
INVARIANTS ConsentsBindTerms PlannedRequestsMint RecordsMatchMappings OnlyKnownMisfits
PROPERTIES EndedForGood
