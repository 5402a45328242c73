\* One request planned up to twice, over epochs of which the last are so near
\* the largest that an expiry overflows.
CONSTANTS
    AuthId = {a}
    Attestation = {t}
    MaxU32 = 3
    RequestId = {r}
    Auditor = {auditor}
    Scopes <- SomeScopes
    Versions <- SomeVersions
    OtherEvent = other
    MaxWorkflows = 2
    MaxEvents = 3
SPECIFICATION Spec
CHECK_DEADLOCK FALSE
CONSTRAINT Bounded
INVARIANT BothConsented
