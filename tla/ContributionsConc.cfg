\* Two operations of two users, moderators and retention, interleaved at every transaction
\* and file-system step.  The threads may all be lost: deadlock is not checked.
SPECIFICATION Spec
CONSTANTS
    Users = {alice, bob}
    Clients = {}
    p1 = p1
    p2 = p2
    p3 = p3
    c1 = c1
    c2 = c2
    Payloads = {p1, p2}
    CaseIds = {c1}
    External = {}
    Submissions <- Clean
    CasesOf <- OneCase
    RepeatsOf <- NoRepeats
    Requests = {r1, r2}
    Erasers = {e1}
    Nobody = Nobody
    Unknown = Unknown
    Nothing = Nothing
    MaxUploads = 2
    MaxInFlight = 2
    MaxOvertaken = 1
    Retention = TRUE
SYMMETRY Alike
INVARIANTS
    NoDanglingReference
    OneUploadPerOwner
    SharedFileKept
PROPERTIES
    OnlyErasureReopens
CHECK_DEADLOCK FALSE
