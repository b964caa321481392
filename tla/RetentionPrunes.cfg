\* One expired upload with a case.
SPECIFICATION Spec
CONSTANTS
    Users = {alice}
    Clients = {mod}
    p1 = p1
    p2 = p2
    p3 = p3
    c1 = c1
    c2 = c2
    Payloads = {p1, p2, p3}
    CaseIds = {c1, c2}
    External = {}
    Submissions <- Scrubbed
    CasesOf <- MCCasesOf
    RepeatsOf <- NoRepeats
    Requests = {r1}
    Erasers = {e1}
    Nobody = Nobody
    Unknown = Unknown
    Nothing = Nothing
    MaxUploads = 2
    MaxInFlight = 1
    MaxOvertaken = 0
    Retention = TRUE
PROPERTY
    RetentionPrunes
