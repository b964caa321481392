\* One process may be killed; it is started again.  Nobody works on a request
\* whose announcement failed: the system may stop.
CHECK_DEADLOCK FALSE
SPECIFICATION FairSpec
CONSTANTS
    Users = {alice}
    Processes = {p1, p2}
    Handlers = {h1}
    Deleters = {}
    Nobody = Nobody
    NoProcess = NoProcess
    MaxExports = 2
PROPERTY
    ClaimFinishes
