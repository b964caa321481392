\* The server rests when every account is deleted: deadlock is not checked.
CHECK_DEADLOCK FALSE
SPECIFICATION FairSpec
CONSTANTS
    Users = {alice}
    Processes = {p1, p2}
    Handlers = {h1, h2}
    Deleters = {d1}
    Nobody = Nobody
    NoProcess = NoProcess
    MaxExports = 2
INVARIANTS
    MailedOnce
    AccountOutlivesExport
PROPERTIES
    FinishesWithoutFault
