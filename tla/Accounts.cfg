CONSTANTS
    annMail = annMail
    bobMail = bobMail
    cyMail = cyMail
    bobId = bobId
    cyId = cyId
    NoIdentity = NoIdentity
    NoMail = NoMail
    Requests = {r1, r2}
    Identities = {bobId, cyId}
    Mails = {annMail, bobMail, cyMail}
    MailsOf <- MCMailsOf
    AdminMails = {}
    Seeds <- MCSeeds
    MaxUser = 3
    MaxSession = 2
    MaxFlow = 2
    MaxState = 2
SPECIFICATION Spec
SYMMETRY Symmetry
CHECK_DEADLOCK FALSE
INVARIANTS
    IdentityMatchesAccount
    SessionsAreIdentified
    ConfirmedByOwner
    RolesEndSessions
    AuthorityIsFresh
    AdminLostOnlyByRace
