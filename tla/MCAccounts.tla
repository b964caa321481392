----------------------------- MODULE MCAccounts -----------------------------
(* Small instances of Accounts.                                            *)
EXTENDS Accounts, TLC

CONSTANTS annMail, bobMail, cyMail, bobId, cyId

\* The second provider account changes its address.
MCMailsOf == bobId :> {bobMail} @@ cyId :> {cyMail, bobMail}

Row(mail, admin) == [mail |-> mail, admin |-> admin]

\* How many users, sessions and flows a history may insert.
Hub(rows, usersLeft, sessionsLeft, flowsLeft) ==
    [users |-> rows, user |-> MaxUser + 1 - usersLeft,
     session |-> MaxSession + 1 - sessionsLeft,
     flow |-> MaxFlow + 1 - flowsLeft]

TwoAccounts == Hub(<<Row(bobMail, TRUE), Row(cyMail, FALSE)>>, 0, 2, 0)

\* A fresh hub, one with two accounts that nobody has signed in to yet, and one
\* whose administrator stays away.
MCSeeds == {Hub(<<>>, 3, 1, 0), TwoAccounts, Hub(<<Row(annMail, TRUE)>>, 2, 2, 2)}

\* Requests are interchangeable.
Symmetry == Permutations(Requests)
=============================================================================
