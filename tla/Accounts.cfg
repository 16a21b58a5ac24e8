CONSTANTS
    u1 = u1
    u2 = u2
    e1 = e1
    r1 = r1
    r2 = r2
    NoUser = NoUser
    NoEmail = NoEmail
    NoRow = NoRow
    Users <- MCUsers
    Emails <- MCEmails
    Requests <- MCRequests
    MaxSecrets = 3
    MaxFaults = 1
SYMMETRY AccountSymmetry
SPECIFICATION Spec
INVARIANTS TypeOK RowsOwned SessionsAreVerified OneAccountPerEmail SpentTokensStayDead OldSessionsEnd RepliesAreDurable HalfSignups
PROPERTIES AccountsWrittenOnce SessionsWrittenOnce
CHECK_DEADLOCK FALSE
