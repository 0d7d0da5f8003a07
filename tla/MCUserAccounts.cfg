SPECIFICATION Spec
CONSTANTS
    Names = {ann, bob}
    Emails = {"e1"}
    Values = {"v1", "v2"}
    Clients = {c1, c2}
    MaxUsers = 3
    MaxRequests = 3
    MaxFailures = 1
INVARIANTS
    TypeOK
    PasswordsWereChosen
    QuietAccountsKeepPasswords
    InstanceIDsStayWithNames
\* The clients may have made all their requests.
CHECK_DEADLOCK FALSE
SYMMETRY Symmetric
