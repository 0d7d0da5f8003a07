SPECIFICATION Spec
CONSTANTS
    Names = {ann, bob}
    Emails = {"e1"}
    Values = {"v1", "v2"}
    Clients = {c1, c2}
    MaxUsers = 3
    MaxRequests = 2
    MaxFailures = 0
\* An update of an account and another request, at the same time.
PROPERTY UpdateSavesChangedFields
CHECK_DEADLOCK FALSE
