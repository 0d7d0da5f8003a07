---------------------------- MODULE UserAccounts -----------------------------
(***************************************************************************)
(* The requests on user accounts and subscriptions: sign-in               *)
(* (internal/craw/auth.go, internal/pkg/middleware/auth), the validation   *)
(* middleware, the controllers and the services over UserTable.  The       *)
(* requests of several clients interleave between their statements.        *)
(***************************************************************************)
EXTENDS UserTable

CONSTANTS
    Clients,
    MaxRequests,  \* bound: requests
    MaxFailures   \* bound: statements that fail

ASSUME AccountsAssumption ==
    /\ IsFiniteSet(Names)
    /\ Cardinality(Names) <= MaxUsers
    /\ MaxUsers \in Nat /\ MaxRequests \in Nat /\ MaxFailures \in Nat

VARIABLES
    call,         \* the request each client has under way
    tokens,       \* the names a bearer token has been given for
    requests, failures,
    issued,       \* history: the instance IDs made for each name
    claimed,      \* history: the IDs that new accounts were made with at their client's wish
    chosen,       \* history: the passwords set for each name by who knew the one before
    raced,        \* history: the names a request has saved over a newer row
    password      \* history: the password of each name by the last create, change, delete

history == <<issued, claimed, chosen, raced, password>>
vars == <<tables, call, tokens, requests, failures, history>>

Ops == {"login", "create", "update", "password", "delete", "deleteMany",
        "subscribe", "unsubscribe"}

Idle == [pc |-> "idle"]

Default == CHOOSE v \in Values : TRUE

\* The variables have their types, and what is to be saved has been read.
TypeOK ==
    /\ TablesTypeOK
    /\ \A c \in Clients :
        \/ call[c] = Idle
        \/ /\ call[c].pc \in {"signIn", "signInSave", "authorize", "handle", "save"}
           /\ call[c].op \in Ops /\ call[c].user \in Names /\ call[c].name \in Names
           /\ call[c].given \in Values /\ call[c].new \in Values \cup Emails
           /\ call[c].read = NoUser \/ call[c].read.row \in UserRow
           /\ call[c].pc \in {"signInSave", "save"} => call[c].read # NoUser
    /\ tokens \subseteq Names
    /\ requests \in 0 .. MaxRequests /\ failures \in 0 .. MaxFailures
    /\ issued \in [Names -> SUBSET (1 .. MaxUsers)]
    /\ claimed \subseteq 1 .. MaxUsers
    /\ chosen \in [Names -> SUBSET Values]
    /\ raced \subseteq Names
    /\ password \in [Names -> SUBSET Values]

\* The server starts on a database with an account for each name.
Init ==
    \E given \in [Names -> Values] :
        /\ TablesInit(given)
        /\ call = [c \in Clients |-> Idle]
        /\ tokens = {} /\ requests = 0 /\ failures = 0
        /\ issued = [n \in Names |-> {id \in DOMAIN users : users[id].name = n}]
        /\ claimed = {}
        /\ chosen = [n \in Names |-> {given[n]}]
        /\ raced = {}
        /\ password = chosen

-------------------------------------------------------------------------------
At(c, pc) == call[c].pc = pc
GoTo(c, pc) == call' = [call EXCEPT ![c].pc = pc]
Read(c, pc) == call' = [call EXCEPT ![c].pc = pc, ![c].read = Get(call[c].name)]
Answer(c) == call' = [call EXCEPT ![c] = Idle]

\* POST /v1/users needs no sign-in; the other routes take basic or bearer.
Request(c, op, user, name, given, new) ==
    /\ call[c] = Idle /\ requests < MaxRequests
    /\ requests' = requests + 1
    /\ \E pc \in IF op = "create" THEN {"handle"}
                 ELSE {"signIn"} \cup IF op # "login" /\ user \in tokens THEN {"authorize"} ELSE {} :
        call' = [call EXCEPT ![c] = [pc |-> pc, op |-> op, user |-> user, name |-> name,
                                     given |-> given, new |-> new, read |-> NoUser]]
    /\ UNCHANGED <<tables, tokens, failures, history>>

\* Requests name what their route has a place for.
Begin(c) ==
    \E op \in Ops, user \in Names, name \in Names, given \in Values :
        /\ op \in {"login", "create", "deleteMany", "subscribe", "unsubscribe"} => name = user
        /\ \E new \in CASE op = "password" -> Values
                       [] op \in {"subscribe", "unsubscribe"} -> Emails
                       [] OTHER -> {Default} :
            Request(c, op, user, name, given, new)

\* authenticator, newBasicAuth: the row is read and compared ...
SignIn(c) ==
    /\ At(c, "signIn")
    /\ LET found == Get(call[c].user) IN
        IF found # NoUser /\ found.row.password = call[c].given
        THEN call' = [call EXCEPT ![c].pc = "signInSave", ![c].read = found]
        ELSE Answer(c)
    /\ UNCHANGED <<tables, tokens, requests, failures, history>>

\* The names whose newer row a save of the row read overwrites: it is not the
\* row of its name any more, or it lands on the row of another.
NotesRace(c, row) ==
    LET target == Target(call[c].read.id, row) IN
    raced' = IF target = 0 \/ Get(row.name) = call[c].read THEN raced
             ELSE raced \cup {row.name}
                        \cup {users[i].name : i \in DOMAIN users \cap {target}}

\* payloadFunc, loginResponse: a token for the name that has signed in.
GiveToken(c) == tokens' = tokens \cup {call[c].user}

\* A sign-in for its own sake is answered, another request goes on.
SignedIn(c) ==
    IF call[c].op = "login" THEN GiveToken(c) /\ Answer(c)
    ELSE GoTo(c, "authorize") /\ UNCHANGED tokens

\* (Fault: the password of the request's body is saved along.)
SignInSave_Bug(c) ==
    /\ At(c, "signInSave")
    /\ LET row == [call[c].read.row EXCEPT !.password = call[c].new] IN
        Save(call[c].read.id, row) /\ NotesRace(c, row)
    /\ SignedIn(c)
    /\ UNCHANGED <<requests, failures, issued, claimed, chosen, password>>

\* ... and the whole row is written back with the time of the sign-in, refused or not.
SignInSave(c) ==
    /\ At(c, "signInSave")
    /\ Save(call[c].read.id, call[c].read.row)
    /\ NotesRace(c, call[c].read.row)
    /\ SignedIn(c)
    /\ UNCHANGED <<requests, failures, issued, claimed, chosen, password>>

\* Validation: who is an administrator is left to chance, but that it takes a row.
Validation(c) ==
    /\ At(c, "authorize")
    /\ \E admin \in BOOLEAN :
        /\ admin => Get(call[c].user) # NoUser
        /\ IF /\ ~admin
              /\ \/ call[c].op \in {"delete", "deleteMany"}
                 \/ call[c].op = "update" /\ call[c].user # call[c].name
           THEN Answer(c) ELSE GoTo(c, "handle")
    /\ UNCHANGED <<tables, tokens, requests, failures, history>>

Refuse(c) == Answer(c) /\ UNCHANGED <<tables, tokens, requests, failures, history>>

\* The header or the body does not hold a name and a password.
RefuseCredentials(c) == At(c, "signIn") /\ Refuse(c)

\* The token has expired, or carries no name.
RefuseToken(c) == At(c, "authorize") /\ call[c].read = NoUser /\ Refuse(c)

\* A body that does not bind or validate.
RefuseBody(c) ==
    /\ At(c, "handle") /\ call[c].op \in {"create", "update", "password", "subscribe"}
    /\ Refuse(c)

\* A statement fails: the handlers answer the error, the sign-in goes on without.
StoreFails(c) ==
    /\ call[c] # Idle /\ failures < MaxFailures
    /\ failures' = failures + 1
    /\ IF At(c, "signInSave") THEN SignedIn(c) ELSE Answer(c) /\ UNCHANGED tokens
    /\ UNCHANGED <<tables, requests, history>>

Handles(c, op) ==
    /\ At(c, "handle") /\ call[c].op = op
    /\ UNCHANGED <<tokens, requests, failures>>

-------------------------------------------------------------------------------
(* The controllers of users *)

\* The body may name an ID and an instance ID.  The name, the ID or the instance
\* ID may be taken.
CreateUser(c) ==
    /\ Handles(c, "create")
    /\ Answer(c)
    /\ LET n == call[c].name IN
        \/ \E id \in 0 .. MaxUsers :
            /\ Create(id, [name |-> n, instanceID |-> 0, password |-> call[c].given])
            /\ issued' = [issued EXCEPT ![n] = @ \cup {NewID(id)}]
            /\ claimed' = claimed \cup ({id} \ {0})
            /\ chosen' = [chosen EXCEPT ![n] = @ \cup {call[c].given}]
            /\ password' = [password EXCEPT ![n] = {call[c].given}]
            /\ UNCHANGED raced
        \/ users # <<>> /\ UNCHANGED <<tables, history>>

\* (Fault: the error of the read is not looked at.)
UpdateReads_Bug(c) ==
    /\ Handles(c, "update")
    /\ Read(c, "save")
    /\ UNCHANGED <<tables, history>>

\* Update reads the row.
UpdateReads(c) ==
    /\ Handles(c, "update")
    /\ IF Get(call[c].name) = NoUser THEN Answer(c) ELSE Read(c, "save")
    /\ UNCHANGED <<tables, history>>

\* (Fault: the old password is not compared.)
ChangePasswordReads_Bug(c) ==
    /\ Handles(c, "password")
    /\ IF Get(call[c].name) = NoUser THEN Answer(c) ELSE Read(c, "save")
    /\ UNCHANGED <<tables, history>>

\* ChangePassword reads the row and compares the old password.
ChangePasswordReads(c) ==
    /\ Handles(c, "password")
    /\ LET found == Get(call[c].name) IN
        IF found # NoUser /\ found.row.password = call[c].given THEN Read(c, "save") ELSE Answer(c)
    /\ UNCHANGED <<tables, history>>

UpdateSaves(c) ==
    /\ At(c, "save") /\ call[c].op = "update"
    /\ Save(call[c].read.id, call[c].read.row)
    /\ NotesRace(c, call[c].read.row) /\ Answer(c)
    /\ UNCHANGED <<tokens, requests, failures, issued, claimed, chosen, password>>

\* A change that is refused changes nothing.
ChangePasswordSaves(c) ==
    /\ At(c, "save") /\ call[c].op = "password"
    /\ LET row == [call[c].read.row EXCEPT !.password = call[c].new] IN
        /\ Save(call[c].read.id, row) /\ NotesRace(c, row)
        /\ IF Target(call[c].read.id, row) = 0 THEN UNCHANGED <<chosen, password>>
           ELSE /\ chosen' = IF call[c].read.row.password = call[c].given
                             THEN [chosen EXCEPT ![call[c].name] = @ \cup {call[c].new}]
                             ELSE chosen
                /\ password' = [password EXCEPT ![call[c].name] = {call[c].new}]
    /\ Answer(c)
    /\ UNCHANGED <<tokens, requests, failures, issued, claimed>>

Forget(names) ==
    /\ password' = [n \in Names |-> IF n \in names THEN {} ELSE password[n]]
    /\ UNCHANGED <<issued, claimed, chosen, raced>>

\* Nobody minds a user that does not exist.
DeleteUser(c) ==
    /\ Handles(c, "delete")
    /\ Delete({call[c].name}) /\ Forget({call[c].name})
    /\ Answer(c)

DeleteCollection(c) ==
    /\ Handles(c, "deleteMany")
    /\ \E names \in SUBSET Names : Delete(names) /\ Forget(names)
    /\ Answer(c)

-------------------------------------------------------------------------------
(* Subscriptions *)

\* The service reads the user of the name, ...
SubscribeReads(c) ==
    /\ Handles(c, "subscribe")
    /\ IF Get(call[c].name) = NoUser THEN Answer(c) ELSE Read(c, "save")
    /\ UNCHANGED <<tables, history>>

\* ... and inserts the subscription under the instance ID it has read; the body
\* may name an ID that is taken.
SubscribeSaves(c) ==
    /\ At(c, "save") /\ call[c].op = "subscribe"
    /\ LET row == [name |-> call[c].name, instanceID |-> call[c].read.row.instanceID,
                   email |-> call[c].new]
       IN  \/ CreateSubscribe(row)
           \/ subscribes # {} /\ UNCHANGED tables
    /\ Answer(c)
    /\ UNCHANGED <<tokens, requests, failures, history>>

Unsubscribe(c) ==
    /\ Handles(c, "unsubscribe")
    /\ DeleteSubscribe(call[c].new)
    /\ Answer(c)
    /\ UNCHANGED history

Next ==
    \E c \in Clients :
        \/ Begin(c) \/ SignIn(c) \/ SignInSave(c) \/ Validation(c) \/ StoreFails(c)
        \/ RefuseCredentials(c) \/ RefuseToken(c) \/ RefuseBody(c)
        \/ CreateUser(c) \/ UpdateReads(c) \/ UpdateSaves(c)
        \/ ChangePasswordReads(c) \/ ChangePasswordSaves(c)
        \/ DeleteUser(c) \/ DeleteCollection(c)
        \/ SubscribeReads(c) \/ SubscribeSaves(c) \/ Unsubscribe(c)

Spec == Init /\ [][Next]_vars

-------------------------------------------------------------------------------
(* What is promised *)

\* Every stored password was given when the account was made or by a change that
\* gave the one before (change_password.go), however the requests that write
\* whole rows back overlap: a row may go back to an older password, but never
\* to one of another name.
PasswordsWereChosen ==
    \A id \in DOMAIN users : users[id].password \in chosen[users[id].name]

\* An account has the password of its last creation or change, and exists only
\* since then, unless a request has saved over a row newer than the one it had
\* read, its own or that of a name with which the ID has been shared: sign-ins and
\* updates (auth.go:124, update.go:39), which save whole rows, leave the others
\* alone.  It also holds when a client has an account made with the ID of a
\* deleted one (create.go:23).
QuietAccountsKeepPasswords ==
    \A n \in Names \ raced : {users[id].password : id \in Named(n)} = password[n]

\* Users and subscriptions carry an instance ID made for their name
\* (AfterCreate, service/v1/subscribe.go:33), through deletions, new accounts of
\* the name and late saves that bring an old row back; and a subscription has the
\* instance ID of a user of another name only when a client has had an account
\* made with that ID (create.go:23): nobody else inherits the subscriptions of a
\* deleted account.
InstanceIDsStayWithNames ==
    /\ \A id \in DOMAIN users : users[id].instanceID \in issued[users[id].name]
    /\ \A s \in subscribes : s.instanceID \in issued[s.name]
    /\ \A s \in subscribes, id \in DOMAIN users :
        s.instanceID = users[id].instanceID =>
            s.name = users[id].name \/ s.instanceID \in claimed

\* "Save changed fields." (controller/user/update.go:38): an update writes no more
\* than the nickname, email, phone and extension it was given, which are left out
\* here: whatever else has been written since it has read the row - another
\* password, or that the account is gone - stays.
UpdateSavesChangedFields == [][\A c \in Clients : UpdateSaves(c) => users' = users]_vars
==============================================================================
