------------------------------ MODULE UserTable ------------------------------
(***************************************************************************)
(* The tables user and subscribe behind internal/craw/store/mysql, as the  *)
(* ORM reads and writes them.  A row of user is kept under its ID; its     *)
(* instance ID is the ID it has been made from, 0 before AfterCreate.  The *)
(* columns no property tells apart (nickname, phone, loginedAt, ...) are   *)
(* left out.                                                               *)
(***************************************************************************)
EXTENDS Integers, FiniteSets, Functions

CONSTANTS
    Names,
    Values,       \* passwords
    Emails,
    MaxUsers      \* bound: the IDs of users

VARIABLES
    users,        \* the rows of user, by ID
    nextID,       \* its AUTO_INCREMENT
    subscribes    \* the rows of subscribe

tables == <<users, nextID, subscribes>>

UserRow == [name : Names, instanceID : 0 .. MaxUsers, password : Values]
NoUser == [id |-> 0]

TablesTypeOK ==
    /\ DOMAIN users \subseteq 1 .. MaxUsers
    /\ \A id \in DOMAIN users : users[id] \in UserRow
    /\ nextID \in 1 .. MaxUsers + 1
    /\ subscribes \subseteq [name : Names, instanceID : 0 .. MaxUsers, email : Emails]

\* The first accounts have the passwords given.
TablesInit(given) ==
    /\ \E name \in Bijection(1 .. Cardinality(Names), Names) :
        users = [id \in DOMAIN name |->
                    [name |-> name[id], instanceID |-> id, password |-> given[name[id]]]]
    /\ nextID = Cardinality(Names) + 1
    /\ subscribes = {}

Named(name) == {id \in DOMAIN users : users[id].name = name}

\* SELECT ... WHERE name = ? LIMIT 1
Get(name) ==
    IF Named(name) = {} THEN NoUser
    ELSE LET id == CHOOSE i \in Named(name) : TRUE IN [id |-> id, row |-> users[id]]

Put(id, row) == users' = [i \in DOMAIN users \cup {id} |-> IF i = id THEN row ELSE users[i]]

\* The other rows that have the name or the instance ID, which are unique.
Others(id, row) ==
    {i \in DOMAIN users \ {id} :
        users[i].name = row.name \/ users[i].instanceID = row.instanceID}

\* Where db.Save of a row that has an ID writes its columns.  It updates the row
\* of the ID; when there is none it inserts the row, and a row that has the name
\* or the instance ID by now turns the insert into an update of that one.  A
\* write that would meet a unique key all the same is refused: nowhere, 0.
Target(id, row) ==
    LET others == Others(id, row) IN
    CASE others = {} -> id
      [] id \notin DOMAIN users /\ \E i \in others : others = {i} -> CHOOSE i \in others : TRUE
      [] OTHER -> 0

Save(id, row) ==
    /\ IF Target(id, row) = 0 THEN UNCHANGED users ELSE Put(Target(id, row), row)
    /\ UNCHANGED <<nextID, subscribes>>

\* The ID of a row that is inserted with the one given, 0 for none.
NewID(id) == IF id = 0 THEN nextID ELSE id

\* (Fault: no AfterCreate.)
Create_Bug(id, row) ==
    /\ NewID(id) \in (1 .. MaxUsers) \ DOMAIN users
    /\ Others(0, [row EXCEPT !.instanceID = NewID(id)]) = {}
    /\ Put(NewID(id), row)
    /\ nextID' = IF NewID(id) < nextID THEN nextID ELSE NewID(id) + 1
    /\ UNCHANGED subscribes

\* The insert, with the ID the row carries if any, and AfterCreate, which makes
\* the instance ID from it, are one transaction.  The keys are unique.
Create(id, row) ==
    LET made == [row EXCEPT !.instanceID = NewID(id)] IN
    /\ NewID(id) \in (1 .. MaxUsers) \ DOMAIN users
    /\ Others(0, made) = {}
    /\ Put(NewID(id), made)
    /\ nextID' = IF NewID(id) < nextID THEN nextID ELSE NewID(id) + 1
    /\ UNCHANGED subscribes

\* Unscoped or not, the rows are gone: the table has no deletion time.
Delete(names) ==
    /\ users' = Restrict(users, {id \in DOMAIN users : users[id].name \notin names})
    /\ UNCHANGED <<nextID, subscribes>>

\* The instance IDs of subscribe are unique; AfterCreate saves the row again.
CreateSubscribe(row) ==
    /\ \A s \in subscribes : s.instanceID # row.instanceID
    /\ subscribes' = subscribes \cup {row}
    /\ UNCHANGED <<users, nextID>>

DeleteSubscribe(email) ==
    /\ subscribes' = {s \in subscribes : s.email # email}
    /\ UNCHANGED <<users, nextID>>
==============================================================================
