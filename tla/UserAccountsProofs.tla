-------------------------- MODULE UserAccountsProofs --------------------------
(***************************************************************************)
(* Proofs about accounts and subscriptions, for every set of names, of     *)
(* clients and of passwords.                                               *)
(*                                                                         *)
(* The argument: what a request has read stays something that was true of  *)
(* its name, so what it saves belongs to the name it is saved under, on    *)
(* whatever row it lands.  A save may land on the row of another name only *)
(* when a client had an account made with the ID of one that was deleted:  *)
(* that name is then noted.  An ID that no client has asked for is issued  *)
(* to one name only.                                                       *)
(***************************************************************************)
EXTENDS UserAccounts, FiniteSetTheorems, TLAPS

Found == [id : 1 .. MaxUsers, row : UserRow]

\* A request under way.
Call == [pc    : {"signIn", "signInSave", "authorize", "handle", "save"},
         op    : Ops,
         user  : Names,
         name  : Names,
         given : Values,
         new   : Values \cup Emails,
         read  : Found \cup {NoUser}]

\* What a row says was true of its name at some time.
Sound(row) ==
    /\ row.instanceID \in issued[row.name]
    /\ row.password \in chosen[row.name]

\* A request knows only what it has read, and saves over the user it names.
SoundCall(x) ==
    /\ x.read # NoUser => Sound(x.read.row)
    /\ x.pc \in {"signInSave", "save"} => x.read # NoUser
    /\ x.pc = "save" => x.read.row.name = x.name
    /\ x.pc = "save" /\ x.op = "password" => x.read.row.password = x.given
    /\ x.op = "password" => x.new \in Values
    /\ x.op \in {"subscribe", "unsubscribe"} => x.new \in Emails

CallsInv ==
    /\ call \in [Clients -> Call \cup {Idle}]
    /\ \A c \in Clients : call[c] # Idle => SoundCall(call[c])

\* The rows are sound, one to a name.
UsersInv ==
    /\ users \in [DOMAIN users -> UserRow]
    /\ DOMAIN users \subseteq 1 .. MaxUsers
    /\ \A id \in DOMAIN users : Sound(users[id])
    /\ \A id1, id2 \in DOMAIN users : users[id1].name = users[id2].name => id1 = id2

\* An ID is issued to one name, but for those that clients have asked for.
IssuedInv ==
    /\ nextID \in 1 .. MaxUsers + 1
    /\ issued \in [Names -> SUBSET (1 .. MaxUsers)]
    /\ claimed \subseteq 1 .. MaxUsers
    /\ \A n \in Names : \A id \in issued[n] : id < nextID
    /\ \A n, m \in Names : n # m => issued[n] \cap issued[m] \subseteq claimed

SubscribesInv ==
    /\ subscribes \subseteq [name : Names, instanceID : 0 .. MaxUsers, email : Emails]
    /\ \A s \in subscribes : s.instanceID \in issued[s.name]

HistoryInv ==
    /\ chosen \in [Names -> SUBSET Values]
    /\ raced \subseteq Names
    /\ password \in [Names -> SUBSET Values]
    /\ QuietAccountsKeepPasswords

CountsInv ==
    /\ tokens \subseteq Names
    /\ requests \in 0 .. MaxRequests /\ failures \in 0 .. MaxFailures

Inv == CallsInv /\ UsersInv /\ IssuedInv /\ SubscribesInv /\ HistoryInv /\ CountsInv

-------------------------------------------------------------------------------
(* Rows *)

\* What a read returns is a row of the name, the only one.
LEMMA GetFound ==
    ASSUME UsersInv, NEW n \in Names
    PROVE  IF Named(n) = {} THEN Get(n) = NoUser
           ELSE /\ Get(n) \in Found /\ Get(n) # NoUser
                /\ Get(n).id \in Named(n) /\ Get(n).row = users[Get(n).id]
                /\ Get(n).row.name = n
                /\ Sound(Get(n).row)
                /\ Named(n) = {Get(n).id}
<1>1. CASE Named(n) = {}
  BY <1>1 DEF Get
<1>2. ASSUME Named(n) # {}
      PROVE  /\ Get(n) \in Found /\ Get(n) # NoUser
             /\ Get(n).id \in Named(n) /\ Get(n).row = users[Get(n).id]
             /\ Get(n).row.name = n
             /\ Sound(Get(n).row)
             /\ Named(n) = {Get(n).id}
  <2> DEFINE i == CHOOSE j \in Named(n) : TRUE
  <2>1. i \in Named(n)
    BY <1>2
  <2>2. Get(n) = [id |-> i, row |-> users[i]]
    BY <1>2 DEF Get
  <2> HIDE DEF i
  <2>3. i \in DOMAIN users /\ users[i].name = n /\ users[i] \in UserRow /\ i \in 1 .. MaxUsers
    BY <2>1 DEF Named, UsersInv
  <2>4. Get(n).id = i /\ Get(n).row = users[i] /\ Get(n) \in Found
    BY <2>2, <2>3 DEF Found
  <2>5. Get(n) # NoUser
    <3>1. i # 0
      BY <2>3
    <3>2. NoUser.id = 0
      BY DEF NoUser
    <3> QED BY <2>4, <3>1, <3>2
  <2>6. \A j \in Named(n) : j = i
    BY <2>3 DEF Named, UsersInv
  <2> QED BY <2>1, <2>3, <2>4, <2>5, <2>6 DEF UsersInv
<1> QED BY <1>1, <1>2

\* A write of a row of the name under j that meets no other row of the name.
Fits(j, n) == Named(n) \subseteq {j}

\* What a write that fits does to the table: the name has this row, and another
\* name at most loses it.
LEMMA PutRows ==
    ASSUME UsersInv, NEW j \in 1 .. MaxUsers, NEW row \in UserRow, Put(j, row), Fits(j, row.name)
    PROVE  /\ DOMAIN users' = DOMAIN users \cup {j}
           /\ users' \in [DOMAIN users' -> UserRow]
           /\ DOMAIN users' \subseteq 1 .. MaxUsers
           /\ users'[j] = row
           /\ \A i \in DOMAIN users : i # j => users'[i] = users[i]
           /\ \A id1, id2 \in DOMAIN users' : users'[id1].name = users'[id2].name => id1 = id2
           /\ Named(row.name)' = {j}
           /\ \A n \in Names \ {row.name} :
                j \notin Named(n) =>
                    /\ Named(n)' = Named(n)
                    /\ \A i \in Named(n) : users'[i] = users[i]
<1>1. /\ DOMAIN users' = DOMAIN users \cup {j}
      /\ users'[j] = row
      /\ \A i \in DOMAIN users : i # j => users'[i] = users[i]
  BY DEF Put
<1>2. \A i \in DOMAIN users' : users'[i] \in UserRow
  BY <1>1 DEF UsersInv
<1>3. users' = [i \in DOMAIN users' |-> users'[i]]
  BY DEF Put
<1>4. ASSUME NEW i \in DOMAIN users', i # j
      PROVE  i \in DOMAIN users /\ users'[i] = users[i] /\ users[i].name # row.name
  BY <1>1, <1>4 DEF Fits, Named
<1>5. \A id1, id2 \in DOMAIN users' : users'[id1].name = users'[id2].name => id1 = id2
  BY <1>1, <1>4 DEF UsersInv
<1>6. Named(row.name)' = {j}
  BY <1>1, <1>4 DEF Named
<1>7. ASSUME NEW n \in Names \ {row.name}, j \notin Named(n)
      PROVE  Named(n)' = Named(n) /\ \A i \in Named(n) : users'[i] = users[i]
  BY <1>1, <1>7 DEF Named
<1> QED BY <1>1, <1>2, <1>3, <1>5, <1>6, <1>7 DEF UsersInv

\* A save that is not refused lands where no other row has the name: on the row
\* of its ID when there is one.
LEMMA SaveFits ==
    ASSUME UsersInv, NEW id \in 1 .. MaxUsers, NEW row \in UserRow, Target(id, row) # 0
    PROVE  /\ Target(id, row) \in 1 .. MaxUsers /\ Fits(Target(id, row), row.name)
           /\ id \in DOMAIN users => Target(id, row) = id
<1> DEFINE others == Others(id, row)
<1>1. Named(row.name) \subseteq others \cup {id} /\ others \subseteq DOMAIN users
  BY DEF Others, Named
<1>2. CASE others = {}
  <2>1. Target(id, row) = id
    BY <1>2 DEF Target
  <2> QED BY <1>1, <1>2, <2>1 DEF Fits
<1>3. CASE others # {}
  <2>1. /\ id \notin DOMAIN users /\ \E i \in others : others = {i}
        /\ Target(id, row) = CHOOSE i \in others : TRUE
    BY <1>3 DEF Target
  <2>2. others = {Target(id, row)}
    BY <2>1
  <2>3. Named(row.name) \subseteq {Target(id, row)} /\ Target(id, row) \in DOMAIN users
    BY <1>1, <2>1, <2>2 DEF Named
  <2> QED BY <2>1, <2>3 DEF Fits, UsersInv
<1> QED BY <1>2, <1>3

-------------------------------------------------------------------------------
(* What was sound stays sound *)

Grows == \A n \in Names : issued[n] \subseteq issued'[n] /\ chosen[n] \subseteq chosen'[n]

\* A sound row stays sound when more has been chosen and issued.
LEMMA SoundGrows ==
    ASSUME Grows, NEW row \in UserRow, Sound(row)
    PROVE  Sound(row)'
BY DEF Grows, Sound, UserRow

\* What a request holds, and what it has read.
LEMMA CallTypes ==
    ASSUME CallsInv, NEW c \in Clients, call[c] # Idle
    PROVE  /\ call[c] \in Call /\ SoundCall(call[c])
           /\ call[c].read # NoUser =>
                /\ call[c].read \in Found
                /\ call[c].read.id \in 1 .. MaxUsers /\ call[c].read.row \in UserRow
BY DEF CallsInv, Call, Found

\* One request goes on, soundly, or is answered.
LEMMA CallsStep ==
    ASSUME CallsInv, Grows, NEW c \in Clients, NEW x \in Call \cup {Idle},
           call' = [call EXCEPT ![c] = x], x # Idle => SoundCall(x)
    PROVE  CallsInv'
<1>1. ASSUME NEW y \in Call, SoundCall(y) PROVE SoundCall(y)'
  <2>1. y.read # NoUser => Sound(y.read.row)'
    BY <1>1, SoundGrows DEF SoundCall, Call, Found
  <2> QED BY <1>1, <2>1 DEF SoundCall
<1>2. call' \in [Clients -> Call \cup {Idle}]
  BY DEF CallsInv
<1>3. ASSUME NEW d \in Clients, (call[d] # Idle)' PROVE SoundCall(call[d])'
  <2>1. \E y \in Call : y = call'[d] /\ SoundCall(y)
    <3>1. CASE d = c
      BY <1>3, <3>1 DEF CallsInv, Idle
    <3>2. CASE d # c
      BY <1>3, <3>2 DEF CallsInv, Idle
    <3> QED BY <3>1, <3>2
  <2>2. PICK y \in Call : y = call'[d] /\ SoundCall(y)
    BY <2>1
  <2>3. SoundCall(y)'
    BY <1>1, <2>2
  <2> QED BY <2>2, <2>3 DEF SoundCall, Sound
<1> QED BY <1>2, <1>3 DEF CallsInv

\* A request is answered.
LEMMA AnswerStep ==
    ASSUME CallsInv, Grows, NEW c \in Clients, Answer(c)
    PROVE  CallsInv'
BY CallsStep DEF Answer

\* A request goes on with what it holds.
LEMMA GoToStep ==
    ASSUME CallsInv, Grows, NEW c \in Clients, call[c] # Idle,
           NEW pc \in {"authorize", "handle"}, GoTo(c, pc)
    PROVE  CallsInv'
<1> DEFINE x == [call[c] EXCEPT !.pc = pc]
<1>1. call[c] \in Call /\ SoundCall(call[c])
  BY CallTypes
<1>2. /\ x \in Call /\ x.pc = pc /\ x.read = call[c].read /\ x.op = call[c].op
      /\ x.new = call[c].new
  BY <1>1 DEF Call
<1>3. x # Idle /\ SoundCall(x)
  BY <1>1, <1>2 DEF Idle, SoundCall
<1>4. call' = [call EXCEPT ![c] = x]
  BY DEF GoTo, CallsInv
<1> QED BY <1>2, <1>3, <1>4, CallsStep

\* A request has read a user.
LEMMA ReadStep ==
    ASSUME CallsInv, UsersInv, Grows, NEW c \in Clients, call[c] # Idle,
           NEW n \in Names, Named(n) # {}, NEW pc \in {"signInSave", "save"},
           call' = [call EXCEPT ![c].pc = pc, ![c].read = Get(n)],
           pc = "save" => n = call[c].name,
           pc = "save" /\ call[c].op = "password" => Get(n).row.password = call[c].given
    PROVE  CallsInv'
<1> DEFINE x == [call[c] EXCEPT !.pc = pc, !.read = Get(n)]
<1>1. call[c] \in Call /\ SoundCall(call[c])
  BY CallTypes
<1>2. /\ Get(n) \in Found /\ Get(n) # NoUser /\ Get(n).row.name = n
      /\ Sound(Get(n).row)
  BY GetFound
<1>3. /\ x \in Call /\ x.pc = pc /\ x.read = Get(n) /\ x.op = call[c].op
      /\ x.new = call[c].new /\ x.name = call[c].name /\ x.given = call[c].given
  BY <1>1, <1>2 DEF Call
<1>4. x # Idle /\ SoundCall(x)
  BY <1>1, <1>2, <1>3 DEF Idle, SoundCall
<1>5. call' = [call EXCEPT ![c] = x]
  BY DEF CallsInv
<1> QED BY <1>3, <1>4, <1>5, CallsStep

-------------------------------------------------------------------------------
(* Writes *)

Passwords(n) == {users[id].password : id \in Named(n)}

\* A write of a row that is sound by now keeps the users sound and the passwords
\* of the names the row written over was not of.
LEMMA PutStep ==
    ASSUME UsersInv, Grows, NEW j \in 1 .. MaxUsers, NEW row \in UserRow,
           Put(j, row), Fits(j, row.name), Sound(row)'
    PROVE  /\ UsersInv'
           /\ Passwords(row.name)' = {row.password}
           /\ \A n \in Names \ {row.name} :
                j \notin Named(n) => Passwords(n)' = Passwords(n)
<1>1. /\ DOMAIN users' = DOMAIN users \cup {j}
      /\ users' \in [DOMAIN users' -> UserRow]
      /\ DOMAIN users' \subseteq 1 .. MaxUsers
      /\ users'[j] = row
      /\ \A i \in DOMAIN users : i # j => users'[i] = users[i]
      /\ \A id1, id2 \in DOMAIN users' : users'[id1].name = users'[id2].name => id1 = id2
      /\ Named(row.name)' = {j}
      /\ \A n \in Names \ {row.name} :
            j \notin Named(n) =>
                Named(n)' = Named(n) /\ \A i \in Named(n) : users'[i] = users[i]
  BY PutRows
<1>2. ASSUME NEW id \in DOMAIN users' PROVE Sound(users[id])'
  <2>1. CASE id = j
    BY <1>1, <2>1 DEF Sound
  <2>2. CASE id # j
    <3>1. id \in DOMAIN users /\ users'[id] = users[id] /\ users[id] \in UserRow
      BY <1>1, <2>2 DEF UsersInv
    <3>2. Sound(users[id])
      BY <3>1 DEF UsersInv
    <3> QED BY <3>1, <3>2 DEF Sound, Grows, UserRow
  <2> QED BY <2>1, <2>2
<1>3. UsersInv'
  BY <1>1, <1>2 DEF UsersInv
<1>4. Passwords(row.name)' = {row.password}
  BY <1>1 DEF Passwords
<1>5. ASSUME NEW n \in Names \ {row.name}, j \notin Named(n) PROVE Passwords(n)' = Passwords(n)
  BY <1>1, <1>5 DEF Passwords
<1> QED BY <1>3, <1>4, <1>5

\* What nobody has issued again stays issued, and subscribed.
LEMMA IssuedSame ==
    ASSUME IssuedInv, SubscribesInv, UNCHANGED <<issued, claimed, nextID, subscribes>>
    PROVE  IssuedInv' /\ SubscribesInv'
BY DEF IssuedInv, SubscribesInv

\* Nothing is written.
LEMMA SameTables ==
    ASSUME Inv, UNCHANGED <<tables, history>>, CallsInv', CountsInv'
    PROVE  Inv'
<1>1. UsersInv'
  BY DEF Inv, UsersInv, tables, history, Sound
<1>2. IssuedInv' /\ SubscribesInv'
  BY IssuedSame DEF Inv, tables, history
<1>3. HistoryInv'
  BY DEF Inv, HistoryInv, tables, history, QuietAccountsKeepPasswords, Named
<1> QED BY <1>1, <1>2, <1>3 DEF Inv

\* What stays the same has not shrunk.
LEMMA SameGrows == ASSUME UNCHANGED <<issued, chosen>> PROVE Grows
BY DEF Grows

\* A request writes a row it has read back, with a password its name has
\* chosen: nobody is quiet whose row was newer, or another's.
LEMMA SaveStep ==
    ASSUME Inv, NEW found \in Found, Sound(found.row),
           NEW row \in UserRow, row.name = found.row.name, row.instanceID = found.row.instanceID,
           NEW t, t = Target(found.id, row),
           Save(found.id, row),
           raced' = IF t = 0 \/ Get(row.name) = found THEN raced
                    ELSE raced \cup {row.name} \cup {users[i].name : i \in DOMAIN users \cap {t}},
           Grows, UNCHANGED <<issued, claimed>>,
           chosen' \in [Names -> SUBSET Values], password' \in [Names -> SUBSET Values],
           t = 0 => password' = password,
           t # 0 => row.password \in chosen'[row.name],
           \A n \in Names \ {row.name} : password'[n] = password[n],
           \/ password'[row.name] = {row.password}
           \/ password' = password /\ row = found.row
           \/ t = 0
    PROVE  UsersInv' /\ IssuedInv' /\ SubscribesInv' /\ HistoryInv'
<1>1. found.id \in 1 .. MaxUsers /\ found.row \in UserRow /\ row.name \in Names
  BY DEF Found, UserRow
<1>2. row.instanceID \in issued[row.name]
  BY DEF Sound
<1>3. UNCHANGED <<nextID, subscribes>>
  BY DEF Save
<1>4. \A n \in Names \ raced : Passwords(n) = password[n]
  BY DEF Inv, HistoryInv, QuietAccountsKeepPasswords, Passwords
<1>5. IssuedInv' /\ SubscribesInv'
  BY <1>3, IssuedSame DEF Inv
<1>6. CASE t = 0
  <2>1. UNCHANGED <<users, raced, password>>
    BY <1>6 DEF Save
  <2>2. UsersInv'
    BY <2>1 DEF Inv, UsersInv, Sound, Grows, UserRow
  <2>3. HistoryInv'
    BY <2>1 DEF Inv, HistoryInv, QuietAccountsKeepPasswords, Named
  <2> QED BY <1>5, <2>2, <2>3
<1>7. CASE t # 0
  <2>1. /\ t \in 1 .. MaxUsers /\ Fits(t, row.name)
        /\ found.id \in DOMAIN users => t = found.id
    BY <1>1, <1>7, SaveFits DEF Inv
  <2>2. Put(t, row)
    BY <1>7 DEF Save
  <2>3. Sound(row)'
    BY <1>2, <1>7 DEF Sound
  <2>4. /\ UsersInv'
        /\ Passwords(row.name)' = {row.password}
        /\ \A n \in Names \ {row.name} :
            t \notin Named(n) => Passwords(n)' = Passwords(n)
    BY <2>1, <2>2, <2>3, PutStep DEF Inv
  <2>5. Get(row.name) = found =>
            Named(row.name) = {found.id} /\ found.row = users[found.id]
    <3>1. Get(row.name) = found => Named(row.name) # {}
      <4>1. found.id # 0
        BY <1>1
      <4> QED BY <4>1 DEF Get, NoUser
    <3> QED BY <1>1, <3>1, GetFound DEF Inv
  <2>6. raced \subseteq raced' /\ raced' \subseteq Names
    <3>1. \A i \in DOMAIN users : users[i].name \in Names
      BY DEF Inv, UsersInv, UserRow
    <3> QED BY <1>1, <3>1 DEF Inv, HistoryInv
  <2>7. ASSUME row.name \notin raced' PROVE password'[row.name] = {row.password}
    <3>1. Get(row.name) = found /\ row.name \notin raced
      BY <1>7, <2>6, <2>7
    <3>2. password[row.name] = {found.row.password}
      BY <1>1, <1>4, <2>5, <3>1 DEF Passwords
    <3> QED BY <1>7, <3>2
  <2>8. ASSUME NEW n \in Names \ raced', n # row.name PROVE t \notin Named(n)
    <3>1. CASE Get(row.name) = found
      <4>1. t = found.id /\ t \in Named(row.name)
        BY <2>1, <2>5, <3>1 DEF Named
      <4> QED BY <2>8, <4>1 DEF Named
    <3>2. CASE Get(row.name) # found
      BY <1>7, <2>8, <3>2 DEF Named
    <3> QED BY <3>1, <3>2
  <2>9. ASSUME NEW n \in Names \ raced' PROVE Passwords(n)' = password'[n]
    <3>1. CASE n = row.name
      BY <2>4, <2>7, <2>9, <3>1
    <3>2. CASE n # row.name
      BY <1>4, <2>4, <2>6, <2>8, <2>9, <3>2
    <3> QED BY <3>1, <3>2
  <2>10. HistoryInv'
    BY <2>6, <2>9 DEF HistoryInv, QuietAccountsKeepPasswords, Passwords
  <2> QED BY <1>5, <2>4, <2>10
<1> QED BY <1>6, <1>7

-------------------------------------------------------------------------------
(* The requests that write nothing *)

\* A client makes a request.
LEMMA BeginStep == ASSUME Inv, NEW c \in Clients, Begin(c) PROVE Inv'
<1>1. PICK op \in Ops, user \in Names, name \in Names, given \in Values :
        \E new \in CASE op = "password" -> Values
                       [] op \in {"subscribe", "unsubscribe"} -> Emails
                       [] OTHER -> {Default} :
            Request(c, op, user, name, given, new)
  BY DEF Begin
<1>2. PICK new \in CASE op = "password" -> Values
                       [] op \in {"subscribe", "unsubscribe"} -> Emails
                       [] OTHER -> {Default} :
        Request(c, op, user, name, given, new)
  BY <1>1
<1>3. /\ op = "password" => new \in Values
      /\ op \in {"subscribe", "unsubscribe"} => new \in Emails
      /\ op \notin {"password", "subscribe", "unsubscribe"} => new = Default
  BY <1>2
<1>4. Default \in Values
  BY DEF Default
<1>5. new \in Values \cup Emails
  BY <1>3, <1>4
<1>6. PICK pc \in {"handle", "signIn", "authorize"} :
        call' = [call EXCEPT ![c] = [pc |-> pc, op |-> op, user |-> user, name |-> name,
                                     given |-> given, new |-> new, read |-> NoUser]]
  BY <1>2 DEF Request
<1> DEFINE x == [pc |-> pc, op |-> op, user |-> user, name |-> name,
                 given |-> given, new |-> new, read |-> NoUser]
<1>7. x \in Call /\ SoundCall(x)
  BY <1>3, <1>5 DEF Call, SoundCall
<1>8. UNCHANGED <<tables, history>> /\ Grows
  BY <1>2, SameGrows DEF Request, history
<1>9. call' = [call EXCEPT ![c] = x]
  BY <1>6
<1> HIDE DEF x
<1>10. CallsInv'
  BY <1>7, <1>8, <1>9, CallsStep DEF Inv
<1>11. CountsInv'
  BY <1>2, AccountsAssumption DEF Request, Inv, CountsInv
<1> QED BY <1>8, <1>10, <1>11, SameTables

\* The row the sign-in reads is the one of its name.
LEMMA SignInStep == ASSUME Inv, NEW c \in Clients, SignIn(c) PROVE Inv'
<1>1. UNCHANGED <<tables, history>> /\ Grows
  BY SameGrows DEF SignIn, history
<1>2. CountsInv'
  BY DEF SignIn, Inv, CountsInv
<1>3. call[c] # Idle
  BY DEF SignIn, At, Idle
<1>4. CASE Answer(c)
  BY <1>1, <1>2, <1>4, AnswerStep, SameTables DEF Inv
<1>5. CASE ~Answer(c)
  <2>1. /\ Get(call[c].user) # NoUser
        /\ call' = [call EXCEPT ![c].pc = "signInSave", ![c].read = Get(call[c].user)]
    BY <1>5 DEF SignIn
  <2>2. PICK n \in Names : n = call[c].user
    BY <1>3, CallTypes DEF Inv, Call
  <2>3. Named(n) # {}
    BY <2>1, <2>2 DEF Get
  <2>4. CallsInv'
    BY <1>1, <1>3, <2>1, <2>2, <2>3, ReadStep DEF Inv
  <2> QED BY <1>1, <1>2, <2>4, SameTables
<1> QED BY <1>4, <1>5

\* A request is answered, or goes on to its handler.
LEMMA ValidationStep == ASSUME Inv, NEW c \in Clients, Validation(c) PROVE Inv'
<1>1. UNCHANGED <<tables, history>> /\ Grows
  BY SameGrows DEF Validation, history
<1>2. CountsInv'
  BY DEF Validation, Inv, CountsInv
<1>3. call[c] # Idle
  BY DEF Validation, At, Idle
<1>4. Answer(c) \/ GoTo(c, "handle")
  BY DEF Validation
<1>5. CallsInv'
  BY <1>1, <1>3, <1>4, AnswerStep, GoToStep DEF Inv
<1> QED BY <1>1, <1>2, <1>5, SameTables

\* A request is refused, and changes nothing.
LEMMA RefuseStep == ASSUME Inv, NEW c \in Clients, Refuse(c) PROVE Inv'
<1>1. UNCHANGED <<tables, history>> /\ Grows
  BY SameGrows DEF Refuse, history
<1>2. CountsInv'
  BY DEF Refuse, Inv, CountsInv
<1>3. CallsInv'
  BY <1>1, AnswerStep DEF Refuse, Inv
<1> QED BY <1>1, <1>2, <1>3, SameTables

\* A sign-in gives a token to a name.
LEMMA SignedInStep ==
    ASSUME Inv, Grows, NEW c \in Clients, call[c] # Idle, SignedIn(c)
    PROVE  CallsInv' /\ tokens' \subseteq Names
<1>1. CallsInv'
  BY AnswerStep, GoToStep DEF SignedIn, Inv
<1>2. call[c].user \in Names
  BY CallTypes DEF Inv, Call
<1> QED BY <1>1, <1>2 DEF SignedIn, GiveToken, Inv, CountsInv

\* A statement fails, and the request with it.
LEMMA StoreFailsStep == ASSUME Inv, NEW c \in Clients, StoreFails(c) PROVE Inv'
<1>1. UNCHANGED <<tables, history>> /\ Grows
  BY SameGrows DEF StoreFails, history
<1>2. CallsInv' /\ tokens' \subseteq Names
  <2>1. CASE SignedIn(c)
    BY <1>1, <2>1, SignedInStep DEF StoreFails
  <2>2. CASE Answer(c) /\ UNCHANGED tokens
    BY <1>1, <2>2, AnswerStep DEF Inv, CountsInv
  <2> QED BY <2>1, <2>2 DEF StoreFails
<1>3. CountsInv'
  BY <1>2, AccountsAssumption DEF StoreFails, Inv, CountsInv
<1> QED BY <1>1, <1>2, <1>3, SameTables

\* A handler has read the user it is for, or is answered.
LEMMA HandlerReads ==
    ASSUME Inv, NEW c \in Clients, call[c] # Idle,
           \/ Answer(c)
           \/ /\ Read(c, "save") /\ Get(call[c].name) # NoUser
              /\ call[c].op = "password" => Get(call[c].name).row.password = call[c].given,
           UNCHANGED <<tokens, requests, failures, tables, history>>
    PROVE  Inv'
<1>1. Grows
  BY SameGrows DEF history
<1>2. CountsInv'
  BY DEF Inv, CountsInv
<1>3. CASE Answer(c)
  BY <1>1, <1>2, <1>3, AnswerStep, SameTables DEF Inv
<1>4. CASE ~Answer(c)
  <2>1. PICK n \in Names : n = call[c].name
    BY CallTypes DEF Inv, Call
  <2>2. Named(n) # {}
    BY <1>4, <2>1 DEF Get
  <2>3. call' = [call EXCEPT ![c].pc = "save", ![c].read = Get(n)]
    BY <1>4, <2>1 DEF Read
  <2>4. CallsInv'
    BY <1>1, <1>4, <2>1, <2>2, <2>3, ReadStep DEF Inv
  <2> QED BY <1>1, <1>2, <2>4, SameTables
<1> QED BY <1>3, <1>4

\* Handlers that read a row first, and keep it.
LEMMA ReadsStep ==
    ASSUME Inv, NEW c \in Clients,
           UpdateReads(c) \/ ChangePasswordReads(c) \/ SubscribeReads(c)
    PROVE  Inv'
<1>1. CASE UpdateReads(c)
  <2>1. call[c] # Idle /\ call[c].op = "update"
    BY <1>1 DEF UpdateReads, Handles, At, Idle
  <2> QED BY <1>1, <2>1, HandlerReads DEF UpdateReads, Handles
<1>2. CASE ChangePasswordReads(c)
  <2>1. call[c] # Idle
    BY <1>2 DEF ChangePasswordReads, Handles, At, Idle
  <2> QED BY <1>2, <2>1, HandlerReads DEF ChangePasswordReads, Handles
<1>3. CASE SubscribeReads(c)
  <2>1. call[c] # Idle /\ call[c].op = "subscribe"
    BY <1>3 DEF SubscribeReads, Handles, At, Idle
  <2> QED BY <1>3, <2>1, HandlerReads DEF SubscribeReads, Handles
<1> QED BY <1>1, <1>2, <1>3

-------------------------------------------------------------------------------
(* The requests that write *)

\* A sign-in or an update writes back the row it has read.
LEMMA SavesRead ==
    ASSUME Inv, NEW c \in Clients, call[c] # Idle, At(c, "signInSave") \/ At(c, "save"),
           Save(call[c].read.id, call[c].read.row), NotesRace(c, call[c].read.row),
           UNCHANGED <<issued, claimed, chosen, password>>
    PROVE  UsersInv' /\ IssuedInv' /\ SubscribesInv' /\ HistoryInv' /\ Grows
<1>1. Grows
  BY SameGrows
<1>2. SoundCall(call[c]) /\ call[c].read # NoUser /\ call[c].read \in Found
  BY CallTypes DEF Inv, At, SoundCall
<1>3. PICK found \in Found : found = call[c].read
  BY <1>2
<1>4. /\ Sound(found.row) /\ found.row \in UserRow /\ found.row.name \in Names
      /\ found.row.password \in Values
  BY <1>2, <1>3 DEF SoundCall, Found, UserRow
<1> DEFINE t == Target(found.id, found.row)
<1>5. Save(found.id, found.row)
  BY <1>3
<1>6. raced' = IF t = 0 \/ Get(found.row.name) = found THEN raced
               ELSE raced \cup {found.row.name}
                          \cup {users[i].name : i \in DOMAIN users \cap {t}}
  BY <1>3 DEF NotesRace
<1>7. /\ chosen' \in [Names -> SUBSET Values] /\ password' \in [Names -> SUBSET Values]
      /\ found.row.password \in chosen'[found.row.name]
      /\ password' = password /\ issued' = issued /\ claimed' = claimed
      /\ \A n \in Names \ {found.row.name} : password'[n] = password[n]
  BY <1>4 DEF Inv, HistoryInv, Sound
<1> HIDE DEF t
<1> QED BY <1>1, <1>4, <1>5, <1>6, <1>7, SaveStep DEF t

\* Sign-in saves the row it has read, whole.
LEMMA SignInSaveStep == ASSUME Inv, NEW c \in Clients, SignInSave(c) PROVE Inv'
<1>1. call[c] # Idle
  BY DEF SignInSave, At, Idle
<1>2. UsersInv' /\ IssuedInv' /\ SubscribesInv' /\ HistoryInv' /\ Grows
  BY <1>1, SavesRead DEF SignInSave
<1>3. CallsInv' /\ tokens' \subseteq Names
  BY <1>1, <1>2, SignedInStep DEF SignInSave
<1>4. CountsInv'
  BY <1>3 DEF SignInSave, Inv, CountsInv
<1> QED BY <1>2, <1>3, <1>4 DEF Inv

\* So does an update, with the fields the request gives.
LEMMA UpdateSavesStep == ASSUME Inv, NEW c \in Clients, UpdateSaves(c) PROVE Inv'
<1>1. call[c] # Idle
  BY DEF UpdateSaves, At, Idle
<1>2. UsersInv' /\ IssuedInv' /\ SubscribesInv' /\ HistoryInv' /\ Grows
  BY <1>1, SavesRead DEF UpdateSaves
<1>3. CallsInv'
  BY <1>2, AnswerStep DEF UpdateSaves, Inv
<1>4. CountsInv'
  BY DEF UpdateSaves, Inv, CountsInv
<1> QED BY <1>2, <1>3, <1>4 DEF Inv

\* A change of password writes the new one into the row it has read, whose
\* password it was given.
LEMMA ChangePasswordSavesStep == ASSUME Inv, NEW c \in Clients, ChangePasswordSaves(c) PROVE Inv'
<1>1. call[c] # Idle /\ call[c].pc = "save" /\ call[c].op = "password"
  BY DEF ChangePasswordSaves, At, Idle
<1>2. /\ SoundCall(call[c]) /\ call[c].read # NoUser /\ call[c].read \in Found
      /\ call[c].new \in Values
  BY <1>1, CallTypes DEF Inv, SoundCall
<1>3. PICK found \in Found, given \in Values : found = call[c].read /\ given = call[c].new
  BY <1>2
<1> DEFINE row == [found.row EXCEPT !.password = given]
           n == found.row.name
<1>4. Sound(found.row) /\ found.row \in UserRow /\ n \in Names
  BY <1>2, <1>3 DEF SoundCall, Found, UserRow
<1>5. /\ row \in UserRow /\ row.name = n /\ row.instanceID = found.row.instanceID
      /\ row.password = given
  BY <1>4 DEF UserRow
<1>6. call[c].name = n /\ call[c].read.row.password = call[c].given
  BY <1>1, <1>2, <1>3 DEF SoundCall
<1>7. Save(found.id, row)
  BY <1>3 DEF ChangePasswordSaves
<1> DEFINE t == Target(found.id, row)
<1>8. raced' = IF t = 0 \/ Get(n) = found THEN raced
               ELSE raced \cup {n} \cup {users[i].name : i \in DOMAIN users \cap {t}}
  BY <1>3, <1>5 DEF ChangePasswordSaves, NotesRace
<1>9. /\ t = 0 => UNCHANGED <<chosen, password>>
      /\ t # 0 => /\ chosen' = [chosen EXCEPT ![n] = @ \cup {given}]
                  /\ password' = [password EXCEPT ![n] = {given}]
      /\ issued' = issued /\ claimed' = claimed
  BY <1>3, <1>6 DEF ChangePasswordSaves
<1> HIDE DEF t
<1>10. /\ chosen' \in [Names -> SUBSET Values] /\ password' \in [Names -> SUBSET Values]
       /\ t # 0 => given \in chosen'[n] /\ password'[n] = {given}
       /\ t = 0 => password' = password
       /\ \A m \in Names \ {n} : password'[m] = password[m]
       /\ Grows
  BY <1>4, <1>9 DEF Inv, HistoryInv, Grows
<1> HIDE DEF row
<1>11. UsersInv' /\ IssuedInv' /\ SubscribesInv' /\ HistoryInv'
  BY <1>4, <1>5, <1>7, <1>8, <1>9, <1>10, SaveStep DEF t
<1>12. CallsInv'
  BY <1>10, AnswerStep DEF ChangePasswordSaves, Inv
<1>13. CountsInv'
  BY DEF ChangePasswordSaves, Inv, CountsInv
<1> QED BY <1>11, <1>12, <1>13 DEF Inv

\* A new account has a name that has none, and an ID that is nobody's by now:
\* issued to no one before, or asked for.
LEMMA CreateUserStep == ASSUME Inv, NEW c \in Clients, CreateUser(c) PROVE Inv'
<1>1. call[c] # Idle
  BY DEF CreateUser, Handles, At, Idle
<1>2. CountsInv'
  BY DEF CreateUser, Handles, Inv, CountsInv
<1>3. CASE UNCHANGED <<tables, history>>
  <2>1. CallsInv'
    BY <1>3, AnswerStep, SameGrows DEF CreateUser, Inv, history
  <2> QED BY <1>2, <1>3, <2>1, SameTables
<1>4. CASE ~UNCHANGED <<tables, history>>
  <2>1. PICK n \in Names, given \in Values : n = call[c].name /\ given = call[c].given
    BY <1>1, CallTypes DEF Inv, Call
  <2>2. PICK id \in 0 .. MaxUsers :
        /\ Create(id, [name |-> n, instanceID |-> 0, password |-> given])
        /\ issued' = [issued EXCEPT ![n] = @ \cup {NewID(id)}]
        /\ claimed' = claimed \cup ({id} \ {0})
        /\ chosen' = [chosen EXCEPT ![n] = @ \cup {given}]
        /\ password' = [password EXCEPT ![n] = {given}]
        /\ UNCHANGED raced
    BY <1>4, <2>1 DEF CreateUser
  <2>3. PICK j \in (1 .. MaxUsers) \ DOMAIN users : j = NewID(id)
    BY <2>2 DEF Create
  <2>4. PICK row \in UserRow : row = [name |-> n, instanceID |-> j, password |-> given]
    <3>1. j \in 0 .. MaxUsers
      BY AccountsAssumption
    <3>2. [name |-> n, instanceID |-> j, password |-> given] \in UserRow
      BY <3>1 DEF UserRow
    <3> QED BY <3>2
  <2>5. /\ Others(0, row) = {} /\ Put(j, row) /\ UNCHANGED subscribes
        /\ nextID' = IF j < nextID THEN nextID ELSE j + 1
    BY <2>2, <2>3, <2>4 DEF Create
  <2>6. /\ Grows
        /\ \A m \in Names \ {n} : issued'[m] = issued[m] /\ password'[m] = password[m]
        /\ issued'[n] = issued[n] \cup {j} /\ password'[n] = {given} /\ given \in chosen'[n]
        /\ issued' \in [Names -> SUBSET (1 .. MaxUsers)]
        /\ chosen' \in [Names -> SUBSET Values] /\ password' \in [Names -> SUBSET Values]
    BY <2>2, <2>3 DEF Grows, Inv, IssuedInv, HistoryInv
  <2>7. /\ nextID' \in 1 .. MaxUsers + 1 /\ j < nextID' /\ nextID <= nextID'
    BY <2>3, <2>5, AccountsAssumption DEF Inv, IssuedInv
  <2>8. IssuedInv'
    <3>1. ASSUME NEW m \in Names, NEW i \in issued'[m] PROVE i < nextID'
      <4>1. i \in issued[m] \/ i = j
        BY <2>6
      <4>2. i \in issued[m] => i < nextID /\ i \in 1 .. MaxUsers
        BY DEF Inv, IssuedInv
      <4> QED BY <2>7, <4>1, <4>2, AccountsAssumption DEF Inv, IssuedInv
    <3>2. claimed \subseteq claimed' /\ claimed' \subseteq 1 .. MaxUsers
      BY <2>2, AccountsAssumption DEF Inv, IssuedInv
    <3>3. ASSUME NEW m \in Names, j \in issued[m] PROVE j \in claimed'
      <4>1. j < nextID
        BY <3>3 DEF Inv, IssuedInv
      <4>2. id # 0
        BY <2>3, <4>1, AccountsAssumption DEF NewID, Inv, IssuedInv
      <4> QED BY <2>2, <2>3, <4>2 DEF NewID
    <3>4. ASSUME NEW m \in Names, NEW k \in Names, m # k
          PROVE  issued'[m] \cap issued'[k] \subseteq claimed'
      <4>1. issued[m] \cap issued[k] \subseteq claimed
        BY <3>4 DEF Inv, IssuedInv
      <4>2. issued'[m] = issued[m] \/ (m = n /\ issued'[m] = issued[m] \cup {j})
        BY <2>6
      <4>3. issued'[k] = issued[k] \/ (k = n /\ issued'[k] = issued[k] \cup {j})
        BY <2>6
      <4> QED BY <3>2, <3>3, <3>4, <4>1, <4>2, <4>3
    <3> QED BY <2>6, <2>7, <3>1, <3>2, <3>4 DEF IssuedInv
  <2>9. row.name = n /\ row.password = given /\ row.instanceID = j
    BY <2>4
  <2>10. Named(n) = {}
    <3>1. 0 \notin DOMAIN users
      BY AccountsAssumption DEF Inv, UsersInv
    <3> QED BY <2>5, <2>9, <3>1 DEF Others, Named
  <2>11. Sound(row)'
    BY <2>6, <2>9 DEF Sound
  <2>12. /\ UsersInv' /\ Passwords(n)' = {given}
         /\ \A m \in Names \ {n} : Passwords(m)' = Passwords(m)
    <3>1. Put(j, row) /\ Fits(j, row.name) /\ \A m \in Names : j \notin Named(m)
      BY <2>3, <2>5, <2>9, <2>10 DEF Fits, Named
    <3> QED BY <2>6, <2>9, <2>11, <3>1, PutStep DEF Inv
  <2>13. SubscribesInv'
    BY <2>5, <2>6 DEF SubscribesInv, Inv, Grows
  <2>14. HistoryInv'
    <3>1. \A m \in Names \ raced : Passwords(m) = password[m]
      BY DEF Inv, HistoryInv, QuietAccountsKeepPasswords, Passwords
    <3>2. \A m \in Names \ raced' : Passwords(m)' = password'[m]
      BY <2>2, <2>6, <2>12, <3>1
    <3> QED BY <2>2, <2>6, <3>2 DEF Inv, HistoryInv, QuietAccountsKeepPasswords, Passwords
  <2>15. CallsInv'
    BY <2>6, AnswerStep DEF CreateUser, Inv
  <2> QED BY <1>2, <2>8, <2>12, <2>13, <2>14, <2>15 DEF Inv
<1> QED BY <1>3, <1>4

\* Users that are gone leave nothing of theirs but what was issued to them.
LEMMA DeletesStep ==
    ASSUME Inv, NEW c \in Clients, NEW names \in SUBSET Names, Delete(names), Forget(names),
           Answer(c), UNCHANGED <<tokens, requests, failures>>
    PROVE  Inv'
<1> DEFINE kept == {id \in DOMAIN users : users[id].name \notin names}
<1>1. DOMAIN users' = kept /\ \A id \in kept : users'[id] = users[id]
  BY DEF Delete, Restrict
<1>2. users' = [id \in DOMAIN users' |-> users'[id]]
  BY DEF Delete, Restrict
<1>3. UNCHANGED <<issued, claimed, chosen, raced, nextID, subscribes>> /\ Grows
  BY SameGrows DEF Delete, Forget
<1>4. UsersInv'
  <2>1. \A id \in kept : users[id] \in UserRow /\ Sound(users[id])'
    BY <1>1, <1>3 DEF Inv, UsersInv, Sound
  <2> QED BY <1>1, <1>2, <2>1 DEF Inv, UsersInv, Sound
<1>5. ASSUME NEW n \in Names \ raced
      PROVE  {users'[id].password : id \in Named(n)'} = password'[n]
  <2>1. CASE n \in names
    <3>1. Named(n)' = {}
      BY <1>1, <2>1 DEF Named
    <3> QED BY <2>1, <3>1 DEF Forget
  <2>2. CASE n \notin names
    <3>1. Named(n)' = Named(n) /\ \A id \in Named(n) : users'[id] = users[id]
      BY <1>1, <2>2 DEF Named
    <3>2. {users[id].password : id \in Named(n)} = password[n]
      BY DEF Inv, HistoryInv, QuietAccountsKeepPasswords
    <3> QED BY <2>2, <3>1, <3>2 DEF Forget
  <2> QED BY <2>1, <2>2
<1>6. HistoryInv'
  <2>1. password' \in [Names -> SUBSET Values]
    BY DEF Forget, Inv, HistoryInv
  <2> QED BY <1>3, <1>5, <2>1 DEF Inv, HistoryInv, QuietAccountsKeepPasswords
<1>7. IssuedInv' /\ SubscribesInv'
  BY <1>3, IssuedSame DEF Inv
<1>8. CallsInv' /\ CountsInv'
  BY <1>3, AnswerStep DEF Inv, CountsInv
<1> QED BY <1>4, <1>6, <1>7, <1>8 DEF Inv

\* Deletion of one user, or of several.
LEMMA DeleteUserStep ==
    ASSUME Inv, NEW c \in Clients, DeleteUser(c) \/ DeleteCollection(c) PROVE Inv'
<1>1. CASE DeleteUser(c)
  <2>1. call[c] # Idle
    BY <1>1 DEF DeleteUser, Handles, At, Idle
  <2>2. PICK n \in Names : n = call[c].name
    BY <2>1, CallTypes DEF Inv, Call
  <2> QED BY <1>1, <2>2, DeletesStep DEF DeleteUser, Handles
<1>2. CASE DeleteCollection(c)
  BY <1>2, DeletesStep DEF DeleteCollection, Handles
<1> QED BY <1>1, <1>2

\* A subscription takes an instance ID that was issued to its name.
LEMMA SubscribesStep ==
    ASSUME Inv, NEW c \in Clients, SubscribeSaves(c) \/ Unsubscribe(c) PROVE Inv'
<1>1. call[c] # Idle /\ UNCHANGED <<tokens, requests, failures, history, users, nextID>>
  BY DEF SubscribeSaves, Unsubscribe, CreateSubscribe, DeleteSubscribe, Handles, At, Idle, tables
<1>2. Grows /\ Answer(c)
  BY <1>1, SameGrows DEF history, SubscribeSaves, Unsubscribe
<1>3. CallsInv' /\ CountsInv'
  BY <1>1, <1>2, AnswerStep DEF Inv, CountsInv
<1>4. UsersInv' /\ IssuedInv' /\ HistoryInv'
  BY <1>1 DEF Inv, UsersInv, IssuedInv, HistoryInv, history, Sound,
              QuietAccountsKeepPasswords, Named
<1>5. CASE subscribes' \subseteq subscribes
  BY <1>1, <1>3, <1>4, <1>5 DEF Inv, SubscribesInv, history
<1>6. ASSUME SubscribeSaves(c), subscribes' # subscribes PROVE Inv'
  <2> DEFINE row == [name |-> call[c].name, instanceID |-> call[c].read.row.instanceID,
                     email |-> call[c].new]
  <2>1. CreateSubscribe(row) /\ call[c].pc = "save" /\ call[c].op = "subscribe"
    BY <1>6 DEF SubscribeSaves, At, tables
  <2>2. /\ call[c].read # NoUser /\ call[c].read.row \in UserRow /\ call[c].new \in Emails
        /\ call[c].read.row.name = call[c].name /\ call[c].name \in Names
        /\ Sound(call[c].read.row)
    BY <1>1, <2>1, CallTypes DEF Inv, SoundCall, Call
  <2>3. /\ row \in [name : Names, instanceID : 0 .. MaxUsers, email : Emails]
        /\ row.instanceID \in issued[row.name]
    BY <2>2 DEF UserRow, Sound
  <2>4. subscribes' = subscribes \cup {row}
    BY <2>1 DEF CreateSubscribe
  <2> HIDE DEF row
  <2>5. SubscribesInv'
    BY <1>1, <2>3, <2>4 DEF Inv, SubscribesInv, history
  <2> QED BY <1>3, <1>4, <2>5 DEF Inv
<1> QED BY <1>5, <1>6 DEF Unsubscribe, DeleteSubscribe

-------------------------------------------------------------------------------
(* Every step, and the first state *)

\* The first accounts have an ID each.
LEMMA InitInv == Init => Inv
<1> SUFFICES ASSUME Init PROVE Inv
  OBVIOUS
<1>1. PICK given \in [Names -> Values] :
        /\ TablesInit(given)
        /\ call = [c \in Clients |-> Idle]
        /\ tokens = {} /\ requests = 0 /\ failures = 0
        /\ issued = [n \in Names |-> {id \in DOMAIN users : users[id].name = n}]
        /\ claimed = {}
        /\ chosen = [n \in Names |-> {given[n]}]
        /\ raced = {}
        /\ password = chosen
  BY DEF Init
<1> DEFINE N == Cardinality(Names)
<1>2. N \in 0 .. MaxUsers
  BY FS_CardinalityType, AccountsAssumption
<1>3. PICK name \in Bijection(1 .. N, Names) :
        users = [id \in DOMAIN name |->
                    [name |-> name[id], instanceID |-> id, password |-> given[name[id]]]]
  BY <1>1 DEF TablesInit
<1> HIDE DEF N
<1>4. /\ name \in [1 .. N -> Names]
      /\ \A i, j \in 1 .. N : name[i] = name[j] => i = j
      /\ \A n \in Names : \E i \in 1 .. N : name[i] = n
  BY DEF Bijection, Injection, Surjection, IsInjective
<1>5. /\ DOMAIN users = 1 .. N
      /\ \A id \in 1 .. N : /\ users[id] \in UserRow
                            /\ users[id].name = name[id] /\ users[id].instanceID = id
                            /\ users[id].password = given[name[id]]
  <2>1. 1 .. N \subseteq 0 .. MaxUsers
    BY <1>2, AccountsAssumption
  <2> QED BY <1>3, <1>4, <2>1 DEF UserRow
<1>6. 1 .. N \subseteq 1 .. MaxUsers
  BY <1>2, AccountsAssumption
<1>7. \A id \in 1 .. N : id \in issued[name[id]]
  BY <1>1, <1>4, <1>5
<1>8. CallsInv
  BY <1>1 DEF CallsInv
<1>9. UsersInv
  <2>1. \A id \in DOMAIN users : Sound(users[id])
    BY <1>1, <1>4, <1>5, <1>7 DEF Sound
  <2> QED BY <1>3, <1>4, <1>5, <1>6, <2>1 DEF UsersInv
<1>10. IssuedInv
  <2>1. nextID = N + 1
    BY <1>1 DEF TablesInit, N
  <2>2. nextID \in 1 .. MaxUsers + 1
    BY <1>2, <2>1, AccountsAssumption
  <2>3. \A n \in Names : issued[n] = {id \in 1 .. N : users[id].name = n}
    BY <1>1, <1>5
  <2>4. \A n \in Names : \A id \in issued[n] : id < nextID
    BY <1>2, <2>1, <2>3
  <2>5. claimed = {} /\ \A n, m \in Names : n # m => issued[n] \cap issued[m] = {}
    BY <1>1, <2>3
  <2>6. issued \in [Names -> SUBSET (1 .. MaxUsers)]
    BY <1>1, <1>5, <1>6
  <2> QED BY <2>2, <2>4, <2>5, <2>6 DEF IssuedInv
<1>11. SubscribesInv
  BY <1>1 DEF TablesInit, SubscribesInv
<1>12. HistoryInv
  <2>1. ASSUME NEW n \in Names PROVE {users[id].password : id \in Named(n)} = password[n]
    <3>1. PICK i \in 1 .. N : name[i] = n
      BY <1>4
    <3>2. Named(n) = {i} /\ users[i].password = given[n]
      BY <1>4, <1>5, <3>1 DEF Named
    <3> QED BY <1>1, <3>2
  <2>2. chosen \in [Names -> SUBSET Values] /\ password = chosen /\ raced = {}
    BY <1>1
  <2> QED BY <2>1, <2>2 DEF HistoryInv, QuietAccountsKeepPasswords
<1>13. CountsInv
  BY <1>1, AccountsAssumption DEF CountsInv
<1> QED BY <1>8, <1>9, <1>10, <1>11, <1>12, <1>13 DEF Inv

\* Every step keeps the invariant, and so does none.
LEMMA StepInv == Inv /\ [Next]_vars => Inv'
<1> SUFFICES ASSUME Inv, [Next]_vars PROVE Inv'
  OBVIOUS
<1>1. CASE UNCHANGED vars
  <2>1. CallsInv'
    BY <1>1 DEF Inv, CallsInv, SoundCall, Sound, vars, history
  <2>2. CountsInv'
    BY <1>1 DEF Inv, CountsInv, vars
  <2> QED BY <1>1, <2>1, <2>2, SameTables DEF vars
<1>2. ASSUME NEW c \in Clients,
             \/ Begin(c) \/ SignIn(c) \/ SignInSave(c) \/ Validation(c) \/ StoreFails(c)
             \/ RefuseCredentials(c) \/ RefuseToken(c) \/ RefuseBody(c)
      PROVE  Inv'
  BY <1>2, BeginStep, SignInStep, SignInSaveStep, ValidationStep, StoreFailsStep, RefuseStep
     DEF RefuseCredentials, RefuseToken, RefuseBody
<1>3. ASSUME NEW c \in Clients,
             \/ CreateUser(c) \/ UpdateReads(c) \/ UpdateSaves(c)
             \/ ChangePasswordReads(c) \/ ChangePasswordSaves(c)
             \/ DeleteUser(c) \/ DeleteCollection(c)
             \/ SubscribeReads(c) \/ SubscribeSaves(c) \/ Unsubscribe(c)
      PROVE  Inv'
  BY <1>3, CreateUserStep, ReadsStep, UpdateSavesStep, ChangePasswordSavesStep,
     DeleteUserStep, SubscribesStep
<1> QED BY <1>1, <1>2, <1>3 DEF Next

-------------------------------------------------------------------------------
(* The theorems *)

\* The invariant holds in every reachable state.
LEMMA InvHolds == Spec => []Inv
BY InitInv, StepInv, PTL DEF Spec

\* The variables have their types, and what is to be saved has been read.
THEOREM TypeCorrect == Spec => []TypeOK
<1>1. Inv => TypeOK
  <2> SUFFICES ASSUME Inv PROVE TypeOK
    OBVIOUS
  <2>1. TablesTypeOK
    BY DEF Inv, UsersInv, IssuedInv, SubscribesInv, TablesTypeOK
  <2>2. ASSUME NEW c \in Clients, call[c] # Idle
        PROVE  /\ call[c].pc \in {"signIn", "signInSave", "authorize", "handle", "save"}
               /\ call[c].op \in Ops /\ call[c].user \in Names /\ call[c].name \in Names
               /\ call[c].given \in Values /\ call[c].new \in Values \cup Emails
               /\ call[c].read = NoUser \/ call[c].read.row \in UserRow
               /\ call[c].pc \in {"signInSave", "save"} => call[c].read # NoUser
    BY <2>2, CallTypes DEF Inv, Call, SoundCall
  <2> QED BY <2>1, <2>2 DEF Inv, IssuedInv, HistoryInv, CountsInv, TypeOK
<1> QED BY <1>1, InvHolds, PTL

\* No request that overlaps others stores a password under a name that nobody
\* who knew the one before has chosen for it.
THEOREM PasswordsWereChosenHolds == Spec => []PasswordsWereChosen
<1>1. Inv => PasswordsWereChosen
  BY DEF Inv, UsersInv, Sound, PasswordsWereChosen
<1> QED BY <1>1, InvHolds, PTL

\* A name whose account no request has saved over, after it was newer than what
\* the request had read or under an ID shared with another name, has the password
\* of its last creation or change, and none after its deletion.
THEOREM QuietAccountsKeepPasswordsHolds == Spec => []QuietAccountsKeepPasswords
<1>1. Inv => QuietAccountsKeepPasswords
  BY DEF Inv, HistoryInv
<1> QED BY <1>1, InvHolds, PTL

\* Users and subscriptions carry an instance ID issued to their name; a
\* subscription and a user of another name share one only when a client had an
\* account made with that ID.
THEOREM InstanceIDsStayWithNamesHolds == Spec => []InstanceIDsStayWithNames
<1>1. Inv => InstanceIDsStayWithNames
  <2> SUFFICES ASSUME Inv PROVE InstanceIDsStayWithNames
    OBVIOUS
  <2>1. \A id \in DOMAIN users : /\ users[id].instanceID \in issued[users[id].name]
                                 /\ users[id].name \in Names
    BY DEF Inv, UsersInv, Sound, UserRow
  <2>2. \A s \in subscribes : s.instanceID \in issued[s.name] /\ s.name \in Names
    BY DEF Inv, SubscribesInv
  <2>3. ASSUME NEW s \in subscribes, NEW id \in DOMAIN users,
               s.instanceID = users[id].instanceID, s.name # users[id].name
        PROVE  s.instanceID \in claimed
    <3>1. s.instanceID \in issued[s.name] \cap issued[users[id].name]
      BY <2>1, <2>2, <2>3
    <3> QED BY <2>1, <2>2, <2>3, <3>1 DEF Inv, IssuedInv
  <2> QED BY <2>1, <2>2, <2>3 DEF InstanceIDsStayWithNames
<1> QED BY <1>1, InvHolds, PTL
===============================================================================
