------------------------------ MODULE ListProofs ------------------------------
(***************************************************************************)
(* Facts about loops over lists, for lists of any length: induction over   *)
(* the turns of a loop, by way of the least turn that would break a fact.  *)
(***************************************************************************)
EXTENDS Lists, WellFoundedInduction, TLAPS

\* A set of numbers that holds 0 and with each number the next holds them all:
\* the least number that it misses would be neither 0 nor the next of another.
LEMMA NatSetInduction ==
    ASSUME NEW S \in SUBSET Nat, 0 \in S, \A n \in S : n + 1 \in S
    PROVE  S = Nat
<1> DEFINE R == {ss \in Nat \X Nat : ss[1] < ss[2]}
<1>1. IsWellFoundedOn(R, Nat)
  BY NatLessThanWellFounded DEF OpToRel
<1> SUFFICES ASSUME Nat \ S # {} PROVE FALSE
  OBVIOUS
<1>2. \E x \in Nat \ S : \A y \in Nat \ S : ~(<<y, x>> \in R)
  <2> HIDE DEF R
  <2> QED BY <1>1, WFMin, Nat \ S \subseteq Nat
<1>3. PICK x \in Nat \ S : \A y \in Nat \ S : ~(y < x)
  BY <1>2
<1>4. x - 1 \in S
  BY <1>3
<1> QED BY <1>4

\* The values of a list.
Elements(s) == {s[i] : i \in DOMAIN s}

\* No value of the list occurs twice.
Distinct(s) == \A i, j \in DOMAIN s : s[i] = s[j] => i = j

\* The values of a list of values in V are in V, also when more values are.
LEMMA ElementsTyped ==
    ASSUME NEW V, NEW s \in Seq(V), NEW W, V \subseteq W
    PROVE  Elements(s) \subseteq V /\ s \in Seq(W)
<1>1. \A i \in DOMAIN s : s[i] \in V
  OBVIOUS
<1> QED BY <1>1 DEF Elements

\* What one list and then another has.
LEMMA ConcatFacts ==
    ASSUME NEW V, NEW s \in Seq(V), NEW t \in Seq(V)
    PROVE  /\ s \o t \in Seq(V)
           /\ Elements(s \o t) = Elements(s) \cup Elements(t)
           /\ Distinct(s) /\ Distinct(t) /\ Elements(s) \cap Elements(t) = {} => Distinct(s \o t)
<1> DEFINE u == s \o t
<1>1. /\ u \in Seq(V) /\ Len(s) \in Nat /\ Len(t) \in Nat
      /\ DOMAIN u = 1 .. Len(s) + Len(t) /\ DOMAIN s = 1 .. Len(s) /\ DOMAIN t = 1 .. Len(t)
      /\ \A i \in 1 .. Len(s) : u[i] = s[i]
      /\ \A i \in 1 .. Len(t) : u[Len(s) + i] = t[i]
  OBVIOUS
<1> HIDE DEF u
<1>2. \A i \in DOMAIN u : i \in DOMAIN s \/ i - Len(s) \in DOMAIN t
  BY <1>1
<1>3. \A i \in DOMAIN u : i \in DOMAIN s => u[i] = s[i]
  BY <1>1
<1>4. \A i \in DOMAIN u : i - Len(s) \in DOMAIN t => u[i] = t[i - Len(s)]
  <2> SUFFICES ASSUME NEW i \in DOMAIN u, i - Len(s) \in DOMAIN t PROVE u[i] = t[i - Len(s)]
    OBVIOUS
  <2>1. i = Len(s) + (i - Len(s))
    BY <1>1
  <2> QED BY <1>1, <2>1
<1>5. Elements(u) \subseteq Elements(s) \cup Elements(t)
  BY <1>2, <1>3, <1>4 DEF Elements
<1>6. Elements(s) \cup Elements(t) \subseteq Elements(u)
  <2>1. \A i \in DOMAIN s : s[i] = u[i] /\ i \in DOMAIN u
    BY <1>1
  <2>2. \A i \in DOMAIN t : t[i] = u[Len(s) + i] /\ Len(s) + i \in DOMAIN u
    BY <1>1
  <2> QED BY <2>1, <2>2 DEF Elements
<1>7. ASSUME Distinct(s), Distinct(t), Elements(s) \cap Elements(t) = {} PROVE Distinct(u)
  <2> SUFFICES ASSUME NEW i \in DOMAIN u, NEW j \in DOMAIN u, u[i] = u[j] PROVE i = j
    BY DEF Distinct
  <2>1. CASE i \in DOMAIN s /\ j \in DOMAIN s
    BY <1>3, <1>7, <2>1 DEF Distinct
  <2>2. CASE i - Len(s) \in DOMAIN t /\ j - Len(s) \in DOMAIN t
    <3>1. t[i - Len(s)] = t[j - Len(s)]
      BY <1>4, <2>2
    <3>2. i - Len(s) = j - Len(s)
      BY <1>7, <2>2, <3>1 DEF Distinct
    <3> QED BY <1>1, <3>2
  <2>3. CASE (i \in DOMAIN s /\ j - Len(s) \in DOMAIN t) \/ (j \in DOMAIN s /\ i - Len(s) \in DOMAIN t)
    <3>1. u[i] \in Elements(s) /\ u[i] \in Elements(t)
      BY <1>3, <1>4, <2>3 DEF Elements
    <3> QED BY <1>7, <3>1
  <2> QED BY <1>2, <2>1, <2>2, <2>3
<1> QED BY <1>1, <1>5, <1>6, <1>7 DEF u

\* One turn of the loop of Keep.
Turn(s, S, f, n) ==
    IF n = 0 THEN <<>>
    ELSE IF s[n] \in S THEN Append(f[n - 1], s[n]) ELSE f[n - 1]

\* A loop of any number of turns, each a function of what the one before has left,
\* leaves something after every turn: the recursive function that models it exists.
LEMMA LoopExists ==
    ASSUME NEW R, NEW start \in R, NEW N \in Nat, NEW turn \in [1 .. N -> [R -> R]]
    PROVE  \E f \in [0 .. N -> R] : f[0] = start /\ \A n \in 1 .. N : f[n] = turn[n][f[n - 1]]
<1> DEFINE Good(f, n) == f[0] = start /\ \A m \in 1 .. n : f[m] = turn[m][f[m - 1]]
           P == {n \in Nat : n <= N => \E f \in [0 .. n -> R] : Good(f, n)}
<1>1. 0 \in P
  <2> DEFINE f == [m \in 0 .. 0 |-> start]
  <2>1. f \in [0 .. 0 -> R] /\ Good(f, 0)
    OBVIOUS
  <2> QED BY <2>1
<1>2. ASSUME NEW n \in P, n + 1 <= N PROVE \E f \in [0 .. n + 1 -> R] : Good(f, n + 1)
  <2>1. n \in Nat /\ n <= N /\ n + 1 \in 1 .. N
    BY <1>2
  <2>2. PICK f \in [0 .. n -> R] : Good(f, n)
    BY <1>2, <2>1
  <2> DEFINE last == turn[n + 1][f[n]]
             g == [m \in 0 .. n + 1 |-> IF m = n + 1 THEN last ELSE f[m]]
  <2>3. last \in R
    BY <2>1
  <2> HIDE DEF last
  <2>4. g \in [0 .. n + 1 -> R] /\ g[n + 1] = last /\ \A m \in 0 .. n : g[m] = f[m]
    BY <2>1, <2>3
  <2> HIDE DEF g
  <2>5. ASSUME NEW m \in 1 .. n + 1 PROVE g[m] = turn[m][g[m - 1]]
    <3>1. CASE m = n + 1
      <4>1. m - 1 = n /\ n \in 0 .. n
        BY <2>1, <3>1
      <4> QED BY <2>4, <3>1, <4>1 DEF last
    <3>2. CASE m \in 1 .. n
      <4>1. m \in 0 .. n /\ m - 1 \in 0 .. n
        BY <2>1, <3>2
      <4> QED BY <2>2, <2>4, <3>2, <4>1
    <3> QED BY <2>1, <3>1, <3>2
  <2>6. g[0] = start
    BY <2>1, <2>2, <2>4
  <2> QED BY <2>4, <2>5, <2>6
<1>3. P = Nat
  <2>1. ASSUME NEW n \in P PROVE n + 1 \in P
    <3> HIDE DEF Good
    <3> QED BY <1>2
  <2> HIDE DEF P
  <2>2. P \in SUBSET Nat
    BY DEF P
  <2> QED BY <1>1, <2>1, <2>2, NatSetInduction
<1> QED BY <1>3

\* The loop of Keep has turns up to the end of the list.
LEMMA KeepLoop ==
    ASSUME NEW V, NEW s \in Seq(V), NEW S
    PROVE  \E f : f = [n \in 0 .. Len(s) |-> Turn(s, S, f, n)]
<1> DEFINE turn == [n \in 1 .. Len(s) |->
                      [kept \in Seq(V) |-> IF s[n] \in S THEN Append(kept, s[n]) ELSE kept]]
<1>1. turn \in [1 .. Len(s) -> [Seq(V) -> Seq(V)]]
  OBVIOUS
<1>2. \A n \in 1 .. Len(s), kept \in Seq(V) :
        turn[n][kept] = IF s[n] \in S THEN Append(kept, s[n]) ELSE kept
  OBVIOUS
<1>3. Len(s) \in Nat /\ <<>> \in Seq(V)
  OBVIOUS
<1> HIDE DEF turn
<1>4. PICK f \in [0 .. Len(s) -> Seq(V)] :
        f[0] = <<>> /\ \A n \in 1 .. Len(s) : f[n] = turn[n][f[n - 1]]
  <2> DEFINE R == Seq(V)
             N == Len(s)
             start == <<>>
  <2>1. start \in R /\ N \in Nat /\ turn \in [1 .. N -> [R -> R]]
    BY <1>1, <1>3
  <2> HIDE DEF R, N, start
  <2>2. \E f \in [0 .. N -> R] : f[0] = start /\ \A n \in 1 .. N : f[n] = turn[n][f[n - 1]]
    BY <2>1, LoopExists
  <2> QED BY <2>2 DEF R, N, start
<1>5. ASSUME NEW n \in 0 .. Len(s) PROVE f[n] = Turn(s, S, f, n)
  <2>1. CASE n = 0
    BY <1>4, <2>1 DEF Turn
  <2>2. CASE n \in 1 .. Len(s)
    <3>1. n # 0 /\ f[n - 1] \in Seq(V)
      BY <1>3, <2>2
    <3> QED BY <1>2, <1>4, <2>2, <3>1 DEF Turn
  <2> QED BY <1>3, <2>1, <2>2
<1>6. f = [n \in 0 .. Len(s) |-> f[n]]
  OBVIOUS
<1>7. f = [n \in 0 .. Len(s) |-> Turn(s, S, f, n)]
  BY <1>5, <1>6
<1> QED BY <1>7

\* What Keep keeps of a list: values of the list in S, all of them, as many times
\* as the list has them.
LEMMA KeepFacts ==
    ASSUME NEW V, NEW s \in Seq(V), NEW S
    PROVE  /\ Keep(s, S) \in Seq(V)
           /\ Elements(Keep(s, S)) = Elements(s) \cap S
           /\ Len(Keep(s, S)) <= Len(s)
           /\ Distinct(s) => Distinct(Keep(s, S))
<1> DEFINE f == CHOOSE g : g = [n \in 0 .. Len(s) |-> Turn(s, S, g, n)]
<1>1. Keep(s, S) = f[Len(s)]
  BY DEF Keep, Turn
<1>2. f = [n \in 0 .. Len(s) |-> Turn(s, S, f, n)]
  <2>1. \E g : g = [n \in 0 .. Len(s) |-> Turn(s, S, g, n)]
    BY KeepLoop
  <2> QED BY <2>1
<1> HIDE DEF f
<1> DEFINE Good(n) == /\ f[n] \in Seq(V)
                      /\ Elements(f[n]) = {s[i] : i \in 1 .. n} \cap S
                      /\ Len(f[n]) <= n
                      /\ Distinct(s) => Distinct(f[n])
           P == {n \in Nat : n <= Len(s) => Good(n)}
<1>3. 0 \in P
  <2>1. f[0] = <<>>
    BY <1>2 DEF Turn
  <2>2. f[0] \in Seq(V) /\ Len(f[0]) <= 0 /\ Distinct(f[0])
    BY <2>1 DEF Distinct
  <2>3. Elements(f[0]) = {} /\ {s[i] : i \in 1 .. 0} = {}
    BY <2>1 DEF Elements
  <2> QED BY <2>2, <2>3
<1>4. ASSUME NEW n \in P, n + 1 <= Len(s) PROVE Good(n + 1)
  <2>1. Good(n) /\ n + 1 \in 1 .. Len(s) /\ s[n + 1] \in V
    BY <1>4
  <2>2. f[n + 1] = IF s[n + 1] \in S THEN Append(f[n], s[n + 1]) ELSE f[n]
    <3>1. f[n + 1] = Turn(s, S, f, n + 1)
      BY <1>2, <2>1
    <3> QED BY <2>1, <3>1 DEF Turn
  <2>3. {s[i] : i \in 1 .. n + 1} = {s[i] : i \in 1 .. n} \cup {s[n + 1]}
    <3>1. 1 .. n + 1 = (1 .. n) \cup {n + 1}
      BY <2>1
    <3> QED BY <3>1
  <2>4. CASE s[n + 1] \notin S
    BY <2>1, <2>2, <2>3, <2>4
  <2>5. CASE s[n + 1] \in S
    <3> DEFINE t == f[n]
               u == Append(t, s[n + 1])
    <3>1. /\ f[n + 1] = u /\ u \in Seq(V) /\ Len(u) = Len(t) + 1 /\ Len(t) \in Nat
          /\ u[Len(t) + 1] = s[n + 1]
          /\ \A i \in 1 .. Len(t) : u[i] = t[i]
          /\ DOMAIN u = 1 .. Len(t) + 1 /\ DOMAIN t = 1 .. Len(t)
      BY <2>1, <2>2, <2>5
    <3> HIDE DEF t, u
    <3>2. Elements(u) = Elements(t) \cup {s[n + 1]}
      <4>1. 1 .. Len(t) + 1 = (1 .. Len(t)) \cup {Len(t) + 1}
        BY <3>1
      <4> QED BY <3>1, <4>1 DEF Elements
    <3>3. ASSUME Distinct(s) PROVE Distinct(u)
      <4>1. s[n + 1] \notin Elements(t)
        <5>1. \A i \in 1 .. n : s[i] # s[n + 1]
          BY <2>1, <3>3 DEF Distinct
        <5> QED BY <2>1, <5>1 DEF t
      <4>2. Distinct(t)
        BY <2>1, <3>3 DEF t
      <4> QED BY <3>1, <4>1, <4>2 DEF Distinct, Elements
    <3>4. Elements(u) = {s[i] : i \in 1 .. n + 1} \cap S
      BY <2>1, <2>3, <2>5, <3>2 DEF t
    <3>5. Len(u) <= n + 1
      BY <2>1, <3>1 DEF t
    <3> QED BY <3>1, <3>3, <3>4, <3>5
  <2> QED BY <2>4, <2>5
<1>5. P = Nat
  <2>1. ASSUME NEW n \in P PROVE n + 1 \in P
    <3> HIDE DEF Good
    <3> QED BY <1>4
  <2> HIDE DEF P
  <2>2. P \in SUBSET Nat
    BY DEF P
  <2> QED BY <1>3, <2>1, <2>2, NatSetInduction
<1>6. Good(Len(s))
  <2> HIDE DEF Good
  <2> QED BY <1>5
<1>7. Elements(s) = {s[i] : i \in 1 .. Len(s)}
  BY DEF Elements
<1> QED BY <1>1, <1>6, <1>7

\* A list of numbers that is not empty has a least and a greatest.
LEMMA Extremes ==
    ASSUME NEW s \in Seq(Int), Len(s) > 0
    PROVE  /\ \E v \in Elements(s) : \A u \in Elements(s) : v <= u
           /\ \E v \in Elements(s) : \A u \in Elements(s) : u <= v
<1> DEFINE Bounded(n) == \E v, w \in 1 .. n : \A u \in 1 .. n : s[v] <= s[u] /\ s[u] <= s[w]
           P == {n \in Nat : n + 1 <= Len(s) => Bounded(n + 1)}
<1>1. 0 \in P
  <2>1. 1 .. 1 = {1} /\ s[1] \in Int
    OBVIOUS
  <2>2. \A u \in 1 .. 1 : s[1] <= s[u] /\ s[u] <= s[1]
    BY <2>1
  <2> QED BY <2>1, <2>2
<1>2. ASSUME NEW n \in P, n + 2 <= Len(s) PROVE Bounded(n + 2)
  <2>1. n \in Nat /\ n + 1 <= Len(s) /\ n + 2 \in 1 .. Len(s)
    BY <1>2
  <2>2. PICK v \in 1 .. n + 1, w \in 1 .. n + 1 :
          \A u \in 1 .. n + 1 : s[v] <= s[u] /\ s[u] <= s[w]
    BY <1>2, <2>1
  <2>3. 1 .. n + 2 = (1 .. n + 1) \cup {n + 2} /\ \A i \in 1 .. n + 2 : s[i] \in Int
    BY <2>1
  <2> DEFINE low == IF s[n + 2] < s[v] THEN n + 2 ELSE v
             high == IF s[w] < s[n + 2] THEN n + 2 ELSE w
  <2>4. low \in 1 .. n + 2 /\ high \in 1 .. n + 2
    BY <2>3
  <2>5. ASSUME NEW u \in 1 .. n + 2 PROVE s[low] <= s[u] /\ s[u] <= s[high]
    <3>1. s[v] \in Int /\ s[w] \in Int /\ s[n + 2] \in Int /\ s[u] \in Int
      BY <2>1, <2>3
    <3>2. u = n + 2 \/ (s[v] <= s[u] /\ s[u] <= s[w])
      BY <2>2, <2>3
    <3>3. s[v] <= s[w]
      BY <2>2
    <3>4. s[low] <= s[u]
      <4>1. CASE s[n + 2] < s[v]
        BY <3>1, <3>2, <4>1
      <4>2. CASE ~(s[n + 2] < s[v])
        BY <3>1, <3>2, <4>2
      <4> QED BY <4>1, <4>2
    <3>5. s[u] <= s[high]
      <4>1. CASE s[w] < s[n + 2]
        BY <3>1, <3>2, <4>1
      <4>2. CASE ~(s[w] < s[n + 2])
        BY <3>1, <3>2, <4>2
      <4> QED BY <4>1, <4>2
    <3> QED BY <3>4, <3>5
  <2> HIDE DEF low, high
  <2> QED BY <2>4, <2>5
<1>3. P = Nat
  <2>1. ASSUME NEW n \in P PROVE n + 1 \in P
    <3>1. n \in Nat /\ (n + 1) + 1 = n + 2
      OBVIOUS
    <3> HIDE DEF Bounded
    <3> QED BY <1>2, <3>1
  <2> HIDE DEF P
  <2>2. P \in SUBSET Nat
    BY DEF P
  <2> QED BY <1>1, <2>1, <2>2, NatSetInduction
<1>4. Bounded(Len(s))
  <2> DEFINE before == Len(s) - 1
  <2>1. before \in Nat /\ before + 1 = Len(s)
    OBVIOUS
  <2> HIDE DEF before
  <2>2. before \in P
    <3> HIDE DEF P
    <3> QED BY <1>3, <2>1
  <2> HIDE DEF Bounded
  <2> QED BY <2>1, <2>2
<1>5. DOMAIN s = 1 .. Len(s)
  OBVIOUS
<1>6. PICK v \in 1 .. Len(s), w \in 1 .. Len(s) :
        \A u \in 1 .. Len(s) : s[v] <= s[u] /\ s[u] <= s[w]
  BY <1>4
<1> QED BY <1>5, <1>6 DEF Elements
===============================================================================
