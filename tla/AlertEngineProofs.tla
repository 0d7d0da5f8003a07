-------------------------- MODULE AlertEngineProofs ---------------------------
(***************************************************************************)
(* Proofs about the alert engine, for all evaluators' inputs, historians,  *)
(* windows, clocks and intervals.                                          *)
(*                                                                         *)
(* Flood control rests on time: what an evaluator raises is of one moment, *)
(* and no alert that was processed is of a later one.  The engine's memory *)
(* of a key is therefore the newest processed alert of that key, and what  *)
(* is a window away from it is a window away from all of them.             *)
(***************************************************************************)
EXTENDS AlertEngine, ListProofs, FiniteSetTheorems, TLAPS

\* The clock, and what is of it.
ClockInv ==
    /\ clock \in Nat
    /\ engine.alerts # {} => \E t \in 0 .. clock : \A a \in engine.alerts : a.at = t

EvaluatorNames == {"price_change", "volatility", "missing_data"}

\* The engine is where it can be; while it mails an alert, the alert is one of
\* those it has left, and one that should go out.
EngineInv ==
    /\ {"pc", "rest", "alerts"} \subseteq DOMAIN engine
    /\ engine.pc \in {"off", "select", "round", "mail", "stopped"}
    /\ engine.pc \in {"round", "mail"} => engine.rest \in Seq(EvaluatorNames)
    /\ engine.pc = "mail" => engine.alert \in engine.alerts /\ ShouldAlert(engine.alert)

\* What the engine remembers of a key is its newest processed alert.
MemoryInv ==
    /\ \A p \in processed :
        /\ p.at \in Nat
        /\ AlertKey(p) \in DOMAIN lastAlerts
        /\ p.at <= lastAlerts[AlertKey(p)]
    /\ \A k \in DOMAIN lastAlerts :
        /\ \E p \in processed : AlertKey(p) = k /\ p.at = lastAlerts[k]
        /\ lastAlerts[k] <= clock
        /\ \A a \in engine.alerts : lastAlerts[k] <= a.at

Inv == ClockInv /\ EngineInv /\ MemoryInv /\ FloodControl

\* Whatever it is given, an evaluator raises alerts of the moment it runs at.
LEMMA AlertsAreOfTheMoment ==
    ASSUME NEW name \in EvaluatorNames, NEW prices, NEW past, NEW at,
           NEW a \in Evaluate(name, prices, past, at)
    PROVE  a.at = at
<1>1. CASE name = "price_change"
  <2>1. a \in PriceChange(prices, past, at)
    BY <1>1 DEF Evaluate
  <2>2. PICK key : \E type, product, region, cate : a = Alert(type, product, region, cate, key, at)
    BY <2>1 DEF PriceChange
  <2> QED BY <2>2 DEF Alert
<1>2. CASE name = "volatility"
  <2>1. a \in Volatility(past, at)
    BY <1>2 DEF Evaluate
  <2>2. PICK key : a = Alert("high_volatility", "", "", "", key, at)
    BY <2>1 DEF Volatility
  <2> QED BY <2>2 DEF Alert
<1>3. CASE name = "missing_data"
  BY <1>3 DEF Evaluate, MissingData
<1> QED BY <1>1, <1>2, <1>3 DEF EvaluatorNames

\* An enabled engine or one that is off, either has nothing yet.
LEMMA InitInv == Init => Inv
  BY DEF Init, HistoryInit, Selecting, Inv, ClockInv, EngineInv, MemoryInv, FloodControl

\* The clock only makes all that was processed older.
LEMMA TickInv == ASSUME Inv, Tick PROVE Inv'
<1>1. ClockInv'
  BY DEF Inv, ClockInv, Tick, engineVars
<1>2. EngineInv'
  BY DEF Inv, EngineInv, Tick, engineVars, ShouldAlert, AlertKey
<1>3. MemoryInv'
  <2>1. \A k \in DOMAIN lastAlerts : lastAlerts[k] \in Nat /\ lastAlerts[k] <= clock + 1
    BY DEF Inv, ClockInv, MemoryInv
  <2> QED BY <2>1 DEF Inv, MemoryInv, Tick, engineVars, AlertKey
<1>4. FloodControl'
  BY DEF Inv, FloodControl, Tick, engineVars, AlertKey
<1> QED BY <1>1, <1>2, <1>3, <1>4 DEF Inv

\* Steps that leave the clock, the memory and what the engine is about alone.
LEMMA OtherInv ==
    ASSUME Inv, UNCHANGED <<clock, engine, lastAlerts, processed, suppressed>>
    PROVE  Inv'
  BY DEF Inv, ClockInv, EngineInv, MemoryInv, FloodControl, ShouldAlert, AlertKey

\* A round begins with all evaluators and no alert, and ends with none.
LEMMA RoundInv == ASSUME Inv, Stop \/ StartRound \/ EndRound PROVE Inv'
<1>1. /\ {"pc", "rest", "alerts"} \subseteq DOMAIN engine'
      /\ engine'.pc \in {"select", "round", "stopped"}
      /\ engine'.alerts = {} \/ engine'.alerts = engine.alerts
      /\ engine'.pc = "round" => engine'.rest = Evaluators
      /\ UNCHANGED <<clock, lastAlerts, processed, suppressed>>
  <2>1. CASE Stop
    BY <2>1 DEF Inv, EngineInv, Stop
  <2>2. CASE StartRound
    BY <2>2 DEF StartRound
  <2>3. CASE EndRound
    BY <2>3 DEF EndRound, Selecting
  <2> QED BY <2>1, <2>2, <2>3
<1>2. Evaluators \in Seq(EvaluatorNames)
  BY DEF Evaluators, EvaluatorNames
<1>3. ClockInv' /\ EngineInv'
  BY <1>1, <1>2 DEF Inv, ClockInv, EngineInv
<1>4. MemoryInv'
  BY <1>1 DEF Inv, MemoryInv, AlertKey
<1>5. FloodControl'
  BY <1>1 DEF Inv, FloodControl, AlertKey
<1> QED BY <1>3, <1>4, <1>5 DEF Inv

\* What is raised is of now, and nothing that was processed is of later.
LEMMA RunEvaluatorInv == ASSUME Inv, RunEvaluator PROVE Inv'
<1>1. PICK feed :
        engine' = [engine EXCEPT !.rest = Tail(@),
                     !.alerts = Evaluate(Head(engine.rest), feed.prices, feed.history, clock)]
  BY DEF RunEvaluator
<1> DEFINE raised == Evaluate(Head(engine.rest), feed.prices, feed.history, clock)
<1>2. engine.rest \in Seq(EvaluatorNames) /\ engine.rest # <<>> /\ engine.pc = "round"
  BY DEF RunEvaluator, Inv, EngineInv
<1>3. Head(engine.rest) \in EvaluatorNames /\ Tail(engine.rest) \in Seq(EvaluatorNames)
  BY <1>2
<1>4. \A a \in raised : a.at = clock
  BY <1>3, AlertsAreOfTheMoment
<1> HIDE DEF raised
<1>5. /\ {"pc", "rest", "alerts"} \subseteq DOMAIN engine'
      /\ engine'.pc = "round" /\ engine'.alerts = raised /\ engine'.rest = Tail(engine.rest)
  BY <1>1, <1>2 DEF raised, Inv, EngineInv
<1>6. UNCHANGED <<clock, lastAlerts, processed, suppressed>>
  BY DEF RunEvaluator
<1>7. ClockInv'
  BY <1>4, <1>5, <1>6 DEF Inv, ClockInv
<1>10. EngineInv'
  BY <1>3, <1>5 DEF EngineInv
<1>8. MemoryInv'
  BY <1>4, <1>5, <1>6 DEF Inv, MemoryInv, AlertKey
<1>9. FloodControl'
  BY <1>6 DEF Inv, FloodControl, AlertKey
<1> QED BY <1>7, <1>8, <1>9, <1>10 DEF Inv

\* What is suppressed follows the alert that the engine remembers.
LEMMA SuppressInv == ASSUME Inv, Suppress PROVE Inv'
<1>1. PICK alert \in engine.alerts :
        /\ ~ShouldAlert(alert)
        /\ engine' = [engine EXCEPT !.alerts = @ \ {alert}]
        /\ suppressed' = suppressed \cup {alert}
  BY DEF Suppress
<1>2. UNCHANGED <<clock, lastAlerts, processed>> /\ engine.pc = "round"
  BY DEF Suppress
<1>3. /\ {"pc", "rest", "alerts"} \subseteq DOMAIN engine'
      /\ engine'.pc = "round" /\ engine'.rest = engine.rest
      /\ engine'.alerts = engine.alerts \ {alert}
  BY <1>1, <1>2 DEF Inv, EngineInv
<1>4. ClockInv' /\ EngineInv'
  BY <1>2, <1>3 DEF Inv, ClockInv, EngineInv
<1>5. MemoryInv'
  BY <1>2, <1>3 DEF Inv, MemoryInv, AlertKey
<1>6. \E a \in processed : AlertKey(a) = AlertKey(alert) /\ alert.at - a.at \in 0 .. Window - 1
  <2>1. /\ AlertKey(alert) \in DOMAIN lastAlerts
        /\ ~(alert.at - lastAlerts[AlertKey(alert)] >= Window)
    BY <1>1 DEF ShouldAlert
  <2>2. PICK a \in processed : AlertKey(a) = AlertKey(alert) /\ a.at = lastAlerts[AlertKey(alert)]
    BY <2>1 DEF Inv, MemoryInv
  <2>3. a.at <= alert.at /\ a.at \in Nat /\ alert.at \in Nat
    BY <2>1, <2>2 DEF Inv, MemoryInv, ClockInv
  <2> QED BY <2>1, <2>2, <2>3, AlertAssumption
<1>7. FloodControl'
  BY <1>1, <1>2, <1>6 DEF Inv, FloodControl, AlertKey
<1> QED BY <1>4, <1>5, <1>7 DEF Inv

\* Only an alert that should go out is mailed.
LEMMA RecordAlertInv == ASSUME Inv, RecordAlert PROVE Inv'
<1>1. PICK alert \in engine.alerts :
        /\ ShouldAlert(alert)
        /\ engine' = [pc |-> "mail", rest |-> engine.rest, alerts |-> engine.alerts, alert |-> alert]
  BY DEF RecordAlert
<1>2. UNCHANGED <<clock, lastAlerts, processed, suppressed>> /\ engine.pc = "round"
  BY DEF RecordAlert
<1>3. ClockInv' /\ EngineInv'
  BY <1>1, <1>2 DEF Inv, ClockInv, EngineInv, ShouldAlert, AlertKey
<1>4. MemoryInv'
  BY <1>1, <1>2 DEF Inv, MemoryInv, AlertKey
<1>5. FloodControl'
  BY <1>2 DEF Inv, FloodControl, AlertKey
<1> QED BY <1>3, <1>4, <1>5 DEF Inv

\* The alert that was mailed is a window away from the newest of its key, and so
\* from all of them; those left of its round are not of before.
LEMMA SendAlertInv == ASSUME Inv, SendAlert PROVE Inv'
<1> DEFINE alert == engine.alert
           key == AlertKey(alert)
<1>1. /\ lastAlerts' = [k \in DOMAIN lastAlerts \cup {key} |->
                           IF k = key THEN alert.at ELSE lastAlerts[k]]
      /\ processed' = processed \cup {alert}
      /\ engine' = [pc |-> "round", rest |-> engine.rest, alerts |-> engine.alerts \ {alert}]
      /\ UNCHANGED <<clock, suppressed>>
      /\ engine.pc = "mail"
  BY DEF SendAlert, StoreAlert
<1>2. alert \in engine.alerts /\ ShouldAlert(alert)
  BY <1>1 DEF Inv, EngineInv
<1>3. PICK t \in 0 .. clock : \A a \in engine.alerts : a.at = t
  BY <1>2 DEF Inv, ClockInv
<1>4. /\ DOMAIN lastAlerts' = DOMAIN lastAlerts \cup {key}
      /\ lastAlerts'[key] = t
      /\ \A k \in DOMAIN lastAlerts \ {key} : lastAlerts'[k] = lastAlerts[k]
  <2>1. alert.at = t
    BY <1>2, <1>3
  <2> HIDE DEF key, alert
  <2> QED BY <1>1, <2>1
<1>5. ClockInv' /\ EngineInv'
  BY <1>1, <1>3 DEF Inv, ClockInv, EngineInv
<1>6. clock \in Nat /\ \A k \in DOMAIN lastAlerts : lastAlerts[k] \in Nat /\ lastAlerts[k] <= t
  BY <1>2, <1>3 DEF Inv, MemoryInv, ClockInv
<1> HIDE DEF key, alert
<1>7. alert.at = t /\ AlertKey(alert) = key
  BY <1>2, <1>3 DEF key
<1>8. MemoryInv'
  <2>1. ASSUME NEW p \in processed'
        PROVE  /\ p.at \in Nat
               /\ AlertKey(p) \in DOMAIN lastAlerts'
               /\ p.at <= lastAlerts'[AlertKey(p)]
    <3>1. CASE p = alert
      BY <3>1, <1>7, <1>4
    <3>2. CASE p \in processed
      <4>1. p.at \in Nat /\ AlertKey(p) \in DOMAIN lastAlerts /\ p.at <= lastAlerts[AlertKey(p)]
        BY <3>2 DEF Inv, MemoryInv
      <4> QED BY <4>1, <1>4, <1>6
    <3> QED BY <3>1, <3>2, <1>1
  <2>2. ASSUME NEW k \in DOMAIN lastAlerts'
        PROVE  /\ \E p \in processed' : AlertKey(p) = k /\ p.at = lastAlerts'[k]
               /\ lastAlerts'[k] <= clock'
               /\ \A a \in engine'.alerts : lastAlerts'[k] <= a.at
    <3>1. CASE k = key
      BY <3>1, <1>1, <1>3, <1>4, <1>6, <1>7
    <3>2. CASE k # key
      <4>1. k \in DOMAIN lastAlerts /\ lastAlerts'[k] = lastAlerts[k]
        BY <3>2, <1>4
      <4>2. \E p \in processed' : AlertKey(p) = k /\ p.at = lastAlerts'[k]
        BY <4>1, <1>1 DEF Inv, MemoryInv
      <4> QED BY <4>1, <4>2, <1>1, <1>3, <1>6
    <3> QED BY <3>1, <3>2
  <2> QED BY <2>1, <2>2 DEF MemoryInv, AlertKey
<1>9. \A p \in processed : AlertKey(p) = key => alert.at - p.at >= Window
  <2> SUFFICES ASSUME NEW p \in processed, AlertKey(p) = key
               PROVE  alert.at - p.at >= Window
    OBVIOUS
  <2>1. /\ p.at \in Nat /\ key \in DOMAIN lastAlerts /\ p.at <= lastAlerts[key]
    BY DEF Inv, MemoryInv
  <2>2. alert.at - lastAlerts[key] >= Window
    BY <2>1, <1>2, <1>7 DEF ShouldAlert
  <2> QED BY <2>1, <2>2, <1>6, <1>7, AlertAssumption
<1>10. FloodControl'
  <2>1. ASSUME NEW a \in processed', NEW b \in processed', a # b, AlertKey(a) = AlertKey(b)
        PROVE  a.at - b.at >= Window \/ b.at - a.at >= Window
    BY <2>1, <1>1, <1>7, <1>9 DEF Inv, FloodControl
  <2>2. ASSUME NEW s \in suppressed'
        PROVE  \E a \in processed' : AlertKey(a) = AlertKey(s) /\ s.at - a.at \in 0 .. Window - 1
    BY <1>1 DEF Inv, FloodControl
  <2> QED BY <2>1, <2>2 DEF FloodControl, AlertKey
<1> QED BY <1>5, <1>8, <1>10 DEF Inv

\* Every step keeps the invariant.
LEMMA NextInv == ASSUME Inv, [Next]_vars PROVE Inv'
<1>1. CASE Cancel \/ UpdatePrice \/ Writes \/ UNCHANGED vars
  <2>1. UNCHANGED <<clock, engine, lastAlerts, processed, suppressed>>
    BY <1>1 DEF Cancel, UpdatePrice, Writes, vars, engineVars
  <2> QED BY <2>1, OtherInv
<1> QED
  BY <1>1, TickInv, RoundInv, RunEvaluatorInv, SuppressInv, RecordAlertInv, SendAlertInv
     DEF Next, EngineStep

\* The invariant holds in every reachable state.
LEMMA InvHolds == Spec => []Inv
  BY InitInv, NextInv, PTL DEF Spec

\* However long mails take, whether or not they go out, and whatever order the
\* alerts of a round come in: two processed alerts of a key are a window apart,
\* and whatever was suppressed follows a processed one by less.
THEOREM FloodControlHolds == Spec => []FloodControl
<1>1. Inv => FloodControl
  BY DEF Inv
<1> QED BY <1>1, InvHolds, PTL

-------------------------------------------------------------------------------
(* The historians: what their readers give of any list of records *)

\* The values of a list of values in V are in V.
LEMMA ValuesTyped ==
    ASSUME NEW V, NEW s \in Seq(V)
    PROVE  ToSet(s) \subseteq V /\ ToSet(s) = Elements(s) /\ (s = <<>> <=> ToSet(s) = {})
  BY DEF ToSet, Elements

\* A record is kept under a time.
LEMMA StampTyped == ASSUME NEW r \in Records PROVE Stamp(r) \in Nat /\ r.price \in PriceValues
  BY HistoryAssumption DEF Stamp, Records

\* A value put in front of a list.
LEMMA ConsFacts ==
    ASSUME NEW V, NEW r \in V, NEW t \in Seq(V)
    PROVE  <<r>> \o t \in Seq(V) /\ <<r>> \o t # <<>> /\ (<<r>> \o t)[1] = r
<1> DEFINE u == <<r>> \o t
<1>1. u \in Seq(V) /\ Len(u) = Len(t) + 1 /\ u[1] = r
  OBVIOUS
<1>2. u # <<>>
  BY <1>1
<1> QED BY <1>1, <1>2

\* One turn of the loop of GetLatest.
LatestTurn(breed, result, r) ==
    IF r.price.breed = breed /\ Stamp(r) > (IF result = <<>> THEN 0 ELSE Stamp(result[1]))
    THEN <<r>> \o result ELSE result

\* The loop of GetLatest has turns up to the end of the history.
LEMMA LatestLoop ==
    ASSUME history \in Seq(Records), NEW breed
    PROVE  \E f : /\ f = [n \in 0 .. Len(history) |->
                            IF n = 0 THEN <<>> ELSE LatestTurn(breed, f[n - 1], history[n])]
                  /\ f \in [0 .. Len(history) -> Seq(Records)]
<1> DEFINE R == Seq(Records)
           N == Len(history)
           start == <<>>
           turn == [n \in 1 .. N |-> [result \in R |-> LatestTurn(breed, result, history[n])]]
<1>1. start \in R /\ N \in Nat
  OBVIOUS
<1>2. \A n \in 1 .. N, result \in R : LatestTurn(breed, result, history[n]) \in R
  <2>1. \A n \in 1 .. N : history[n] \in Records
    OBVIOUS
  <2>2. \A n \in 1 .. N, result \in R : <<history[n]>> \o result \in R
    BY <2>1, ConsFacts
  <2> HIDE DEF R, N
  <2> QED BY <2>2 DEF LatestTurn
<1> HIDE DEF R, N, start
<1>3. turn \in [1 .. N -> [R -> R]]
  BY <1>2
<1>4. \A n \in 1 .. N, result \in R : turn[n][result] = LatestTurn(breed, result, history[n])
  OBVIOUS
<1> HIDE DEF turn
<1>5. PICK f \in [0 .. N -> R] : f[0] = start /\ \A n \in 1 .. N : f[n] = turn[n][f[n - 1]]
  BY <1>1, <1>3, LoopExists
<1>6. ASSUME NEW n \in 0 .. N
      PROVE  f[n] = IF n = 0 THEN start ELSE LatestTurn(breed, f[n - 1], history[n])
  <2>1. CASE n = 0
    BY <1>5, <2>1
  <2>2. CASE n \in 1 .. N
    <3>1. n # 0 /\ f[n - 1] \in R
      BY <1>1, <2>2
    <3> QED BY <1>4, <1>5, <2>2, <3>1
  <2> QED BY <1>1, <2>1, <2>2
<1>7. f = [n \in 0 .. N |-> f[n]]
  OBVIOUS
<1>8. f = [n \in 0 .. N |-> IF n = 0 THEN start ELSE LatestTurn(breed, f[n - 1], history[n])]
  BY <1>6, <1>7
<1> QED BY <1>8 DEF R, N, start

\* The latest record of a breed is its newest, unless none of its records is dated.
LEMMA LatestIsNewest == ASSUME history \in Seq(Records) PROVE NewestFirst
<1> SUFFICES ASSUME NEW breed
             PROVE  LET dated == {r \in ToSet(history) : r.price.breed = breed /\ Stamp(r) > 0}
                        latest == GetLatest(breed, 1)
                    IN  /\ dated = {} <=> latest = <<>>
                        /\ dated # {} => /\ latest[1] \in dated
                                         /\ \A r \in dated : Stamp(r) <= Stamp(latest[1])
  BY DEF NewestFirst
<1> DEFINE f == CHOOSE g : g = [n \in 0 .. Len(history) |->
                                  IF n = 0 THEN <<>> ELSE LatestTurn(breed, g[n - 1], history[n])]
           result == f[Len(history)]
<1>1. GetLatest(breed, 1) = SubSeq(result, 1, IF Len(result) < 1 THEN Len(result) ELSE 1)
  BY DEF GetLatest, LatestTurn
<1>2. f = [n \in 0 .. Len(history) |-> IF n = 0 THEN <<>> ELSE LatestTurn(breed, f[n - 1], history[n])]
  <2>1. \E g : g = [n \in 0 .. Len(history) |->
                      IF n = 0 THEN <<>> ELSE LatestTurn(breed, g[n - 1], history[n])]
    BY LatestLoop
  <2> QED BY <2>1
<1> HIDE DEF f
<1> DEFINE Dated(n) == {r \in {history[i] : i \in 1 .. n} : r.price.breed = breed /\ Stamp(r) > 0}
           Good(n) == /\ f[n] \in Seq(Records)
                      /\ Dated(n) = {} <=> f[n] = <<>>
                      /\ Dated(n) # {} => /\ f[n][1] \in Dated(n)
                                          /\ \A r \in Dated(n) : Stamp(r) <= Stamp(f[n][1])
           P == {n \in Nat : n <= Len(history) => Good(n)}
<1>3. 0 \in P
  <2>1. f[0] = <<>> /\ Dated(0) = {}
    BY <1>2
  <2>2. <<>> \in Seq(Records)
    OBVIOUS
  <2> HIDE DEF Dated
  <2>3. Good(0)
    BY <2>1, <2>2
  <2> QED BY <2>3
<1>4. ASSUME NEW n \in P, n + 1 <= Len(history) PROVE Good(n + 1)
  <2> DEFINE t == f[n]
             r == history[n + 1]
  <2>1. Good(n) /\ n + 1 \in 1 .. Len(history) /\ r \in Records
    BY <1>4
  <2>2. f[n + 1] = LatestTurn(breed, t, r)
    BY <1>2, <2>1
  <2>3. Dated(n + 1) = Dated(n) \cup {q \in {r} : q.price.breed = breed /\ Stamp(q) > 0}
    <3>1. 1 .. n + 1 = (1 .. n) \cup {n + 1}
      BY <2>1
    <3> QED BY <3>1
  <2>4. \A q \in Dated(n) : Stamp(q) \in Nat
    <3>1. \A i \in 1 .. n : history[i] \in Records
      BY <2>1
    <3> QED BY <3>1, StampTyped
  <2>5. Stamp(r) \in Nat
    BY <2>1, StampTyped
  <2>6. t \in Seq(Records) /\ (Dated(n) = {} <=> t = <<>>)
        /\ (Dated(n) # {} => t[1] \in Dated(n) /\ \A q \in Dated(n) : Stamp(q) <= Stamp(t[1]))
    BY <2>1
  <2>7. <<r>> \o t \in Seq(Records) /\ <<r>> \o t # <<>> /\ (<<r>> \o t)[1] = r
    BY <2>1, <2>6, ConsFacts
  <2> DEFINE u == <<r>> \o t
             before == Dated(n)
             now == Dated(n + 1)
             next == f[n + 1]
  <2>8. /\ next = IF r.price.breed = breed /\ Stamp(r) > (IF t = <<>> THEN 0 ELSE Stamp(t[1])) THEN u ELSE t
        /\ now = before \cup {q \in {r} : q.price.breed = breed /\ Stamp(q) > 0}
    BY <2>2, <2>3 DEF LatestTurn
  <2> SUFFICES /\ next \in Seq(Records)
               /\ now = {} <=> next = <<>>
               /\ now # {} => /\ next[1] \in now
                              /\ \A q \in now : Stamp(q) <= Stamp(next[1])
    OBVIOUS
  <2> HIDE DEF t, r, u, before, now, next
  <2>9. /\ Stamp(r) \in Nat /\ \A q \in before : Stamp(q) \in Nat
        /\ t \in Seq(Records) /\ (before = {} <=> t = <<>>)
        /\ before # {} => t[1] \in before /\ \A q \in before : Stamp(q) <= Stamp(t[1])
        /\ u \in Seq(Records) /\ u # <<>> /\ u[1] = r
    BY <2>4, <2>5, <2>6, <2>7 DEF before, t, r, u
  <2>10. CASE next = u
    BY <2>8, <2>9, <2>10
  <2>11. CASE next # u
    BY <2>8, <2>9, <2>11
  <2> QED BY <2>10, <2>11
<1>5. P = Nat
  <2>1. ASSUME NEW n \in P PROVE n + 1 \in P
    <3> HIDE DEF Good
    <3> QED BY <1>4
  <2> HIDE DEF P
  <2>2. P \in SUBSET Nat
    BY DEF P
  <2> QED BY <1>3, <2>1, <2>2, NatSetInduction
<1>6. Good(Len(history))
  <2> HIDE DEF Good
  <2> QED BY <1>5
<1>7. Dated(Len(history)) = {r \in ToSet(history) : r.price.breed = breed /\ Stamp(r) > 0}
  BY DEF ToSet
<1>8. CASE result = <<>>
  <2>1. GetLatest(breed, 1) = <<>>
    BY <1>1, <1>8
  <2> QED BY <1>6, <1>7, <1>8, <2>1
<1>9. CASE result # <<>>
  <2>1. result \in Seq(Records) /\ Len(result) >= 1 /\ ~(Len(result) < 1)
    BY <1>6, <1>9
  <2>2. GetLatest(breed, 1) = SubSeq(result, 1, 1)
    BY <1>1, <2>1
  <2>3. GetLatest(breed, 1) # <<>> /\ GetLatest(breed, 1)[1] = result[1]
    BY <2>1, <2>2
  <2> QED BY <1>6, <1>7, <1>9, <2>3
<1> QED BY <1>8, <1>9

\* What a reader of a breed is given are records of the history.
LEMMA HistoryTyped ==
    ASSUME history \in Seq(Records), NEW cate, NEW breed
    PROVE  GetPriceHistory(cate, breed) \in Seq(Records)
  BY KeepFacts DEF GetPriceHistory

\* The price of a snapshot is one of those it takes the range of, which has ends.
LEMMA SnapshotsHaveRanges == ASSUME history \in Seq(Records) PROVE SnapshotsInRange
<1> SUFFICES ASSUME NEW p \in PriceValues, NEW s \in GetPriceSnapshot(p.cate, p.breed)
             PROVE  s.min <= s.current /\ s.current <= s.max
  BY DEF SnapshotsInRange
<1> DEFINE found == GetPriceHistory(p.cate, p.breed)
           vals == Values(found)
           least == CHOOSE v \in vals : \A u \in vals : v <= u
           greatest == CHOOSE v \in vals : \A u \in vals : u <= v
<1>1. PICK r \in ToSet(found) : s = [current |-> r.price.avg, min |-> least, max |-> greatest]
  BY DEF GetPriceSnapshot
<1>2. found \in Seq(Records)
  BY HistoryTyped
<1> HIDE DEF found
<1>3. r.price.avg \in vals
  BY <1>1 DEF Values
<1> DEFINE prices == [i \in 1 .. Len(found) |-> found[i].price.avg]
<1>4. prices \in Seq(Int) /\ Len(prices) = Len(found) /\ Elements(prices) = vals
  <2>1. \A i \in 1 .. Len(found) : found[i] \in Records
    BY <1>2
  <2>2. \A i \in 1 .. Len(found) : found[i].price.avg \in Int
    BY <2>1, HistoryAssumption DEF Records
  <2>3. DOMAIN found = 1 .. Len(found) /\ Len(found) \in Nat
    BY <1>2
  <2>4. prices \in Seq(Int) /\ DOMAIN prices = 1 .. Len(found) /\ Len(prices) = Len(found)
    BY <2>2, <2>3
  <2>5. \A i \in 1 .. Len(found) : prices[i] = found[i].price.avg
    OBVIOUS
  <2> HIDE DEF prices
  <2> QED BY <2>3, <2>4, <2>5 DEF Elements, Values, ToSet
<1>5. Len(found) > 0
  <2>1. found # <<>>
    BY <1>1, <1>2, ValuesTyped
  <2> QED BY <1>2, <2>1
<1> HIDE DEF prices
<1>6. /\ \E v \in vals : \A u \in vals : v <= u
      /\ \E v \in vals : \A u \in vals : u <= v
  BY <1>4, <1>5, Extremes
<1> HIDE DEF vals
<1>7. least <= r.price.avg /\ r.price.avg <= greatest
  BY <1>3, <1>6
<1> HIDE DEF least, greatest
<1> QED BY <1>1, <1>7

-------------------------------------------------------------------------------
(* The historians: what their writers leave *)

\* What a writer is about, with what it has read.
WriterTyped(writer) ==
    \/ writer \in {Waiting, Returned}
    \/ writer.pc = "begun" /\ writer.price \in PriceValues
    \/ writer.pc = "saving" /\ writer.seen \in Seq(Records) /\ writer.record \in Records
    \/ writer.pc = "clearing" /\ writer.seen \in Seq(Records)

\* The variables of the historian have their types; the mock's writers hold a lock.
HistorianInv ==
    /\ historian \in Historians /\ history \in Seq(Records)
    /\ saved \subseteq Records /\ overlapped \in BOOLEAN
    /\ DOMAIN writers = Writers /\ \A w \in Writers : WriterTyped(writers[w])
    /\ historian = "mock" => \A w \in Writers : ~Writing(w)

\* Unless two have overlapped, one writer at most is between its two steps, and
\* it has read the history as it is, or all of it that still survives.
QuietInv ==
    ~overlapped =>
        /\ NothingLost
        /\ \A v, w \in Writers : Writing(v) /\ Writing(w) => v = w
        /\ \A w \in Writers : writers[w].pc = "saving" => writers[w].seen = history
        /\ \A w \in Writers : writers[w].pc = "clearing" =>
             /\ ToSet(writers[w].seen) \subseteq ToSet(history)
             /\ \A r \in ToSet(history) : Survives(r) => r \in ToSet(writers[w].seen)

Done == {w \in Writers : writers[w].pc = "returned"}

\* Each record of the history, as of one that was read, has had its writer.
LengthInv ==
    /\ Len(history) <= Cardinality(Done)
    /\ \A w \in Writers : Writing(w) => Len(writers[w].seen) <= Cardinality(Done)

\* A writer that moves on leaves the others where they are.
LEMMA WriterMoves ==
    ASSUME HistorianInv, NEW w \in Writers, NEW state, Becomes(w, state)
    PROVE  /\ DOMAIN writers' = Writers /\ writers'[w] = state
           /\ \A v \in Writers \ {w} : writers'[v] = writers[v]
  BY DEF HistorianInv, Becomes

\* Types, when a writer moves on.
LEMMA MovesTyped ==
    ASSUME HistorianInv, NEW w \in Writers, NEW state, Becomes(w, state), WriterTyped(state),
           historian = "mock" => state.pc \notin {"saving", "clearing"},
           historian' = historian, history' \in Seq(Records), saved' \subseteq Records,
           overlapped' \in BOOLEAN
    PROVE  HistorianInv'
<1>1. /\ DOMAIN writers' = Writers /\ writers'[w] = state
      /\ \A v \in Writers \ {w} : writers'[v] = writers[v]
  BY WriterMoves
<1>2. \A v \in Writers : WriterTyped(writers'[v])
  <2>1. \A v \in Writers : WriterTyped(writers[v])
    BY DEF HistorianInv
  <2> QED BY <1>1, <2>1
<1>3. historian = "mock" => \A v \in Writers : ~Writing(v)'
  BY <1>1 DEF HistorianInv, Writing
<1> QED BY <1>1, <1>2, <1>3 DEF HistorianInv

\* A list has one writer more, at most one value more, when a writer is done.
LEMMA DoneGrows ==
    ASSUME HistorianInv, NEW w \in Writers, NEW state, Becomes(w, state),
           writers[w].pc # "returned"
    PROVE  /\ IsFiniteSet(Done) /\ Cardinality(Done) \in Nat
           /\ state.pc # "returned" => Cardinality(Done') = Cardinality(Done)
           /\ state.pc = "returned" => Cardinality(Done') = Cardinality(Done) + 1
<1>1. IsFiniteSet(Done) /\ Cardinality(Done) \in Nat
  BY HistoryAssumption, FS_Subset, FS_CardinalityType DEF Done
<1>2. /\ DOMAIN writers' = Writers /\ writers'[w] = state
      /\ \A v \in Writers \ {w} : writers'[v] = writers[v]
  BY WriterMoves
<1>3. ASSUME state.pc # "returned" PROVE Done' = Done
  BY <1>2, <1>3 DEF Done
<1>4. ASSUME state.pc = "returned" PROVE Done' = Done \cup {w} /\ w \notin Done
  BY <1>2, <1>4 DEF Done
<1>5. w \notin Done => Cardinality(Done \cup {w}) = Cardinality(Done) + 1
  BY <1>1, FS_AddElement
<1> QED BY <1>1, <1>3, <1>4, <1>5

HistoryInv == HistorianInv /\ QuietInv /\ LengthInv

\* A save that starts, and one that no historian takes, leaves the history alone.
LEMMA StartSaveKeeps ==
    ASSUME HistoryInv, NEW w \in Writers, NEW price \in PriceValues, StartSave(w, price), clock' = clock
    PROVE  HistoryInv'
<1> PICK state : /\ Becomes(w, state)
                 /\ state = Returned \/ state = [pc |-> "begun", price |-> price]
  BY DEF StartSave
<1>1. /\ WriterTyped(state) /\ state.pc \in {"returned", "begun"}
      /\ writers[w] = Waiting /\ UNCHANGED <<historian, history, saved, overlapped>>
  BY DEF WriterTyped, StartSave, Returned
<1>2. HistorianInv'
  BY <1>1, MovesTyped DEF HistoryInv, HistorianInv
<1>3. /\ DOMAIN writers' = Writers /\ writers'[w] = state
      /\ \A v \in Writers \ {w} : writers'[v] = writers[v]
  BY WriterMoves DEF HistoryInv
<1>4. \A v \in Writers : v # w \/ ~Writing(v)'
  BY <1>1, <1>3 DEF Writing
<1>5. QuietInv'
  <2>1. \A r : Survives(r)' <=> Survives(r)
    BY <1>1 DEF Survives, Recent, Stamp
  <2>2. \A v \in Writers : writers'[v].pc \in {"saving", "clearing"} => v # w /\ writers'[v] = writers[v]
    BY <1>1, <1>3
  <2> QED BY <1>1, <2>1, <2>2 DEF HistoryInv, QuietInv, Writing, NothingLost
<1>6. LengthInv'
  <2>1. writers[w].pc = "waiting"
    BY <1>1 DEF Waiting
  <2>2. Cardinality(Done) \in Nat /\ Cardinality(Done') \in Nat /\ Cardinality(Done) <= Cardinality(Done')
    BY <1>1, <2>1, DoneGrows DEF HistoryInv
  <2>3. Len(history) \in Nat
    BY DEF HistoryInv, HistorianInv
  <2>4. ASSUME NEW v \in Writers, Writing(v)'
        PROVE  Len(writers'[v].seen) <= Cardinality(Done')
    <3>1. v # w /\ writers'[v] = writers[v] /\ Writing(v)
      BY <1>1, <1>3, <2>4 DEF Writing
    <3>2. Len(writers[v].seen) \in Nat
      BY <3>1 DEF HistoryInv, HistorianInv, WriterTyped, Writing, Waiting, Returned
    <3> QED BY <2>2, <3>1, <3>2 DEF HistoryInv, LengthInv
  <2> QED BY <1>1, <2>2, <2>3, <2>4 DEF HistoryInv, LengthInv
<1> QED BY <1>2, <1>5, <1>6 DEF HistoryInv

\* The first step of a writer that has read what it should.
LEMMA ReadKeeps ==
    ASSUME HistoryInv, NEW w \in Writers, NEW state, Becomes(w, state),
           WriterTyped(state), state.pc \in {"saving", "clearing"}, state.seen \in Seq(Records),
           writers[w].pc \in {"waiting", "begun"}, historian # "mock", Overlaps(w),
           UNCHANGED <<clock, historian, history, saved>>,
           Len(state.seen) <= Len(history),
           state.pc = "saving" => state.seen = history,
           ToSet(state.seen) \subseteq ToSet(history),
           state.pc = "clearing" => \A r \in ToSet(history) : Survives(r) => r \in ToSet(state.seen)
    PROVE  HistoryInv'
<1>1. /\ DOMAIN writers' = Writers /\ writers'[w] = state
      /\ \A v \in Writers \ {w} : writers'[v] = writers[v]
  BY WriterMoves DEF HistoryInv
<1>2. overlapped' \in BOOLEAN /\ (~overlapped' => ~overlapped /\ \A v \in Writers \ {w} : ~Writing(v))
  BY DEF Overlaps, HistoryInv, HistorianInv
<1>3. HistorianInv'
  BY <1>2, MovesTyped DEF HistoryInv, HistorianInv
<1>4. QuietInv'
  <2> SUFFICES ASSUME ~overlapped' PROVE QuietInv'
    BY DEF QuietInv
  <2>1. \A r : Survives(r)' <=> Survives(r)
    BY DEF Survives, Recent, Stamp
  <2>2. \A v \in Writers : writers'[v].pc \in {"saving", "clearing"} => v = w
    BY <1>1, <1>2 DEF Writing
  <2>3. NothingLost'
    BY <1>2 DEF HistoryInv, QuietInv, NothingLost
  <2> QED BY <1>1, <2>1, <2>2, <2>3 DEF QuietInv, Writing
<1>5. LengthInv'
  <2>1. Cardinality(Done') = Cardinality(Done) /\ Cardinality(Done) \in Nat
    BY DoneGrows DEF HistoryInv
  <2>2. Len(history) \in Nat /\ Len(state.seen) \in Nat /\ Len(history) <= Cardinality(Done)
    BY DEF HistoryInv, HistorianInv, LengthInv
  <2>3. ASSUME NEW v \in Writers, Writing(v)'
        PROVE  Len(writers'[v].seen) <= Cardinality(Done')
    <3>1. CASE v = w
      BY <1>1, <2>1, <2>2, <3>1
    <3>2. CASE v # w
      <4>1. writers'[v] = writers[v] /\ Writing(v)
        BY <1>1, <2>3, <3>2 DEF Writing
      <4> QED BY <2>1, <4>1 DEF HistoryInv, LengthInv
    <3> QED BY <3>1, <3>2
  <2> QED BY <2>1, <2>2, <2>3 DEF LengthInv
<1> QED BY <1>3, <1>4, <1>5 DEF HistoryInv

\* The last step of a writer whose history is, unless it has met another, what
\* was saved.
LEMMA WriteKeeps ==
    ASSUME HistoryInv, NEW w \in Writers, Becomes(w, Returned), writers[w].pc # "returned",
           UNCHANGED <<clock, historian, overlapped>>,
           history' \in Seq(Records), saved' \subseteq Records,
           Len(history') <= Cardinality(Done) + 1,
           ~overlapped => ToSet(history') = saved' /\ \A v \in Writers \ {w} : ~Writing(v)
    PROVE  HistoryInv'
<1>1. /\ DOMAIN writers' = Writers /\ writers'[w] = Returned /\ Returned.pc = "returned"
      /\ \A v \in Writers \ {w} : writers'[v] = writers[v]
  BY WriterMoves DEF HistoryInv, Returned
<1>2. HistorianInv'
  BY <1>1, MovesTyped DEF HistoryInv, HistorianInv, WriterTyped
<1>3. QuietInv'
  <2> SUFFICES ASSUME ~overlapped' PROVE QuietInv'
    BY DEF QuietInv
  <2>1. \A v \in Writers : writers'[v].pc \notin {"saving", "clearing"}
    BY <1>1 DEF Writing
  <2> QED BY <2>1 DEF QuietInv, Writing, NothingLost
<1>4. LengthInv'
  <2>1. Cardinality(Done') = Cardinality(Done) + 1 /\ Cardinality(Done) \in Nat
    BY <1>1, DoneGrows DEF HistoryInv
  <2>2. ASSUME NEW v \in Writers, Writing(v)'
        PROVE  Len(writers'[v].seen) <= Cardinality(Done')
    <3>1. v # w /\ writers'[v] = writers[v] /\ Writing(v)
      BY <1>1, <2>2 DEF Writing
    <3>2. Len(writers[v].seen) \in Nat
      BY <3>1 DEF HistoryInv, HistorianInv, WriterTyped, Writing, Waiting, Returned
    <3>3. Len(writers[v].seen) <= Cardinality(Done)
      BY <3>1 DEF HistoryInv, LengthInv
    <3> QED BY <2>1, <3>1, <3>2, <3>3
  <2>3. Len(history') \in Nat
    OBVIOUS
  <2> QED BY <2>1, <2>2, <2>3 DEF LengthInv
<1> QED BY <1>2, <1>3, <1>4 DEF HistoryInv

\* A list with one value more.
LEMMA AppendFacts ==
    ASSUME NEW V, NEW s \in Seq(V), NEW v \in V
    PROVE  /\ Append(s, v) \in Seq(V) /\ Len(Append(s, v)) = Len(s) + 1 /\ Len(s) \in Nat
           /\ ToSet(Append(s, v)) = ToSet(s) \cup {v}
<1> DEFINE u == Append(s, v)
<1>1. /\ u \in Seq(V) /\ Len(u) = Len(s) + 1 /\ Len(s) \in Nat
      /\ DOMAIN u = 1 .. Len(s) + 1 /\ DOMAIN s = 1 .. Len(s)
      /\ u[Len(s) + 1] = v /\ \A i \in 1 .. Len(s) : u[i] = s[i]
  OBVIOUS
<1> HIDE DEF u
<1>2. 1 .. Len(s) + 1 = (1 .. Len(s)) \cup {Len(s) + 1}
  BY <1>1
<1>3. ToSet(u) = ToSet(s) \cup {v}
  BY <1>1, <1>2 DEF ToSet
<1> QED BY <1>1, <1>3 DEF u

\* A record of a save: its price and the time.
LEMMA RecordTyped ==
    ASSUME clock \in Nat, NEW price \in PriceValues
    PROVE  [price |-> price, at |-> clock] \in Records
  BY DEF Records

\* Every step of a writer keeps the invariant.
LEMMA WriterKeeps ==
    ASSUME HistoryInv, clock \in Nat, NEW w \in Writers, WriterStep(w), clock' = clock
    PROVE  HistoryInv'
<1>0. /\ history \in Seq(Records) /\ saved \subseteq Records /\ WriterTyped(writers[w])
      /\ Len(history) \in Nat /\ Len(history) <= Cardinality(Done) /\ Cardinality(Done) \in Nat
  <2>1. IsFiniteSet(Done) /\ Cardinality(Done) \in Nat
    BY HistoryAssumption, FS_Subset, FS_CardinalityType DEF Done
  <2> QED BY <2>1 DEF HistoryInv, HistorianInv, LengthInv
<1>1. CASE SaveReads(w)
  <2> DEFINE record == [price |-> writers[w].price, at |-> clock]
             state == [pc |-> "saving", seen |-> history, record |-> record]
  <2>1. writers[w].price \in PriceValues
    BY <1>0, <1>1 DEF SaveReads, WriterTyped, Waiting, Returned
  <2>2. record \in Records
    BY <2>1, RecordTyped
  <2> HIDE DEF record
  <2>3. state.pc = "saving" /\ state.seen = history /\ state.record = record
    OBVIOUS
  <2>4. Becomes(w, state)
    BY <1>1 DEF SaveReads, record
  <2> HIDE DEF state
  <2>5. WriterTyped(state)
    BY <1>0, <2>2, <2>3 DEF WriterTyped
  <2> QED BY <1>0, <1>1, <2>3, <2>4, <2>5, ReadKeeps DEF SaveReads
<1>2. CASE SaveWrites(w)
  <2>1. PICK v \in Writers : /\ writers[v].pc = "saving" /\ writers[v].seen = writers[w].seen
                             /\ history' = Append(writers[w].seen, writers[v].record)
    BY <1>2 DEF SaveWrites
  <2>2. writers[w].pc = "saving"
    BY <1>2 DEF SaveWrites
  <2>3. writers[w].seen \in Seq(Records) /\ writers[w].record \in Records /\ writers[v].record \in Records
    BY <2>1, <2>2 DEF HistoryInv, HistorianInv, WriterTyped, Waiting, Returned
  <2>4. saved' = saved \cup {writers[w].record}
    BY <1>2 DEF SaveWrites
  <2>5. /\ history' \in Seq(Records) /\ Len(history') = Len(writers[w].seen) + 1
        /\ Len(writers[w].seen) \in Nat
        /\ ToSet(history') = ToSet(writers[w].seen) \cup {writers[v].record}
    BY <2>1, <2>3, AppendFacts
  <2>6. Len(writers[w].seen) <= Cardinality(Done)
    BY <2>2 DEF HistoryInv, LengthInv, Writing
  <2>7. ASSUME ~overlapped
        PROVE  ToSet(history') = saved' /\ \A u \in Writers \ {w} : ~Writing(u)
    <3>1. v = w /\ writers[w].seen = history /\ \A u \in Writers \ {w} : ~Writing(u)
      BY <2>1, <2>2, <2>7 DEF HistoryInv, QuietInv, Writing
    <3>2. ToSet(history) = saved
      BY <2>7 DEF HistoryInv, QuietInv, NothingLost
    <3> QED BY <2>4, <2>5, <3>1, <3>2
  <2>8. Becomes(w, Returned) /\ UNCHANGED <<historian, overlapped>>
    BY <1>2 DEF SaveWrites
  <2>9. saved' \subseteq Records /\ Len(history') <= Cardinality(Done) + 1
    BY <1>0, <2>3, <2>4, <2>5, <2>6
  <2> QED BY <2>2, <2>5, <2>7, <2>8, <2>9, WriteKeeps
<1>3. CASE SaveLocked(w)
  <2> DEFINE record == [price |-> writers[w].price, at |-> clock]
  <2>1. writers[w].price \in PriceValues
    BY <1>0, <1>3 DEF SaveLocked, WriterTyped, Waiting, Returned
  <2>2. record \in Records
    BY <2>1, RecordTyped
  <2>3. /\ history' = Append(history, record) /\ saved' = saved \cup {record}
        /\ Becomes(w, Returned) /\ UNCHANGED <<historian, overlapped>>
        /\ writers[w].pc = "begun" /\ historian = "mock"
    BY <1>3 DEF SaveLocked
  <2> HIDE DEF record
  <2>4. /\ history' \in Seq(Records) /\ Len(history') = Len(history) + 1
        /\ ToSet(history') = ToSet(history) \cup {record}
    BY <1>0, <2>2, <2>3, AppendFacts
  <2>5. saved' \subseteq Records /\ Len(history') <= Cardinality(Done) + 1
    BY <1>0, <2>2, <2>3, <2>4
  <2>6. ASSUME ~overlapped
        PROVE  ToSet(history') = saved' /\ \A u \in Writers \ {w} : ~Writing(u)
    BY <2>3, <2>4, <2>6 DEF HistoryInv, HistorianInv, QuietInv, NothingLost
  <2> QED BY <2>3, <2>4, <2>5, <2>6, WriteKeeps
<1>4. CASE ClearReads(w)
  <2> DEFINE kept == Keep(history, {r \in ToSet(history) : Survives(r)})
             state == [pc |-> "clearing", seen |-> kept]
  <2>1. /\ kept \in Seq(Records) /\ Len(kept) <= Len(history)
        /\ Elements(kept) = Elements(history) \cap {r \in ToSet(history) : Survives(r)}
    BY <1>0, KeepFacts
  <2>2. Becomes(w, state)
    BY <1>4 DEF ClearReads
  <2> HIDE DEF kept
  <2>3. ToSet(kept) = {r \in ToSet(history) : Survives(r)}
    BY <1>0, <2>1, ValuesTyped
  <2>4. state.pc = "clearing" /\ state.seen = kept
    OBVIOUS
  <2> HIDE DEF state
  <2>5. WriterTyped(state)
    BY <2>1, <2>4 DEF WriterTyped
  <2>6. writers[w].pc = "waiting"
    BY <1>4 DEF ClearReads, Waiting
  <2>7. historian # "mock" /\ Overlaps(w) /\ UNCHANGED <<historian, history, saved>>
    BY <1>4 DEF ClearReads
  <2>8. ToSet(state.seen) \subseteq ToSet(history) /\ \A r \in ToSet(history) : Survives(r) => r \in ToSet(state.seen)
    BY <2>3, <2>4
  <2> QED BY <2>1, <2>2, <2>4, <2>5, <2>6, <2>7, <2>8, ReadKeeps
<1>5. CASE ClearWrites(w)
  <2>1. /\ writers[w].pc = "clearing" /\ history' = writers[w].seen
        /\ saved' = {r \in saved : r \in ToSet(writers[w].seen) \/ Survives(r)}
        /\ Becomes(w, Returned) /\ UNCHANGED <<historian, overlapped>>
    BY <1>5 DEF ClearWrites
  <2>2. history' \in Seq(Records)
    BY <1>0, <2>1 DEF WriterTyped, Waiting, Returned
  <2>3. Len(history') <= Cardinality(Done) + 1
    <3>1. Len(writers[w].seen) <= Cardinality(Done) /\ Len(writers[w].seen) \in Nat
      BY <2>1, <2>2 DEF HistoryInv, LengthInv, Writing
    <3> QED BY <1>0, <2>1, <3>1
  <2>4. ASSUME ~overlapped
        PROVE  ToSet(history') = saved' /\ \A u \in Writers \ {w} : ~Writing(u)
    BY <2>1, <2>4 DEF HistoryInv, QuietInv, Writing, NothingLost
  <2>5. saved' \subseteq Records
    BY <1>0, <2>1
  <2> QED BY <2>1, <2>2, <2>3, <2>4, <2>5, WriteKeeps
<1>6. CASE ClearLocked(w)
  <2>1. /\ writers[w].pc = "waiting" /\ historian = "mock"
        /\ history' = <<>> /\ saved' = {}
        /\ Becomes(w, Returned) /\ UNCHANGED <<historian, overlapped>>
    BY <1>6 DEF ClearLocked, Waiting
  <2>2. history' \in Seq(Records) /\ Len(history') = 0 /\ ToSet(history') = {}
    BY <2>1 DEF ToSet
  <2>3. Len(history') <= Cardinality(Done) + 1
    BY <1>0, <2>2
  <2>4. \A u \in Writers : ~Writing(u)
    BY <2>1 DEF HistoryInv, HistorianInv
  <2> QED BY <2>1, <2>2, <2>3, <2>4, WriteKeeps
<1> QED BY <1>1, <1>2, <1>3, <1>4, <1>5, <1>6 DEF WriterStep

\* Time only makes more of the history old.
LEMMA TickKeeps == ASSUME HistoryInv, clock \in Nat, Tick PROVE HistoryInv'
<1>1. clock' = clock + 1 /\ UNCHANGED <<historian, history, writers, saved, overlapped>>
  BY DEF Tick, historyVars
<1>2. HistorianInv' /\ LengthInv'
  BY <1>1 DEF HistoryInv, HistorianInv, LengthInv, Writing, Done
<1>3. ASSUME NEW r \in Records, Survives(r)' PROVE Survives(r)
  <2>1. Stamp(r)' = Stamp(r) /\ Stamp(r) \in Nat
    BY <1>1, StampTyped DEF Stamp
  <2> QED BY <1>1, <1>3, <2>1, HistoryAssumption DEF Survives, Recent
<1>4. ToSet(history) \subseteq Records
  BY ValuesTyped DEF HistoryInv, HistorianInv
<1>5. QuietInv'
  BY <1>1, <1>3, <1>4 DEF HistoryInv, QuietInv, NothingLost, Writing
<1> QED BY <1>2, <1>5 DEF HistoryInv

\* Steps of the engine leave the historian alone.
LEMMA UntouchedKeeps == ASSUME HistoryInv, UNCHANGED <<clock, historyVars>> PROVE HistoryInv'
<1>1. UNCHANGED <<clock, historian, history, writers, saved, overlapped>>
  BY DEF historyVars
<1>2. HistorianInv' /\ LengthInv'
  BY <1>1 DEF HistoryInv, HistorianInv, LengthInv, Writing, Done
<1>3. QuietInv'
  BY <1>1 DEF HistoryInv, QuietInv, NothingLost, Writing, Survives, Recent, Stamp
<1> QED BY <1>2, <1>3 DEF HistoryInv

\* Every step keeps what writers leave.
LEMMA NextKeeps == ASSUME Inv, HistoryInv, [Next]_vars PROVE HistoryInv'
<1>0. clock \in Nat
  BY DEF Inv, ClockInv
<1>1. CASE Tick
  BY <1>0, <1>1, TickKeeps
<1>2. CASE UpdatePrice
  <2>1. PICK w \in Writers, price \in PriceValues : StartSave(w, price)
    BY <1>2 DEF UpdatePrice
  <2> QED BY <1>2, <2>1, StartSaveKeeps DEF UpdatePrice
<1>3. CASE Writes
  <2>1. PICK w \in Writers : WriterStep(w)
    BY <1>3 DEF Writes
  <2> QED BY <1>0, <1>3, <2>1, WriterKeeps DEF Writes
<1>4. CASE Cancel \/ EngineStep \/ UNCHANGED vars
  <2>1. UNCHANGED <<clock, historyVars>>
    BY <1>4 DEF Cancel, EngineStep, Stop, StartRound, RunEvaluator, EndRound, Suppress, RecordAlert,
                SendAlert, vars
  <2> QED BY <2>1, UntouchedKeeps
<1> QED BY <1>1, <1>2, <1>3, <1>4 DEF Next

\* No writer has begun, and nothing is saved.
LEMMA InitKeeps == Init => HistoryInv
<1> SUFFICES ASSUME Init PROVE HistoryInv
  OBVIOUS
<1>1. /\ historian \in Historians /\ history = <<>> /\ writers = [w \in Writers |-> Waiting]
      /\ saved = {} /\ overlapped = FALSE
  BY DEF Init, HistoryInit
<1>2. history \in Seq(Records) /\ Len(history) = 0 /\ ToSet(history) = {}
  BY <1>1 DEF ToSet
<1>3. \A w \in Writers : writers[w] = Waiting /\ ~Writing(w)
  BY <1>1 DEF Writing, Waiting
<1>4. Cardinality(Done) \in Nat
  BY HistoryAssumption, FS_Subset, FS_CardinalityType DEF Done
<1>5. HistorianInv
  BY <1>1, <1>2, <1>3 DEF HistorianInv, WriterTyped
<1>6. QuietInv
  BY <1>1, <1>2, <1>3 DEF QuietInv, NothingLost, Writing
<1>7. LengthInv
  BY <1>2, <1>3, <1>4 DEF LengthInv
<1> QED BY <1>5, <1>6, <1>7 DEF HistoryInv

\* The invariant of the historian holds in every reachable state.
LEMMA HistoryHolds == Spec => [](Inv /\ HistoryInv)
<1>1. Inv /\ HistoryInv /\ [Next]_vars => (Inv /\ HistoryInv)'
  BY NextInv, NextKeeps
<1> QED BY InitInv, InitKeeps, <1>1, PTL DEF Spec

\* Unless two writers have overlapped, the history is what was saved and not
\* cleared, for any number of goroutines that save and clear; and of any history, the
\* first of the latest is the newest and the snapshot's price is in its range.
THEOREM HistoryServesSavesHolds == Spec => []HistoryServesSaves
<1>1. HistoryInv => HistoryServesSaves
  <2> SUFFICES ASSUME HistoryInv PROVE HistoryServesSaves
    OBVIOUS
  <2>1. history \in Seq(Records)
    BY DEF HistoryInv, HistorianInv
  <2>2. NothingLost
    BY DEF HistoryInv, QuietInv, NothingLost
  <2> QED BY <2>1, <2>2, LatestIsNewest, SnapshotsHaveRanges DEF HistoryServesSaves
<1> QED BY <1>1, HistoryHolds, PTL

-------------------------------------------------------------------------------
(* The types of the engine *)

\* The keys of the alerts a round has found.
AlertsInv ==
    /\ \A a \in engine.alerts : AlertKey(a) \in Keys
    /\ DOMAIN lastAlerts \subseteq Keys
    /\ engine.pc \in {"round", "mail"} => Len(engine.rest) <= Len(Evaluators)

\* Alerts are counted when they go out, before they count as processed.
MetricsInv ==
    /\ {"evaluations", "alerts", "price"} \subseteq DOMAIN metrics
    /\ metrics.evaluations \in Nat
    /\ \A l \in DOMAIN metrics.price : \E p \in PriceValues : l = Labels(p) /\ metrics.price[l] \in Int
    /\ IsFiniteSet(processed)
    /\ metrics.alerts = Cardinality(processed) + (IF engine.pc = "mail" THEN 1 ELSE 0)
    /\ IsFiniteSet(mailed) /\ Cardinality(mailed) <= Cardinality(processed)
    /\ cancelled \in BOOLEAN /\ ticked \in BOOLEAN

Typed == AlertsInv /\ MetricsInv

\* The last price of a key is one of the prices.
LEMMA LastIsQuoted ==
    ASSUME NEW prices, prices \in Seq(ToSet(prices)), NEW key \in KeysOf(prices)
    PROVE  LastOf(prices, key) \in ToSet(prices)
<1> DEFINE V == ToSet(prices)
           group == Group(prices, key)
<1>1. group \in Seq(V) /\ Elements(group) = Elements(prices) \cap {p \in V : PriceKey(p) = key}
  <2> DEFINE S == {p \in V : PriceKey(p) = key}
  <2>1. prices \in Seq(V) /\ group = Keep(prices, S)
    BY DEF Group
  <2> HIDE DEF V, S, group
  <2> QED BY <2>1, KeepFacts DEF S
<1>2. \E p \in V : PriceKey(p) = key
  BY DEF KeysOf
<1>3. Elements(prices) = V
  BY DEF Elements, ToSet
<1> HIDE DEF V, group
<1>4. Elements(group) # {}
  BY <1>1, <1>2, <1>3
<1>5. Len(group) \in DOMAIN group
  BY <1>1, <1>4 DEF Elements
<1>6. group[Len(group)] \in V
  BY <1>1, <1>5
<1> QED BY <1>6 DEF LastOf, group, V

\* Types, and products and regions of prices, make keys.
LEMMA KeyTyped ==
    ASSUME NEW t \in {"price_spike", "price_drop", "high_volatility", "missing_data"},
           NEW p \in {""} \cup {q.breed : q \in Quotes}, NEW r \in {""} \cup {q.region : q \in Quotes}
    PROVE  <<t, p, r>> \in Keys
<1> DEFINE T == {"price_spike", "price_drop", "high_volatility", "missing_data"}
           P == {""} \cup {q.breed : q \in Quotes}
           R == {""} \cup {q.region : q \in Quotes}
<1>1. Keys = T \X P \X R
  BY DEF Keys
<1> HIDE DEF T, P, R
<1>2. t \in T /\ p \in P /\ r \in R
  BY DEF T, P, R
<1> QED BY <1>1, <1>2

\* What an evaluator finds is of the prices that it is given.
LEMMA AlertsHaveKeys ==
    ASSUME NEW name \in EvaluatorNames, NEW feed \in Feeds \cup {NoFeed}, NEW at,
           NEW a \in Evaluate(name, feed.prices, feed.history, at)
    PROVE  AlertKey(a) \in Keys
<1>1. CASE name = "price_change"
  <2>1. a \in PriceChange(feed.prices, feed.history, at)
    BY <1>1 DEF Evaluate
  <2>2. PICK key \in KeysOf(feed.prices) :
          LET new == LastOf(feed.prices, key)
          IN  /\ a = Alert(ChangeType(LastOf(feed.history, key).avg, new.avg),
                           new.breed, new.region, new.cate, key, at)
              /\ a.type # "none"
    BY <2>1 DEF PriceChange
  <2> DEFINE new == LastOf(feed.prices, key)
             type == ChangeType(LastOf(feed.history, key).avg, new.avg)
  <2>3. feed \in Feeds
    BY <2>2 DEF NoFeed, KeysOf, ToSet
  <2>4. new \in Quotes
    <3>1. feed.prices \in Seq(ToSet(feed.prices))
      BY <2>3, AlertAssumption
    <3> QED BY <2>2, <2>3, <3>1, LastIsQuoted DEF Quotes
  <2>5. type \in {"price_drop", "price_spike", "none"}
    BY DEF ChangeType
  <2>6. a = Alert(type, new.breed, new.region, new.cate, key, at) /\ a.type # "none"
    BY <2>2
  <2> HIDE DEF new, type
  <2>7. a.type = type /\ a.product = new.breed /\ a.region = new.region
    BY <2>6 DEF Alert
  <2>8. /\ a.type \in {"price_spike", "price_drop", "high_volatility", "missing_data"}
        /\ a.product \in {""} \cup {q.breed : q \in Quotes}
        /\ a.region \in {""} \cup {q.region : q \in Quotes}
    BY <2>4, <2>5, <2>6, <2>7
  <2> QED BY <2>8, KeyTyped DEF AlertKey
<1>2. CASE name = "volatility"
  <2>1. a \in Volatility(feed.history, at)
    BY <1>2 DEF Evaluate
  <2>2. PICK key : a = Alert("high_volatility", "", "", "", key, at)
    BY <2>1 DEF Volatility
  <2>3. a.type = "high_volatility" /\ a.product = "" /\ a.region = ""
    BY <2>2 DEF Alert
  <2>4. <<a.type, a.product, a.region>> \in Keys
    BY <2>3, KeyTyped
  <2> QED BY <2>4 DEF AlertKey
<1>3. CASE name = "missing_data"
  BY <1>3 DEF Evaluate, MissingData
<1> QED BY <1>1, <1>2, <1>3 DEF EvaluatorNames

\* The keys of what the engine remembers and is about are those of its prices.
LEMMA AlertsTyped == ASSUME Inv, AlertsInv, [Next]_vars PROVE AlertsInv'
<1>0. Keys' = Keys /\ \A a : AlertKey(a)' = AlertKey(a)
  BY DEF Keys, Quotes, AlertKey
<1>1. CASE UNCHANGED <<engine, lastAlerts>>
  BY <1>1 DEF AlertsInv, AlertKey
<1>2. CASE Stop \/ StartRound \/ EndRound
  <2>1. /\ engine'.pc \in {"select", "round", "stopped"}
        /\ engine'.alerts = {} \/ engine'.alerts = engine.alerts
        /\ engine'.pc = "round" => engine'.rest = Evaluators
        /\ lastAlerts' = lastAlerts
    BY <1>2 DEF Stop, StartRound, EndRound, Selecting, Inv, EngineInv
  <2>2. Len(Evaluators) <= Len(Evaluators)
    BY DEF Evaluators
  <2> QED BY <2>1, <2>2 DEF AlertsInv, AlertKey
<1>3. CASE RunEvaluator
  <2>1. PICK feed \in Feeds \cup {NoFeed} :
          engine' = [engine EXCEPT !.rest = Tail(@),
                       !.alerts = Evaluate(Head(engine.rest), feed.prices, feed.history, clock)]
    BY <1>3 DEF RunEvaluator
  <2> DEFINE raised == Evaluate(Head(engine.rest), feed.prices, feed.history, clock)
  <2>2. engine.rest \in Seq(EvaluatorNames) /\ engine.rest # <<>> /\ engine.pc = "round"
    BY <1>3 DEF RunEvaluator, Inv, EngineInv
  <2>3. Head(engine.rest) \in EvaluatorNames /\ Len(Tail(engine.rest)) = Len(engine.rest) - 1
        /\ Len(engine.rest) \in Nat
    BY <2>2
  <2>4. \A a \in raised : AlertKey(a) \in Keys
    BY <2>3, AlertsHaveKeys
  <2> HIDE DEF raised
  <2>5. engine'.pc = "round" /\ engine'.alerts = raised /\ engine'.rest = Tail(engine.rest)
    BY <2>1, <2>2 DEF raised, Inv, EngineInv
  <2>6. lastAlerts' = lastAlerts /\ Len(Evaluators) \in Nat
    BY <1>3 DEF RunEvaluator, Evaluators
  <2>7. Len(engine'.rest) <= Len(Evaluators)
    BY <2>2, <2>3, <2>5, <2>6 DEF AlertsInv
  <2> QED BY <2>4, <2>5, <2>6, <2>7 DEF AlertsInv, AlertKey
<1>4. CASE Suppress \/ RecordAlert
  <2>1. /\ engine'.alerts \subseteq engine.alerts /\ engine'.rest = engine.rest
        /\ engine.pc = "round" /\ lastAlerts' = lastAlerts
    BY <1>4 DEF Suppress, RecordAlert, Inv, EngineInv
  <2> QED BY <2>1 DEF AlertsInv, AlertKey
<1>5. CASE SendAlert
  <2>1. /\ engine.pc = "mail" /\ engine.alert \in engine.alerts
        /\ engine' = [pc |-> "round", rest |-> engine.rest, alerts |-> engine.alerts \ {engine.alert}]
        /\ DOMAIN lastAlerts' = DOMAIN lastAlerts \cup {AlertKey(engine.alert)}
    BY <1>5 DEF SendAlert, StoreAlert, Inv, EngineInv
  <2> QED BY <2>1 DEF AlertsInv, AlertKey
<1> QED
  BY <1>1, <1>2, <1>3, <1>4, <1>5
     DEF Next, EngineStep, Tick, Cancel, UpdatePrice, Writes, vars, engineVars

\* The alert that goes out is not one of those processed: these are a window, which
\* is not empty, away.
LEMMA AlertIsNew == ASSUME Inv, engine.pc = "mail" PROVE engine.alert \notin processed
<1> SUFFICES ASSUME engine.alert \in processed PROVE FALSE
  OBVIOUS
<1> DEFINE key == AlertKey(engine.alert)
<1>1. /\ engine.alert.at \in Nat /\ key \in DOMAIN lastAlerts
      /\ engine.alert.at <= lastAlerts[key]
  BY DEF Inv, MemoryInv
<1>2. lastAlerts[key] \in Nat
  BY <1>1 DEF Inv, MemoryInv
<1>3. engine.alert.at - lastAlerts[key] >= Window
  BY <1>1 DEF Inv, EngineInv, ShouldAlert
<1> HIDE DEF key
<1> QED BY <1>1, <1>2, <1>3, AlertAssumption

\* The counters count what goes out, once.
LEMMA MetricsTyped == ASSUME Inv, MetricsInv, [Next]_vars PROVE MetricsInv'
<1>0. /\ {"evaluations", "alerts", "price"} \subseteq DOMAIN metrics /\ metrics.evaluations \in Nat
      /\ IsFiniteSet(processed) /\ Cardinality(processed) \in Nat
      /\ IsFiniteSet(mailed) /\ Cardinality(mailed) \in Nat
      /\ {"pc", "rest", "alerts"} \subseteq DOMAIN engine
  BY FS_CardinalityType DEF MetricsInv, Inv, EngineInv
<1>1. CASE Tick \/ Cancel \/ Stop \/ EndRound \/ Writes \/ Suppress \/ UNCHANGED vars
  <2>1. UNCHANGED <<metrics, processed, mailed>> /\ cancelled' \in BOOLEAN /\ ticked' \in BOOLEAN
    BY <1>1 DEF Tick, Cancel, Stop, EndRound, Writes, Suppress, vars, engineVars, MetricsInv, Enabled
  <2>2. engine'.pc = "mail" <=> engine.pc = "mail"
    BY <1>0, <1>1
       DEF Tick, Cancel, Stop, EndRound, Writes, Suppress, vars, engineVars, Selecting
  <2> QED BY <2>1, <2>2 DEF MetricsInv, Labels
<1>2. CASE StartRound \/ RunEvaluator
  <2>1. /\ metrics' = [metrics EXCEPT !.evaluations = @ + 1]
        /\ UNCHANGED <<processed, mailed, cancelled>> /\ ticked' \in BOOLEAN
        /\ engine.pc # "mail"
    BY <1>0, <1>2 DEF StartRound, RunEvaluator, CountEvaluation, MetricsInv
  <2>3. engine'.pc = "round"
    <3>1. CASE StartRound
      BY <3>1 DEF StartRound
    <3>2. CASE RunEvaluator
      <4>1. PICK feed :
              engine' = [engine EXCEPT !.rest = Tail(@),
                           !.alerts = Evaluate(Head(engine.rest), feed.prices, feed.history, clock)]
        BY <3>2 DEF RunEvaluator
      <4>2. engine.pc = "round"
        BY <3>2 DEF RunEvaluator
      <4> QED BY <1>0, <4>1, <4>2
    <3> QED BY <1>2, <3>1, <3>2
  <2>2. /\ DOMAIN metrics' = DOMAIN metrics /\ metrics'.evaluations \in Nat
        /\ metrics'.alerts = metrics.alerts /\ metrics'.price = metrics.price
    BY <1>0, <2>1
  <2> QED BY <2>1, <2>2, <2>3 DEF MetricsInv, Labels
<1>3. CASE RecordAlert
  <2>1. /\ metrics' = [metrics EXCEPT !.alerts = @ + 1]
        /\ UNCHANGED <<processed, mailed, cancelled, ticked>>
        /\ engine.pc # "mail" /\ engine'.pc = "mail"
    BY <1>3 DEF RecordAlert, CountAlert
  <2>2. /\ DOMAIN metrics' = DOMAIN metrics /\ metrics'.evaluations = metrics.evaluations
        /\ metrics'.alerts = metrics.alerts + 1 /\ metrics'.price = metrics.price
    BY <1>0, <2>1
  <2>3. metrics'.alerts = Cardinality(processed') + 1
    BY <1>0, <2>1, <2>2 DEF MetricsInv
  <2> QED BY <2>1, <2>2, <2>3 DEF MetricsInv, Labels
<1>4. CASE SendAlert
  <2>1. /\ UNCHANGED <<metrics, cancelled, ticked>> /\ engine.pc = "mail" /\ engine'.pc = "round"
        /\ processed' = processed \cup {engine.alert}
        /\ mailed' = mailed \/ mailed' = mailed \cup {MailOf(engine.alert)}
    BY <1>4 DEF SendAlert, SendMail
  <2>2. IsFiniteSet(processed') /\ Cardinality(processed') = Cardinality(processed) + 1
    BY <1>0, <2>1, AlertIsNew, FS_AddElement
  <2>3. IsFiniteSet(mailed') /\ Cardinality(mailed') <= Cardinality(mailed) + 1
    <3> DEFINE mail == MailOf(engine.alert)
    <3> HIDE DEF mail
    <3>1. /\ IsFiniteSet(mailed \cup {mail})
          /\ Cardinality(mailed \cup {mail}) =
               IF mail \in mailed THEN Cardinality(mailed) ELSE Cardinality(mailed) + 1
      BY <1>0, FS_AddElement
    <3>2. mailed' = mailed \/ mailed' = mailed \cup {mail}
      BY <2>1 DEF mail
    <3>3. CASE mailed' = mailed
      BY <1>0, <3>3
    <3>4. CASE mailed' = mailed \cup {mail}
      BY <1>0, <3>1, <3>4
    <3> QED BY <3>2, <3>3, <3>4
  <2>4. Cardinality(mailed') <= Cardinality(processed')
    <3>1. Cardinality(mailed') \in Nat
      BY <2>3, FS_CardinalityType
    <3> QED BY <1>0, <2>2, <2>3, <3>1 DEF MetricsInv
  <2> QED BY <1>0, <2>1, <2>2, <2>3, <2>4 DEF MetricsInv, Labels
<1>5. CASE UpdatePrice
  <2>1. PICK price \in PriceValues : RecordPrice(price)
    BY <1>5 DEF UpdatePrice
  <2>2. UNCHANGED <<processed, mailed, cancelled, ticked, engine>>
    BY <1>5 DEF UpdatePrice
  <2> DEFINE gauge == [l \in DOMAIN metrics.price \cup {Labels(price)} |->
                         IF l = Labels(price) THEN price.avg ELSE metrics.price[l]]
  <2>3. \A l \in DOMAIN gauge : \E p \in PriceValues : l = Labels(p) /\ gauge[l] \in Int
    BY <2>1, HistoryAssumption DEF MetricsInv
  <2>4. metrics' = [metrics EXCEPT !.price = gauge]
    BY <2>1 DEF RecordPrice
  <2> HIDE DEF gauge
  <2>5. /\ DOMAIN metrics' = DOMAIN metrics /\ metrics'.evaluations = metrics.evaluations
        /\ metrics'.alerts = metrics.alerts /\ metrics'.price = gauge
    BY <1>0, <2>4
  <2> QED BY <2>2, <2>3, <2>5 DEF MetricsInv, Labels
<1> QED BY <1>1, <1>2, <1>3, <1>4, <1>5 DEF Next, EngineStep

\* Nothing is counted, remembered or found yet.
LEMMA InitTyped == Init => Typed
<1> SUFFICES ASSUME Init PROVE Typed
  OBVIOUS
<1>1. /\ engine.alerts = {} /\ engine.pc \in {"off", "select"}
      /\ lastAlerts = <<>> /\ processed = {} /\ mailed = {}
      /\ cancelled = FALSE /\ ticked = FALSE
  BY DEF Init, Selecting
<1>2. DOMAIN lastAlerts = {}
  BY <1>1
<1>3. AlertsInv
  BY <1>1, <1>2 DEF AlertsInv
<1>4. /\ {"evaluations", "alerts", "price"} \subseteq DOMAIN metrics
      /\ metrics.evaluations = 0 /\ metrics.alerts = 0 /\ DOMAIN metrics.price = {}
  BY DEF Init, NoMetrics
<1>5. IsFiniteSet({}) /\ Cardinality({}) = 0
  BY FS_EmptySet
<1>6. MetricsInv
  <2>1. IsFiniteSet(processed) /\ IsFiniteSet(mailed) /\ Cardinality(processed) = 0 /\ Cardinality(mailed) = 0
    BY <1>1, <1>5
  <2>2. metrics.alerts = Cardinality(processed) + (IF engine.pc = "mail" THEN 1 ELSE 0)
    BY <1>1, <1>4, <2>1
  <2>3. Cardinality(mailed) <= Cardinality(processed) /\ metrics.evaluations \in Nat
    BY <1>4, <2>1
  <2>4. \A l \in DOMAIN metrics.price : \E p \in PriceValues : l = Labels(p) /\ metrics.price[l] \in Int
    BY <1>4
  <2>5. cancelled \in BOOLEAN /\ ticked \in BOOLEAN
    BY <1>1
  <2> QED BY <1>4, <2>1, <2>2, <2>3, <2>4, <2>5 DEF MetricsInv
<1> QED BY <1>3, <1>6 DEF Typed

\* All of the invariants hold in every reachable state.
LEMMA TypedHolds == Spec => [](Inv /\ HistoryInv /\ Typed)
<1>1. Inv /\ HistoryInv /\ Typed /\ [Next]_vars => (Inv /\ HistoryInv /\ Typed)'
  BY NextInv, NextKeeps, AlertsTyped, MetricsTyped DEF Typed
<1> QED BY InitInv, InitKeeps, InitTyped, <1>1, PTL DEF Spec

\* The variables hold values of their types, what is counted has been done, and each
\* record of the history has had its writer.
THEOREM TypeCorrect == Spec => []TypeOK
<1>1. Inv /\ HistoryInv /\ Typed => TypeOK
  <2> SUFFICES ASSUME Inv, HistoryInv, Typed PROVE TypeOK
    OBVIOUS
  <2>1. /\ ToSet(history) \subseteq Records /\ Len(history) \in Nat
    BY ValuesTyped DEF HistoryInv, HistorianInv
  <2>2. Len(history) <= Cardinality(Writers)
    <3>1. /\ Cardinality(Done) <= Cardinality(Writers)
          /\ Cardinality(Done) \in Nat /\ Cardinality(Writers) \in Nat
      BY HistoryAssumption, FS_Subset, FS_CardinalityType DEF Done
    <3>2. Len(history) <= Cardinality(Done)
      BY DEF HistoryInv, LengthInv
    <3> QED BY <2>1, <3>1, <3>2
  <2>3. ASSUME NEW w \in Writers
        PROVE  \/ writers[w] \in {Waiting, Returned}
               \/ writers[w].pc = "begun" /\ writers[w].price \in PriceValues
               \/ writers[w].pc \in {"saving", "clearing"} /\ ToSet(writers[w].seen) \subseteq Records
    <3>1. WriterTyped(writers[w])
      BY DEF HistoryInv, HistorianInv
    <3> QED BY <3>1, ValuesTyped DEF WriterTyped
  <2>4. HistoryTypeOK
    BY <2>1, <2>2, <2>3 DEF HistoryTypeOK, HistoryInv, HistorianInv
  <2>5. \A k \in DOMAIN lastAlerts : lastAlerts[k] \in 0 .. clock
    BY DEF Inv, MemoryInv, ClockInv
  <2>6. engine.pc = "mail" => engine.alerts # {} /\ engine.alert \in engine.alerts
    BY DEF Inv, EngineInv
  <2>7. Cardinality(mailed) <= metrics.alerts
    <3>1. Cardinality(mailed) \in Nat /\ Cardinality(processed) \in Nat
      BY FS_CardinalityType DEF Typed, MetricsInv
    <3> QED BY <3>1 DEF Typed, MetricsInv
  <2> QED
    BY <2>4, <2>5, <2>6, <2>7
       DEF TypeOK, Inv, ClockInv, EngineInv, Typed, AlertsInv, MetricsInv
<1> QED BY <1>1, TypedHolds, PTL
===============================================================================
