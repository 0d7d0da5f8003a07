----------------------------- MODULE AlertEngine -----------------------------
(***************************************************************************)
(* The alert engine (internal/pkg/alert/alert.go, server.go), its flood    *)
(* control, its mails (notifications) and its counters (metrics).          *)
(*                                                                         *)
(* As shipped evaluators are given no prices (alert.go:102) and find no    *)
(* history, so that no alert is ever raised; other Feeds are for engines   *)
(* whose evaluators get theirs.  Evaluators and historian do not meet, so  *)
(* the runs have either feeds or a historian.                              *)
(***************************************************************************)
EXTENDS AlertRules, PriceHistory

CONSTANTS
    Feeds,         \* what an evaluation may see without a historian: [prices, history]
    Interval,      \* EvaluationInterval
    Window,        \* 5 minutes: how long an alert silences others of its key
    Recipients,    \* does the configuration name whom to mail?
    MaxTime        \* bound: the clock

ASSUME AlertAssumption ==
    /\ Interval \in Nat \ {0} /\ Window \in Nat \ {0} /\ Recipients \in BOOLEAN
    /\ \A feed \in Feeds : feed.prices \in Seq(ToSet(feed.prices)) /\ feed.history \in Seq(ToSet(feed.history))

VARIABLES
    cancelled,     \* the engine's context
    ticked,        \* the ticker's channel holds a tick
    engine,        \* where the engine is, and what is left of its round
    lastAlerts,    \* when an alert of a key was last processed, if one was
    metrics,       \* the counters and the gauge of prices
    processed,     \* history: the alerts processed
    suppressed,    \* history: the alerts suppressed
    mailed         \* the mails handed to the SMTP server

engineVars == <<engine, lastAlerts, metrics, processed, suppressed, mailed>>
vars == <<clock, cancelled, ticked, engineVars, historyVars>>

\* The prices that an evaluation may see.
Quotes == UNION {ToSet(feed.prices) : feed \in Feeds}

Keys == {"price_spike", "price_drop", "high_volatility", "missing_data"}
          \X ({""} \cup {q.breed : q \in Quotes}) \X ({""} \cup {q.region : q \in Quotes})

\* What tells the gauges of prices apart.
Labels(price) == <<price.cate, price.breed, price.region>>

Selecting == [pc |-> "select", rest |-> <<>>, alerts |-> {}]

\* NewCollector: nothing is counted yet.
NoMetrics == [evaluations |-> 0, alerts |-> 0, price |-> <<>>]

\* The variables have their types, and what is counted has been done.
TypeOK ==
    /\ HistoryTypeOK
    /\ clock \in Nat /\ cancelled \in BOOLEAN /\ ticked \in BOOLEAN
    /\ engine.pc \in {"off", "select", "round", "mail", "stopped"}
    /\ engine.pc = "mail" => engine.alerts # {} /\ engine.alert \in engine.alerts
    /\ engine.pc = "round" => Len(engine.rest) <= Len(Evaluators)
    /\ DOMAIN lastAlerts \subseteq Keys /\ \A k \in DOMAIN lastAlerts : lastAlerts[k] \in 0 .. clock
    /\ metrics.alerts = Cardinality(processed) + (IF engine.pc = "mail" THEN 1 ELSE 0)
    /\ metrics.evaluations \in Nat
    /\ \A l \in DOMAIN metrics.price : \E p \in PriceValues : l = Labels(p) /\ metrics.price[l] \in Int
    /\ Cardinality(mailed) <= metrics.alerts

\* initAlertServer: only an engine that is enabled runs.
Init ==
    /\ clock = 1 /\ cancelled = FALSE /\ ticked = FALSE
    /\ engine \in {Selecting, [Selecting EXCEPT !.pc = "off"]}
    /\ lastAlerts = <<>>
    /\ metrics = NoMetrics
    /\ processed = {} /\ suppressed = {} /\ mailed = {}
    /\ HistoryInit

-------------------------------------------------------------------------------
Enabled == engine.pc # "off"

CountEvaluation ==
    metrics' = [metrics EXCEPT !.evaluations = @ + 1]
CountAlert ==
    metrics' = [metrics EXCEPT !.alerts = @ + 1]

\* The ticker; a tick that is not taken is all there is room for.
Tick ==
    /\ clock < MaxTime
    /\ clock' = clock + 1
    /\ ticked' = (ticked \/ (Enabled /\ clock' % Interval = 0))
    /\ UNCHANGED <<cancelled, engineVars, historyVars>>

\* The server's context never ends; a caller of the engine may end its own.
Cancel ==
    /\ ~cancelled /\ cancelled' = TRUE
    /\ UNCHANGED <<clock, ticked, engineVars, historyVars>>

\* Run: of two channels that are ready the select takes either.
Stop ==
    /\ engine.pc = "select" /\ cancelled
    /\ engine' = [engine EXCEPT !.pc = "stopped"]
    /\ UNCHANGED <<clock, cancelled, ticked, lastAlerts, metrics, processed, suppressed, mailed,
                   historyVars>>

\* evaluateCycle counts the round, and then each evaluator again.
StartRound ==
    /\ engine.pc = "select" /\ ticked
    /\ ticked' = FALSE
    /\ engine' = [pc |-> "round", rest |-> Evaluators, alerts |-> {}]
    /\ CountEvaluation
    /\ UNCHANGED <<clock, cancelled, lastAlerts, processed, suppressed, mailed, historyVars>>

NoFeed == [prices |-> <<>>, history |-> <<>>]

RunEvaluator ==
    /\ engine.pc = "round" /\ engine.alerts = {} /\ engine.rest # <<>>
    /\ \E feed \in IF historian = "none" THEN Feeds ELSE {NoFeed} :
        engine' = [engine EXCEPT !.rest = Tail(@),
                     !.alerts = Evaluate(Head(engine.rest), feed.prices, feed.history, clock)]
    /\ CountEvaluation
    /\ UNCHANGED <<clock, cancelled, ticked, lastAlerts, processed, suppressed, mailed, historyVars>>

EndRound ==
    /\ engine.pc = "round" /\ engine.alerts = {} /\ engine.rest = <<>>
    /\ engine' = Selecting
    /\ UNCHANGED <<clock, cancelled, ticked, lastAlerts, metrics, processed, suppressed, mailed,
                   historyVars>>

AlertKey(alert) == <<alert.type, alert.product, alert.region>>

ShouldAlert(alert) ==
    AlertKey(alert) \in DOMAIN lastAlerts => alert.at - lastAlerts[AlertKey(alert)] >= Window

\* (Fault: what is suppressed is counted too.)
Suppress_Bug ==
    /\ engine.pc = "round"
    /\ \E alert \in engine.alerts :
        /\ ~ShouldAlert(alert)
        /\ engine' = [engine EXCEPT !.alerts = @ \ {alert}]
        /\ suppressed' = suppressed \cup {alert}
    /\ CountAlert
    /\ UNCHANGED <<clock, cancelled, ticked, lastAlerts, processed, mailed, historyVars>>

\* processAlert, for the alerts of a map in any order.
Suppress ==
    /\ engine.pc = "round"
    /\ \E alert \in engine.alerts :
        /\ ~ShouldAlert(alert)
        /\ engine' = [engine EXCEPT !.alerts = @ \ {alert}]
        /\ suppressed' = suppressed \cup {alert}
    /\ UNCHANGED <<clock, cancelled, ticked, lastAlerts, metrics, processed, mailed, historyVars>>

RecordAlert ==
    /\ engine.pc = "round"
    /\ \E alert \in engine.alerts :
        /\ ShouldAlert(alert)
        /\ engine' = [pc |-> "mail", rest |-> engine.rest, alerts |-> engine.alerts, alert |-> alert]
    /\ CountAlert
    /\ UNCHANGED <<clock, cancelled, ticked, lastAlerts, processed, suppressed, mailed, historyVars>>

\* The mail says what the alert says, and nothing of the group it is about.
MailOf(alert) ==
    [type |-> alert.type, severity |-> alert.severity, product |-> alert.product,
     region |-> alert.region, category |-> alert.category, at |-> alert.at]

\* sendMail: one mail to all who are named.
SendMail(mail) == mailed' = mailed \cup {mail}

\* The time of an alert is remembered for its key.
StoreAlert(alert) ==
    lastAlerts' = [k \in DOMAIN lastAlerts \cup {AlertKey(alert)} |->
                     IF k = AlertKey(alert) THEN alert.at ELSE lastAlerts[k]]

\* (Fault: an alert that could not be mailed may be raised again.)
SendAlert_Bug ==
    /\ engine.pc = "mail"
    /\ \/ /\ mailed' = mailed \cup {MailOf(engine.alert)}
          /\ StoreAlert(engine.alert)
       \/ UNCHANGED <<mailed, lastAlerts>>
    /\ processed' = processed \cup {engine.alert}
    /\ engine' = [pc |-> "round", rest |-> engine.rest, alerts |-> engine.alerts \ {engine.alert}]
    /\ UNCHANGED <<clock, cancelled, ticked, metrics, suppressed, historyVars>>

\* SendAlert returns, with an error or without; the alert counts as processed.
SendAlert ==
    /\ engine.pc = "mail"
    /\ (Recipients /\ SendMail(MailOf(engine.alert))) \/ UNCHANGED mailed
    /\ StoreAlert(engine.alert)
    /\ processed' = processed \cup {engine.alert}
    /\ engine' = [pc |-> "round", rest |-> engine.rest, alerts |-> engine.alerts \ {engine.alert}]
    /\ UNCHANGED <<clock, cancelled, ticked, metrics, suppressed, historyVars>>

\* The gauge of its labels shows the price.
RecordPrice(price) ==
    metrics' = [metrics EXCEPT !.price =
                  [l \in DOMAIN metrics.price \cup {Labels(price)} |->
                     IF l = Labels(price) THEN price.avg ELSE metrics.price[l]]]

\* UpdatePrice sets the gauge and leaves the saving to a goroutine.
UpdatePrice ==
    /\ Enabled
    /\ \E w \in Writers, price \in PriceValues :
        /\ StartSave(w, price)
        /\ RecordPrice(price)
    /\ UNCHANGED <<clock, cancelled, ticked, engine, lastAlerts, processed, suppressed, mailed>>

Writes ==
    /\ \E w \in Writers : WriterStep(w)
    /\ UNCHANGED <<clock, cancelled, ticked, engineVars>>

EngineStep == Stop \/ StartRound \/ RunEvaluator \/ EndRound \/ Suppress \/ RecordAlert \/ SendAlert

Next == Tick \/ Cancel \/ EngineStep \/ UpdatePrice \/ Writes

Spec == Init /\ [][Next]_vars /\ WF_vars(EngineStep)

-------------------------------------------------------------------------------
(* What is promised *)

\* An alert is processed exactly when none of its key was within the window
\* before (alert.go:152), however long mails take and whether or not they go
\* out: two processed alerts of a key are a window apart, and whatever was
\* suppressed follows one that was processed by less.
FloodControl ==
    /\ \A a, b \in processed :
        a # b /\ AlertKey(a) = AlertKey(b) => a.at - b.at >= Window \/ b.at - a.at >= Window
    /\ \A s \in suppressed : \E a \in processed :
        AlertKey(a) = AlertKey(s) /\ s.at - a.at \in 0 .. Window - 1
==============================================================================
