------------------------------ MODULE DailyCron ------------------------------
(***************************************************************************)
(* initCronTask (internal/craw/cron.go): the schedule that begins the      *)
(* crawls and the sends, the shutdown that cancels their context, and the  *)
(* exit of the process, which waits for none of them.                      *)
(***************************************************************************)
EXTENDS PriceCrawler, PriceSend

CONSTANTS
    MaxTime       \* bound: where the clock stops, but for a crawl's pause

VARIABLE scheduling   \* the schedule is running

vars == <<clock, prices, crawls, sends, mails, scheduling>>

\* The variables have their types; a run's page and recipient are ones it has left.
TypeOK ==
    /\ now \in Nat /\ {up, cancelled, scheduling} \subseteq BOOLEAN
    /\ prices \subseteq Rows
    /\ CrawlTypeOK /\ SendTypeOK

Init ==
    /\ now = 0 /\ up = TRUE /\ cancelled = FALSE
    /\ prices = {}
    /\ crawls = [t \in CrawlTimes |-> NotBegun]
    /\ sends = [t \in SendTimes |-> NotSent] /\ mails = {}
    /\ scheduling = TRUE

-------------------------------------------------------------------------------
Fires == up /\ scheduling

\* Each run has a goroutine of its own, whether or not the one before is over.
FireCrawl ==
    /\ Fires /\ now \in CrawlTimes /\ BeginCrawl(now)
    /\ UNCHANGED <<clock, prices, sends, mails, scheduling>>

FireSend ==
    /\ Fires /\ now \in SendTimes /\ BeginSend(now)
    /\ UNCHANGED <<clock, prices, crawls, mails, scheduling>>

AllFired ==
    /\ now \in CrawlTimes => crawls[now] # NotBegun
    /\ now \in SendTimes => sends[now] # NotSent

Tick ==
    /\ up
    /\ scheduling => AllFired
    /\ now < MaxTime \/ \E t \in CrawlTimes : Crawling(t, "fetch") /\ crawls[t].until > now
    /\ now' = now + 1
    /\ UNCHANGED <<up, cancelled, prices, crawls, sends, mails, scheduling>>

\* The shutdown callback; the goroutine of the schedule then stops it.
Cancel ==
    /\ up /\ ~cancelled
    /\ cancelled' = TRUE
    /\ UNCHANGED <<now, up, prices, crawls, sends, mails, scheduling>>

StopScheduling ==
    /\ up /\ cancelled /\ scheduling
    /\ scheduling' = FALSE
    /\ UNCHANGED <<clock, prices, crawls, sends, mails>>

Loses ==
    /\ crawls' = [t \in CrawlTimes |-> NotBegun]
    /\ sends' = [t \in SendTimes |-> NotSent]
    /\ UNCHANGED <<now, prices, mails>>

\* The process exits once its servers are down, and loses the runs under way.
Exit ==
    /\ up /\ cancelled
    /\ up' = FALSE /\ scheduling' = FALSE /\ Loses /\ UNCHANGED cancelled

\* Nothing recovers a panic of a run: it ends the process.
Panic ==
    /\ \E t \in SendTimes : EmptyPanics(t)
    /\ scheduling' = FALSE /\ Loses /\ UNCHANGED cancelled

Next ==
    \/ FireCrawl \/ FireSend \/ Tick \/ Cancel \/ StopScheduling \/ Exit \/ Panic
    \/ \E t \in CrawlTimes : CrawlStep(t) /\ UNCHANGED <<sends, mails, scheduling>>
    \/ \E t \in SendTimes : SendStep(t) /\ UNCHANGED <<crawls, scheduling>>

\* Time passes, and the runs go on: the upstream is bounded by a client timeout,
\* the model by the context; the database and SMTP are taken to answer.
Spec ==
    /\ Init /\ [][Next]_vars
    /\ WF_vars(Tick) /\ WF_vars(FireCrawl) /\ WF_vars(FireSend)
    /\ \A t \in CrawlTimes : WF_vars(CrawlStep(t) /\ UNCHANGED <<sends, mails, scheduling>>)
    /\ \A t \in SendTimes : WF_vars(SendStep(t) /\ UNCHANGED <<crawls, scheduling>>)

-------------------------------------------------------------------------------
(* What is promised *)

Stored(t) == {row.item : row \in {r \in prices : r.crawl = t}}

\* A crawl that reports success (price_crawler.go:82) has stored each record of
\* the date, but for those of pages it could not get; the first page lost, it
\* knows of no other.
NothingMissedButFailures ==
    \A t \in CrawlTimes : crawls[t].pc = "succeeded" =>
        \/ 1 \in crawls[t].missed
        \/ \A i \in Items : i <= crawls[t].total =>
            i \in Stored(t) \/ PageOf(i) \in crawls[t].missed

\* Past its ten minutes, or once shutdown has begun, a crawl stores at most the
\* one page it had already fetched (cron.go:91): Save does not look at the
\* context, and the loop does not end.
StopsStoringAtDeadline ==
    \A t \in CrawlTimes : crawls[t] # NotBegun => crawls[t].late <= 1

\* A send that reports success (price_send.go:91) has mailed every subscriber
\* that was listed, each one mail.
SuccessfulSendReachedAll ==
    \A t \in SendTimes : sends[t].pc = "succeeded" =>
        \A r \in sends[t].listed : Cardinality({m \in mails : m.send = t /\ m.to = r}) = 1

\* A mailed recipe was made for its recipient, whatever the attempts before left
\* behind (recipe.go:64), from prices of the recipient's own city that a crawl
\* stored the day before, however crawls and sends overlap; and only a recipient
\* without such prices is told that there are none.
RecipesAreTheirs ==
    \A m \in mails :
        /\ m.kind = "recipe" => m.of = m.to
        /\ m.kind = "empty" <=> m.priced = {}
        /\ \A row \in m.priced :
            /\ CityOf[row.item] = HomeOf[m.to]
            /\ row.day = Day(m.send) - 1 /\ Day(row.crawl) < Day(m.send)

\* Every run that has begun comes to an end while the process runs, however the
\* upstream, the model and the mail server fail, and without regard to deadlines.
JobsEnd ==
    /\ \A t \in CrawlTimes : crawls[t] # NotBegun ~> ~up \/ crawls[t].pc \in CrawlOver
    /\ \A t \in SendTimes : sends[t] # NotSent ~> ~up \/ sends[t].pc \in SendOver
==============================================================================
