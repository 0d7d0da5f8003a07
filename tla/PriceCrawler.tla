---------------------------- MODULE PriceCrawler -----------------------------
(***************************************************************************)
(* internal/craw/crawler: one crawl pages through the upstream's records   *)
(* of a date and saves each page.                                          *)
(***************************************************************************)
EXTENDS DailyJobs

CONSTANTS
    CrawlTimes,   \* when the schedule fires
    PageSize,     \* 15: records of a page
    PauseEvery, PauseAt, Pause,  \* 51, 50 and five minutes
    Totals        \* how many records the upstream may have of a date

ASSUME CrawlerAssumption ==
    /\ CrawlTimes \subseteq Nat /\ Totals \subseteq Nat
    /\ PageSize \in Nat \ {0} /\ PauseEvery \in Nat \ {0}
    /\ PauseAt \in Nat /\ Pause \in Nat

VARIABLE crawls   \* the crawl begun at each time of the schedule

NotBegun == [pc |-> "none"]

CrawlOver == {"succeeded", "failed"}

CrawlTypeOK ==
    \A t \in CrawlTimes :
        \/ crawls[t] = NotBegun
        \/ /\ crawls[t].pc \in {"fetch", "save"} \cup CrawlOver
           /\ crawls[t].page \in Nat \ {0} /\ crawls[t].until \in Nat
           /\ crawls[t].pc \in {"fetch", "save"} => crawls[t].page <= crawls[t].pages
           /\ crawls[t].list \subseteq Items /\ crawls[t].total \in Totals \cup {0}
           /\ crawls[t].missed \subseteq 1 .. crawls[t].page /\ crawls[t].late \in Nat

\* (Fault: the last page that is not full is not counted.)
Pages_Bug(total) == total \div PageSize

\* The pages that hold so many records, and the records of one.
Pages(total) == total \div PageSize + (IF total % PageSize = 0 THEN 0 ELSE 1)

PageOf(item) == (item - 1) \div PageSize + 1

PageItems(page, total) == {i \in Items : i <= total /\ PageOf(i) = page}

\* Before a page the crawl sleeps, now and then for long and whatever its context says.
SleepUntil(page) == IF page % PauseEvery = PauseAt THEN now + Pause ELSE now

\* The last two fields are history: the pages that came to nothing, and how
\* many have been stored past the deadline.
BeginCrawl(t) ==
    /\ crawls[t] = NotBegun
    /\ crawls' = [crawls EXCEPT ![t] =
         [pc |-> "fetch", page |-> 1, pages |-> 1, until |-> SleepUntil(1), deadline |-> t + JobTimeout,
          list |-> {}, total |-> 0, missed |-> {}, late |-> 0]]

Crawling(t, pc) == up /\ crawls[t].pc = pc

\* (Fault: the page is tried again.)
NextPage_Bug(c) ==
    IF c.missed # {} THEN [c EXCEPT !.pc = "fetch", !.until = SleepUntil(c.page)]
    ELSE IF c.page + 1 > c.pages THEN [c EXCEPT !.pc = "succeeded", !.until = 0]
    ELSE [c EXCEPT !.pc = "fetch", !.page = c.page + 1, !.until = SleepUntil(c.page + 1)]

\* The head of the loop: the crawl at its next page, or at its end.
NextPage(c) ==
    IF c.page + 1 > c.pages THEN [c EXCEPT !.pc = "succeeded", !.until = 0]
    ELSE [c EXCEPT !.pc = "fetch", !.page = c.page + 1, !.until = SleepUntil(c.page + 1)]

\* The sleep is over, and the request for the page under way.
Fetching(t) == Crawling(t, "fetch") /\ now >= crawls[t].until

\* (Fault: the request is sent without the context.)
Fetches_Bug(t) ==
    /\ Fetching(t)
    /\ \E total \in IF crawls[t].page = 1 THEN Totals ELSE {crawls[t].total} :
        crawls' = [crawls EXCEPT ![t].pc = "save", ![t].until = 0,
                                 ![t].total = total, ![t].list = PageItems(crawls[t].page, total)]
    /\ UNCHANGED <<clock, prices>>

\* fetchPage brings a page with the number of the date's records.
Fetches(t) ==
    /\ Fetching(t) /\ ~Done(crawls[t].deadline)
    /\ \E total \in IF crawls[t].page = 1 THEN Totals ELSE {crawls[t].total} :
        crawls' = [crawls EXCEPT ![t].pc = "save", ![t].until = 0,
                                 ![t].total = total, ![t].list = PageItems(crawls[t].page, total)]
    /\ UNCHANGED <<clock, prices>>

\* An answer that only its code says is an error decodes to a page without records.
FetchesNothing(t) ==
    /\ Fetching(t) /\ ~Done(crawls[t].deadline)
    /\ crawls' = [crawls EXCEPT ![t].pc = "save", ![t].until = 0, ![t].list = {},
                                ![t].missed = @ \cup {crawls[t].page}]
    /\ UNCHANGED <<clock, prices>>

\* A page that cannot be fetched, past the deadline any page, is skipped.
FetchFails(t) ==
    /\ Fetching(t)
    /\ crawls' = [crawls EXCEPT ![t] = NextPage([crawls[t] EXCEPT !.missed = @ \cup {crawls[t].page}])]
    /\ UNCHANGED <<clock, prices>>

\* saveData, without the context; the first page says how many there are.
Saves(t) ==
    /\ Crawling(t, "save")
    /\ SavePrices(t, crawls[t].list)
    /\ LET c == [crawls[t] EXCEPT !.list = {},
                   !.late = IF crawls[t].list # {} /\ Done(crawls[t].deadline) THEN @ + 1 ELSE @]
       IN  crawls' = [crawls EXCEPT ![t] =
              NextPage(IF c.page = 1 THEN [c EXCEPT !.pages = Pages(c.total)] ELSE c)]
    /\ UNCHANGED clock

\* The crawl gives up with the pages before stored.
SaveFails(t) ==
    /\ Crawling(t, "save") /\ crawls[t].list # {}
    /\ crawls' = [crawls EXCEPT ![t].pc = "failed", ![t].list = {}, ![t].total = 0, ![t].missed = {}]
    /\ UNCHANGED <<clock, prices>>

CrawlStep(t) ==
    \/ Fetches(t) \/ FetchesNothing(t) \/ FetchFails(t) \/ Saves(t) \/ SaveFails(t)
==============================================================================
