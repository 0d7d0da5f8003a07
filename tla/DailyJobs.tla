------------------------------ MODULE DailyJobs ------------------------------
(***************************************************************************)
(* What the jobs of initCronTask (internal/craw/cron.go) share: the clock, *)
(* the context that shutdown cancels and each run bounds by JobTimeout,    *)
(* and the table of prices (internal/craw/store/mysql/hnprice.go).         *)
(***************************************************************************)
EXTENDS Naturals, FiniteSets

CONSTANTS
    DayLength,    \* steps of the clock in a day
    JobTimeout,   \* 10 minutes in steps of the clock
    Items,        \* bound: the numbers of the upstream's records of a date
    CityOf,       \* the city each record's address begins with
    PriceLimit    \* 10: the most rows a List returns

ASSUME JobsAssumption ==
    DayLength \in Nat \ {0} /\ JobTimeout \in Nat /\ Items \subseteq Nat \ {0}

VARIABLES
    now,          \* the clock
    up,           \* the process runs
    cancelled,    \* the shutdown callback has cancelled the jobs' context
    prices        \* table price: rows of one crawl, inserted on one day

clock == <<now, up, cancelled>>

Day(t) == t \div DayLength

Rows == [crawl : Nat, item : Items, day : Nat]

\* The context of a run that ends at a deadline.
Done(deadline) == cancelled \/ now >= deadline

\* parsePriceItems: a row for every record; it is dated when it is inserted.
RowsOf(crawl, items) == {[crawl |-> crawl, item |-> i, day |-> Day(now)] : i \in items}

\* Save inserts what it is given; no key keeps the same record from a second row.
SavePrices(crawl, items) == prices' = prices \cup RowsOf(crawl, items)

\* The answers List may give for a day and a city: rows of one second have no order.
ListPrices(day, city) ==
    LET found == {row \in prices : row.day = day /\ CityOf[row.item] = city}
    IN  {s \in SUBSET found : Cardinality(s) = IF Cardinality(found) < PriceLimit
                                               THEN Cardinality(found) ELSE PriceLimit}
==============================================================================
