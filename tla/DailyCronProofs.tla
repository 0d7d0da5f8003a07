--------------------------- MODULE DailyCronProofs ---------------------------
(***************************************************************************)
(* Proofs about the crawls and the sends of the daily schedule, for every  *)
(* schedule, page size, length of the day, number of records and set of    *)
(* subscribers.                                                            *)
(***************************************************************************)
EXTENDS DailyCron, FiniteSetTheorems, TLAPS

\* A quotient, its rest, and the order of quotients.
LEMMA DivRest ==
    ASSUME NEW d \in Nat \ {0}, NEW a \in Nat
    PROVE  /\ a \div d \in Nat
           /\ a % d \in 0 .. d - 1
           /\ a = d * (a \div d) + (a % d)
<1>1. a \div d \in Int /\ a % d \in 0 .. d - 1
  BY SMT
<1>2. a = d * (a \div d) + (a % d)
  BY SMT
<1>3. a \div d >= 0
  BY SMT
<1> QED BY <1>1, <1>2, <1>3

\* Division by a day's length keeps the order of times.
LEMMA DivMonotone ==
    ASSUME NEW d \in Nat \ {0}, NEW a \in Nat, NEW b \in Nat, a <= b
    PROVE  a \div d <= b \div d
<1> DEFINE q == a \div d
           p == b \div d
<1>1. q \in Nat /\ p \in Nat /\ d * q <= a /\ b < d * p + d
  BY DivRest
<1> HIDE DEF q, p
<1>2. d * q < d * (p + 1)
  BY <1>1
<1>3. q < p + 1
  BY <1>1, <1>2
<1> QED BY <1>1, <1>3 DEF q, p

\* Each record of a date is on one of the pages that hold them all.
LEMMA PagesHold ==
    ASSUME NEW total \in Nat, NEW i \in Nat \ {0}
    PROVE  /\ Pages(total) \in Nat /\ PageOf(i) \in Nat \ {0}
           /\ i <= total => PageOf(i) <= Pages(total)
<1> DEFINE q == total \div PageSize
           r == total % PageSize
           p == (i - 1) \div PageSize
<1>1. PageSize \in Nat \ {0} /\ i - 1 \in Nat
  BY CrawlerAssumption
<1>2. q \in Nat /\ r \in 0 .. PageSize - 1 /\ total = PageSize * q + r
  BY <1>1, DivRest
<1>3. p \in Nat /\ PageSize * p <= i - 1
  <2>1. \A a \in Nat : a \div PageSize \in Nat /\ PageSize * (a \div PageSize) <= a
    BY <1>1, DivRest
  <2> QED BY <1>1, <2>1
<1>4. i <= total => p <= q
  BY <1>1, DivMonotone
<1>5. PageOf(i) = p + 1 /\ Pages(total) = q + (IF r = 0 THEN 0 ELSE 1)
  BY DEF PageOf, Pages
<1> HIDE DEF p, q, r
<1>6. ASSUME i <= total, r = 0 PROVE p < q
  <2>1. PageSize * p < PageSize * q
    BY <1>1, <1>2, <1>3, <1>6
  <2> QED BY <1>1, <1>2, <1>3, <2>1
<1> QED BY <1>2, <1>3, <1>4, <1>5, <1>6

\* Days, as numbers.
LEMMA DayNat ==
    ASSUME NEW a \in Nat
    PROVE  Day(a) \in Nat /\ \A b \in Nat : a <= b => Day(a) <= Day(b)
BY DivRest, DivMonotone, JobsAssumption DEF Day

-------------------------------------------------------------------------------
(* The inductive invariant *)

Crawl == [pc       : {"fetch", "save"} \cup CrawlOver,
          page     : Nat \ {0},
          pages    : Nat,
          until    : Nat,
          deadline : Nat,
          list     : SUBSET Items,
          total    : Totals \cup {0},
          missed   : SUBSET (Nat \ {0}),
          late     : Nat]

\* The records of the first pages of a crawl are stored, but for those missed.
StoredUpTo(t, c, page) ==
    \A i \in Items :
        i <= c.total /\ PageOf(i) <= page => i \in Stored(t) \/ PageOf(i) \in c.missed

\* A crawl works through the pages its first one has announced, unless it lost
\* that one, and holds the records of the page it is about to save.
CrawlOK(t, c) ==
    /\ t <= now
    /\ c.missed \subseteq 1 .. c.page
    /\ c.pc \in {"fetch", "save"} => c.page <= c.pages
    /\ c.late = 0 \/ (c.late = 1 /\ c.list = {} /\ Done(c.deadline))
    /\ c.pc # "failed" /\ 1 \notin c.missed =>
        /\ c.pc = "succeeded" \/ c.page > 1 => c.pages = Pages(c.total)
        /\ c.pc = "succeeded" => c.pages <= c.page
        /\ c.pc = "save" => c.page \in c.missed \/ c.list = PageItems(c.page, c.total)
        /\ StoredUpTo(t, c, IF c.pc = "succeeded" THEN c.page ELSE c.page - 1)

CrawlsInv ==
    /\ crawls \in [CrawlTimes -> Crawl \cup {NotBegun}]
    /\ \A t \in CrawlTimes : crawls[t] # NotBegun => CrawlOK(t, crawls[t])

ClockInv == now \in Nat /\ {up, cancelled, scheduling} \subseteq BOOLEAN

\* Prices are dated, and not before their crawl.
PricesInv ==
    /\ prices \subseteq Rows
    /\ \A row \in prices : row.day \in Nat /\ Day(row.crawl) <= row.day

Cities == {HomeOf[r] : r \in Subscribers}

Send == [pc       : {"list", "city", "recipient", "ask", "mail"} \cup SendOver,
         deadline : Nat,
         listed   : SUBSET Subscribers,
         left     : SUBSET Subscribers,
         city     : Cities \cup {Nobody},
         priced   : SUBSET Rows,
         to       : Subscribers \cup {Nobody},
         attempt  : 0 .. MaxAttempts,
         draft    : Subscribers \cup {Nobody},
         kind     : {"recipe", "default", "empty"}]

MailsTo(t, r) == {m \in mails : m.send = t /\ m.to = r}

\* Those left have no mail, the others one each.
Accounted(t, listed, left) ==
    /\ \A r \in left : MailsTo(t, r) = {}
    /\ \A r \in listed \ left : \E m \in mails : MailsTo(t, r) = {m}

\* The prices of a city the day before a send.
PricedOK(t, city, priced) ==
    \A row \in priced :
        CityOf[row.item] = city /\ row.day = Day(t) - 1 /\ Day(row.crawl) <= row.day

\* A send has mailed those listed that are not left, once each, and is about to
\* mail one of the city whose prices it has read.
SendOK(t, s) ==
    /\ s.left \subseteq s.listed
    /\ PricedOK(t, s.city, s.priced)
    /\ s.pc \in {"ask", "mail"} => s.to \in s.left /\ HomeOf[s.to] = s.city
    /\ s.pc = "ask" => s.priced # {} /\ s.draft \in {Nobody, s.to}
    /\ s.pc = "mail" => /\ s.kind = "empty" <=> s.priced = {}
                        /\ s.kind = "recipe" => s.draft = s.to
    /\ s.pc = "list" => \A r \in Subscribers : MailsTo(t, r) = {}
    /\ s.pc = "succeeded" => s.left = {}
    /\ s.pc # "failed" => Accounted(t, s.listed, s.left)

SendsInv ==
    /\ sends \in [SendTimes -> Send \cup {NotSent}]
    /\ \A t \in SendTimes : sends[t] # NotSent => SendOK(t, sends[t])
    /\ up => \A t \in SendTimes : sends[t] = NotSent => \A r \in Subscribers : MailsTo(t, r) = {}

MailOK(m) ==
    /\ m.kind = "recipe" => m.of = m.to
    /\ m.kind = "empty" <=> m.priced = {}
    /\ PricedOK(m.send, HomeOf[m.to], m.priced)

MailsInv ==
    /\ mails \subseteq [send : SendTimes, to : Subscribers, kind : {"recipe", "default", "empty"},
                        of : Subscribers \cup {Nobody}, priced : SUBSET Rows]
    /\ \A m \in mails : MailOK(m)

Inv == ClockInv /\ PricesInv /\ CrawlsInv /\ SendsInv /\ MailsInv

-------------------------------------------------------------------------------
(* Crawls *)

\* Time passes, shutdown begins once, and prices stay.
Later ==
    /\ now \in Nat /\ now' \in Nat /\ now <= now'
    /\ cancelled => cancelled'
    /\ prices \subseteq prices'

\* What is said of a crawl stays true while time passes and prices are added.
LEMMA CrawlOKStays ==
    ASSUME Later, NEW t \in CrawlTimes, NEW c \in Crawl, CrawlOK(t, c)
    PROVE  CrawlOK(t, c)'
<1>1. Stored(t) \subseteq Stored(t)'
  BY DEF Later, Stored
<1>2. t <= now'
  BY CrawlerAssumption DEF Later, CrawlOK
<1>3. Done(c.deadline) => Done(c.deadline)'
  BY DEF Later, Done, Crawl
<1> QED BY <1>1, <1>2, <1>3 DEF CrawlOK, StoredUpTo

\* A crawl goes on, and the others stay as they are.
LEMMA CrawlsStep ==
    ASSUME CrawlsInv, Later, NEW t \in CrawlTimes, NEW d \in Crawl, CrawlOK(t, d)',
           crawls' = [crawls EXCEPT ![t] = d]
    PROVE  CrawlsInv'
<1>1. crawls' \in [CrawlTimes -> Crawl \cup {NotBegun}]
  BY DEF CrawlsInv
<1>2. ASSUME NEW u \in CrawlTimes, (crawls[u] # NotBegun)' PROVE CrawlOK(u, crawls[u])'
  <2>1. \E c \in Crawl : c = crawls'[u] /\ CrawlOK(u, c)'
    <3>1. CASE u = t
      BY <3>1 DEF CrawlsInv
    <3>2. CASE u # t
      <4>1. crawls'[u] = crawls[u] /\ crawls[u] \in Crawl /\ CrawlOK(u, crawls[u])
        BY <1>2, <3>2 DEF CrawlsInv
      <4>2. PICK c \in Crawl : c = crawls[u] /\ CrawlOK(u, c)
        BY <4>1
      <4> QED BY <4>1, <4>2, CrawlOKStays
    <3> QED BY <3>1, <3>2
  <2>2. PICK c \in Crawl : c = crawls'[u] /\ CrawlOK(u, c)'
    BY <2>1
  <2> QED BY <2>2 DEF CrawlOK, StoredUpTo, Stored, Done
<1> QED BY <1>1, <1>2 DEF CrawlsInv

\* A step that leaves the crawls alone keeps what is said of them.
LEMMA CrawlsStay == ASSUME CrawlsInv, Later, UNCHANGED crawls PROVE CrawlsInv'
<1>1. ASSUME NEW u \in CrawlTimes, crawls[u] # NotBegun PROVE CrawlOK(u, crawls[u])'
  <2>1. PICK c \in Crawl : c = crawls[u] /\ CrawlOK(u, c)
    BY <1>1 DEF CrawlsInv
  <2>2. CrawlOK(u, c)'
    BY <2>1, CrawlOKStays
  <2> QED BY <2>1, <2>2 DEF CrawlOK, StoredUpTo, Stored, Done
<1> QED BY <1>1 DEF CrawlsInv

\* A crawl whose page is stored, or lost, and whose number of pages is known.
PageDone(t, c) ==
    /\ t <= now
    /\ c.missed \subseteq 1 .. c.page
    /\ c.late = 0 \/ (c.late = 1 /\ c.list = {} /\ Done(c.deadline))
    /\ 1 \notin c.missed => c.pages = Pages(c.total) /\ StoredUpTo(t, c, c.page)

\* The head of the loop takes it to its next page or its end.
LEMMA NextPageOK ==
    ASSUME now \in Nat, NEW t \in CrawlTimes, NEW c \in Crawl, NEW d, d = NextPage(c),
           PageDone(t, c)'
    PROVE  d \in Crawl /\ CrawlOK(t, d)'
<1>1. SleepUntil(c.page + 1) \in Nat
  BY CrawlerAssumption DEF SleepUntil
<1>2. CASE c.page + 1 > c.pages
  <2> DEFINE e == [c EXCEPT !.pc = "succeeded", !.until = 0]
  <2>1. d = e
    BY <1>2 DEF NextPage
  <2>a. /\ e \in Crawl /\ e.pc = "succeeded" /\ e.page = c.page /\ e.pages = c.pages
        /\ e.missed = c.missed /\ e.late = c.late /\ e.list = c.list /\ e.total = c.total
        /\ e.deadline = c.deadline
    BY DEF Crawl, CrawlOver
  <2> HIDE DEF e
  <2>2. /\ d \in Crawl /\ d.pc = "succeeded" /\ d.page = c.page /\ d.pages = c.pages
        /\ d.missed = c.missed /\ d.late = c.late /\ d.list = c.list /\ d.total = c.total
        /\ d.deadline = c.deadline
    BY <2>1, <2>a
  <2>3. d.pages <= d.page
    BY <1>2, <2>2 DEF Crawl
  <2> QED BY <2>2, <2>3 DEF PageDone, CrawlOK, StoredUpTo
<1>3. CASE ~(c.page + 1 > c.pages)
  <2> DEFINE u == SleepUntil(c.page + 1)
             e == [c EXCEPT !.pc = "fetch", !.page = c.page + 1, !.until = u]
  <2>1. d = e
    BY <1>3 DEF NextPage
  <2> HIDE DEF u
  <2>b. c.page + 1 \in Nat \ {0} /\ u \in Nat
    BY <1>1 DEF Crawl, u
  <2>a. /\ e \in Crawl /\ e.pc = "fetch" /\ e.page = c.page + 1 /\ e.pages = c.pages
        /\ e.missed = c.missed /\ e.late = c.late /\ e.list = c.list /\ e.total = c.total
        /\ e.deadline = c.deadline
    BY <2>b DEF Crawl
  <2> HIDE DEF e
  <2>2. /\ d \in Crawl /\ d.pc = "fetch" /\ d.page = c.page + 1 /\ d.pages = c.pages
        /\ d.missed = c.missed /\ d.late = c.late /\ d.list = c.list /\ d.total = c.total
        /\ d.deadline = c.deadline
    BY <2>1, <2>a
  <2>3. d.page <= d.pages /\ d.page - 1 = c.page /\ d.page > 1 /\ 1 .. c.page \subseteq 1 .. d.page
    BY <1>3, <2>2 DEF Crawl
  <2> QED BY <2>2, <2>3 DEF PageDone, CrawlOK, StoredUpTo
<1> QED BY <1>2, <1>3

\* A crawl under way is a record, as the invariant has it.
LEMMA CrawlUnderWay ==
    ASSUME CrawlsInv, NEW t \in CrawlTimes, NEW pc \in {"fetch", "save"}, Crawling(t, pc)
    PROVE  \E c \in Crawl : c = crawls[t] /\ CrawlOK(t, c) /\ c.pc = pc
<1>1. crawls[t].pc = pc /\ pc # "none"
  BY DEF Crawling
<1>2. crawls[t] # NotBegun
  BY <1>1 DEF NotBegun
<1> QED BY <1>1, <1>2 DEF CrawlsInv

\* The page under way brings its records, or comes to nothing.
LEMMA FetchesStep ==
    ASSUME Inv, NEW t \in CrawlTimes, Fetches(t) \/ FetchesNothing(t)
    PROVE  CrawlsInv' /\ UNCHANGED <<clock, prices>>
<1>1. UNCHANGED <<clock, prices>>
  BY DEF Fetches, FetchesNothing
<1>2. Later
  BY <1>1 DEF Later, clock, Inv, ClockInv
<1>3. PICK c \in Crawl : c = crawls[t] /\ CrawlOK(t, c) /\ c.pc = "fetch"
  <2>1. Crawling(t, "fetch")
    BY DEF Fetches, FetchesNothing, Fetching
  <2> QED BY <2>1, CrawlUnderWay DEF Inv
<1>4. c.pc = "fetch" /\ ~Done(c.deadline) /\ c.late = 0
  BY <1>3 DEF Fetches, FetchesNothing, Fetching, Crawling, CrawlOK
<1>5. CASE Fetches(t)
  <2>1. PICK total \in IF c.page = 1 THEN Totals ELSE {c.total} :
          crawls' = [crawls EXCEPT ![t].pc = "save", ![t].until = 0, ![t].total = total,
                                   ![t].list = PageItems(c.page, total)]
    BY <1>3, <1>5 DEF Fetches
  <2> DEFINE d == [c EXCEPT !.pc = "save", !.until = 0, !.total = total,
                            !.list = PageItems(c.page, total)]
  <2>2. PageItems(c.page, total) \in SUBSET Items /\ total \in Totals \cup {0}
    BY <2>1 DEF PageItems, Crawl
  <2>3. /\ d \in Crawl /\ d.pc = "save" /\ d.page = c.page /\ d.pages = c.pages
        /\ d.missed = c.missed /\ d.late = c.late /\ d.list = PageItems(c.page, total)
        /\ d.total = total /\ d.deadline = c.deadline
    BY <2>2 DEF Crawl
  <2>4. crawls' = [crawls EXCEPT ![t] = d]
    BY <1>3, <2>1 DEF Inv, CrawlsInv
  <2> HIDE DEF d
  <2>5. c.page = 1 \/ total = c.total
    BY <2>1
  <2>6. 1 \notin d.missed => StoredUpTo(t, d, d.page - 1)
    <3>1. CASE c.page = 1
      BY <2>3, <3>1, PagesHold, JobsAssumption, CrawlerAssumption DEF StoredUpTo
    <3>2. CASE c.page # 1
      BY <1>3, <1>4, <2>3, <2>5, <3>2 DEF StoredUpTo, CrawlOK, Crawl
    <3> QED BY <3>1, <3>2
  <2>7. CrawlOK(t, d)
    BY <1>3, <1>4, <2>3, <2>5, <2>6 DEF CrawlOK
  <2> QED BY <1>1, <1>2, <2>3, <2>4, <2>7, CrawlOKStays, CrawlsStep DEF Inv
<1>6. CASE FetchesNothing(t)
  <2> DEFINE d == [c EXCEPT !.pc = "save", !.until = 0, !.list = {},
                            !.missed = c.missed \cup {c.page}]
  <2>1. crawls' = [crawls EXCEPT ![t] = d]
    BY <1>3, <1>6 DEF FetchesNothing, Inv, CrawlsInv
  <2>2. c.missed \cup {c.page} \in SUBSET (Nat \ {0})
    BY DEF Crawl
  <2>3. /\ d \in Crawl /\ d.pc = "save" /\ d.page = c.page /\ d.pages = c.pages
        /\ d.missed = c.missed \cup {c.page} /\ d.late = c.late /\ d.list = {}
        /\ d.total = c.total /\ d.deadline = c.deadline
    BY <2>2 DEF Crawl
  <2> HIDE DEF d
  <2>4. CrawlOK(t, d)
    <3>1. d.missed \subseteq 1 .. d.page
      BY <1>3, <2>3 DEF CrawlOK, Crawl
    <3>2. 1 \notin d.missed => 1 \notin c.missed /\ StoredUpTo(t, d, d.page - 1)
      BY <1>3, <1>4, <2>3 DEF CrawlOK, StoredUpTo
    <3> QED BY <1>3, <1>4, <2>3, <3>1, <3>2 DEF CrawlOK
  <2> QED BY <1>1, <1>2, <2>1, <2>3, <2>4, CrawlOKStays, CrawlsStep DEF Inv
<1> QED BY <1>1, <1>5, <1>6

\* A page that is lost is passed over.
LEMMA FetchFailsStep ==
    ASSUME Inv, NEW t \in CrawlTimes, FetchFails(t)
    PROVE  CrawlsInv' /\ UNCHANGED <<clock, prices>>
<1>1. UNCHANGED <<clock, prices>>
  BY DEF FetchFails
<1>2. Later
  BY <1>1 DEF Later, clock, Inv, ClockInv
<1>3. PICK c \in Crawl : c = crawls[t] /\ CrawlOK(t, c) /\ c.pc = "fetch"
  BY CrawlUnderWay DEF FetchFails, Fetching, Inv
<1> DEFINE e == [c EXCEPT !.missed = c.missed \cup {c.page}]
<1>4. PICK d : d = NextPage(e) /\ crawls' = [crawls EXCEPT ![t] = d]
  BY <1>3 DEF FetchFails, Inv, CrawlsInv
<1>5. c.missed \cup {c.page} \in SUBSET (Nat \ {0})
  BY DEF Crawl
<1>6. /\ e \in Crawl /\ e.page = c.page /\ e.pages = c.pages
      /\ e.missed = c.missed \cup {c.page} /\ e.late = c.late /\ e.list = c.list
      /\ e.total = c.total /\ e.deadline = c.deadline
  BY <1>5 DEF Crawl
<1> HIDE DEF e
<1>7. PageDone(t, e)
  <2>1. e.missed \subseteq 1 .. e.page
    BY <1>3, <1>6 DEF CrawlOK, Crawl
  <2>2. ASSUME 1 \notin e.missed PROVE e.pages = Pages(e.total) /\ StoredUpTo(t, e, e.page)
    <3>1. 1 \notin c.missed /\ c.page > 1
      BY <1>6, <2>2 DEF Crawl
    <3>2. c.pages = Pages(c.total) /\ StoredUpTo(t, c, c.page - 1)
      BY <1>3, <3>1 DEF CrawlOK
    <3>3. \A i \in Items : PageOf(i) \in Nat
      BY PagesHold, JobsAssumption
    <3>4. \A i \in Items : PageOf(i) <= c.page => PageOf(i) <= c.page - 1 \/ PageOf(i) = c.page
      BY <3>3 DEF Crawl
    <3> QED BY <1>6, <3>2, <3>4 DEF StoredUpTo
  <2> QED BY <1>3, <1>6, <2>1, <2>2 DEF PageDone, CrawlOK
<1>8. PageDone(t, e)'
  BY <1>1, <1>7 DEF PageDone, StoredUpTo, Stored, Done, clock
<1>9. d \in Crawl /\ CrawlOK(t, d)'
  BY <1>4, <1>6, <1>8, NextPageOK DEF Inv, ClockInv
<1> QED BY <1>1, <1>2, <1>4, <1>9, CrawlsStep DEF Inv

\* The page's records are stored, dated now; the first page has said how many
\* pages there are.  Past the deadline this is the last page with records.
LEMMA SavesStep ==
    ASSUME Inv, NEW t \in CrawlTimes, Saves(t)
    PROVE  CrawlsInv' /\ PricesInv'
<1>1. PICK c \in Crawl : c = crawls[t] /\ CrawlOK(t, c) /\ c.pc = "save"
  BY CrawlUnderWay DEF Saves, Inv
<1>2. UNCHANGED clock /\ prices' = prices \cup RowsOf(t, c.list)
  BY <1>1 DEF Saves, SavePrices
<1>3. Later
  BY <1>2 DEF Later, clock, Inv, ClockInv
<1>4. Pages(c.total) \in Nat
  <2>1. c.total \in Totals \cup {0}
    BY DEF Crawl
  <2>2. Totals \cup {0} \subseteq Nat
    BY CrawlerAssumption
  <2>3. c.total \in Nat
    BY <2>1, <2>2
  <2>4. 1 \in Nat \ {0}
    OBVIOUS
  <2> QED BY <2>3, <2>4, PagesHold
<1>5. PICK late \in Nat : late = IF c.list # {} /\ Done(c.deadline) THEN c.late + 1 ELSE c.late
  BY DEF Crawl
<1>6. PICK pages \in Nat : pages = IF c.page = 1 THEN Pages(c.total) ELSE c.pages
  BY <1>4 DEF Crawl
<1> DEFINE e == [c EXCEPT !.list = {}, !.late = late, !.pages = pages]
<1>7. PICK d : d = NextPage(e) /\ crawls' = [crawls EXCEPT ![t] = d]
  <2> DEFINE f == [c EXCEPT !.list = {}, !.late = late]
  <2>1. crawls' = [crawls EXCEPT ![t] =
                     NextPage(IF f.page = 1 THEN [f EXCEPT !.pages = Pages(f.total)] ELSE f)]
    BY <1>1, <1>5 DEF Saves
  <2>2. f.page = c.page /\ f.total = c.total
    BY DEF Crawl
  <2>3. (IF f.page = 1 THEN [f EXCEPT !.pages = Pages(f.total)] ELSE f) = e
    <3>1. CASE c.page = 1
      BY <1>6, <2>2, <3>1 DEF Crawl
    <3>2. CASE c.page # 1
      BY <1>6, <2>2, <3>2 DEF Crawl
    <3> QED BY <3>1, <3>2
  <2> QED BY <2>1, <2>3
<1>8. /\ e \in Crawl /\ e.page = c.page /\ e.pages = pages /\ e.missed = c.missed
      /\ e.late = late /\ e.list = {} /\ e.total = c.total /\ e.deadline = c.deadline
  BY DEF Crawl
<1> HIDE DEF e
<1>9. now' = now /\ (Done(c.deadline) <=> Done(c.deadline)')
  BY <1>2 DEF clock, Done
<1>10. e.late = 0 \/ (e.late = 1 /\ e.list = {} /\ Done(e.deadline)')
  BY <1>1, <1>5, <1>8, <1>9 DEF CrawlOK
<1>11. ASSUME 1 \notin e.missed PROVE e.pages = Pages(e.total) /\ StoredUpTo(t, e, e.page)'
  <2>1. /\ c.page > 1 => c.pages = Pages(c.total)
        /\ c.page \in c.missed \/ c.list = PageItems(c.page, c.total)
        /\ StoredUpTo(t, c, c.page - 1)
    BY <1>1, <1>8, <1>11 DEF CrawlOK
  <2>2. Stored(t)' = Stored(t) \cup c.list
    <3>1. \A i \in c.list : [crawl |-> t, item |-> i, day |-> Day(now)] \in prices'
      BY <1>2 DEF RowsOf
    <3>2. \A row \in prices' : row \in prices \/ (row.crawl = t /\ row.item \in c.list)
      BY <1>2 DEF RowsOf
    <3>3. Stored(t) \cup c.list \subseteq Stored(t)'
      <4>1. \A row \in prices' : row.crawl = t => row.item \in Stored(t)'
        BY DEF Stored
      <4>2. c.list \subseteq Stored(t)'
        BY <3>1, <4>1
      <4>3. ASSUME NEW i \in Stored(t) PROVE i \in Stored(t)'
        <5>1. PICK row \in prices : row.crawl = t /\ row.item = i
          BY DEF Stored
        <5> QED BY <1>2, <4>1, <5>1
      <4> QED BY <4>2, <4>3
    <3>4. Stored(t)' \subseteq Stored(t) \cup c.list
      BY <3>2 DEF Stored
    <3> QED BY <3>3, <3>4
  <2>3. \A i \in Items : i <= c.total /\ PageOf(i) = c.page => i \in Stored(t)' \/ PageOf(i) \in c.missed
    BY <2>1, <2>2 DEF PageItems
  <2>4. \A i \in Items : PageOf(i) <= c.page => PageOf(i) <= c.page - 1 \/ PageOf(i) = c.page
    <3>1. \A i \in Items : PageOf(i) \in Nat
      BY PagesHold, JobsAssumption
    <3> QED BY <3>1 DEF Crawl
  <2>5. StoredUpTo(t, e, e.page)'
    BY <1>8, <2>1, <2>2, <2>3, <2>4 DEF StoredUpTo
  <2>6. e.pages = Pages(e.total)
    BY <1>6, <1>8, <2>1 DEF Crawl
  <2> QED BY <2>5, <2>6
<1>12. PageDone(t, e)'
  BY <1>1, <1>8, <1>9, <1>10, <1>11 DEF PageDone, CrawlOK
<1>13. d \in Crawl /\ CrawlOK(t, d)'
  BY <1>7, <1>8, <1>12, NextPageOK DEF Inv, ClockInv
<1>14. CrawlsInv'
  BY <1>3, <1>7, <1>13, CrawlsStep DEF Inv
<1>15. PricesInv'
  <2>1. Day(now) \in Nat /\ Day(t) <= Day(now) /\ t \in Nat
    BY <1>1, DayNat, CrawlerAssumption DEF CrawlOK, Inv, ClockInv
  <2>2. c.list \subseteq Items
    BY DEF Crawl
  <2>3. \A row \in RowsOf(t, c.list) : row \in Rows /\ row.day = Day(now) /\ row.crawl = t
    BY <2>1, <2>2 DEF RowsOf, Rows
  <2> QED BY <1>2, <2>1, <2>3 DEF Inv, PricesInv
<1> QED BY <1>14, <1>15

\* A crawl that fails stores no more.
LEMMA SaveFailsStep ==
    ASSUME Inv, NEW t \in CrawlTimes, SaveFails(t)
    PROVE  CrawlsInv' /\ UNCHANGED <<clock, prices>>
<1>1. UNCHANGED <<clock, prices>>
  BY DEF SaveFails
<1>2. Later
  BY <1>1 DEF Later, clock, Inv, ClockInv
<1>3. PICK c \in Crawl : c = crawls[t] /\ CrawlOK(t, c) /\ c.pc = "save"
  BY CrawlUnderWay DEF SaveFails, Inv
<1> DEFINE d == [c EXCEPT !.pc = "failed", !.list = {}, !.total = 0, !.missed = {}]
<1>4. crawls' = [crawls EXCEPT ![t] = d]
  BY <1>3 DEF SaveFails, Inv, CrawlsInv
<1>5. /\ d \in Crawl /\ d.pc = "failed" /\ d.page = c.page /\ d.missed = {} /\ d.late = c.late
      /\ d.list = {} /\ d.deadline = c.deadline
  BY DEF Crawl, CrawlOver
<1> HIDE DEF d
<1>6. CrawlOK(t, d)
  BY <1>3, <1>5 DEF CrawlOK
<1> QED BY <1>1, <1>2, <1>4, <1>5, <1>6, CrawlOKStays, CrawlsStep DEF Inv

\* The schedule begins a crawl.
LEMMA FireCrawlStep == ASSUME Inv, FireCrawl PROVE CrawlsInv' /\ UNCHANGED <<clock, prices>>
<1>1. UNCHANGED <<clock, prices>> /\ now \in CrawlTimes
  BY DEF FireCrawl
<1>2. Later
  BY <1>1 DEF Later, clock, Inv, ClockInv
<1>3. PICK t \in CrawlTimes : t = now
  BY <1>1
<1>4. PICK until \in Nat : until = SleepUntil(1)
  BY CrawlerAssumption DEF SleepUntil, Inv, ClockInv
<1> DEFINE d == [pc |-> "fetch", page |-> 1, pages |-> 1, until |-> until,
                 deadline |-> t + JobTimeout, list |-> {}, total |-> 0, missed |-> {}, late |-> 0]
<1>5. crawls' = [crawls EXCEPT ![t] = d]
  BY <1>3, <1>4 DEF FireCrawl, BeginCrawl
<1>6. d \in Crawl
  <2>1. t + JobTimeout \in Nat
    BY CrawlerAssumption, JobsAssumption
  <2> QED BY <2>1 DEF Crawl
<1>7. StoredUpTo(t, d, 0)
  BY PagesHold, JobsAssumption DEF StoredUpTo
<1>8. CrawlOK(t, d)
  BY <1>3, <1>7, CrawlerAssumption DEF CrawlOK
<1> HIDE DEF d
<1> QED BY <1>1, <1>2, <1>5, <1>6, <1>8, CrawlOKStays, CrawlsStep DEF Inv

-------------------------------------------------------------------------------
(* Sends *)

\* Only a send adds mails, its own.
OwnMails(t) == mails \subseteq mails' /\ \A m \in mails' : m \in mails \/ m.send = t

\* A send goes on, and the others stay as they are.
LEMMA SendsStep ==
    ASSUME SendsInv, UNCHANGED up, NEW t \in SendTimes, NEW s \in Send, SendOK(t, s)',
           sends' = [sends EXCEPT ![t] = s], OwnMails(t)
    PROVE  SendsInv'
<1>1. sends' \in [SendTimes -> Send \cup {NotSent}]
  BY DEF SendsInv
<1>2. sends'[t] = s /\ \A u \in SendTimes \ {t} : sends'[u] = sends[u]
  BY DEF SendsInv
<1>3. s # NotSent
  <2>1. s.pc # "none"
    BY DEF Send, SendOver
  <2> QED BY <2>1 DEF NotSent
<1>4. \A u \in SendTimes \ {t} : \A r \in Subscribers : MailsTo(u, r)' = MailsTo(u, r)
  BY DEF MailsTo, OwnMails
<1>5. ASSUME NEW u \in SendTimes, (sends[u] # NotSent)' PROVE SendOK(u, sends[u])'
  <2>1. CASE u = t
    BY <1>2, <2>1 DEF SendOK, Accounted, MailsTo
  <2>2. CASE u # t
    <3>1. PICK x \in Send : x = sends[u] /\ x = sends'[u] /\ SendOK(u, x)
      BY <1>2, <1>5, <2>2 DEF SendsInv
    <3>2. SendOK(u, x)'
      <4>1. \A r \in Subscribers : MailsTo(u, r)' = MailsTo(u, r)
        BY <1>4, <2>2
      <4>2. x.left \subseteq Subscribers /\ x.listed \subseteq Subscribers /\ mails \subseteq mails'
        BY DEF Send, OwnMails
      <4>3. Accounted(u, x.listed, x.left) => Accounted(u, x.listed, x.left)'
        BY <4>1, <4>2 DEF Accounted
      <4> QED BY <3>1, <4>1, <4>3 DEF SendOK, PricedOK
    <3> QED BY <3>1, <3>2 DEF SendOK, Accounted, MailsTo
  <2> QED BY <2>1, <2>2
<1>6. ASSUME up', NEW u \in SendTimes, sends'[u] = NotSent, NEW r \in Subscribers
      PROVE  MailsTo(u, r)' = {}
  BY <1>2, <1>3, <1>4, <1>6 DEF SendsInv
<1> QED BY <1>1, <1>5, <1>6 DEF SendsInv

\* A send between two recipients.
LEMMA TurnStep ==
    ASSUME SendsInv, UNCHANGED up, NEW t \in SendTimes,
           NEW pc \in {"list", "city"} \cup SendOver, NEW listed \in SUBSET Subscribers,
           NEW left \in SUBSET listed, NEW draft \in Subscribers \cup {Nobody},
           Turn(t, pc, listed, left, draft), OwnMails(t),
           pc = "list" => \A r \in Subscribers : MailsTo(t, r)' = {},
           pc = "succeeded" => left = {},
           pc # "failed" => Accounted(t, listed, left)'
    PROVE  SendsInv'
<1> DEFINE s == [pc |-> pc, deadline |-> t + JobTimeout, listed |-> listed, left |-> left,
                 city |-> Nobody, priced |-> {}, to |-> Nobody, attempt |-> 0, draft |-> draft,
                 kind |-> "empty"]
<1>1. sends' = [sends EXCEPT ![t] = s]
  BY DEF Turn
<1>2. s \in Send
  <2>1. t + JobTimeout \in Nat /\ 0 \in 0 .. MaxAttempts
    BY SendAssumption, JobsAssumption
  <2> QED BY <2>1 DEF Send
<1>3. SendOK(t, s)'
  <2>1. pc \notin {"ask", "mail"}
    BY DEF SendOver
  <2> QED BY <2>1 DEF SendOK, PricedOK
<1> HIDE DEF s
<1> QED BY <1>1, <1>2, <1>3, SendsStep

\* A send under way is a record, as the invariant has it.
LEMMA SendUnderWay ==
    ASSUME SendsInv, NEW t \in SendTimes,
           NEW pc \in {"list", "city", "recipient", "ask", "mail"}, Sending(t, pc)
    PROVE  \E s \in Send : s = sends[t] /\ SendOK(t, s) /\ s.pc = pc
<1>1. sends[t].pc = pc /\ pc # "none"
  BY DEF Sending
<1>2. sends[t] # NotSent
  BY <1>1 DEF NotSent
<1> QED BY <1>1, <1>2 DEF SendsInv

\* A step that mails nobody keeps what is said of mails and sends.
LEMMA MailsStay ==
    ASSUME MailsInv, UNCHANGED mails
    PROVE  /\ MailsInv'
           /\ \A t : OwnMails(t)
           /\ \A t : \A r \in Subscribers : MailsTo(t, r)' = MailsTo(t, r)
           /\ \A t, listed, left : Accounted(t, listed, left) => Accounted(t, listed, left)'
           /\ \A t, s : SendOK(t, s) => SendOK(t, s)'
BY DEF MailsInv, OwnMails, MailsTo, Accounted, SendOK

\* A send that fails leaves its mails as they are.
LEMMA FailsStep ==
    ASSUME SendsInv, UNCHANGED up, NEW t \in SendTimes, NEW s \in Send, s = sends[t], SendOK(t, s),
           Fails(t), OwnMails(t)
    PROVE  SendsInv'
<1>1. Turn(t, "failed", s.listed, s.left, Nobody)
  BY DEF Fails
<1>2. s.listed \in SUBSET Subscribers /\ s.left \in SUBSET s.listed
  BY DEF Send, SendOK
<1> QED BY <1>1, <1>2, TurnStep DEF SendOver

\* The schedule starts a send.
LEMMA FireSendStep == ASSUME Inv, FireSend PROVE SendsInv' /\ MailsInv' /\ UNCHANGED <<clock, prices, crawls>>
<1>1. PICK t \in SendTimes : t = now
  BY DEF FireSend
<1>2. UNCHANGED <<clock, prices, crawls, mails, up>> /\ up
  BY DEF FireSend, Fires, clock
<1>3. \A r \in Subscribers : MailsTo(t, r) = {}
  BY <1>1, <1>2 DEF FireSend, BeginSend, Inv, SendsInv
<1>4. Turn(t, "list", {}, {}, Nobody)
  BY <1>1 DEF FireSend, BeginSend
<1>5. Accounted(t, {}, {})'
  BY DEF Accounted
<1> QED BY <1>2, <1>3, <1>4, <1>5, TurnStep, MailsStay DEF Inv

\* The subscribers listed are yet to be mailed.
LEMMA ListSubscribersStep ==
    ASSUME Inv, NEW t \in SendTimes, ListSubscribers(t)
    PROVE  SendsInv' /\ MailsInv' /\ UNCHANGED <<clock, prices>>
<1>1. UNCHANGED <<clock, prices, mails, up>>
  BY DEF ListSubscribers, clock
<1>2. PICK s \in Send : s = sends[t] /\ SendOK(t, s) /\ s.pc = "list"
  BY SendUnderWay DEF ListSubscribers, Inv
<1>3. MailsInv' /\ OwnMails(t)
  BY <1>1, MailsStay DEF Inv
<1>4. CASE Fails(t)
  BY <1>1, <1>2, <1>3, <1>4, FailsStep DEF Inv
<1>5. ASSUME NEW listed \in SUBSET Subscribers, Turn(t, "city", listed, listed, Nobody)
      PROVE  SendsInv'
  <2>1. Accounted(t, listed, listed)
    BY <1>2 DEF SendOK, Accounted
  <2> QED BY <1>1, <1>3, <1>5, <2>1, TurnStep, MailsStay DEF Inv
<1> QED BY <1>1, <1>3, <1>4, <1>5 DEF ListSubscribers

\* The prices listed are of the city and the day, and no crawl of theirs is later.
LEMMA ListedPrices ==
    ASSUME PricesInv, NEW t \in SendTimes, NEW city, NEW rows \in ListPrices(Day(t) - 1, city)
    PROVE  rows \in SUBSET Rows /\ PricedOK(t, city, rows)
<1>1. rows \subseteq prices
      /\ \A row \in rows : row.day = Day(t) - 1 /\ CityOf[row.item] = city
  BY DEF ListPrices
<1> QED BY <1>1 DEF PricesInv, PricedOK

\* The send goes on to a city it has not been through, or is done.
LEMMA NextCityStep ==
    ASSUME Inv, NEW t \in SendTimes, NextCity(t)
    PROVE  SendsInv' /\ MailsInv' /\ UNCHANGED <<clock, prices>>
<1>1. UNCHANGED <<clock, prices, mails, up>>
  BY DEF NextCity, clock
<1>2. PICK s \in Send : s = sends[t] /\ SendOK(t, s) /\ s.pc = "city"
  BY SendUnderWay DEF NextCity, Inv
<1>3. MailsInv' /\ OwnMails(t)
  BY <1>1, MailsStay DEF Inv
<1>4. CASE Fails(t)
  BY <1>1, <1>2, <1>3, <1>4, FailsStep DEF Inv
<1>5. ASSUME s.left = {}, Turn(t, "succeeded", s.listed, {}, Nobody) PROVE SendsInv'
  <2>1. Accounted(t, s.listed, {}) /\ s.listed \in SUBSET Subscribers
    BY <1>2, <1>5 DEF SendOK, Send
  <2> QED BY <1>1, <1>3, <1>5, <2>1, TurnStep, MailsStay DEF Inv, SendOver
<1>6. ASSUME NEW r \in s.left, NEW rows \in ListPrices(Day(t) - 1, HomeOf[r]),
             sends' = [sends EXCEPT ![t].pc = "recipient", ![t].city = HomeOf[r],
                                    ![t].priced = rows]
      PROVE  SendsInv'
  <2> DEFINE d == [s EXCEPT !.pc = "recipient", !.city = HomeOf[r], !.priced = rows]
  <2>1. rows \in SUBSET Rows /\ PricedOK(t, HomeOf[r], rows)
    BY ListedPrices DEF Inv
  <2>2. HomeOf[r] \in Cities \cup {Nobody}
    BY DEF Send, Cities
  <2>3. sends' = [sends EXCEPT ![t] = d]
    BY <1>2, <1>6 DEF Inv, SendsInv
  <2>4. /\ d \in Send /\ d.pc = "recipient" /\ d.listed = s.listed /\ d.left = s.left
        /\ d.city = HomeOf[r] /\ d.priced = rows
    BY <2>1, <2>2 DEF Send
  <2> HIDE DEF d
  <2>5. SendOK(t, d)
    BY <1>2, <2>1, <2>4 DEF SendOK
  <2> QED BY <1>1, <1>3, <2>3, <2>4, <2>5, SendsStep, MailsStay DEF Inv
<1> QED BY <1>1, <1>2, <1>3, <1>4, <1>5, <1>6 DEF NextCity

\* The next recipient is one left in the city; without prices the mail is the one
\* that says so.
LEMMA NextRecipientStep ==
    ASSUME Inv, NEW t \in SendTimes, NextRecipient(t)
    PROVE  SendsInv' /\ MailsInv' /\ UNCHANGED <<clock, prices>>
<1>1. UNCHANGED <<clock, prices, mails, up>>
  BY DEF NextRecipient, clock
<1>2. PICK s \in Send : s = sends[t] /\ SendOK(t, s) /\ s.pc = "recipient"
  BY SendUnderWay DEF NextRecipient, Inv
<1>3. MailsInv' /\ OwnMails(t)
  BY <1>1, MailsStay DEF Inv
<1>4. CASE Turn(t, "city", s.listed, s.left, s.draft)
  <2>1. /\ Accounted(t, s.listed, s.left) /\ s.listed \in SUBSET Subscribers
        /\ s.left \in SUBSET s.listed /\ s.draft \in Subscribers \cup {Nobody}
    BY <1>2 DEF SendOK, Send
  <2> QED BY <1>1, <1>3, <1>4, <2>1, TurnStep, MailsStay DEF Inv
<1>5. ASSUME NEW r \in s.left, HomeOf[r] = s.city,
             sends' = [sends EXCEPT ![t].pc = IF s.priced = {} THEN "mail" ELSE "ask",
                                    ![t].to = r, ![t].attempt = 0, ![t].draft = Nobody,
                                    ![t].kind = "empty"]
      PROVE  SendsInv'
  <2>1. PICK pc \in {"mail", "ask"} : pc = IF s.priced = {} THEN "mail" ELSE "ask"
    OBVIOUS
  <2> DEFINE d == [s EXCEPT !.pc = pc, !.to = r, !.attempt = 0, !.draft = Nobody, !.kind = "empty"]
  <2>2. sends' = [sends EXCEPT ![t] = d]
    BY <1>2, <1>5, <2>1 DEF Inv, SendsInv
  <2>3. r \in Subscribers /\ 0 \in 0 .. MaxAttempts
    BY SendAssumption DEF Send
  <2>4. /\ d \in Send /\ d.pc = pc /\ d.listed = s.listed /\ d.left = s.left
        /\ d.city = s.city /\ d.priced = s.priced /\ d.to = r /\ d.draft = Nobody
        /\ d.kind = "empty"
    BY <2>3 DEF Send
  <2> HIDE DEF d
  <2>5. SendOK(t, d)
    BY <1>2, <1>5, <2>1, <2>4 DEF SendOK
  <2> QED BY <1>1, <1>3, <2>2, <2>4, <2>5, SendsStep, MailsStay DEF Inv
<1> QED BY <1>1, <1>2, <1>3, <1>4, <1>5 DEF NextRecipient

\* The mail to write is the default one, or a recipe made for its recipient.
LEMMA TextStep ==
    ASSUME SendsInv, UNCHANGED <<up, mails>>, NEW t \in SendTimes, NEW s \in Send, s = sends[t],
           SendOK(t, s), s.pc = "ask", NEW kind \in {"recipe", "default"},
           NEW draft \in Subscribers \cup {Nobody}, kind = "recipe" => draft = s.to,
           sends' = [sends EXCEPT ![t].pc = "mail", ![t].attempt = 0, ![t].kind = kind,
                                  ![t].draft = draft]
    PROVE  SendsInv'
<1> DEFINE d == [s EXCEPT !.pc = "mail", !.attempt = 0, !.kind = kind, !.draft = draft]
<1>1. sends' = [sends EXCEPT ![t] = d]
  BY DEF SendsInv
<1>2. 0 \in 0 .. MaxAttempts
  BY SendAssumption
<1>3. /\ d \in Send /\ d.pc = "mail" /\ d.listed = s.listed /\ d.left = s.left
      /\ d.city = s.city /\ d.priced = s.priced /\ d.to = s.to /\ d.draft = draft
      /\ d.kind = kind
  BY <1>2 DEF Send
<1> HIDE DEF d
<1>4. SendOK(t, d)
  BY <1>3 DEF SendOK
<1>5. OwnMails(t)
  BY DEF OwnMails
<1>6. SendOK(t, d)'
  BY <1>4 DEF SendOK, Accounted, MailsTo
<1> QED BY <1>1, <1>3, <1>5, <1>6, SendsStep

\* An attempt that is not the last leaves its own draft, none, or the one before.
LEMMA AskFailsStep ==
    ASSUME SendsInv, UNCHANGED <<up, mails>>, NEW t \in SendTimes, NEW s \in Send, s = sends[t],
           SendOK(t, s), s.pc = "ask", NEW draft \in {s.to, s.draft, Nobody}, AskFails(t, draft)
    PROVE  SendsInv'
<1>1. s.to \in Subscribers /\ s.draft \in {Nobody, s.to}
  BY DEF SendOK, Send
<1>2. CASE DefaultText(t)
  BY <1>2, TextStep DEF DefaultText
<1>3. ASSUME s.attempt + 1 < MaxAttempts,
             sends' = [sends EXCEPT ![t].attempt = @ + 1, ![t].draft = draft]
      PROVE  SendsInv'
  <2> DEFINE next == s.attempt + 1
             d == [s EXCEPT !.attempt = next, !.draft = draft]
  <2>1. next \in 0 .. MaxAttempts
    BY <1>3, SendAssumption DEF Send
  <2>2. sends' = [sends EXCEPT ![t] = d]
    BY <1>3 DEF SendsInv
  <2> HIDE DEF next
  <2>3. /\ d \in Send /\ d.pc = "ask" /\ d.listed = s.listed /\ d.left = s.left
        /\ d.city = s.city /\ d.priced = s.priced /\ d.to = s.to /\ d.draft = draft
    BY <1>1, <2>1 DEF Send
  <2> HIDE DEF d
  <2>4. SendOK(t, d)
    BY <1>1, <2>3 DEF SendOK
  <2>5. OwnMails(t) /\ SendOK(t, d)'
    BY <2>4 DEF OwnMails, SendOK, Accounted, MailsTo
  <2> QED BY <2>2, <2>3, <2>5, SendsStep
<1>4. s.attempt \in Nat
  BY SendAssumption DEF Send
<1> QED BY <1>2, <1>3, <1>4, SendAssumption DEF AskFails

\* The recipe's service answers, with a recipe or without, or fails.
LEMMA AskStep ==
    ASSUME Inv, NEW t \in SendTimes, Ask(t)
    PROVE  SendsInv' /\ MailsInv' /\ UNCHANGED <<clock, prices>>
<1>1. UNCHANGED <<clock, prices, mails, up>>
  BY DEF Ask, clock
<1>2. PICK s \in Send : s = sends[t] /\ SendOK(t, s) /\ s.pc = "ask"
  BY SendUnderWay DEF Ask, Inv
<1>3. MailsInv'
  BY <1>1, MailsStay DEF Inv
<1>4. s.to \in Subscribers /\ s.draft \in {Nobody, s.to}
  BY <1>2 DEF SendOK, Send
<1>5. ASSUME NEW draft \in {s.to, s.draft, Nobody}, AskFails(t, draft) PROVE SendsInv'
  BY <1>1, <1>2, <1>5, AskFailsStep DEF Inv
<1>6. ASSUME DefaultText(t) PROVE SendsInv'
  BY <1>1, <1>2, <1>6, TextStep DEF DefaultText, Inv
<1>7. ASSUME RecipeText(t, s.to) PROVE SendsInv'
  BY <1>1, <1>2, <1>4, <1>7, TextStep DEF RecipeText, Inv
<1>8. ASSUME s.draft # Nobody, RecipeText(t, s.draft) PROVE SendsInv'
  BY <1>4, <1>7, <1>8
<1> QED BY <1>1, <1>2, <1>3, <1>5, <1>6, <1>7, <1>8 DEF Ask, PromptOf

\* A mail handed over is the recipient's first of this send.
LEMMA MailStep ==
    ASSUME Inv, NEW t \in SendTimes, Mail(t)
    PROVE  SendsInv' /\ MailsInv' /\ UNCHANGED <<clock, prices>>
<1>1. UNCHANGED <<clock, prices, up>>
  BY DEF Mail, clock
<1>2. PICK s \in Send : s = sends[t] /\ SendOK(t, s) /\ s.pc = "mail"
  BY SendUnderWay DEF Mail, Inv
<1> DEFINE m == [send |-> t, to |-> s.to, kind |-> s.kind, of |-> s.draft, priced |-> s.priced]
<1>3. s.to \in s.left /\ s.to \in Subscribers /\ s.left \subseteq s.listed
  BY <1>2 DEF SendOK, Send
<1>4. ASSUME Handed(t) PROVE MailsInv' /\ OwnMails(t) /\ mails' = mails \cup {m}
  <2>1. mails' = mails \cup {m}
    BY <1>2, <1>4 DEF Handed
  <2>2. m \in [send : SendTimes, to : Subscribers, kind : {"recipe", "default", "empty"},
               of : Subscribers \cup {Nobody}, priced : SUBSET Rows]
    BY <1>3 DEF Send
  <2>3. MailOK(m)
    BY <1>2 DEF SendOK, MailOK
  <2>4. m.send = t
    OBVIOUS
  <2> HIDE DEF m
  <2>5. MailsInv'
    BY <2>1, <2>2, <2>3 DEF Inv, MailsInv
  <2> QED BY <2>1, <2>4, <2>5 DEF OwnMails
<1>5. ASSUME UNCHANGED mails PROVE MailsInv' /\ OwnMails(t)
  BY <1>5, MailsStay DEF Inv
<1>6. CASE Fails(t)
  BY <1>1, <1>2, <1>4, <1>5, <1>6, FailsStep DEF Mail, Inv
<1>7. ASSUME Handed(t),
             sends' = [sends EXCEPT ![t].pc = "recipient", ![t].left = @ \ {s.to}]
      PROVE  SendsInv'
  <2> DEFINE left == s.left \ {s.to}
             d == [s EXCEPT !.pc = "recipient", !.left = left]
  <2>1. sends' = [sends EXCEPT ![t] = d]
    BY <1>2, <1>7 DEF Inv, SendsInv
  <2>2. left \in SUBSET Subscribers
    BY DEF Send
  <2>3. /\ d \in Send /\ d.pc = "recipient" /\ d.listed = s.listed /\ d.left = left
        /\ d.city = s.city /\ d.priced = s.priced
    BY <2>2 DEF Send
  <2>4. mails' = mails \cup {m} /\ m.send = t /\ m.to = s.to
    BY <1>4, <1>7
  <2> HIDE DEF m, d
  <2>5. Accounted(t, s.listed, s.left)
    BY <1>2 DEF SendOK
  <2>6. \A r \in Subscribers : r # s.to => MailsTo(t, r)' = MailsTo(t, r)
    BY <2>4 DEF MailsTo
  <2>7. MailsTo(t, s.to)' = {m}
    BY <1>3, <2>4, <2>5 DEF MailsTo, Accounted
  <2>8. Accounted(t, s.listed, left)'
    <3>1. ASSUME NEW r \in left PROVE MailsTo(t, r)' = {}
      BY <2>2, <2>5, <2>6 DEF Accounted
    <3>2. ASSUME NEW r \in s.listed \ left PROVE \E x \in mails' : MailsTo(t, r)' = {x}
      <4>1. CASE r = s.to
        BY <2>4, <2>7, <4>1
      <4>2. CASE r # s.to
        <5>1. r \in Subscribers /\ r \in s.listed \ s.left
          BY <4>2 DEF Send
        <5> QED BY <2>4, <2>5, <2>6, <4>2, <5>1 DEF Accounted
      <4> QED BY <4>1, <4>2
    <3> QED BY <3>1, <3>2 DEF Accounted
  <2>9. SendOK(t, d)'
    BY <1>2, <2>3, <2>8 DEF SendOK, PricedOK
  <2> QED BY <1>1, <1>4, <1>7, <2>1, <2>3, <2>9, SendsStep DEF Inv
<1> QED BY <1>1, <1>2, <1>4, <1>5, <1>6, <1>7 DEF Mail

-------------------------------------------------------------------------------
(* Every step, and the first state *)

\* Nothing runs any more, and nothing has begun in the process that is to come.
LEMMA LosesStep ==
    ASSUME Inv, Loses, up' = FALSE, scheduling' = FALSE, UNCHANGED cancelled
    PROVE  Inv'
<1>1. ClockInv' /\ PricesInv'
  BY DEF Loses, Inv, ClockInv, PricesInv
<1>2. CrawlsInv'
  BY DEF Loses, CrawlsInv
<1>3. SendsInv'
  BY DEF Loses, SendsInv
<1>4. MailsInv'
  BY MailsStay DEF Loses, Inv
<1> QED BY <1>1, <1>2, <1>3, <1>4 DEF Inv

\* Steps of the clock and of the shutdown leave the runs alone.
LEMMA ClockStep ==
    ASSUME Inv, UNCHANGED <<up, prices, crawls, sends, mails>>, ClockInv',
           now <= now', cancelled => cancelled'
    PROVE  Inv'
<1>1. Later
  BY DEF Later, Inv, ClockInv
<1>2. CrawlsInv'
  BY <1>1, CrawlsStay DEF Inv
<1>3. PricesInv'
  BY DEF Inv, PricesInv
<1>4. SendsInv'
  BY DEF Inv, SendsInv, SendOK, Accounted, MailsTo
<1>5. MailsInv'
  BY MailsStay DEF Inv
<1> QED BY <1>2, <1>3, <1>4, <1>5 DEF Inv

\* A crawl's step leaves the sends alone.
LEMMA CrawlOnly ==
    ASSUME Inv, CrawlsInv', PricesInv', UNCHANGED <<clock, sends, mails, scheduling>>
    PROVE  Inv'
<1>1. ClockInv'
  BY DEF Inv, ClockInv, clock
<1>2. SendsInv'
  BY DEF Inv, SendsInv, SendOK, Accounted, MailsTo, clock
<1>3. MailsInv'
  BY MailsStay DEF Inv
<1> QED BY <1>1, <1>2, <1>3 DEF Inv

\* A send's step leaves the crawls alone.
LEMMA SendOnly ==
    ASSUME Inv, SendsInv', MailsInv', UNCHANGED <<clock, prices, crawls, scheduling>>
    PROVE  Inv'
<1>1. ClockInv' /\ PricesInv'
  BY DEF Inv, ClockInv, PricesInv, clock
<1>2. Later
  BY DEF Later, Inv, ClockInv, clock
<1>3. CrawlsInv'
  BY <1>2, CrawlsStay DEF Inv
<1> QED BY <1>1, <1>3 DEF Inv

\* The invariant holds before the first run.
LEMMA InitInv == Init => Inv
<1> SUFFICES ASSUME Init PROVE Inv
  OBVIOUS
<1>1. ClockInv /\ PricesInv
  BY DEF Init, ClockInv, PricesInv
<1>2. CrawlsInv
  BY DEF Init, CrawlsInv
<1>3. SendsInv
  BY DEF Init, SendsInv, MailsTo
<1>4. MailsInv
  BY DEF Init, MailsInv
<1> QED BY <1>1, <1>2, <1>3, <1>4 DEF Inv

\* Every step keeps it, and so does none.
LEMMA StepInv == Inv /\ [Next]_vars => Inv'
<1> SUFFICES ASSUME Inv, [Next]_vars PROVE Inv'
  OBVIOUS
<1>1. CASE UNCHANGED vars
  BY <1>1, SendOnly, MailsStay DEF vars, clock, Inv, SendsInv, SendOK, Accounted, MailsTo
<1>2. CASE FireCrawl
  <2>1. CrawlsInv' /\ UNCHANGED <<clock, prices, sends, mails, scheduling>>
    BY <1>2, FireCrawlStep DEF FireCrawl
  <2>2. PricesInv'
    BY <2>1 DEF Inv, PricesInv
  <2> QED BY <2>1, <2>2, CrawlOnly
<1>3. CASE FireSend
  <2>1. SendsInv' /\ MailsInv' /\ UNCHANGED <<clock, prices, crawls, scheduling>>
    BY <1>3, FireSendStep DEF FireSend
  <2> QED BY <2>1, SendOnly
<1>4. CASE Tick
  <2>1. ClockInv' /\ now <= now'
    BY <1>4 DEF Tick, Inv, ClockInv
  <2> QED BY <1>4, <2>1, ClockStep DEF Tick
<1>5. CASE Cancel
  <2>1. ClockInv' /\ now <= now'
    BY <1>5 DEF Cancel, Inv, ClockInv
  <2> QED BY <1>5, <2>1, ClockStep DEF Cancel
<1>6. CASE StopScheduling
  <2>1. UNCHANGED <<now, up, cancelled>> /\ scheduling' = FALSE
    BY <1>6 DEF StopScheduling, clock
  <2>2. ClockInv'
    BY <2>1 DEF Inv, ClockInv
  <2>3. now <= now'
    BY <2>1 DEF Inv, ClockInv
  <2> QED BY <1>6, <2>1, <2>2, <2>3, ClockStep DEF StopScheduling
<1>7. CASE Exit
  BY <1>7, LosesStep DEF Exit
<1>8. CASE Panic
  BY <1>8, LosesStep DEF Panic, EmptyPanics
<1>9. ASSUME NEW t \in CrawlTimes, CrawlStep(t), UNCHANGED <<sends, mails, scheduling>>
      PROVE  Inv'
  <2>1. CASE Saves(t)
    <3>1. CrawlsInv' /\ PricesInv' /\ UNCHANGED clock
      BY <2>1, SavesStep DEF Saves
    <3> QED BY <1>9, <3>1, CrawlOnly
  <2>2. CASE Fetches(t) \/ FetchesNothing(t) \/ FetchFails(t) \/ SaveFails(t)
    <3>1. CrawlsInv' /\ UNCHANGED <<clock, prices>>
      BY <2>2, FetchesStep, FetchFailsStep, SaveFailsStep
    <3>2. PricesInv'
      BY <3>1 DEF Inv, PricesInv
    <3> QED BY <1>9, <3>1, <3>2, CrawlOnly
  <2> QED BY <1>9, <2>1, <2>2 DEF CrawlStep
<1>10. ASSUME NEW t \in SendTimes, SendStep(t), UNCHANGED <<crawls, scheduling>>
       PROVE  Inv'
  <2>1. SendsInv' /\ MailsInv' /\ UNCHANGED <<clock, prices>>
    BY <1>10, ListSubscribersStep, NextCityStep, NextRecipientStep, AskStep, MailStep DEF SendStep
  <2> QED BY <1>10, <2>1, SendOnly
<1> QED BY <1>1, <1>2, <1>3, <1>4, <1>5, <1>6, <1>7, <1>8, <1>9, <1>10 DEF Next

-------------------------------------------------------------------------------
(* The theorems *)

\* The invariant holds in every reachable state.
LEMMA InvHolds == Spec => []Inv
BY InitInv, StepInv, PTL DEF Spec

\* The variables have their types, and a run's page and recipient are ones it
\* has left.
THEOREM TypeCorrect == Spec => []TypeOK
<1>1. Inv => TypeOK
  <2> SUFFICES ASSUME Inv PROVE TypeOK
    OBVIOUS
  <2>1. CrawlTypeOK
    <3>1. ASSUME NEW t \in CrawlTimes, crawls[t] # NotBegun
          PROVE  /\ crawls[t] \in Crawl /\ CrawlOK(t, crawls[t])
      BY <3>1 DEF Inv, CrawlsInv
    <3> QED BY <3>1 DEF CrawlTypeOK, Crawl, CrawlOK
  <2>2. SendTypeOK
    <3>1. ASSUME NEW t \in SendTimes, sends[t] # NotSent
          PROVE  /\ sends[t] \in Send /\ SendOK(t, sends[t])
      BY <3>1 DEF Inv, SendsInv
    <3> QED BY <3>1 DEF SendTypeOK, Send, SendOK, Inv, MailsInv
  <2> QED BY <2>1, <2>2 DEF TypeOK, Inv, ClockInv, PricesInv
<1> QED BY <1>1, InvHolds, PTL

\* A crawl that succeeds has stored every record of the date but for those of
\* pages it could not get, or has lost the page that says how many there are.
THEOREM NothingMissedButFailuresHolds == Spec => []NothingMissedButFailures
<1>1. Inv => NothingMissedButFailures
  <2> SUFFICES ASSUME Inv, NEW t \in CrawlTimes, crawls[t].pc = "succeeded",
                      1 \notin crawls[t].missed, NEW i \in Items, i <= crawls[t].total
               PROVE  i \in Stored(t) \/ PageOf(i) \in crawls[t].missed
    BY DEF NothingMissedButFailures
  <2>1. crawls[t] # NotBegun
    BY DEF NotBegun
  <2>2. PICK c \in Crawl : c = crawls[t] /\ CrawlOK(t, c)
    BY <2>1 DEF Inv, CrawlsInv
  <2>3. c.pages = Pages(c.total) /\ c.pages <= c.page /\ StoredUpTo(t, c, c.page)
    BY <2>2 DEF CrawlOK
  <2>4. c.total \in Nat
    <3>1. c.total \in Totals \cup {0}
      BY DEF Crawl
    <3>2. Totals \cup {0} \subseteq Nat
      BY CrawlerAssumption
    <3> QED BY <3>1, <3>2
  <2>5. PageOf(i) \in Nat /\ PageOf(i) <= c.pages
    BY <2>2, <2>3, <2>4, PagesHold, JobsAssumption
  <2>6. PageOf(i) <= c.page
    BY <2>3, <2>5 DEF Crawl
  <2> QED BY <2>2, <2>3, <2>6 DEF StoredUpTo
<1> QED BY <1>1, InvHolds, PTL

\* Past its deadline or the shutdown a crawl stores at most the page in hand.
THEOREM StopsStoringAtDeadlineHolds == Spec => []StopsStoringAtDeadline
<1>1. Inv => StopsStoringAtDeadline
  <2> SUFFICES ASSUME Inv, NEW t \in CrawlTimes, crawls[t] # NotBegun
               PROVE  crawls[t].late <= 1
    BY DEF StopsStoringAtDeadline
  <2>1. CrawlOK(t, crawls[t])
    BY DEF Inv, CrawlsInv
  <2> QED BY <2>1 DEF CrawlOK
<1> QED BY <1>1, InvHolds, PTL

\* A send that succeeds has mailed every subscriber listed, each one mail.
THEOREM SuccessfulSendReachedAllHolds == Spec => []SuccessfulSendReachedAll
<1>1. Inv => SuccessfulSendReachedAll
  <2> SUFFICES ASSUME Inv, NEW t \in SendTimes, sends[t].pc = "succeeded",
                      NEW r \in sends[t].listed
               PROVE  Cardinality({m \in mails : m.send = t /\ m.to = r}) = 1
    BY DEF SuccessfulSendReachedAll
  <2>1. sends[t] # NotSent
    BY DEF NotSent
  <2>2. PICK s \in Send : s = sends[t] /\ SendOK(t, s)
    BY <2>1 DEF Inv, SendsInv
  <2>3. s.left = {} /\ Accounted(t, s.listed, s.left)
    BY <2>2 DEF SendOK
  <2>4. PICK m \in mails : MailsTo(t, r) = {m}
    BY <2>2, <2>3 DEF Accounted
  <2>5. Cardinality({m}) = 1
    BY FS_Singleton
  <2> QED BY <2>4, <2>5 DEF MailsTo
<1> QED BY <1>1, InvHolds, PTL

\* A mailed recipe is its recipient's, from the prices of its city the day before.
THEOREM RecipesAreTheirsHolds == Spec => []RecipesAreTheirs
<1>1. Inv => RecipesAreTheirs
  <2> SUFFICES ASSUME Inv, NEW m \in mails
               PROVE  /\ m.kind = "recipe" => m.of = m.to
                      /\ m.kind = "empty" <=> m.priced = {}
                      /\ \A row \in m.priced :
                            /\ CityOf[row.item] = HomeOf[m.to]
                            /\ row.day = Day(m.send) - 1 /\ Day(row.crawl) < Day(m.send)
    BY DEF RecipesAreTheirs
  <2>1. MailOK(m) /\ m.send \in SendTimes /\ m.priced \subseteq Rows
    BY DEF Inv, MailsInv
  <2>2. Day(m.send) \in Nat
    BY <2>1, DayNat, SendAssumption
  <2>3. \A row \in m.priced : row.day \in Nat /\ Day(row.crawl) \in Nat
    BY <2>1, DayNat DEF Rows
  <2> QED BY <2>1, <2>2, <2>3 DEF MailOK, PricedOK
<1> QED BY <1>1, InvHolds, PTL
===============================================================================
