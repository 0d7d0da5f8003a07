---------------------------- MODULE PriceHistory -----------------------------
(***************************************************************************)
(* The historians of internal/pkg/alert: InMemoryHistorian ("memory"), the *)
(* MockHistorian of the tests ("mock") and MySQLHistorian over the         *)
(* in-memory PriceHistoryStore ("store"); an engine may have "none".       *)
(* UpdatePrice saves from a goroutine that nobody waits for; only the mock *)
(* takes a lock.                                                           *)
(***************************************************************************)
EXTENDS Lists, FiniteSets, SequencesExt

CONSTANTS
    Historians,    \* the kinds of historian an engine is given in the runs
    Writers,       \* the goroutines that save or clear
    PriceValues,   \* prices that are saved: [cate, breed, region, avg, created]
    KeepDays       \* what ClearOldRecords keeps, and how far readers look back

ASSUME HistoryAssumption ==
    /\ IsFiniteSet(Writers) /\ KeepDays \in Nat
    /\ \A p \in PriceValues : p.avg \in Int /\ p.created \in Nat

VARIABLES
    clock,
    historian,     \* the kind of this run
    history,       \* the records saved: [price, at]
    writers,       \* what each goroutine is about
    saved,         \* history: the records whose save has returned, but for those cleared
    overlapped     \* history: two writers have overlapped

historyVars == <<historian, history, writers, saved, overlapped>>

Waiting == [pc |-> "waiting"]
Returned == [pc |-> "returned"]

Records == [price : PriceValues, at : Nat]

HistoryTypeOK ==
    /\ historian \in Historians
    /\ Len(history) <= Cardinality(Writers) /\ ToSet(history) \subseteq Records
    /\ \A w \in Writers :
        \/ writers[w] \in {Waiting, Returned}
        \/ writers[w].pc = "begun" /\ writers[w].price \in PriceValues
        \/ writers[w].pc \in {"saving", "clearing"} /\ ToSet(writers[w].seen) \subseteq Records
    /\ saved \subseteq Records /\ overlapped \in BOOLEAN

HistoryInit ==
    /\ historian \in Historians
    /\ history = <<>>
    /\ writers = [w \in Writers |-> Waiting]
    /\ saved = {} /\ overlapped = FALSE

-------------------------------------------------------------------------------
(* Readers *)

\* The time a record is kept under.
Stamp(record) == IF historian = "memory" THEN record.at ELSE record.price.created

Recent(record) == Stamp(record) > clock - KeepDays

\* ClearBefore keeps what is of the very moment, too.
Survives(record) ==
    Recent(record) \/ (historian = "store" /\ Stamp(record) = clock - KeepDays)

InMemoryHas(r, cate, breed) == Recent(r) /\ r.price.cate = cate /\ r.price.breed = breed

MockHas(r, cate, breed) == InMemoryHas(r, cate, breed) /\ r.price.created # 0

\* GetByTimeRange looks neither at the category nor at the very moment.
StoreHas(r, breed) == Recent(r) /\ r.price.breed = breed /\ r.price.created < clock

GetPriceHistory(cate, breed) ==
    Keep(history, {r \in ToSet(history) :
        CASE historian = "mock" -> MockHas(r, cate, breed)
          [] historian = "store" -> StoreHas(r, breed)
          [] OTHER -> InMemoryHas(r, cate, breed)})

\* (Fault: the records are taken in the order they were saved.)
GetLatest_Bug(breed, limit) ==
    LET result == Keep(history, {r \in ToSet(history) : r.price.breed = breed})
    IN  SubSeq(result, 1, IF Len(result) < limit THEN Len(result) ELSE limit)

\* GetLatest: a record goes to the front if it is newer than all those before it.
GetLatest(breed, limit) ==
    LET Step(result, r) ==
            IF r.price.breed = breed /\ Stamp(r) > (IF result = <<>> THEN 0 ELSE Stamp(result[1]))
            THEN <<r>> \o result ELSE result
        results[n \in 0 .. Len(history)] ==
            IF n = 0 THEN <<>> ELSE Step(results[n - 1], history[n])
        result == results[Len(history)]
    IN  SubSeq(result, 1, IF Len(result) < limit THEN Len(result) ELSE limit)

Values(records) == {r.price.avg : r \in ToSet(records)}

\* GetPriceSnapshot: the newest price by creation and the range of the days before.
GetPriceSnapshot(cate, breed) ==
    LET found == GetPriceHistory(cate, breed)
        latest == {r \in ToSet(found) : r.price.created # 0 /\
                     \A q \in ToSet(found) : q.price.created <= r.price.created}
    IN  {[current |-> r.price.avg,
          min |-> CHOOSE v \in Values(found) : \A u \in Values(found) : v <= u,
          max |-> CHOOSE v \in Values(found) : \A u \in Values(found) : u <= v] : r \in latest}

-------------------------------------------------------------------------------
(* Writers *)

Writing(w) == writers[w].pc \in {"saving", "clearing"}

Overlaps(w) == overlapped' = (overlapped \/ \E v \in Writers \ {w} : Writing(v))

Becomes(w, state) == writers' = [writers EXCEPT ![w] = state]

\* UpdatePrice starts the goroutine, if there is a historian.
StartSave(w, price) ==
    /\ writers[w] = Waiting
    /\ Becomes(w, IF historian = "none" THEN Returned ELSE [pc |-> "begun", price |-> price])
    /\ UNCHANGED <<historian, history, saved, overlapped>>

\* SavePriceHistory reads the list that it appends to ...
SaveReads(w) ==
    /\ writers[w].pc = "begun" /\ historian # "mock"
    /\ Becomes(w, [pc |-> "saving", seen |-> history,
                   record |-> [price |-> writers[w].price, at |-> clock]])
    /\ Overlaps(w)
    /\ UNCHANGED <<historian, history, saved>>

\* ... and makes the longer one the list.  Two that append to the same one write
\* into the same place of an array: either's record may be there.
SaveWrites(w) ==
    /\ writers[w].pc = "saving"
    /\ \E v \in Writers :
        /\ writers[v].pc = "saving" /\ writers[v].seen = writers[w].seen
        /\ history' = Append(writers[w].seen, writers[v].record)
    /\ saved' = saved \cup {writers[w].record}
    /\ Becomes(w, Returned)
    /\ UNCHANGED <<historian, overlapped>>

\* The mock appends under its lock.
SaveLocked(w) ==
    /\ writers[w].pc = "begun" /\ historian = "mock"
    /\ LET record == [price |-> writers[w].price, at |-> clock] IN
        history' = Append(history, record) /\ saved' = saved \cup {record}
    /\ Becomes(w, Returned)
    /\ UNCHANGED <<historian, overlapped>>

\* ClearOldRecords, ClearBefore: the list is filtered into a new one, ...
ClearReads(w) ==
    /\ writers[w] = Waiting /\ historian \in {"memory", "store"}
    /\ Becomes(w, [pc |-> "clearing", seen |-> Keep(history, {r \in ToSet(history) : Survives(r)})])
    /\ Overlaps(w)
    /\ UNCHANGED <<historian, history, saved>>

\* ... which takes its place.
ClearWrites(w) ==
    /\ writers[w].pc = "clearing"
    /\ history' = writers[w].seen
    /\ saved' = {r \in saved : r \in ToSet(writers[w].seen) \/ Survives(r)}
    /\ Becomes(w, Returned)
    /\ UNCHANGED <<historian, overlapped>>

\* The mock forgets everything.
ClearLocked(w) ==
    /\ writers[w] = Waiting /\ historian = "mock"
    /\ history' = <<>> /\ saved' = {}
    /\ Becomes(w, Returned)
    /\ UNCHANGED <<historian, overlapped>>

WriterStep(w) ==
    \/ SaveReads(w) \/ SaveWrites(w) \/ SaveLocked(w)
    \/ ClearReads(w) \/ ClearWrites(w) \/ ClearLocked(w)

-------------------------------------------------------------------------------
NothingLost == ~overlapped => ToSet(history) = saved

NewestFirst ==
    \A breed \in {p.breed : p \in PriceValues} :
        LET dated == {r \in ToSet(history) : r.price.breed = breed /\ Stamp(r) > 0}
            latest == GetLatest(breed, 1)
        IN  /\ dated = {} <=> latest = <<>>
            /\ dated # {} => latest[1] \in dated /\ \A r \in dated : Stamp(r) <= Stamp(latest[1])

SnapshotsInRange ==
    \A p \in PriceValues : \A s \in GetPriceSnapshot(p.cate, p.breed) :
        s.min <= s.current /\ s.current <= s.max

\* Unless two writers have overlapped, the history is what was saved and not
\* cleared (historian_memory.go:54, alert.go:188, where saves are goroutines
\* without a lock); and always its newest record is the first of the latest, the
\* snapshot's price is in its range.
HistoryServesSaves == NothingLost /\ NewestFirst /\ SnapshotsInRange
==============================================================================
