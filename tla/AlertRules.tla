----------------------------- MODULE AlertRules ------------------------------
(***************************************************************************)
(* The evaluators of internal/pkg/alert: which alerts a list of prices and *)
(* a history of prices give.  Prices are whole numbers here; what the code *)
(* divides is compared after multiplying.  The volatility index grows with *)
(* the coefficient of variation, whose square is compared instead.         *)
(***************************************************************************)
EXTENDS Lists, FiniteSets, SequencesExt

CONSTANTS
    SpikePercent, SpikeAbsolute, DropPercent, DropAbsolute,
    VolatileCV,    \* the coefficient, in percent, of the index the alert begins at
    MinHistory     \* 7: prices that make a group worth a look

Sum(values) == FoldLeft(LAMBDA a, b : a + b, 0, values)

\* CalculateChangePercent against a threshold: no change counts from a price of 0.
PercentAtLeast(old, new, percent) ==
    IF old = 0 THEN 0 >= percent ELSE (new - old) * 100 >= percent * old

PercentAtMost(old, new, percent) ==
    IF old = 0 THEN 0 <= percent ELSE (new - old) * 100 <= percent * old

\* CalculateVolatilityIndex against the threshold.
IsVolatile(values) ==
    LET n == Len(values)
        sum == Sum(values)
        squares == Sum([i \in 1 .. n |-> values[i] * values[i]])
    IN  n >= 2 /\ sum # 0 /\ (n * squares - sum * sum) * 10000 >= VolatileCV * VolatileCV * sum * sum

PriceKey(price) == <<price.cate, price.breed>>

KeysOf(prices) == {PriceKey(p) : p \in ToSet(prices)}

\* A map filled in the order of a list keeps the last price of a key; a group, all.
Group(prices, key) == Keep(prices, {p \in ToSet(prices) : PriceKey(p) = key})

LastOf(prices, key) == Group(prices, key)[Len(Group(prices, key))]

\* checkPriceChangeAlert; a drop has the last word.
ChangeType(old, new) ==
    IF PercentAtMost(old, new, -DropPercent) /\ new - old <= -DropAbsolute THEN "price_drop"
    ELSE IF PercentAtLeast(old, new, SpikePercent) /\ new - old >= SpikeAbsolute THEN "price_spike"
    ELSE "none"

SeverityOf(type) ==
    CASE type = "price_spike" -> "warning"
      [] type = "high_volatility" -> "critical"
      [] OTHER -> "info"

\* An alert; "about" is not part of it, but tells alerts of different groups apart.
Alert(type, product, region, category, about, at) ==
    [type |-> type, severity |-> SeverityOf(type), product |-> product, region |-> region,
     category |-> category, about |-> about, at |-> at]

PriceChange(prices, history, at) ==
    {a \in {LET new == LastOf(prices, key) IN
            Alert(ChangeType(LastOf(history, key).avg, new.avg), new.breed, new.region, new.cate, key, at)
              : key \in KeysOf(prices) \cap KeysOf(history)} : a.type # "none"}

\* The alert does not say whose prices they are.
Volatility(history, at) ==
    {Alert("high_volatility", "", "", "", key, at) :
        key \in {k \in KeysOf(history) :
            LET group == Group(history, k)
            IN  Len(group) >= MinHistory /\ IsVolatile([i \in 1 .. Len(group) |-> group[i].avg])}}

\* Nothing is looked for yet.
MissingData == {}

Evaluators == <<"price_change", "volatility", "missing_data">>

Evaluate(name, prices, history, at) ==
    CASE name = "price_change" -> PriceChange(prices, history, at)
      [] name = "volatility" -> Volatility(history, at)
      [] name = "missing_data" -> MissingData
==============================================================================
