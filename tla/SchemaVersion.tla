---------------------------- MODULE SchemaVersion ----------------------------
(***************************************************************************)
(* What the migrators promise to whoever reads the platform's database     *)
(* (internal/platform/migrate): the schema is that of some build, as a     *)
(* whole, and only ever becomes that of a longer one, in one step - the    *)
(* recorded versions with it.                                              *)
(***************************************************************************)
EXTENDS Naturals, Sequences

CONSTANTS
    History,       \* the versions of the repository's migrations, oldest first
    Builds         \* how many of them the builds embed

VARIABLES
    schema,        \* the migrations that have been applied, in that order
    tracked        \* the versions that are recorded

Init == schema = <<>> /\ tracked = {}

Upgrade(build) ==
    /\ Len(schema) < build
    /\ schema' = SubSeq(History, 1, build)
    /\ tracked' = {History[i] : i \in 1 .. build}

Next == \E build \in Builds : Upgrade(build)

Spec == Init /\ [][Next]_<<schema, tracked>>
===============================================================================
