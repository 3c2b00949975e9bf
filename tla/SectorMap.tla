----------------------------- MODULE SectorMap -----------------------------
(* What a mapfile promises the passes that share it: every unit of the image
   has one status, the counters say how many units have each, and a pass
   rewrites whole sectors, and only sectors that were open to it: those with
   a unit it was asked for and nobody had tried when it began.             *)
EXTENDS Integers, FiniteSets

CONSTANTS
    Sectors,   \* sectors of the image
    UnitsOf    \* the units of each sector

Units == UNION {UnitsOf[s] : s \in Sectors}
Statuses == {"NonTried", "Finished", "NonTrimmed", "NonScraped", "Unreadable"}
Results == {"Finished", "NonTrimmed"}
Damaged == {"NonTrimmed", "NonScraped"}

VARIABLES
    status,  \* what the map says of each unit
    scope,   \* the units the image is read over
    counts,  \* the map's counters
    open     \* the sectors the current pass may rewrite

vars == <<status, scope, counts, open>>

With(st, which) == {u \in Units : st[u] \in which}

\* Units outside the scope that nobody tried are no one's job.
Counted(st, sc) ==
    [good       |-> Cardinality(With(st, {"Finished"})),
     unreadable |-> Cardinality(With(st, {"Unreadable"})),
     pending    |-> Cardinality(With(st, Damaged) \cup (sc \cap With(st, {"NonTried"}))),
     nontried   |-> Cardinality(sc \cap With(st, {"NonTried"})),
     retryable  |-> Cardinality(With(st, Damaged)),
     badRanges  |-> Cardinality({u \in With(st, {"Unreadable"}) :
                                    u - 1 \notin With(st, {"Unreadable"})})]

Init ==
    /\ status \in [Units -> Statuses]
    /\ scope \in SUBSET Units
    /\ counts = Counted(status, scope)
    /\ open = {}

\* A pass begins, over the map there was or over a new one.
Begin ==
    /\ status' = status \/ status' = [u \in Units |-> "NonTried"]
    /\ scope' \in SUBSET Units
    /\ open' \in SUBSET {s \in Sectors : \E u \in UnitsOf[s] : status'[u] = "NonTried"}
    /\ counts' = Counted(status', scope')

\* The pass reads open sectors, or skips them as damaged.
Mark ==
    /\ status' \in [Units -> Statuses]
    /\ \A s \in Sectors :
          \/ \A u \in UnitsOf[s] : status'[u] = status[u]
          \/ s \in open /\ \E r \in Results : \A u \in UnitsOf[s] : status'[u] = r
    /\ counts' = Counted(status', scope)
    /\ UNCHANGED <<scope, open>>

\* The recovery is over: what is still damaged is given up.
GiveUp ==
    /\ status' = [u \in Units |-> IF status[u] \in Damaged THEN "Unreadable" ELSE status[u]]
    /\ counts' = Counted(status', scope)
    /\ UNCHANGED <<scope, open>>

Next == Begin \/ Mark \/ GiveUp
Spec == Init /\ [][Next]_vars
=============================================================================
