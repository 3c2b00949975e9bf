------------------------------- MODULE Ranges -------------------------------
(* The mapfile's run list and the range arithmetic the passes plan with.

   A run is a byte range with a status; a plain range has no status.  Bytes
   are counted in units: a foreign map's ranges end on units, not sectors.
   The code keeps its lists sorted, and their ranges share no byte: here a
   list is the set of its ranges, and its order that of their positions.   *)
EXTENDS Integers, FiniteSets

CONSTANTS
    Total,    \* units of the image
    Sector    \* units of a sector

ASSUME SectorAssumption == Sector \in Nat \ {0}
ASSUME TotalAssumption == Total \in Nat /\ Total % Sector = 0

Units == 0..(Total - 1)
Statuses == {"NonTried", "Finished", "NonTrimmed", "NonScraped", "Unreadable"}
Ranges1 == [pos: Nat, size: Nat \ {0}]
Runs == [pos: Nat, size: Nat \ {0}, status: Statuses]

Least(a, b) == IF a < b THEN a ELSE b
Greatest(a, b) == IF a < b THEN b ELSE a

Range1(p, n) == [pos |-> p, size |-> n]
Run(p, n, s) == [pos |-> p, size |-> n, status |-> s]
End(r) == r.pos + r.size
UnitsIn(r) == r.pos..(End(r) - 1)
Covered(rs) == UNION {UnitsIn(r) : r \in rs}

\* The longest ranges a set of units is made of.
RangesOf(S) ==
    LET firsts == {u \in S : u - 1 \notin S}
        lasts == {u \in S : u + 1 \notin S}
        whole == {p \in firsts \X lasts : p[1] <= p[2] /\ p[1]..p[2] \subseteq S}
    IN  {Range1(p[1], p[2] + 1 - p[1]) : p \in whole}

----------------------------------------------------------------------------
(* The run list. *)

With(rs, statuses) == {r \in rs : r.status \in statuses}
Held(rs, statuses) == Covered(With(rs, statuses))

\* Neighbours of one status become one run.
Coalesced(rs) ==
    UNION {{Run(x.pos, x.size, s) : x \in RangesOf(Held(rs, {s}))} : s \in Statuses}

Created == IF Total = 0 THEN {} ELSE {Run(0, Total, "NonTried")}

\* A file's lines, its gaps untried; overlapping lines refuse it.
Loadable(lines) ==
    \A x, y \in lines : x # y => End(x) <= y.pos \/ End(y) <= x.pos
Loaded(lines) ==
    LET gaps == RangesOf(Units \ Covered(lines))
    IN  Coalesced(lines \cup {Run(g.pos, g.size, "NonTried") : g \in gaps})

\* The counters: what the runs of each class measure, and how many are bad.
Counters == {"good", "unreadable", "pending", "nontried", "retryable", "badRanges"}
Class(f) ==
    CASE f = "good" -> {"Finished"}
      [] f \in {"unreadable", "badRanges"} -> {"Unreadable"}
      [] f = "nontried" -> {"NonTried"}
      [] f = "retryable" -> {"NonTrimmed", "NonScraped"}
      [] f = "pending" -> {"NonTried", "NonTrimmed", "NonScraped"}
Measure(rs) == Cardinality(Covered(rs))
Share(f, rs) ==
    LET hits == With(rs, Class(f)) IN IF f = "badRanges" THEN Cardinality(hits) ELSE Measure(hits)
Tallied(rs) == [f \in Counters |-> Share(f, rs)]

\* Mutant of Window: a run that only touches the record is left out.
WindowInside(rs, a, b) == {r \in rs : a < End(r) /\ r.pos < b}

\* The runs that overlap [a, b) or touch it, which alone a record can change.
Window(rs, a, b) == {r \in rs : a <= End(r) /\ r.pos <= b}

\* What a record leaves of the runs it meets: before it, and after it.
Before(rs, a) == {Run(r.pos, Least(End(r), a) - r.pos, r.status) : r \in {q \in rs : q.pos < a}}
After(rs, b) ==
    {Run(Greatest(r.pos, b), End(r) - Greatest(r.pos, b), r.status) : r \in {q \in rs : b < End(q)}}
Pieces(rs, a, b, status) == Before(rs, a) \cup {Run(a, b - a, status)} \cup After(rs, b)
Spliced(rs, a, b, status) == Coalesced(Pieces(Window(rs, a, b), a, b, status))

\* The list after [a, a + n) is recorded.
Record(rs, a, n, status) ==
    IF n = 0 THEN rs ELSE (rs \ Window(rs, a, a + n)) \cup Spliced(rs, a, a + n, status)

\* Mutant of Recount: the runs that were replaced stay counted.
RecountTwice(c, rs, a, n, status) ==
    [f \in Counters |-> c[f] + Share(f, Spliced(rs, a, a + n, status))]

\* The counters after it.
Recount(c, rs, a, n, status) ==
    IF n = 0 THEN c
    ELSE [f \in Counters |-> (c[f] - Share(f, Window(rs, a, a + n)))
                             + Share(f, Spliced(rs, a, a + n, status))]

Promoted(rs, from, to) ==
    Coalesced({IF r.status \in from THEN Run(r.pos, r.size, to) ELSE r : r \in rs})

RangesWith(rs, statuses) == {Range1(r.pos, r.size) : r \in With(rs, statuses)}

----------------------------------------------------------------------------
(* Ranges. *)

Merged(rs) == RangesOf(Covered(rs))

\* What two ranges share, in both lists' every pair.
Shared(r, s) ==
    Range1(Greatest(r.pos, s.pos), Least(End(r), End(s)) - Greatest(r.pos, s.pos))
Intersected(rs, scope) ==
    {x \in {Shared(p[1], p[2]) : p \in rs \X scope} : x.size > 0}

\* What the cuts leave of each range.
Subtracted(rs, cuts) == UNION {RangesOf(UnitsIn(r) \ Covered(cuts)) : r \in rs}

\* Mutant of Snapped: both ends go down.
SnappedDown(r) ==
    LET start == (r.pos \div Sector) * Sector IN
    Range1(start, (End(r) \div Sector) * Sector - start)

\* Out to whole sectors: the start down, the end up.
Snapped(r) ==
    LET start == (r.pos \div Sector) * Sector
        end == ((End(r) + Sector - 1) \div Sector) * Sector
    IN  Range1(start, end - start)
=============================================================================
