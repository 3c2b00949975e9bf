------------------------------- MODULE Sweep -------------------------------
(* Sweep passes over one map: which ranges a pass plans to read, how it reads
   them block by block, and what it records of the blocks it skips and jumps.

   What the consumer thread does with the items it is sent is Capture's: here
   an item is recorded when it is sent.  The drive answers a read any way it
   likes.                                                                  *)
EXTENDS Ranges, ReadPolicy

CONSTANTS
    Batch,      \* sectors of a block
    MapFiles,   \* the mapfiles the first pass may resume: one of another size is swept afresh
    Scopes,     \* the ranges a pass may be asked for
    Skips,      \* the ranges a pass may have to leave alone
    Whole,      \* no scope: the whole disc
    Limit,      \* bound: no offset is beyond it
    MaxPasses   \* bound: passes over the map

ASSUME BatchAssumption == Batch \in Nat \ {0}
ASSUME LimitAssumption == Limit \in Nat
ASSUME MapFilesAssumption ==
    \A lines \in MapFiles :
        /\ lines \subseteq Runs /\ \A r \in lines : End(r) <= Total
        /\ Total > 0 => \E r \in lines : End(r) = Total
ASSUME ScopesAssumption ==
    /\ \A sc \in Scopes \ {Whole} : sc \subseteq Ranges1 /\ \A r \in sc : End(r) <= Limit
    /\ \A cuts \in Skips : cuts \subseteq Ranges1

Sectors == 0..(Total \div Sector - 1)
UnitsOf == [s \in Sectors |-> (s * Sector)..(s * Sector + Sector - 1)]
Jobs == [scope: Scopes, skip: Skips, fresh: BOOLEAN, skipping: BOOLEAN]

VARIABLES
    map,      \* the run list
    counts,   \* its counters
    scope,    \* the ranges it is limited to, or Whole
    pc,       \* "idle", "reading" or "ended"
    job,      \* what the pass was asked for
    reading,  \* the ranges it reads within, or Whole
    open,     \* the sectors it was to read: those with an untried unit in reading
    todo,     \* the regions it has yet to begin
    region,   \* what is left of the one it reads, from its cursor on
    ctx,      \* the read policy's counters
    tries,    \* failed reads of the block at the cursor
    slow,     \* the drive was told to read slowly
    halt,     \* Stop was pressed
    result,   \* how the pass ended
    passes    \* passes begun

mapVars == <<map, counts, scope>>
planVars == <<job, reading, open, passes>>
readVars == <<todo, region, ctx, tries, slow>>
vars == <<mapVars, planVars, readVars, pc, halt, result>>

NoJob == [scope |-> Whole, skip |-> {}, fresh |-> FALSE, skipping |-> TRUE]
NoRegion == Range1(0, 0)
NoResult == "none"

StatusAt(m, u) == (CHOOSE r \in m : u \in UnitsIn(r)).status
Within(sc, u) == sc = Whole \/ u \in Covered(sc)

\* The counters as they are read: what nobody tried outside the scope is not pending.
Outside(m, sc) ==
    LET untried == RangesWith(m, {"NonTried"}) IN
    IF sc = Whole THEN 0 ELSE Measure(untried) - Measure(Intersected(untried, sc))
Stats(m, c, sc) ==
    [c EXCEPT !.pending = @ - Outside(m, sc), !.nontried = @ - Outside(m, sc)]

Init ==
    /\ \E lines \in MapFiles : Loadable(lines) /\ map = Loaded(lines)
    /\ counts = Tallied(map) /\ scope = Whole
    /\ pc = "idle" /\ job = NoJob /\ reading = Whole /\ open = {}
    /\ todo = {} /\ region = NoRegion /\ ctx = ForSweep /\ tries = 0 /\ slow = FALSE
    /\ halt = FALSE /\ result = NoResult /\ passes = 0

----------------------------------------------------------------------------
(* Planning: the map, the scope and the regions of a pass. *)

\* A scoped pass over a whole disc's map with progress leaves the map whole.
ResumesWhole(j, m, sc) == ~j.fresh /\ sc = Whole /\ Tallied(m).pending # Total
PassScope(j, m, sc) ==
    IF j.scope = Whole THEN Whole
    ELSE IF sc = Whole THEN Merged(j.scope) ELSE Merged(j.scope \cup sc)
MapScope(j, m, sc) == IF ResumesWhole(j, m, sc) THEN Whole ELSE PassScope(j, m, sc)

Regions(m, within, skip) ==
    LET untried == RangesWith(m, {"NonTried"})
        wanted == IF within = Whole THEN untried ELSE Intersected(untried, within)
    IN  Subtracted(wanted, skip)

WantedSectors(m, within, skip) ==
    {s \in Sectors : \E u \in UnitsOf[s] :
        StatusAt(m, u) = "NonTried" /\ Within(within, u) /\ u \notin Covered(skip)}

Begin(j) ==
    LET m == IF j.fresh THEN Created ELSE Loaded(map)
        sc == IF j.fresh THEN Whole ELSE scope
        within == PassScope(j, m, sc)
    IN  /\ pc # "reading" /\ passes < MaxPasses
        /\ j.fresh => j.skip = {}
        /\ map' = m /\ counts' = Tallied(m) /\ scope' = MapScope(j, m, sc)
        /\ job' = j /\ reading' = within /\ open' = WantedSectors(m, within, j.skip)
        /\ todo' = Regions(m, within, j.skip)
        /\ pc' = "reading" /\ region' = NoRegion /\ ctx' = ForSweep /\ tries' = 0 /\ slow' = FALSE
        /\ halt' = FALSE /\ result' = NoResult /\ passes' = passes + 1

----------------------------------------------------------------------------
(* Reading: one block at the cursor. *)

\* The lowest region left is next, out to whole sectors.
NextRegion ==
    /\ pc = "reading" /\ region.size = 0 /\ todo # {}
    /\ \E r \in todo :
          /\ \A q \in todo : r.pos <= q.pos
          /\ region' = Snapped(r) /\ todo' = todo \ {r}
    /\ UNCHANGED <<mapVars, planVars, ctx, tries, slow, pc, halt, result>>

Reading == pc = "reading" /\ region.size > 0 /\ ~halt

\* Any block but a region's last may be cut short, to end on a unit of its file.
Blocks ==
    LET rest == region.size \div Sector IN
    IF rest <= Batch THEN {rest} ELSE 1..Batch

\* The cursor moves on.
Onward(n) == region' = Range1(region.pos + n, region.size - n) /\ todo' = todo

Sent(n, status) ==
    /\ map' = Record(map, region.pos, n, status)
    /\ counts' = Recount(counts, map, region.pos, n, status)

\* A block that failed and the gap jumped after it are two items.
SentWithGap(n, gap) ==
    LET m == Record(map, region.pos, n, "NonTrimmed")
        c == Recount(counts, map, region.pos, n, "NonTrimmed")
    IN  /\ map' = Record(m, region.pos + n, gap, "NonTrimmed")
        /\ counts' = Recount(c, m, region.pos + n, gap, "NonTrimmed")

\* How far a jump goes past the block: never past the region.
Gap(n, sectors) == Least(sectors * Sector, region.size - n)

Ended(how) == pc' = "ended" /\ result' = how
GoOn == UNCHANGED <<pc, result>>

ReadGood ==
    /\ Reading
    /\ \E k \in Blocks : Sent(k * Sector, "Finished") /\ Onward(k * Sector)
    /\ ctx' = OnSuccess(ctx) /\ tries' = 0
    /\ slow' = (slow /\ ~(ctx.zone /\ ~ctx'.zone))
    /\ GoOn /\ UNCHANGED <<scope, planVars, halt>>

\* A failed read the policy decides about, when the pass skips errors.
Handles(failure, act) ==
    /\ Reading /\ job.skipping
    /\ LET d == HandleReadError(failure, ctx) IN d.action.do = act /\ ctx' = d.ctx

ReadRetried(failure) ==
    /\ Handles(failure, "retry")
    /\ tries' = Smaller(tries + 1, NotReadyTries + BridgeTries + 1)
    /\ GoOn /\ UNCHANGED <<mapVars, planVars, todo, region, slow, halt>>

ReadSkipped(failure) ==
    /\ Handles(failure, "skip")
    /\ \E k \in Blocks : Sent(k * Sector, "NonTrimmed") /\ Onward(k * Sector)
    /\ tries' = 0
    /\ GoOn /\ UNCHANGED <<scope, planVars, slow, halt>>

ReadJumped(failure) ==
    /\ Handles(failure, "jump")
    /\ \E k \in Blocks :
          LET n == k * Sector
              gap == Gap(n, HandleReadError(failure, ctx).action.sectors)
          IN  SentWithGap(n, gap) /\ Onward(n + gap)
    /\ tries' = 0 /\ slow' = (slow \/ ~ctx.zone)
    /\ GoOn /\ UNCHANGED <<scope, planVars, halt>>

\* The consumer takes the block of a jump and not its gap.
JumpCutShort(failure) ==
    /\ Handles(failure, "jump")
    /\ \E k \in Blocks : Sent(k * Sector, "NonTrimmed")
    /\ Ended("failed") /\ UNCHANGED <<scope, planVars, todo, region, tries, slow, halt>>

ReadAborts(failure) ==
    /\ Handles(failure, "abort") /\ Ended("failed")
    /\ UNCHANGED <<mapVars, planVars, todo, region, tries, slow, halt>>

\* An error that is no damage, or any error of a pass that skips none.
ReadFails ==
    /\ Reading /\ Ended("failed")
    /\ UNCHANGED <<mapVars, planVars, readVars, halt>>

\* The consumer takes no more items.
SendFails ==
    /\ pc = "reading" /\ Ended("failed")
    /\ UNCHANGED <<mapVars, planVars, readVars, halt>>

Stop ==
    /\ pc = "reading" /\ ~halt /\ halt' = TRUE
    /\ UNCHANGED <<mapVars, planVars, readVars, pc, result>>

\* Between blocks, in a pause, at a report or in a read that Stop cut short.
Halts ==
    /\ pc = "reading" /\ halt /\ Ended("halted")
    /\ UNCHANGED <<mapVars, planVars, readVars, halt>>

Completes ==
    /\ pc = "reading" /\ region.size = 0 /\ todo = {} /\ Ended("complete")
    /\ UNCHANGED <<mapVars, planVars, readVars, halt>>

Step ==
    \/ NextRegion \/ Halts \/ Completes \/ ReadFails \/ ReadGood
    \/ \E failure \in Failures :
          \/ ReadRetried(failure) \/ ReadSkipped(failure) \/ ReadJumped(failure)
          \/ JumpCutShort(failure) \/ ReadAborts(failure)

\* The recovery's last pass is over: damage becomes unreadable.
GiveUp ==
    /\ pc = "ended"
    /\ map' = Promoted(map, {"NonTrimmed", "NonScraped"}, "Unreadable")
    /\ map' # map /\ counts' = Tallied(map')
    /\ UNCHANGED <<scope, planVars, readVars, pc, halt, result>>

Next == (\E j \in Jobs : Begin(j)) \/ Step \/ SendFails \/ Stop \/ GiveUp

Spec == Init /\ [][Next]_vars
FairSpec == Spec /\ WF_vars(Step)

----------------------------------------------------------------------------
(* Properties. *)

Tiled ==
    /\ \A u \in Units : \E r \in map : u \in UnitsIn(r)
    /\ \A r, q \in map : r # q => UnitsIn(r) \cap UnitsIn(q) = {}
Maximal == \A r, q \in map : End(r) = q.pos => r.status # q.status

\* A block is read a bounded number of times; a lengthened jump and the slow
\* speed belong to a damage zone.
Paced ==
    /\ tries <= NotReadyTries + BridgeTries
    /\ ctx.multiplier > 1 => ctx.zone
    /\ pc = "reading" => (slow <=> ctx.zone)

\* The map's runs tile the image and are maximal, whatever was recorded in
\* whatever order (the invariant `splice` relies on), the read policy's
\* counters stay in their ranges, a block is read a bounded number of times,
\* and the lengthened jump and the slow speed last as long as a damage zone.
TypeOK ==
    /\ map \subseteq Runs /\ Covered(map) \subseteq Units
    /\ Tiled /\ Maximal
    /\ ctx \in Contexts
    /\ pc \in {"idle", "reading", "ended"}
    /\ result \in {NoResult, "complete", "halted", "failed"}
    /\ open \subseteq Sectors
    /\ Paced

\* The run list with its incremental counters is a map from units to statuses
\* with counters computed anew, and a pass rewrites whole sectors, only ones
\* with a unit that was untried and asked for, none it was to leave alone.
Abstract == INSTANCE SectorMap WITH
    status <- [u \in Units |-> StatusAt(map, u)],
    scope <- {u \in Units : Within(scope, u)},
    counts <- Stats(map, counts, scope),
    open <- open
Implements == Abstract!Spec

\* A pass that completes tried every unit it was asked for: none is left
\* untried, and the counters of the map say so.
SweptTrue ==
    result = "complete" =>
        /\ \A s \in open : \A u \in UnitsOf[s] : StatusAt(map, u) # "NonTried"
        /\ (job.skip = {} /\ reading = scope) => Stats(map, counts, scope).nontried = 0

\* A pass ends, whatever the drive answers, if reads and sends return.
SweepEnds == pc = "reading" ~> pc = "ended"
=============================================================================
