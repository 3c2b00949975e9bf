------------------------------ MODULE Section ------------------------------
(* The recovery of bad sections in a patch pass: tiers of handlers over every
   section, each handler a bounded walk that reads sectors and claims what it
   recovered from the section's still-bad set.

   The drive answers a read any way it likes and a deadline passes at any
   check or never.  A section begins as one range and only ever loses sectors,
   so its still-bad ranges are the maximal runs of a set of sectors.       *)
EXTENDS Integers, Sequences, FiniteSets, SequencesExt

CONSTANTS
    Capacity,        \* sectors of the disc
    BadRanges,       \* the damaged ranges of the map, in whole sectors
    Tiers,           \* the handlers of each tier
    Modes,           \* how a pass may run: one flat chain, with a reporter
    Batch,           \* BATCH_SECTORS
    JumpAfter,       \* JUMP_AFTER_FAILS
    Yield,           \* UNPRODUCTIVE_YIELD
    WedgeAbort       \* WEDGE_ABORT_STREAK

Techniques == {"linear", "bisect", "jump", "cacheprime", "oscillate", "speedsweep"}
Handlers == [technique: Techniques, reverse: BOOLEAN, speed: {"max", "min"}]

Least(a, b) == IF a < b THEN a ELSE b
Most(a, b) == IF a < b THEN b ELSE a
Spans == [pos: Nat, len: Nat \ {0}]
Span(pos, len) == [pos |-> pos, len |-> len]
Beyond(r) == r.pos + r.len
SectorsOf(r) == r.pos..(Beyond(r) - 1)

\* The ranges of a map whose entries end on sectors: no two share one.
ASSUME SectionAssumption ==
    /\ {Capacity, Batch, JumpAfter, Yield, WedgeAbort} \subseteq Nat \ {0}
    /\ BadRanges \in Seq(Spans) /\ BadRanges # <<>>
    /\ \A i \in DOMAIN BadRanges : Beyond(BadRanges[i]) <= Capacity
    /\ \A i, j \in DOMAIN BadRanges :
          i # j => SectorsOf(BadRanges[i]) \cap SectorsOf(BadRanges[j]) = {}
    /\ Tiers \in Seq(SUBSET Handlers) /\ Tiers # <<>>
    /\ Modes \subseteq [flat: BOOLEAN, reports: BOOLEAN]

\* The largest section first, then the lowest.
Sooner(a, b) == a.len > b.len \/ (a.len = b.len /\ a.pos < b.pos)
Place(i) == Cardinality({j \in DOMAIN BadRanges : ~Sooner(BadRanges[i], BadRanges[j])})
Ordered == [k \in DOMAIN BadRanges |-> BadRanges[CHOOSE i \in DOMAIN BadRanges : Place(i) = k]]
Sections == DOMAIN Ordered

VARIABLES
    mode,      \* flat or by tiers, with a reporter or without
    bad,       \* each section's still-bad sectors
    written,   \* sectors handed to the consumer as recovered
    residue,   \* sectors handed to the consumer as still damaged
    tier, sec, \* where the pass is
    pc,        \* "enter", "chain", "handler", "leave" or "ended"
    todo,      \* handlers of the chain that have not run
    h,         \* the running handler and where it is
    dead,      \* reads in a row that recovered nothing, up to Yield
    wedge,     \* fast wedge senses in a row, across sections
    speed,     \* the drive's speed; "unset" before the pass sets it
    stop,      \* Stop was pressed
    latch,     \* the chain has seen it
    chain,     \* how the section's chain ended
    ended      \* how the pass ended

place == <<mode, tier, sec>>
sent == <<written, residue>>
streaks == <<dead, wedge>>
vars == <<place, sent, streaks, bad, pc, todo, h, speed, stop, latch, chain, ended>>

LastTier == IF mode.flat THEN 1 ELSE Len(Tiers)
Roster == IF mode.flat THEN UNION {Tiers[i] : i \in DOMAIN Tiers} ELSE Tiers[tier]
Bad == bad[sec]

----------------------------------------------------------------------------
(* A handler's walk.  `runs` are the ranges it has yet to read, the first one
   from `off` on; a bisection's are its stack, and while it expands from a
   good probe the island it has read is back..(forth - 1).                 *)

RunAt(S, s) == Span(s, CHOOSE n \in 1..Capacity : s + n \notin S /\ s..(s + n - 1) \subseteq S)
Nth(S, k) == CHOOSE s \in S : Cardinality({t \in S : t <= s}) = k
Runs(S) ==
    LET firsts == {s \in S : s - 1 \notin S}
    IN  [i \in 1..Cardinality(firsts) |-> RunAt(S, Nth(firsts, i))]

\* The first read of a sector, or of a range.
FirstPhase(by, runs, off) ==
    IF runs = <<>> THEN "over" ELSE
    CASE by.technique \in {"linear", "jump"} -> "walk"
      [] by.technique = "bisect" -> "probe"
      [] by.technique = "speedsweep" -> "fast"
      [] by.technique = "cacheprime" -> IF off = 0 /\ Head(runs).pos > 0 THEN "prime" ELSE "walk"
      [] by.technique = "oscillate" -> IF Head(runs).pos + off > 0 THEN "below" ELSE "target"

At(by, runs, off) ==
    [by |-> by, runs |-> runs, off |-> off, phase |-> FirstPhase(by, runs, off),
     fails |-> 0, back |-> 0, forth |-> 0, step |-> 0]
Started(by) ==
    LET runs == Runs(Bad)
    IN  At(by, IF by.reverse \/ by.technique = "bisect" THEN Reverse(runs) ELSE runs, 0)

Nothing == At([technique |-> "linear", reverse |-> FALSE, speed |-> "max"], <<>>, 0)

\* What the walk reads next.
Wanted ==
    LET r == Head(h.runs)
        n == Least(Batch, r.len - h.off)
        here == r.pos + h.off
    IN  CASE h.phase = "walk" ->
                Span(IF h.by.reverse THEN Beyond(r) - h.off - n ELSE here, n)
          [] h.phase \in {"fast", "slow", "target", "again"} -> Span(here, 1)
          [] h.phase \in {"prime", "below"} -> Span(here - 1, 1)
          [] h.phase = "above" -> Span(here + 1, 1)
          [] h.phase = "probe" -> Span(r.pos + r.len \div 2, 1)
          [] h.phase = "forward" -> Span(h.forth, Least(h.step, Beyond(r) - h.forth))
          [] h.phase = "backward" ->
                LET k == Least(h.step, h.back - r.pos) IN Span(h.back - k, k)

\* Mutant of Commits: no prime read is ever handed to the sink.
CommitsTargets == h.phase \notin {"prime", "below", "above"}

\* A prime read of a sector that is not bad here only warms the drive.
Commits == h.phase \in {"prime", "below", "above"} => Wanted.pos \in Bad
\* What a good read takes off the bad set: a range's prime read nothing.
Claimed == IF h.phase = "prime" THEN {} ELSE SectorsOf(Wanted)
WantedSpeed ==
    IF h.by.technique # "speedsweep" THEN h.by.speed
    ELSE IF h.phase = "fast" THEN "max" ELSE "min"

Moved(n) ==
    IF h.off + n < Head(h.runs).len THEN At(h.by, h.runs, h.off + n)
    ELSE At(h.by, Tail(h.runs), 0)

\* After JumpAfter failures the walk goes to the middle of what is left.
Walked(good) ==
    IF good \/ h.by.technique # "jump" THEN Moved(Wanted.len)
    ELSE IF h.fails + 1 >= JumpAfter THEN Moved(Most((Head(h.runs).len - h.off) \div 2, 1))
    ELSE LET on == Moved(Wanted.len)
         IN  IF on.off = 0 THEN on ELSE [on EXCEPT !.fails = h.fails + 1]

\* The slower speed is the last one tried, with a check for Stop after it.
Tried(good) ==
    IF good THEN Moved(1)
    ELSE IF h.phase = "fast" THEN [h EXCEPT !.phase = "slow"]
    ELSE LET on == Moved(1) IN IF on.runs = <<>> THEN [on EXCEPT !.phase = "tried"] ELSE on

Approached(good) ==
    LET here == Head(h.runs).pos + h.off IN
    CASE h.phase = "below" -> [h EXCEPT !.phase = "target"]
      [] h.phase = "target" ->
            IF ~good /\ here + 1 < Capacity THEN [h EXCEPT !.phase = "above"] ELSE Moved(1)
      [] h.phase = "above" -> [h EXCEPT !.phase = "again"]
      [] h.phase = "again" -> Moved(1)

\* What a probe left unread goes back on the stack, the right part first.
Part(pos, len) == IF len > 0 THEN <<Span(pos, len)>> ELSE <<>>
Split(back, forth) ==
    LET r == Head(h.runs)
    IN  At(h.by, Part(forth, Beyond(r) - forth) \o Part(r.pos, back - r.pos) \o Tail(h.runs), 0)

\* From a good probe an island grows forward, then backward, as far as reads
\* succeed; at its edge a failed read is halved, down to one sector.
Growing(phase, back, forth, step) ==
    [h EXCEPT !.phase = phase, !.back = back, !.forth = forth, !.step = step]
Backward(back, forth) ==
    IF back > Head(h.runs).pos THEN Growing("backward", back, forth, Batch) ELSE Split(back, forth)
Forward(back, forth) ==
    IF forth < Beyond(Head(h.runs)) THEN Growing("forward", back, forth, Batch)
    ELSE Backward(back, forth)

\* Mutant of Bisected: an edge of one sector is read again and again.
BisectedStubbornly(good) ==
    LET w == Wanted IN
    CASE h.phase = "probe" ->
            IF good THEN Forward(w.pos, w.pos + 1) ELSE Split(w.pos, w.pos + 1)
      [] good /\ h.phase = "forward" -> Forward(h.back, Beyond(w))
      [] good /\ h.phase = "backward" -> Backward(w.pos, h.forth)
      [] OTHER -> [h EXCEPT !.step = Most(w.len \div 2, 1)]

Bisected(good) ==
    LET w == Wanted IN
    CASE h.phase = "probe" /\ good -> Forward(w.pos, w.pos + 1)
      [] h.phase = "probe" /\ ~good -> Split(w.pos, w.pos + 1)
      [] h.phase = "forward" /\ good -> Forward(h.back, Beyond(w))
      [] h.phase = "backward" /\ good -> Backward(w.pos, h.forth)
      [] h.phase = "forward" /\ ~good /\ w.len = 1 -> Backward(h.back, h.forth)
      [] h.phase = "backward" /\ ~good /\ w.len = 1 -> Split(h.back, h.forth)
      [] OTHER -> [h EXCEPT !.step = Most(w.len \div 2, 1)]

\* The walk after a read.
After(good) ==
    CASE h.by.technique = "bisect" -> Bisected(good)
      [] h.by.technique = "speedsweep" -> Tried(good)
      [] h.by.technique = "oscillate" -> Approached(good)
      [] h.phase = "prime" -> [h EXCEPT !.phase = "walk"]
      [] OTHER -> Walked(good)

\* An island is done: finding it was no dead streak, whatever its edges cost.
IslandDone(good) ==
    /\ h.by.technique = "bisect" /\ (h.phase # "probe" \/ good)
    /\ After(good).phase \in {"probe", "over"}

----------------------------------------------------------------------------
(* The running handler. *)

Init ==
    /\ mode \in Modes
    /\ bad = [i \in Sections |-> SectorsOf(Ordered[i])]
    /\ written = {} /\ residue = {}
    /\ tier = 1 /\ sec = 1 /\ pc = "enter" /\ todo = {} /\ h = Nothing
    /\ dead = 0 /\ wedge = 0 /\ speed = "unset"
    /\ stop = FALSE /\ latch = FALSE /\ chain = "none" /\ ended = "none"

Running == pc = "handler"

\* The check before a read: the dead streak counts, except while an island
\* grows or a second speed is tried.
Stalled == dead >= Yield /\ h.phase \notin {"forward", "backward", "slow"}

Reads ==
    /\ Running /\ h.phase \notin {"over", "tried"}
    /\ ~latch /\ ~Stalled

\* Mutant of HandlerEnds: the drive keeps the speed the handler left it at.
HandlerEndsSlow(how) ==
    /\ pc' = (IF how = "remaining" THEN "chain" ELSE "leave")
    /\ chain' = (IF how = "remaining" THEN chain ELSE how)
    /\ h' = Nothing /\ speed' = speed

\* A handler is over: the drive goes back to full speed.
HandlerEnds(how) ==
    /\ pc' = (IF how = "remaining" THEN "chain" ELSE "leave")
    /\ chain' = (IF how = "remaining" THEN chain ELSE how)
    /\ h' = Nothing /\ speed' = "max"

\* Every read tells the chain of a Stop before the next check.
Answered == latch' = stop /\ UNCHANGED <<place, residue, todo, stop, ended>>

GoesOn(good) ==
    /\ h' = After(good) /\ speed' = WantedSpeed
    /\ UNCHANGED <<pc, chain>>

\* The bytes are the sink's; on a Stop it may drop them and still say Ok.
ReadGood ==
    /\ Reads
    /\ \/ written' = written \cup (IF Commits THEN SectorsOf(Wanted) ELSE {})
       \/ stop /\ written' = written
    /\ bad' = [bad EXCEPT ![sec] = @ \ Claimed]
    /\ dead' = (IF Commits \/ IslandDone(TRUE) THEN 0 ELSE dead)
    /\ wedge' = 0
    /\ GoesOn(TRUE) /\ Answered

\* A damaged sector, a short transfer or a read a Stop cut short.
ReadBad ==
    /\ Reads
    /\ dead' = (IF IslandDone(FALSE) THEN 0 ELSE Least(dead + 1, Yield))
    /\ wedge' = 0
    /\ GoesOn(FALSE) /\ Answered /\ UNCHANGED <<bad, written>>

\* A wedge sense that came back fast: the drive may be wedged.
ReadWedge ==
    /\ Reads /\ wedge' = wedge + 1
    /\ IF wedge' < WedgeAbort
       THEN /\ dead' = (IF IslandDone(FALSE) THEN 0 ELSE Least(dead + 1, Yield))
            /\ GoesOn(FALSE)
       ELSE dead' = dead /\ HandlerEnds("transport")
    /\ Answered /\ UNCHANGED <<bad, written>>

\* The bus is gone; or the error is no damage, or the sink takes no more.
ReadEnds(how) ==
    /\ Reads /\ HandlerEnds(how)
    /\ Answered /\ UNCHANGED <<bad, written, streaks>>

Unread == UNCHANGED <<place, sent, bad, streaks, todo, stop, latch, ended>>

HandlerHalts ==
    /\ Running /\ latch /\ h.phase # "over"
    /\ HandlerEnds("halted") /\ Unread

\* A dead streak, or the deadline.
HandlerYields ==
    /\ Running /\ ~latch /\ h.phase # "over"
    /\ HandlerEnds("remaining") /\ Unread

HandlerDone ==
    /\ Running /\ (h.phase = "over" \/ (h.phase = "tried" /\ ~latch))
    /\ HandlerEnds(IF Bad = {} THEN "complete" ELSE "remaining") /\ Unread

----------------------------------------------------------------------------
(* The chain of one section, and the pass over all of them. *)

\* Best score first: any order, as the scores are measured rates.
NextHandler ==
    /\ pc = "chain" /\ Bad # {} /\ todo # {}
    /\ \E by \in todo : todo' = todo \ {by} /\ h' = Started(by)
    /\ dead' = 0 /\ pc' = "handler"
    /\ UNCHANGED <<place, sent, bad, wedge, speed, stop, latch, chain, ended>>

ChainOver ==
    /\ pc = "chain" /\ (Bad = {} \/ todo = {})
    /\ chain' = (IF Bad = {} THEN "complete" ELSE "remaining") /\ pc' = "leave"
    /\ UNCHANGED <<place, sent, streaks, bad, todo, h, speed, stop, latch, ended>>

\* The section after this one, in the tier after this one when it was the last.
Onward ==
    /\ UNCHANGED mode
    /\ IF sec < Len(Ordered) THEN sec' = sec + 1 /\ tier' = tier /\ pc' = "enter" /\ ended' = ended
       ELSE IF tier < LastTier THEN sec' = 1 /\ tier' = tier + 1 /\ pc' = "enter" /\ ended' = ended
       ELSE pc' = "ended" /\ ended' = "complete" /\ UNCHANGED <<tier, sec>>

PassEnds(how) == pc' = "ended" /\ ended' = how /\ UNCHANGED place

SkipSection ==
    /\ pc = "enter" /\ Bad = {} /\ Onward
    /\ UNCHANGED <<sent, streaks, bad, todo, h, speed, stop, latch, chain>>

EnterSection ==
    /\ pc = "enter" /\ Bad # {}
    /\ IF stop THEN PassEnds("halted") /\ UNCHANGED <<todo, speed, latch>>
       ELSE /\ pc' = "chain" /\ todo' = Roster /\ speed' = "max" /\ latch' = FALSE
            /\ UNCHANGED <<place, ended>>
    /\ UNCHANGED <<sent, streaks, bad, h, stop, chain>>

\* The first k ranges still bad are sent as residue; fewer than all when a Stop
\* or a dead consumer cuts the sends short.
Residue(k) == UNION {SectorsOf(Runs(Bad)[i]) : i \in 1..k}
Left(k) == residue' = residue \cup Residue(k)

\* Mutant of Ranges: every tier leaves residue.
RangesEachTier == Len(Runs(Bad))

\* Residue is the last tier's to send.
Ranges == IF tier = LastTier THEN Len(Runs(Bad)) ELSE 0

\* The report after a section asks for a Stop before the chain's end is looked at.
Stopped == mode.reports /\ stop
LeaveAs ==
    CASE Stopped \/ chain = "halted" -> PassEnds("halted")
      [] ~Stopped /\ chain = "transport" -> PassEnds("wedged")
      [] OTHER -> Onward

LeaveSection ==
    /\ pc = "leave"
    /\ \/ chain = "fatal" /\ PassEnds("fatal") /\ residue' = residue
       \/ chain # "fatal" /\ Left(Ranges) /\ LeaveAs
       \/ /\ chain # "fatal"
          /\ \E k \in 0..(Ranges - 1) : Left(k)
          /\ PassEnds("stuck") \/ (stop /\ PassEnds("halted"))
    /\ chain' = "none" /\ todo' = {}
    /\ UNCHANGED <<written, streaks, bad, h, speed, stop, latch>>

Stop ==
    /\ pc # "ended" /\ ~stop /\ stop' = TRUE
    /\ UNCHANGED <<place, sent, streaks, bad, pc, todo, h, speed, latch, chain, ended>>

Reading == ReadGood \/ ReadBad \/ ReadWedge \/ ReadEnds("transport") \/ ReadEnds("fatal")
Step ==
    \/ ChainOver \/ HandlerHalts \/ HandlerYields \/ HandlerDone
    \/ SkipSection \/ EnterSection \/ LeaveSection \/ NextHandler \/ Reading

Next == Step \/ Stop

Spec == Init /\ [][Next]_vars
FairSpec == Spec /\ WF_vars(Step)

----------------------------------------------------------------------------
(* Properties. *)

\* The walk stays in the section's ranges, the drive is at full speed whenever
\* no handler runs, so each one starts from it, and the wedge streak, carried
\* from section to section, ends the pass the moment it reaches its limit.
TypeOK ==
    /\ mode \in Modes /\ tier \in 1..LastTier /\ sec \in Sections
    /\ \A i \in Sections : bad[i] \subseteq SectorsOf(Ordered[i])
    /\ pc \in {"enter", "chain", "handler", "leave", "ended"}
    /\ ended \in {"none", "complete", "halted", "wedged", "fatal", "stuck"}
    /\ ended = "none" <=> pc # "ended"
    /\ dead \in 0..Yield
    /\ Reads => SectorsOf(Wanted) \subseteq 0..(Capacity - 1) /\ Wanted.len \in 1..Batch
    /\ pc # "handler" => speed \in {"max", "unset"}
    /\ wedge < WedgeAbort \/ chain = "transport" \/ ended \in {"wedged", "halted", "stuck"}

All == UNION {SectorsOf(Ordered[i]) : i \in Sections}
StillBad == UNION {bad[i] : i \in Sections}

\* A sector leaves the bad set exactly when the sink was given it, prime reads
\* included; on a Stop the sink may have dropped it.
Claims == StillBad \cap written = {} /\ (~stop => All \ StillBad = written)

\* A pass that completes has sent every sector, as recovered or as residue; the
\* span a Stop made the sink drop never passes for a completed pass where the
\* pass reports its progress.
Finishes == ended = "complete" /\ (mode.reports \/ ~stop) => written \cup residue = All

\* Residue is what the last tier leaves bad, and an error that is no damage
\* leaves none of the section it ended.
Leftovers ==
    /\ residue \subseteq StillBad
    /\ residue # {} => tier = LastTier
    /\ ended = "fatal" => residue \cap SectorsOf(Ordered[sec]) = {}

\* Every sector of the pass is accounted for: claimed as it is handed over,
\* sent once the pass is complete, and left as residue by the last tier only.
Accounted == Claims /\ Finishes /\ Leftovers

\* A pass ends though no deadline ever comes, whatever the drive answers, if
\* reads and sends return.
EndsAnyway == <>(pc = "ended")
=============================================================================
