----------------------------- MODULE ReadPolicy -----------------------------
(* What a sweep does about a failed read: the counters it keeps between reads
   and the action each class of failure gets.

   A sweep jumps at the first failure of an outer batch, so neither the count
   of those nor the damage window of a patch pass decides anything in it.   *)
EXTENDS Naturals

CONSTANTS
    ZoneWindow,     \* good reads in a row that end a damage zone
    NotReadyTries,  \* retries of a drive that is not ready
    BridgeTries,    \* retries of a degraded bridge
    WedgeAbort,     \* wedges in a row that end the pass
    WedgeJump,      \* sectors a wedge jumps
    JumpBase,       \* sectors the first damage jump skips
    MaxMultiplier   \* what the jump grows to, in JumpBases

ASSUME PolicyAssumption ==
    /\ ZoneWindow \in Nat \ {0} /\ WedgeAbort \in Nat \ {0}
    /\ NotReadyTries \in Nat /\ BridgeTries \in Nat
    /\ WedgeJump \in Nat /\ JumpBase \in Nat /\ MaxMultiplier \in Nat \ {0}

Failures == {"transport", "unit attention", "bridge", "not ready", "wedge", "recovered", "medium"}
Smaller(a, b) == IF a < b THEN a ELSE b

\* The counters; good reads are counted up to ZoneWindow, which is all that
\* is ever asked of them.
Contexts == [good: 0..ZoneWindow, notReady: 0..NotReadyTries, bridge: 0..BridgeTries,
             wedges: 0..WedgeAbort, zone: BOOLEAN, multiplier: 1..MaxMultiplier]
ForSweep == [good |-> 0, notReady |-> 0, bridge |-> 0, wedges |-> 0, zone |-> FALSE,
             multiplier |-> 1]

OnSuccess(c) ==
    LET run == Smaller(c.good + 1, ZoneWindow)
        over == c.zone /\ run = ZoneWindow
    IN  [good |-> run, notReady |-> 0, bridge |-> 0, wedges |-> 0, zone |-> c.zone /\ ~over,
         multiplier |-> IF over THEN 1 ELSE c.multiplier]

Retry == [do |-> "retry", sectors |-> 0]
Skip == [do |-> "skip", sectors |-> 0]
Jump(n) == [do |-> "jump", sectors |-> n]
Abort == [do |-> "abort", sectors |-> 0]
Decided(c, action) == [ctx |-> c, action |-> action]

\* Mutant of Retried: a retry of one class clears the other's budget.
RetriedAfresh(failure, c) ==
    IF failure = "bridge" THEN [c EXCEPT !.bridge = @ + 1, !.notReady = 0]
    ELSE [c EXCEPT !.notReady = @ + 1, !.bridge = 0]

\* A failure worth another try, and the counter it uses up.
Transient(failure, c) ==
    \/ failure = "bridge" /\ c.bridge < BridgeTries
    \/ failure = "not ready" /\ c.notReady < NotReadyTries
Retried(failure, c) ==
    IF failure = "bridge" THEN [c EXCEPT !.bridge = @ + 1] ELSE [c EXCEPT !.notReady = @ + 1]

\* The block is left behind: the next one gets its own not-ready budget, and
\* all but a recovered read put the drive in a damage zone.
Left(failure, c) == [c EXCEPT !.notReady = 0, !.zone = @ \/ failure # "recovered"]

Damage(c) ==
    Decided([c EXCEPT !.multiplier = Smaller(2 * @, MaxMultiplier)],
            Jump(JumpBase * Smaller(c.multiplier, MaxMultiplier)))
Wedged(c) ==
    Decided([c EXCEPT !.wedges = @ + 1],
            IF c.wedges + 1 >= WedgeAbort THEN Abort ELSE Jump(WedgeJump))

HandleReadError(failure, c) ==
    LET broken == [c EXCEPT !.good = 0] IN
    CASE failure \in {"transport", "unit attention"} -> Decided(broken, Abort)
      [] Transient(failure, c) -> Decided(Retried(failure, broken), Retry)
      [] failure = "wedge" -> Wedged(Left(failure, broken))
      [] failure = "recovered" -> Decided(Left(failure, broken), Skip)
      [] OTHER -> Damage(Left(failure, broken))
=============================================================================
