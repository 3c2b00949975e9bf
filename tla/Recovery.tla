------------------------------ MODULE Recovery ------------------------------
(* One image and its mapfile over a sequence of runs of the engine.

   A run is either the multi-pass recovery (a sweep, patch passes, the
   promotion of what is left and the loss verdict) or one dispatched copy (the
   one step the mapfile calls for: a sweep, a patch, or nothing).  Between runs
   the user may change discs, options and the raw/decrypt mode, and lose the
   image or the map; a run may be stopped or killed at any point.

   Capture looks inside a pass; here a pass is its opening decisions, then one
   step per block it settles, then how it ended.                            *)
EXTENDS Naturals, FiniteSets

CONSTANTS
    N,          \* blocks on a disc
    Discs,      \* discs, told apart by their identity
    Jobs,       \* the options a run may be started with
    MaxRuns,    \* bound: runs started
    NoMap,      \* there is no mapfile
    BadMap      \* there is one and it does not parse

Blocks == 0..(N - 1)
Status == {"NonTried", "NonTrimmed", "Unreadable", "Finished"}
Statuses == [Blocks -> Status]
Maps == [disc: Discs, raw: BOOLEAN, st: Statuses]

\* entry: "recover" is the multi-pass loop, "plain" and "step" one dispatched
\* copy without and with recovery from read errors ("plain" is also what the loop
\* does when it is given no patch passes).  title: the blocks of the ripped
\* title, none when its extents are unknown.  tol: blocks of it that may
\* be lost.  resume: whether the sweep resumes, "auto" if there is a map.
\* finish: a failed patch pass ends the passes only.  goOn: so does no wedge.
JobType == [entry: {"recover", "plain", "step"}, raw: BOOLEAN, iso: BOOLEAN,
            title: SUBSET Blocks, tol: Nat, patches: Nat \ {0}, sweeps: Nat,
            resume: {"auto", "yes", "no"}, finish: BOOLEAN, goOn: BOOLEAN]

ASSUME NAssumption == N \in Nat \ {0}
ASSUME JobsAssumption == Jobs \subseteq JobType
ASSUME MaxRunsAssumption == MaxRuns \in Nat
ASSUME MapAssumption == NoMap \notin Maps /\ BadMap \notin Maps /\ NoMap # BadMap

VARIABLES
    map,      \* the mapfile on disk
    img,      \* what each block of the image holds
    ilen,     \* the image's length in blocks, 0 when there is none
    drive,    \* the disc in the drive
    job,      \* the run's options
    pc,       \* where the run is
    stop,     \* where the run was when Stop was pressed
    runs,     \* runs started
    resume,   \* the sweep resumes the map
    attempt,  \* sweep attempts made
    passes,   \* passes that ran to their end
    last,     \* the map as the last of them left it
    scope,    \* what the loop found when it measured what is ripped
    todo,     \* blocks the patch pass has yet to settle
    halted,   \* the loop saw Stop
    faulted,  \* a patch pass of the run ended on a transport fault
    res       \* what the last run returned

files == <<map, img, ilen>>
plan  == <<drive, job, runs, resume>>
loop  == <<attempt, passes, last, scope, todo, halted, faulted>>
vars  == <<files, plan, pc, stop, loop, res>>

----------------------------------------------------------------------------
NoData == [disc |-> "none", raw |-> FALSE]
Source == [disc |-> drive, raw |-> job.raw]
Holds(b, s) == b < ilen /\ img[b] = s

Untried == [b \in Blocks |-> "NonTried"]
With(st, ss) == {b \in Blocks : st[b] \in ss}
Damaged(st) == With(st, {"NonTrimmed", "Unreadable"})
Bad(st) == With(st, {"NonTried", "NonTrimmed", "Unreadable"})
AllFinished(st) == Bad(st) = {}
Loadable == map \notin {NoMap, BadMap}

Scopes == {"clean", "bad", "unmeasured"}
NoResult == [how |-> "none", aborted |-> FALSE, complete |-> FALSE, clean |-> FALSE]
Labels == {"idle", "dispatch", "sweep", "sweeping", "looptop", "patch", "patching",
           "verdict", "promote"}

Return(r) == pc' = "idle" /\ res' = r
Fail == Return([NoResult EXCEPT !.how = "failed"])
Goto(label) == pc' = label /\ UNCHANGED res

Init ==
    /\ map = NoMap /\ img = [b \in Blocks |-> NoData] /\ ilen = 0
    /\ drive \in Discs /\ job \in Jobs
    /\ pc = "idle" /\ stop = "no" /\ runs = 0 /\ resume = FALSE
    /\ attempt = 0 /\ passes = 0 /\ last = Untried /\ scope = "unmeasured" /\ todo = {}
    /\ halted = FALSE /\ faulted = FALSE /\ res = NoResult

----------------------------------------------------------------------------
(* Starting a run, and the dispatch of a single copy. *)

\* The recovery resumes the map it can load, unless the host decides.  A map
\* that cannot be read at all fails the run before anything is touched.
StartRun ==
    /\ pc = "idle" /\ runs < MaxRuns
    /\ runs' = runs + 1
    /\ drive' \in Discs /\ job' \in Jobs
    /\ resume' = IF job'.resume = "auto" THEN Loadable ELSE job'.resume = "yes"
    /\ stop' = "no" /\ attempt' = 0 /\ passes' = 0 /\ last' = Untried
    /\ scope' = "unmeasured" /\ todo' = {} /\ halted' = FALSE /\ faulted' = FALSE
    /\ \/ pc' = (IF job'.entry = "recover" THEN "sweep" ELSE "dispatch") /\ res' = NoResult
       \/ map # NoMap /\ Fail
    /\ UNCHANGED files

CopyResult(st, h) ==
    [how |-> IF h THEN "halted" ELSE "done", aborted |-> FALSE,
     complete |-> ~h /\ AllFinished(st), clean |-> AllFinished(st)]

\* Mutant of Intact: a complete map vouches for whatever image is there.
IntactUnchecked == TRUE

Intact == ilen = N

SweepAnew == pc' = "sweep" /\ resume' = FALSE /\ UNCHANGED res

\* The map decides what a single copy does.
Dispatch ==
    /\ pc = "dispatch"
    /\ \/ ~Loadable /\ SweepAnew
       \/ map # NoMap /\ Fail /\ UNCHANGED resume
       \/ /\ Loadable /\ map.disc # drive
          /\ IF ilen = 0 THEN SweepAnew ELSE Fail /\ UNCHANGED resume
       \/ /\ Loadable /\ map.disc = drive
          /\ IF map.raw # job.raw THEN SweepAnew
             ELSE IF AllFinished(map.st) /\ ~Intact THEN SweepAnew
             ELSE IF With(map.st, {"NonTried"}) # {} THEN Goto("sweep") /\ resume' = TRUE
             ELSE /\ IF job.entry = "step" /\ With(map.st, {"NonTrimmed"}) # {}
                     THEN Goto("patch")
                     ELSE Return(CopyResult(map.st, FALSE))
                  /\ UNCHANGED resume
    /\ UNCHANGED <<files, drive, job, runs, stop, loop>>

----------------------------------------------------------------------------
(* A sweep: every block nobody tried is read once. *)

\* Mutant of Resumes: a sweep tried again starts as the first attempt did.
ResumesAsAsked == resume

Resumes == resume \/ attempt > 0

Attempts == IF job.entry = "recover" /\ job.sweeps > 0 THEN job.sweeps ELSE 1

\* Mutant of Refused: the identity is checked only in the job's own mode.
RefusedInMode ==
    Resumes /\ Loadable /\ map.raw = job.raw /\ map.disc # drive /\ ilen > 0

\* Another disc's map guards the image it describes.
Refused == Resumes /\ Loadable /\ map.disc # drive /\ ilen > 0

\* The map accounts for blocks no sweep will read again.
ClaimsProgress == With(map.st, {"Finished", "Unreadable"}) # {}

\* Mutant of OtherMode: raw and decrypted sectors share an image.
OtherModeIgnored == FALSE

OtherMode == map.raw # job.raw

Fresh ==
    \/ ~Resumes
    \/ map = BadMap
    \/ /\ Loadable
       /\ map.disc # drive \/ OtherMode \/ (ilen < N /\ ClaimsProgress)

\* Mutant of OpenSweep: the attempts are not counted.
OpenSweepForever ==
    /\ pc = "sweep"
    /\ ~Refused
    /\ Goto("sweeping")
    /\ map' = [disc |-> drive, raw |-> job.raw,
               st |-> IF Fresh \/ map = NoMap THEN Untried ELSE map.st]
    /\ IF Fresh \/ ilen = 0
       THEN img' = [b \in Blocks |-> NoData] /\ ilen' = N
       ELSE UNCHANGED <<img, ilen>>
    /\ attempt' = 1
    /\ UNCHANGED <<plan, stop, passes, last, scope, todo, halted, faulted>>

\* A fresh sweep removes the map and creates the image anew; a resumed one
\* keeps both.  Either stamps the map with the disc and the mode.
OpenSweep ==
    /\ pc = "sweep"
    /\ IF attempt >= Attempts \/ Refused
       THEN Fail /\ UNCHANGED <<files, attempt>>
       ELSE /\ Goto("sweeping")
            /\ attempt' = attempt + 1
            /\ map' = [disc |-> drive, raw |-> job.raw,
                       st |-> IF Fresh \/ map = NoMap THEN Untried ELSE map.st]
            /\ IF Fresh \/ ilen = 0
               THEN img' = [b \in Blocks |-> NoData] /\ ilen' = N
               ELSE UNCHANGED <<img, ilen>>
    /\ UNCHANGED <<plan, stop, passes, last, scope, todo, halted, faulted>>

\* The first block not tried is read, or skipped over with zeros; a plain copy
\* skips nothing.
SweepBlock ==
    /\ pc = "sweeping"
    /\ \E b \in With(map.st, {"NonTried"}) :
        /\ \A c \in With(map.st, {"NonTried"}) : b <= c
        /\ ilen' = IF b < ilen THEN ilen ELSE b + 1
        /\ \/ /\ map' = [map EXCEPT !.st[b] = "Finished"]
              /\ img' = [img EXCEPT ![b] = Source]
           \/ /\ job.entry # "plain"
              /\ map' = [map EXCEPT !.st[b] = "NonTrimmed"]
              /\ img' = [img EXCEPT ![b] = NoData]
    /\ UNCHANGED <<plan, pc, stop, loop, res>>

\* It ran out of blocks, or saw Stop.
SweepEnds ==
    /\ pc = "sweeping"
    /\ \E h \in BOOLEAN :
        /\ IF h THEN stop # "no" ELSE With(map.st, {"NonTried"}) = {}
        /\ IF job.entry = "recover"
           THEN /\ Goto(IF h THEN "verdict" ELSE "looptop")
                /\ passes' = 1 /\ last' = map.st /\ halted' = h
           ELSE Return(CopyResult(map.st, h)) /\ UNCHANGED <<passes, last, halted>>
    /\ UNCHANGED <<files, plan, stop, attempt, scope, todo, faulted>>

\* A transport fault the host recovers from sweeps again; any other error ends
\* the run, as does a read error of a plain copy.
SweepFails ==
    /\ pc \in {"sweep", "sweeping"}
    /\ \/ Fail
       \/ pc = "sweeping" /\ job.entry = "recover" /\ stop = "no" /\ Goto("sweep")
    /\ UNCHANGED <<files, plan, stop, loop>>

----------------------------------------------------------------------------
(* The multi-pass loop over the map's damaged blocks. *)

\* Where the loop measures: the whole disc for an ISO, else the ripped title,
\* whose blocks may be unknown.
Measure(st) ==
    IF ~job.iso /\ job.title = {} /\ Bad(st) # {} THEN "unmeasured"
    ELSE IF Bad(st) \cap (IF job.iso THEN Blocks ELSE job.title) = {} THEN "clean"
    ELSE "bad"

\* Mutant of PassesUsed: one pass too many.
PassesUsedLate == passes > job.patches + 1

\* The sweep counts as the first pass.
PassesUsed == passes > job.patches

\* The loop's top: every patch pass is used up, Stop was pressed, nothing is
\* left to do, or a pass is due.  A map that cannot be read is not measured.
LoopTop ==
    /\ pc = "looptop"
    /\ IF PassesUsed
       THEN Goto("verdict") /\ UNCHANGED <<scope, halted>>
       ELSE IF stop # "no"
       THEN Goto("verdict") /\ halted' = TRUE /\ UNCHANGED scope
       ELSE /\ scope' \in {Measure(map.st), "unmeasured"}
            /\ Goto(IF scope' = "clean" /\ With(last, {"Finished"}) # {} THEN "verdict" ELSE "patch")
            /\ UNCHANGED halted
    /\ UNCHANGED <<files, plan, stop, attempt, passes, last, todo, faulted>>

\* A patch re-reads every damaged block, of its own disc and of a whole image.
OpenPatch ==
    /\ pc = "patch" /\ stop = "no"
    /\ Loadable /\ map.disc = drive /\ ilen >= N
    /\ todo' = Damaged(map.st)
    /\ Goto("patching")
    /\ UNCHANGED <<files, plan, stop, attempt, passes, last, scope, halted, faulted>>

\* A block is read, or is still damaged after the last handler.
PatchBlock ==
    /\ pc = "patching"
    /\ \E b \in todo :
        /\ todo' = todo \ {b}
        /\ \/ /\ map' = [map EXCEPT !.st[b] = "Finished"]
              /\ img' = [img EXCEPT ![b] = Source]
           \/ map' = [map EXCEPT !.st[b] = "NonTrimmed"] /\ UNCHANGED img
    /\ UNCHANGED <<ilen, plan, pc, stop, attempt, passes, last, scope, halted, faulted, res>>

Recovered == With(map.st, {"Finished"}) \ With(last, {"Finished"}) # {}

\* A pass that recovered nothing ends the loop, unless nothing was bad before it.
NoProgress == ~Recovered /\ scope # "clean"

\* Mutant of InterruptedClean: only confirmed damage counts.
InterruptedCleanSoFar(st) == With(st, {"Unreadable"}) = {}

\* A run that stopped early is clean only with nothing left to read.
InterruptedClean(st) == AllFinished(st)

\* The pass ended: h, it saw Stop; w, on a transport fault with blocks left.
PatchEnds ==
    /\ pc = "patching"
    /\ \E h, w \in BOOLEAN :
        /\ CASE h -> stop # "no" /\ ~w
             [] w -> todo # {}
             [] OTHER -> todo = {}
        /\ faulted' = (faulted \/ w)
        /\ todo' = {}
        /\ IF job.entry # "recover"
           THEN Return(CopyResult(map.st, h)) /\ UNCHANGED <<passes, last, halted>>
           ELSE /\ passes' = passes + 1 /\ last' = map.st
                /\ halted' = (h \/ stop # "no")
                /\ IF halted' THEN Goto("verdict")
                   ELSE IF w /\ ~job.goOn
                   THEN Return([NoResult EXCEPT !.how = "wedged", !.clean = InterruptedClean(map.st)])
                   ELSE Goto(IF NoProgress THEN "verdict" ELSE "looptop")
    /\ UNCHANGED <<files, plan, stop, attempt, scope>>

\* A pass that failed, at its opening or later, fails the run or ends the loop.
PatchFails ==
    /\ pc \in {"patch", "patching"}
    /\ IF job.entry = "recover" /\ job.finish THEN Goto("verdict") ELSE Fail
    /\ todo' = {}
    /\ UNCHANGED <<files, plan, stop, attempt, passes, last, scope, halted, faulted>>

----------------------------------------------------------------------------
(* The end of the recovery: what is still damaged is given up, then judged. *)

\* Mutant of Stopped: Stop counts only where the loop looked for it.
StoppedInLoop == halted

Stopped == halted \/ stop # "no"

Verdict ==
    /\ pc = "verdict"
    /\ IF Stopped
       THEN Return([NoResult EXCEPT !.how = "halted", !.clean = InterruptedClean(last)])
       ELSE Goto("promote")
    /\ UNCHANGED <<files, plan, stop, loop>>

\* Mutant of Promoted: the retryable blocks stay retryable.
PromotedNone(st) == st

Promoted(st) == [b \in Blocks |-> IF st[b] = "NonTrimmed" THEN "Unreadable" ELSE st[b]]

Unreadable(st) == With(st, {"Unreadable"})

\* The loss cannot be timed: the title's blocks are unknown.
Untimed(st) == job.title = {} /\ Unreadable(st) # {}

LostBlocks(st) ==
    IF job.iso \/ Untimed(st) THEN Unreadable(st) ELSE Unreadable(st) \cap job.title

\* An ISO, and a tolerance of zero, must be perfect; loss that cannot be timed
\* is within any other.
LossAborts(st) ==
    IF job.iso \/ job.tol = 0
    THEN LostBlocks(st) # {}
    ELSE ~Untimed(st) /\ Cardinality(Unreadable(st) \cap job.title) > job.tol

RecoveryComplete(aborts, st) == ~aborts /\ AllFinished(st)

\* The promoted map is saved, or the save fails and the record cannot be
\* trusted (the dropped map tries once more); or the map cannot be read at all.
Promote ==
    /\ pc = "promote"
    /\ LET st == Promoted(map.st)
           done(aborts, complete, clean) ==
               Return([how |-> "done", aborted |-> aborts, complete |-> complete, clean |-> clean])
       IN \/ /\ done(TRUE, FALSE, AllFinished(last))
             /\ UNCHANGED map
          \/ \E intact \in BOOLEAN :
                LET aborts == LossAborts(st) \/ ~intact
                IN /\ intact \/ st # map.st
                   /\ done(aborts, RecoveryComplete(aborts, st), Damaged(st) = {})
                   /\ \/ map' = [map EXCEPT !.st = st]
                      \/ ~intact /\ UNCHANGED map
    /\ UNCHANGED <<img, ilen, plan, stop, loop>>

----------------------------------------------------------------------------
(* What happens to a run, and between runs, from outside. *)

Stop ==
    /\ pc # "idle" /\ stop = "no"
    /\ stop' = pc
    /\ UNCHANGED <<files, plan, pc, loop, res>>

Kill ==
    /\ pc # "idle"
    /\ pc' = "idle" /\ res' = NoResult
    /\ UNCHANGED <<files, plan, stop, loop>>

LoseFiles ==
    /\ pc = "idle"
    /\ \/ /\ \E k \in 0..(ilen - 1) :
                /\ ilen' = k
                /\ img' = [b \in Blocks |-> IF b < k THEN img[b] ELSE NoData]
          /\ UNCHANGED map
       \/ Loadable /\ map' \in {NoMap, BadMap} /\ UNCHANGED <<img, ilen>>
    /\ res' = NoResult
    /\ UNCHANGED <<plan, pc, stop, loop>>

Run ==
    \/ Dispatch \/ OpenSweep \/ SweepBlock \/ SweepEnds \/ SweepFails
    \/ LoopTop \/ OpenPatch \/ PatchBlock \/ PatchEnds \/ PatchFails
    \/ Verdict \/ Promote

Done == pc = "idle" /\ runs = MaxRuns /\ UNCHANGED vars

Next == StartRun \/ Run \/ Stop \/ Kill \/ LoseFiles \/ Done

Spec == Init /\ [][Next]_vars

\* A run is a thread of the program: it goes on while it can.
LiveSpec == Spec /\ WF_vars(Run)

----------------------------------------------------------------------------
TypeOK ==
    /\ map \in Maps \cup {NoMap, BadMap}
    /\ img \in [Blocks -> {NoData} \cup [disc: Discs, raw: BOOLEAN]]
    /\ ilen \in 0..N
    /\ drive \in Discs /\ job \in Jobs
    /\ pc \in Labels /\ stop \in Labels \cup {"no"}
    /\ runs \in 0..MaxRuns /\ resume \in BOOLEAN
    /\ attempt \in 0..Attempts /\ passes \in 0..(job.patches + 1) /\ last \in Statuses
    /\ scope \in Scopes /\ todo \in SUBSET Blocks
    /\ halted \in BOOLEAN /\ faulted \in BOOLEAN
    /\ res \in [how: {"none", "failed", "halted", "wedged", "done"},
                aborted: BOOLEAN, complete: BOOLEAN, clean: BOOLEAN]

\* A block the map calls Finished, and the image reaches, holds the data of the
\* map's disc in the map's mode: no resume mixes discs, or raw and decrypted
\* sectors, in one image (sweep_linked's identity, mode and image gates).
OneSource ==
    Loadable =>
        \A b \in With(map.st, {"Finished"}) :
            b < ilen => img[b] = [disc |-> map.disc, raw |-> map.raw]

\* A run that says complete left an image every block of which holds this disc
\* in this mode, however often the image, the map or the disc changed before
\* it (recovery_is_complete, CopyResult::new, copy's intact check).
CompleteTrue == res.complete => \A b \in Blocks : Holds(b, Source)

\* A recovery that ends unaborted delivered what its options demand: with no
\* tolerance every block of the deliverable, else all but the tolerated blocks
\* of the title (end-of-recovery promotion, loss_verdict).
Deliverable == IF job.iso \/ job.title = {} THEN Blocks ELSE job.title
HonestVerdict ==
    (res.how = "done" /\ job.entry = "recover" /\ ~res.aborted) =>
        LET lost == {b \in Deliverable : ~Holds(b, Source)}
        IN IF job.iso \/ job.tol = 0 THEN lost = {}
           ELSE job.title = {} \/ Cardinality(lost) <= job.tol

\* A Clean badge is never put on a run that left a block unread, stopped and
\* single-pass runs included (interrupted_severity, end_of_recovery_bad_sectors).
CleanTrue == res.clean => \A b \in Blocks : Holds(b, Source)

NewlyGivenUp(b) ==
    Loadable /\ map.st[b] # "Unreadable" /\ map' # map /\ map'.st[b] = "Unreadable"

\* Damage is given up only by a recovery that ran to its end: never after a
\* Stop that came before the last check, nor after a transport fault the run
\* is to stop at (recover's wedge exit and halted |= is_cancelled).
GivenUpAtEnd ==
    [][(pc # "idle" /\ \E b \in Blocks : NewlyGivenUp(b)) =>
          stop \in {"no", "promote"} /\ (faulted => job.goOn)]_vars

FreshOnPurpose == job.entry = "recover" /\ job.resume = "no" /\ attempt = 0

\* A run loses no block that was recovered before it, by this run or an earlier
\* one, unless it was told to start over, changes the mode, or the image is not
\* whole (resume || attempt > 1, copy's dispatch).
ProgressKept ==
    [][(pc # "idle" /\ Loadable /\ ~FreshOnPurpose /\ map.raw = job.raw /\ ilen = N) =>
          With(map.st, {"Finished"}) \subseteq With(map'.st, {"Finished"})]_vars

\* While a map names another disc, the image beside it is not touched unless
\* the run was told to start over (identity before every other decision).
OtherDiscKept ==
    [][(pc # "idle" /\ Loadable /\ map.disc # drive /\ ilen > 0 /\ ~FreshOnPurpose) =>
          UNCHANGED <<map, img, ilen>>]_vars

\* Whatever fails, every run ends: sweep attempts and patch passes are bounded.
RunEnds == (pc # "idle") ~> (pc = "idle")
=============================================================================
