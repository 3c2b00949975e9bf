--------------------------- MODULE RecoveryProofs ---------------------------
(* Theorems about Recovery, for every number of blocks, discs, option sets and
   runs.                                                                    *)
EXTENDS Recovery, TLAPS, FiniteSetTheorems

----------------------------------------------------------------------------
(* The inductive invariant, in four parts: types, control, the sweep's right to
   start over, and what map, image and record say of each other.            *)

\* Where a run has opened the map it found or made, and where it is past its sweep.
Patched == {"looptop", "patch", "patching", "verdict", "promote"}
Opened == {"sweeping"} \cup Patched

TypeInv ==
    /\ TypeOK
    /\ pc \in Opened => map \in Maps
    /\ pc \in {"patch", "patching"} /\ job.entry = "recover" => passes <= job.patches

\* A run that goes on has no result yet; the loop is the recovery's; a run works
\* on a map of its disc and mode; a fault that should end the run has ended it.
ControlInv ==
    /\ pc # "idle" => res = NoResult
    /\ pc = "dispatch" => job.entry # "recover"
    /\ pc \in {"looptop", "verdict", "promote"} => job.entry = "recover"
    /\ pc \in Opened => map.disc = drive /\ map.raw = job.raw
    /\ pc = "promote" => stop \in {"no", "promote"}
    /\ pc # "idle" /\ faulted /\ ~job.goOn => pc = "verdict" /\ halted

\* A sweep that may discard a map was told to, or dispatch found it of no use.
SweepInv ==
    /\ pc = "sweeping" => attempt > 0
    /\ pc = "sweep" /\ ~Resumes /\ Loadable =>
          IF job.entry = "recover" THEN job.resume = "no"
          ELSE /\ map.disc = drive \/ ilen = 0
               /\ map.raw # job.raw \/ ilen # N

Of(s, b) == map.st[b] = s

\* What is Finished is within the image, except that a dispatched patch has yet
\* to look; past the sweep nothing is untried, except in a run that was halted.
ReachInv ==
    /\ pc \in Opened \ {"patch"} => \A b \in Blocks : Of("Finished", b) => b < ilen
    /\ pc = "patch" /\ job.entry = "recover" => \A b \in Blocks : Of("Finished", b) => b < ilen
    /\ pc = "patching" => ilen = N /\ \A b \in todo : ~Of("Finished", b)
    /\ pc \in Patched /\ (pc = "verdict" => ~halted) => \A b \in Blocks : ~Of("NonTried", b)

\* The record the loop keeps claims no block that is not Finished any more.
LastInv ==
    /\ pc = "dispatch" => last = Untried
    /\ pc \in Patched => \A b \in Blocks : last[b] = "Finished" => Of("Finished", b)

ImageInv == OneSource /\ ReachInv /\ LastInv

ResultInv == CompleteTrue /\ HonestVerdict /\ CleanTrue

IInv == TypeInv /\ ControlInv /\ SweepInv /\ ImageInv /\ ResultInv

----------------------------------------------------------------------------
(* What the operators return. *)

Results == [how: {"none", "failed", "halted", "wedged", "done"},
            aborted: BOOLEAN, complete: BOOLEAN, clean: BOOLEAN]
Failed == [NoResult EXCEPT !.how = "failed"]

LEMMA FinishedAll ==
    ASSUME NEW st \in Statuses
    PROVE  AllFinished(st) <=> \A b \in Blocks : st[b] = "Finished"
  BY DEF AllFinished, Bad, With, Statuses, Status

\* Settling a block of a map changes nothing else of it.
LEMMA Settled ==
    ASSUME NEW m \in Maps, NEW b \in Blocks, NEW s \in Status, NEW n, n = [m EXCEPT !.st[b] = s]
    PROVE  /\ n \in Maps /\ n.disc = m.disc /\ n.raw = m.raw
           /\ \A c \in Blocks : n.st[c] = IF c = b THEN s ELSE m.st[c]
<1>1. m.st \in Statuses
  BY DEF Maps
<1>2. [m.st EXCEPT ![b] = s] \in Statuses
  BY <1>1 DEF Statuses
<1>3. n = [m EXCEPT !.st = [m.st EXCEPT ![b] = s]]
  OBVIOUS
<1>4. n.st = [m.st EXCEPT ![b] = s] /\ n.disc = m.disc /\ n.raw = m.raw /\ n \in Maps
  BY <1>2, <1>3 DEF Maps
<1> QED BY <1>1, <1>4 DEF Statuses

\* Nothing follows from a run without a result.
LEMMA NoClaim ==
    ASSUME res' \in {NoResult, Failed}
    PROVE  ResultInv' /\ res' \in Results
<1>1. NoResult \in Results /\ Failed \in Results
  BY DEF NoResult, Failed, Results
<1>2. ~res'.complete /\ ~res'.clean /\ res'.how # "done"
  BY DEF NoResult, Failed
<1> QED BY <1>1, <1>2 DEF ResultInv, CompleteTrue, HonestVerdict, CleanTrue

\* A map that is Finished throughout, and within the image, vouches for all of it.
LEMMA AllHeld ==
    ASSUME TypeOK, map \in Maps, OneSource, map.disc = drive, map.raw = job.raw,
           \A b \in Blocks : Of("Finished", b), \A b \in Blocks : b < ilen
    PROVE  \A b \in Blocks : Holds(b, Source)
<1>1. Loadable
  BY MapAssumption DEF Loadable
<1>2. \A b \in Blocks : b \in With(map.st, {"Finished"})
  BY DEF With, Of
<1>3. \A b \in Blocks : img[b] = Source
  BY <1>1, <1>2 DEF OneSource, Source
<1> QED BY <1>3 DEF Holds

----------------------------------------------------------------------------
(* Every step keeps the invariant. *)

LEMMA UntriedType == Untried \in Statuses /\ \A b \in Blocks : Untried[b] = "NonTried"
  BY DEF Untried, Statuses, Status

LEMMA InitInv == Init => IInv
<1> SUFFICES ASSUME Init
             PROVE  IInv
  OBVIOUS
<1>1. TypeInv
  <2>1. map \in Maps \cup {NoMap, BadMap} /\ img \in [Blocks -> {NoData} \cup [disc: Discs, raw: BOOLEAN]]
    BY DEF Init
  <2>2. ilen \in 0..N /\ runs \in 0..MaxRuns /\ last \in Statuses /\ res = NoResult
    BY NAssumption, MaxRunsAssumption, UntriedType DEF Init
  <2>3. attempt = 0 /\ passes = 0 /\ job \in Jobs /\ drive \in Discs /\ pc = "idle" /\ stop = "no"
    BY DEF Init
  <2>4. 0 \in 0..Attempts /\ 0 \in 0..(job.patches + 1)
    BY <2>3, JobsAssumption DEF Attempts, JobType
  <2>5. /\ scope \in Scopes /\ todo \in SUBSET Blocks /\ resume \in BOOLEAN
        /\ halted \in BOOLEAN /\ faulted \in BOOLEAN
    BY DEF Init, Scopes
  <2>6. TypeOK
    BY <2>1, <2>2, <2>3, <2>4, <2>5 DEF TypeOK, NoResult, Labels
  <2> QED BY <2>3, <2>6 DEF TypeInv, Opened, Patched
<1>2. ControlInv /\ SweepInv
  BY DEF Init, ControlInv, SweepInv, Opened, Patched
<1>3. ImageInv
  BY DEF Init, ImageInv, OneSource, ReachInv, LastInv, Loadable, Opened, Patched
<1>4. ResultInv
  BY DEF Init, ResultInv, CompleteTrue, HonestVerdict, CleanTrue, NoResult
<1> QED BY <1>1, <1>2, <1>3, <1>4 DEF IInv

LEMMA StartRunInv ==
    ASSUME IInv, StartRun
    PROVE  IInv'
<1>0. TypeOK /\ OneSource
  BY DEF IInv, TypeInv, ImageInv
<1>1. ResultInv' /\ res' \in Results
  <2>1. res' \in {NoResult, Failed}
    BY DEF StartRun, Fail, Return, Failed
  <2> QED BY <2>1, NoClaim
<1>2. /\ pc' \in {"sweep", "dispatch", "idle"} /\ job' \in Jobs /\ drive' \in Discs
      /\ attempt' = 0 /\ passes' = 0 /\ last' = Untried /\ todo' = {} /\ stop' = "no"
      /\ faulted' = FALSE /\ halted' = FALSE /\ scope' = "unmeasured" /\ runs' = runs + 1
      /\ map' = map /\ img' = img /\ ilen' = ilen
      /\ pc' # "idle" => res' = NoResult
      /\ pc' = "sweep" => job'.entry = "recover"
      /\ pc' = "dispatch" => job'.entry # "recover"
  BY DEF StartRun, Fail, Return, files
<1>3. resume' = IF job'.resume = "auto" THEN Loadable ELSE job'.resume = "yes"
  BY DEF StartRun
<1>4. resume' \in BOOLEAN
  BY <1>3 DEF Loadable
<1>5. TypeInv'
  <2>1. 0 \in (0..Attempts)' /\ 0 \in 0..(job'.patches + 1)
    BY <1>2, JobsAssumption DEF Attempts, JobType
  <2>2. runs' \in 0..MaxRuns
    BY <1>0, MaxRunsAssumption DEF TypeOK, StartRun
  <2>3. TypeOK'
    BY <1>0, <1>1, <1>2, <1>4, <2>1, <2>2, UntriedType DEF TypeOK, Labels, Results, Scopes
  <2> QED BY <1>2, <2>3 DEF TypeInv, Opened, Patched
<1>6. ControlInv'
  BY <1>2 DEF ControlInv, Opened, Patched
<1>7. SweepInv'
  <2>1. Loadable' = Loadable
    BY <1>2 DEF Loadable
  <2>2. pc' = "sweep" /\ ~Resumes' /\ Loadable' => job'.resume = "no"
    <3> SUFFICES ASSUME pc' = "sweep", ~resume', Loadable
                 PROVE  job'.resume = "no"
      BY <2>1 DEF Resumes
    <3>1. job'.resume # "auto" /\ job'.resume # "yes"
      BY <1>3
    <3>2. job'.resume \in {"auto", "yes", "no"}
      BY <1>2, JobsAssumption DEF JobType
    <3> QED BY <3>1, <3>2
  <2> QED BY <1>2, <2>2 DEF SweepInv
<1>8. ImageInv'
  <2>1. OneSource'
    BY <1>0, <1>2 DEF OneSource, Loadable, With
  <2> QED BY <1>2, <2>1 DEF ImageInv, ReachInv, LastInv, Opened, Patched, Untried
<1> QED BY <1>1, <1>5, <1>6, <1>7, <1>8 DEF IInv

\* A copy's result is of the results, and claims no more than the map.
LEMMA CopyResults ==
    ASSUME NEW st \in Statuses, NEW h \in BOOLEAN
    PROVE  /\ CopyResult(st, h) \in Results /\ ~CopyResult(st, h).aborted
           /\ CopyResult(st, h).complete => AllFinished(st)
           /\ CopyResult(st, h).clean => AllFinished(st)
<1>1. AllFinished(st) \in BOOLEAN
  BY DEF AllFinished
<1> QED BY <1>1 DEF CopyResult, Results

\* Returning a result whose claims hold of the image as it is.
LEMMA Returned ==
    ASSUME res'.complete \/ res'.clean => \A b \in Blocks : Holds(b, Source),
           res'.how = "done" => job.entry # "recover",
           UNCHANGED <<drive, job, img, ilen>>
    PROVE  ResultInv'
<1>1. \A b \in Blocks : Holds(b, Source)' <=> Holds(b, Source)
  BY DEF Holds, Source
<1> QED BY <1>1 DEF ResultInv, CompleteTrue, CleanTrue, HonestVerdict

\* A step that leaves the files alone keeps what they say of each other.
LEMMA FilesKept ==
    ASSUME OneSource, UNCHANGED files
    PROVE  OneSource' /\ Loadable' = Loadable
  BY DEF OneSource, Loadable, With, files

LEMMA DispatchInv ==
    ASSUME IInv, Dispatch
    PROVE  IInv'
<1>0. TypeOK /\ OneSource /\ pc = "dispatch" /\ res = NoResult /\ job.entry # "recover" /\ last = Untried
  BY DEF IInv, TypeInv, ControlInv, ImageInv, LastInv, Dispatch
<1>1. /\ UNCHANGED files /\ UNCHANGED <<drive, job, runs, stop>> /\ UNCHANGED loop
      /\ OneSource' /\ Loadable' = Loadable
  BY <1>0, FilesKept DEF Dispatch
<1>2. map \in Maps <=> Loadable
  BY <1>0, MapAssumption DEF TypeOK, Loadable
<1>3. \/ /\ SweepAnew
         /\ Loadable => /\ map.disc = drive \/ ilen = 0
                        /\ map.raw # job.raw \/ ilen # N
      \/ Fail /\ UNCHANGED resume
      \/ Goto("sweep") /\ resume' = TRUE
      \/ /\ Goto("patch") /\ UNCHANGED resume
         /\ Loadable /\ map.disc = drive /\ map.raw = job.raw /\ With(map.st, {"NonTried"}) = {}
      \/ /\ Return(CopyResult(map.st, FALSE)) /\ UNCHANGED resume
         /\ Loadable /\ map.disc = drive /\ map.raw = job.raw /\ (AllFinished(map.st) => ilen = N)
  BY NAssumption DEF Dispatch, Intact
<1>4. CASE SweepAnew /\ (Loadable => /\ map.disc = drive \/ ilen = 0
                                     /\ map.raw # job.raw \/ ilen # N)
  <2>1. pc' = "sweep" /\ resume' = FALSE /\ res' = NoResult
    BY <1>0, <1>4 DEF SweepAnew
  <2>2. ResultInv' /\ res' \in Results
    BY <2>1, NoClaim
  <2>3. TypeInv'
    <3>1. TypeOK'
      BY <1>0, <1>1, <2>1, <2>2 DEF TypeOK, Attempts, files, loop, Labels, Results
    <3> QED BY <2>1, <3>1 DEF TypeInv, Opened, Patched
  <2>4. ControlInv'
    BY <1>1, <2>1 DEF ControlInv, Opened, Patched, IInv, loop, Dispatch
  <2>5. SweepInv'
    BY <1>0, <1>1, <1>4, <2>1 DEF SweepInv, files
  <2>6. ImageInv'
    BY <1>1, <2>1 DEF ImageInv, ReachInv, LastInv, Opened, Patched
  <2> QED BY <2>2, <2>3, <2>4, <2>5, <2>6 DEF IInv
<1>5. CASE Fail /\ UNCHANGED resume
  <2>1. pc' = "idle" /\ res' = Failed
    BY <1>5 DEF Fail, Return, Failed
  <2>2. ResultInv' /\ res' \in Results
    BY <2>1, NoClaim
  <2>3. TypeInv'
    <3>1. TypeOK'
      BY <1>0, <1>1, <1>5, <2>1, <2>2 DEF TypeOK, Attempts, files, loop, Labels, Results
    <3> QED BY <2>1, <3>1 DEF TypeInv, Opened, Patched
  <2>4. ControlInv' /\ SweepInv' /\ ImageInv'
    BY <1>1, <2>1 DEF ControlInv, SweepInv, ImageInv, ReachInv, LastInv, Opened, Patched
  <2> QED BY <2>2, <2>3, <2>4 DEF IInv
<1>6. CASE Goto("sweep") /\ resume' = TRUE
  <2>1. pc' = "sweep" /\ resume' = TRUE /\ res' = NoResult
    BY <1>0, <1>6 DEF Goto
  <2>2. ResultInv' /\ res' \in Results
    BY <2>1, NoClaim
  <2>3. TypeInv'
    <3>1. TypeOK'
      BY <1>0, <1>1, <2>1, <2>2 DEF TypeOK, Attempts, files, loop, Labels, Results
    <3> QED BY <2>1, <3>1 DEF TypeInv, Opened, Patched
  <2>4. ControlInv'
    BY <1>0, <1>1, <2>1 DEF ControlInv, Opened, Patched, IInv, loop
  <2>5. SweepInv' /\ ImageInv'
    BY <1>1, <2>1 DEF SweepInv, Resumes, ImageInv, ReachInv, LastInv, Opened, Patched
  <2> QED BY <2>2, <2>3, <2>4, <2>5 DEF IInv
<1>7. CASE /\ Goto("patch") /\ UNCHANGED resume
           /\ Loadable /\ map.disc = drive /\ map.raw = job.raw /\ With(map.st, {"NonTried"}) = {}
  <2>1. pc' = "patch" /\ resume' = resume /\ res' = NoResult /\ map \in Maps
    BY <1>0, <1>2, <1>7 DEF Goto
  <2>2. ResultInv' /\ res' \in Results
    BY <2>1, NoClaim
  <2>3. TypeInv'
    <3>1. TypeOK'
      BY <1>0, <1>1, <2>1, <2>2 DEF TypeOK, Attempts, files, loop, Labels, Results
    <3> QED BY <1>0, <1>1, <2>1, <3>1 DEF TypeInv, files
  <2>4. ControlInv'
    BY <1>0, <1>1, <1>7, <2>1 DEF ControlInv, IInv, loop, files
  <2>5. \A b \in Blocks : ~Of("NonTried", b)'
    BY <1>1, <1>7 DEF With, Of, files
  <2>6. SweepInv' /\ ImageInv'
    BY <1>0, <1>1, <2>1, <2>5, UntriedType DEF SweepInv, ImageInv, ReachInv, LastInv, loop
  <2> QED BY <2>2, <2>3, <2>4, <2>6 DEF IInv
<1>8. CASE /\ Return(CopyResult(map.st, FALSE)) /\ UNCHANGED resume
           /\ Loadable /\ map.disc = drive /\ map.raw = job.raw /\ (AllFinished(map.st) => ilen = N)
  <2>1. pc' = "idle" /\ resume' = resume /\ res' = CopyResult(map.st, FALSE)
    BY <1>8 DEF Return
  <2>2. map \in Maps /\ map.st \in Statuses
    BY <1>2, <1>8 DEF Maps
  <2>3. AllFinished(map.st) => \A b \in Blocks : Holds(b, Source)
    <3> SUFFICES ASSUME AllFinished(map.st)
                 PROVE  \A b \in Blocks : Holds(b, Source)
      OBVIOUS
    <3>1. \A b \in Blocks : b < ilen /\ Of("Finished", b)
      BY <1>8, <2>2, FinishedAll, NAssumption DEF Blocks, Of
    <3> QED BY <1>0, <1>8, <2>2, <3>1, AllHeld
  <2>4. res' \in Results /\ (res'.complete \/ res'.clean => AllFinished(map.st))
    BY <2>1, <2>2, CopyResults
  <2>5. ResultInv'
    BY <1>0, <1>1, <2>3, <2>4, Returned DEF files
  <2>6. TypeInv'
    <3>1. TypeOK'
      BY <1>0, <1>1, <2>1, <2>4 DEF TypeOK, Attempts, files, loop, Labels, Results
    <3> QED BY <2>1, <3>1 DEF TypeInv, Opened, Patched
  <2>7. ControlInv' /\ SweepInv' /\ ImageInv'
    BY <1>1, <2>1 DEF ControlInv, SweepInv, ImageInv, ReachInv, LastInv, Opened, Patched
  <2> QED BY <2>5, <2>6, <2>7 DEF IInv
<1> QED BY <1>3, <1>4, <1>5, <1>6, <1>7, <1>8

\* A run that is over owes nothing but a result that is true.
LEMMA IdleInv ==
    ASSUME TypeOK', OneSource', ResultInv', pc' = "idle"
    PROVE  IInv'
  BY DEF IInv, TypeInv, ControlInv, SweepInv, ImageInv, ReachInv, LastInv, Opened, Patched

LEMMA OpenSweepInv ==
    ASSUME IInv, OpenSweep
    PROVE  IInv'
<1>0. TypeOK /\ OneSource /\ pc = "sweep" /\ res = NoResult /\ SweepInv
  BY DEF IInv, TypeInv, ControlInv, ImageInv, OpenSweep
<1>1. UNCHANGED plan /\ UNCHANGED <<stop, passes, last, scope, todo, halted, faulted>>
  BY DEF OpenSweep
<1>2. CASE Fail /\ UNCHANGED <<files, attempt>>
  <2>1. pc' = "idle" /\ res' = Failed
    BY <1>2 DEF Fail, Return, Failed
  <2>2. ResultInv' /\ res' \in Results
    BY <2>1, NoClaim
  <2>3. OneSource'
    BY <1>0, <1>2, FilesKept
  <2>4. TypeOK'
    BY <1>0, <1>1, <1>2, <2>1, <2>2 DEF TypeOK, Attempts, files, plan, Labels, Results
  <2> QED BY <2>1, <2>2, <2>3, <2>4, IdleInv
<1>3. CASE ~(attempt >= Attempts \/ Refused)
  <2> DEFINE st == IF Fresh \/ map = NoMap THEN Untried ELSE map.st
  <2>1. /\ pc' = "sweeping" /\ res' = NoResult /\ attempt' = attempt + 1
        /\ map' = [disc |-> drive, raw |-> job.raw, st |-> st]
        /\ IF Fresh \/ ilen = 0
           THEN img' = [b \in Blocks |-> NoData] /\ ilen' = N
           ELSE UNCHANGED <<img, ilen>>
    BY <1>0, <1>3 DEF OpenSweep, Goto
  <2>2. ResultInv' /\ res' \in Results
    BY <2>1, NoClaim
  <2>3. map = BadMap => Fresh
    BY DEF Fresh
  <2>4. ~Fresh /\ map # NoMap => Loadable /\ map \in Maps
    BY <1>0, <2>3 DEF Loadable, TypeOK
  <2>5. st \in Statuses /\ (Fresh \/ map = NoMap \/ st = map.st)
    BY <2>4, UntriedType DEF Maps
  <2>6. job \in JobType
    BY <1>0, JobsAssumption DEF TypeOK
  <2>7. map' \in Maps /\ map'.st = st /\ map'.disc = drive' /\ map'.raw = job'.raw
    BY <1>0, <1>1, <2>1, <2>5, <2>6 DEF Maps, JobType, TypeOK, plan
  <2>8. img' \in [Blocks -> {NoData} \cup [disc: Discs, raw: BOOLEAN]] /\ ilen' \in 0..N
    BY <1>0, <2>1, NAssumption DEF TypeOK
  <2>9. attempt' \in (0..Attempts)' /\ attempt' > 0
    <3>1. Attempts \in Nat /\ Attempts' = Attempts
      BY <1>1, <2>6 DEF Attempts, JobType, plan
    <3> QED BY <1>0, <1>3, <2>1, <3>1 DEF TypeOK
  <2>10. TypeInv'
    <3>1. TypeOK'
      BY <1>0, <1>1, <2>1, <2>2, <2>7, <2>8, <2>9 DEF TypeOK, plan, Labels, Results
    <3> QED BY <2>1, <2>7, <3>1 DEF TypeInv
  <2>11. ControlInv'
    BY <1>0, <1>1, <2>1, <2>7 DEF ControlInv, IInv, plan
  <2>12. SweepInv'
    BY <2>1, <2>9 DEF SweepInv
  <2>13. \A b \in Blocks : map'.st[b] = "Finished" =>
             /\ b < ilen'
             /\ img'[b] = [disc |-> drive, raw |-> job.raw]
    <3> SUFFICES ASSUME NEW b \in Blocks, st[b] = "Finished"
                 PROVE  b < ilen' /\ img'[b] = [disc |-> drive, raw |-> job.raw]
      BY <2>7
    <3>1. ~Fresh /\ map # NoMap /\ Loadable /\ map \in Maps /\ map.st[b] = "Finished"
      BY <2>4, <2>5, UntriedType
    <3>2. map.disc = drive /\ map.raw = job.raw
      BY <3>1 DEF Fresh, OtherMode
    <3>3. ClaimsProgress
      BY <3>1 DEF ClaimsProgress, With
    <3>4. ilen = N
      BY <1>0, <3>1, <3>3, NAssumption DEF Fresh, TypeOK
    <3>5. UNCHANGED <<img, ilen>> /\ b < ilen
      BY <2>1, <3>1, <3>4, NAssumption DEF Blocks
    <3>6. b \in With(map.st, {"Finished"})
      BY <3>1 DEF With
    <3> QED BY <1>0, <3>1, <3>2, <3>5, <3>6 DEF OneSource
  <2>14. ImageInv'
    <3>1. OneSource'
      BY <2>7, <2>13, <2>1 DEF OneSource, With
    <3>2. ReachInv'
      BY <2>1, <2>13 DEF ReachInv, Of, Patched
    <3> QED BY <2>1, <3>1, <3>2 DEF ImageInv, LastInv, Patched
  <2> QED BY <2>2, <2>10, <2>11, <2>12, <2>14 DEF IInv
<1> QED BY <1>2, <1>3 DEF OpenSweep

LEMMA SweepBlockInv ==
    ASSUME IInv, SweepBlock
    PROVE  IInv'
<1>0. /\ TypeOK /\ OneSource /\ pc = "sweeping" /\ res = NoResult /\ map \in Maps
      /\ map.disc = drive /\ map.raw = job.raw /\ attempt > 0
      /\ \A b \in Blocks : Of("Finished", b) => b < ilen
  BY DEF IInv, TypeInv, ControlInv, SweepInv, ImageInv, ReachInv, SweepBlock, Opened
<1>1. UNCHANGED <<plan, pc, stop, loop, res>>
  BY DEF SweepBlock
<1>2. PICK b \in With(map.st, {"NonTried"}) :
        /\ \A c \in With(map.st, {"NonTried"}) : b <= c
        /\ ilen' = IF b < ilen THEN ilen ELSE b + 1
        /\ \/ /\ map' = [map EXCEPT !.st[b] = "Finished"]
              /\ img' = [img EXCEPT ![b] = Source]
           \/ /\ map' = [map EXCEPT !.st[b] = "NonTrimmed"]
              /\ img' = [img EXCEPT ![b] = NoData]
  BY DEF SweepBlock
<1>3. b \in Blocks /\ b \in Nat /\ b < N /\ map.st[b] = "NonTried"
  BY <1>2, NAssumption DEF With, Blocks
<1>4. PICK s \in {"Finished", "NonTrimmed"} :
        /\ map' = [map EXCEPT !.st[b] = s]
        /\ img' = [img EXCEPT ![b] = IF s = "Finished" THEN Source ELSE NoData]
  BY <1>2
<1>5. /\ map' \in Maps /\ map'.disc = map.disc /\ map'.raw = map.raw
      /\ \A c \in Blocks : map'.st[c] = IF c = b THEN s ELSE map.st[c]
  BY <1>0, <1>3, <1>4, Settled DEF Status
<1>6. ilen' \in 0..N /\ b < ilen' /\ ilen <= ilen'
  BY <1>0, <1>2, <1>3, NAssumption DEF TypeOK
<1>7. Source = [disc |-> map'.disc, raw |-> map'.raw] /\ Source \in [disc: Discs, raw: BOOLEAN]
  BY <1>0, <1>5 DEF Source, Maps
<1>8. img' \in [Blocks -> {NoData} \cup [disc: Discs, raw: BOOLEAN]]
  BY <1>0, <1>4, <1>7 DEF TypeOK
<1>9. TypeInv'
  <2>1. TypeOK'
    BY <1>0, <1>1, <1>5, <1>6, <1>8 DEF TypeOK, Attempts, plan, loop
  <2> QED BY <1>0, <1>1, <1>5, <2>1 DEF TypeInv
<1>10. ControlInv' /\ SweepInv'
  BY <1>0, <1>1, <1>5 DEF ControlInv, SweepInv, IInv, plan, loop
<1>11. \A c \in Blocks : map'.st[c] = "Finished" => c < ilen' /\ img'[c] = Source
  <2> SUFFICES ASSUME NEW c \in Blocks, map'.st[c] = "Finished"
               PROVE  c < ilen' /\ img'[c] = Source
    OBVIOUS
  <2>1. CASE c = b
    BY <1>0, <1>3, <1>4, <1>5, <1>6, <2>1 DEF TypeOK
  <2>2. CASE c # b
    <3>1. map.st[c] = "Finished" /\ c < ilen /\ c \in With(map.st, {"Finished"})
      BY <1>0, <1>5, <2>2 DEF Of, With
    <3>2. img[c] = Source
      BY <1>0, <3>1, MapAssumption DEF OneSource, Loadable, Source
    <3> QED BY <1>0, <1>4, <1>6, <2>2, <3>1, <3>2, NAssumption DEF TypeOK, Blocks
  <2> QED BY <2>1, <2>2
<1>12. ImageInv'
  <2>1. OneSource'
    BY <1>7, <1>11 DEF OneSource, With
  <2> QED BY <1>0, <1>1, <1>11, <2>1 DEF ImageInv, ReachInv, LastInv, Of, Patched
<1>13. ResultInv'
  BY <1>0, <1>1, NoClaim
<1> QED BY <1>9, <1>10, <1>12, <1>13 DEF IInv

LEMMA SweepEndsInv ==
    ASSUME IInv, SweepEnds
    PROVE  IInv'
<1>0. /\ TypeOK /\ OneSource /\ pc = "sweeping" /\ res = NoResult /\ map \in Maps
      /\ map.disc = drive /\ map.raw = job.raw /\ (faulted => job.goOn)
      /\ \A b \in Blocks : Of("Finished", b) => b < ilen
  BY DEF IInv, TypeInv, ControlInv, ImageInv, ReachInv, SweepEnds, Opened
<1>1. /\ UNCHANGED files /\ UNCHANGED plan /\ UNCHANGED <<stop, attempt, scope, todo, faulted>>
      /\ OneSource'
  BY <1>0, FilesKept DEF SweepEnds
<1>2. map.st \in Statuses
  BY <1>0 DEF Maps
<1>3. PICK h \in BOOLEAN :
        /\ IF h THEN stop # "no" ELSE With(map.st, {"NonTried"}) = {}
        /\ IF job.entry = "recover"
           THEN /\ Goto(IF h THEN "verdict" ELSE "looptop")
                /\ passes' = 1 /\ last' = map.st /\ halted' = h
           ELSE Return(CopyResult(map.st, h)) /\ UNCHANGED <<passes, last, halted>>
  BY DEF SweepEnds
<1>4. job \in JobType
  BY <1>0, JobsAssumption DEF TypeOK
<1>5. CASE job.entry = "recover"
  <2>1. /\ pc' = (IF h THEN "verdict" ELSE "looptop") /\ res' = NoResult
        /\ passes' = 1 /\ last' = map.st /\ halted' = h
    BY <1>0, <1>3, <1>5 DEF Goto
  <2>2. ResultInv' /\ res' \in Results
    BY <2>1, NoClaim
  <2>3. TypeInv'
    <3>1. passes' \in (0..(job.patches + 1))'
      BY <1>1, <1>4, <2>1 DEF JobType, plan
    <3>2. TypeOK'
      BY <1>0, <1>1, <1>2, <2>1, <2>2, <3>1 DEF TypeOK, Attempts, files, plan, Labels, Results
    <3> QED BY <1>0, <1>1, <2>1, <3>2 DEF TypeInv, files
  <2>4. ControlInv' /\ SweepInv'
    BY <1>0, <1>1, <1>5, <2>1 DEF ControlInv, SweepInv, files, plan
  <2>5. ReachInv'
    <3>1. (\A b \in Blocks : Of("Finished", b) => b < ilen)'
      BY <1>0, <1>1 DEF Of, files
    <3>2. ~h => (\A b \in Blocks : ~Of("NonTried", b))'
      BY <1>1, <1>3 DEF Of, With, files
    <3> QED BY <2>1, <3>1, <3>2 DEF ReachInv
  <2>6. LastInv'
    BY <1>1, <2>1 DEF LastInv, Of, files
  <2> QED BY <1>1, <2>2, <2>3, <2>4, <2>5, <2>6 DEF IInv, ImageInv
<1>6. CASE job.entry # "recover"
  <2>1. pc' = "idle" /\ res' = CopyResult(map.st, h) /\ UNCHANGED <<passes, last, halted>>
    BY <1>3, <1>6 DEF Return
  <2>2. res' \in Results /\ (res'.complete \/ res'.clean => AllFinished(map.st))
    BY <1>2, <2>1, CopyResults
  <2>3. AllFinished(map.st) => \A b \in Blocks : Holds(b, Source)
    BY <1>0, <1>2, FinishedAll, AllHeld DEF Of
  <2>4. ResultInv'
    BY <1>1, <1>6, <2>2, <2>3, Returned DEF files, plan
  <2>5. TypeOK'
    BY <1>0, <1>1, <2>1, <2>2 DEF TypeOK, Attempts, files, plan, Labels, Results
  <2> QED BY <1>1, <2>1, <2>4, <2>5, IdleInv
<1> QED BY <1>5, <1>6

LEMMA SweepFailsInv ==
    ASSUME IInv, SweepFails
    PROVE  IInv'
<1>0. TypeOK /\ OneSource /\ pc \in {"sweep", "sweeping"} /\ res = NoResult
  BY DEF IInv, TypeInv, ControlInv, ImageInv, SweepFails
<1>1. UNCHANGED files /\ UNCHANGED plan /\ UNCHANGED <<stop, loop>> /\ OneSource'
  BY <1>0, FilesKept DEF SweepFails
<1>2. CASE Fail
  <2>1. pc' = "idle" /\ res' = Failed
    BY <1>2 DEF Fail, Return, Failed
  <2>2. ResultInv' /\ res' \in Results
    BY <2>1, NoClaim
  <2>3. TypeOK'
    BY <1>0, <1>1, <2>1, <2>2 DEF TypeOK, Attempts, files, plan, loop, Labels, Results
  <2> QED BY <1>1, <2>1, <2>2, <2>3, IdleInv
<1>3. CASE pc = "sweeping" /\ job.entry = "recover" /\ stop = "no" /\ Goto("sweep")
  <2>1. pc' = "sweep" /\ res' = NoResult /\ attempt > 0 /\ (faulted => job.goOn)
    BY <1>0, <1>3 DEF Goto, IInv, SweepInv, ControlInv
  <2>2. ResultInv' /\ res' \in Results
    BY <2>1, NoClaim
  <2>3. TypeInv'
    <3>1. TypeOK'
      BY <1>0, <1>1, <2>1, <2>2 DEF TypeOK, Attempts, files, plan, loop, Labels, Results
    <3> QED BY <2>1, <3>1 DEF TypeInv, Opened, Patched
  <2>4. ControlInv' /\ SweepInv'
    BY <1>1, <2>1 DEF ControlInv, SweepInv, Resumes, plan, loop, Opened, Patched
  <2>5. ImageInv'
    BY <1>1, <2>1 DEF ImageInv, ReachInv, LastInv, Opened, Patched
  <2> QED BY <2>2, <2>3, <2>4, <2>5 DEF IInv
<1> QED BY <1>2, <1>3 DEF SweepFails

\* The step from one place past the sweep to another, the map left alone.
LEMMA OnwardInv ==
    ASSUME IInv, pc \in Patched, pc' \in Patched, UNCHANGED files, UNCHANGED <<drive, job>>,
           TypeOK', res' = NoResult,
           pc' \in {"looptop", "verdict", "promote"} => job.entry = "recover",
           pc' = "promote" => stop' \in {"no", "promote"},
           faulted' /\ ~job.goOn => pc' = "verdict" /\ halted',
           pc' \in {"patch", "patching"} /\ job.entry = "recover" => passes' <= job.patches,
           pc = "patch" => job.entry = "recover",
           pc' # "patching",
           pc = "verdict" => ~halted,
           last' \in {last, map.st}
    PROVE  IInv'
<1>0. OneSource /\ map \in Maps /\ map.disc = drive /\ map.raw = job.raw
  BY DEF IInv, TypeInv, ControlInv, ImageInv, Opened
<1>1. /\ \A b \in Blocks : Of("Finished", b) => b < ilen
      /\ \A b \in Blocks : ~Of("NonTried", b)
      /\ \A b \in Blocks : last[b] = "Finished" => Of("Finished", b)
  BY DEF IInv, ImageInv, ReachInv, LastInv, Opened, Patched
<1>2. TypeInv' /\ ControlInv' /\ SweepInv'
  BY <1>0 DEF TypeInv, ControlInv, SweepInv, files, Opened, Patched
<1>3. ResultInv'
  BY NoClaim
<1>4. OneSource'
  BY <1>0, FilesKept
<1>5. ReachInv' /\ LastInv'
  BY <1>1 DEF ReachInv, LastInv, Of, files, Opened, Patched
<1> QED BY <1>2, <1>3, <1>4, <1>5 DEF IInv, ImageInv

LEMMA LoopTopInv ==
    ASSUME IInv, LoopTop
    PROVE  IInv'
<1>0. TypeOK /\ pc = "looptop" /\ res = NoResult /\ job.entry = "recover" /\ (faulted => job.goOn)
  BY DEF IInv, TypeInv, ControlInv, LoopTop
<1>1. UNCHANGED files /\ UNCHANGED plan /\ UNCHANGED <<stop, attempt, passes, last, todo, faulted>>
  BY DEF LoopTop
<1>2. /\ pc' \in {"verdict", "patch"} /\ res' = NoResult
      /\ pc' = "patch" => ~PassesUsed
      /\ scope' \in Scopes /\ halted' \in BOOLEAN
  BY <1>0 DEF LoopTop, Goto, Measure, Scopes, TypeOK
<1>3. pc' = "patch" => passes <= job.patches
  BY <1>0, <1>2, JobsAssumption DEF PassesUsed, TypeOK, JobType
<1>4. TypeOK'
  BY <1>0, <1>1, <1>2 DEF TypeOK, Attempts, files, plan, Labels, NoResult
<1> QED BY <1>0, <1>1, <1>2, <1>3, <1>4, OnwardInv DEF plan, Patched

LEMMA OpenPatchInv ==
    ASSUME IInv, OpenPatch
    PROVE  IInv'
<1>0. /\ TypeOK /\ OneSource /\ pc = "patch" /\ res = NoResult /\ map \in Maps
      /\ map.disc = drive /\ map.raw = job.raw /\ (faulted => job.goOn)
      /\ \A b \in Blocks : ~Of("NonTried", b)
      /\ \A b \in Blocks : last[b] = "Finished" => Of("Finished", b)
      /\ job.entry = "recover" => passes <= job.patches
  BY DEF IInv, TypeInv, ControlInv, ImageInv, ReachInv, LastInv, OpenPatch, Opened, Patched
<1>1. /\ UNCHANGED files /\ UNCHANGED plan
      /\ UNCHANGED <<stop, attempt, passes, last, scope, halted, faulted>>
      /\ pc' = "patching" /\ res' = NoResult /\ ilen >= N /\ todo' = Damaged(map.st)
  BY <1>0 DEF OpenPatch, Goto
<1>2. todo' \in SUBSET Blocks /\ \A b \in todo' : map.st[b] # "Finished"
  BY <1>1 DEF Damaged, With
<1>3. ResultInv'
  BY <1>1, NoClaim
<1>4. TypeInv'
  <2>1. TypeOK'
    BY <1>0, <1>1, <1>2 DEF TypeOK, Attempts, files, plan, Labels, NoResult
  <2> QED BY <1>0, <1>1, <2>1 DEF TypeInv, files, plan
<1>5. ControlInv' /\ SweepInv'
  BY <1>0, <1>1 DEF ControlInv, SweepInv, files, plan
<1>6. OneSource'
  BY <1>0, <1>1, FilesKept
<1>7. ilen = N /\ \A b \in Blocks : b < ilen
  BY <1>0, <1>1, NAssumption DEF Blocks, TypeOK
<1>8. ReachInv' /\ LastInv'
  BY <1>0, <1>1, <1>2, <1>7 DEF ReachInv, LastInv, Of, files
<1> QED BY <1>3, <1>4, <1>5, <1>6, <1>8 DEF IInv, ImageInv

LEMMA PatchBlockInv ==
    ASSUME IInv, PatchBlock
    PROVE  IInv'
<1>0. /\ TypeOK /\ OneSource /\ pc = "patching" /\ res = NoResult /\ map \in Maps
      /\ map.disc = drive /\ map.raw = job.raw
      /\ ilen = N /\ \A b \in todo : ~Of("Finished", b)
      /\ \A b \in Blocks : ~Of("NonTried", b)
      /\ \A b \in Blocks : last[b] = "Finished" => Of("Finished", b)
  BY DEF IInv, TypeInv, ControlInv, ImageInv, ReachInv, LastInv, PatchBlock, Opened, Patched
<1>1. UNCHANGED <<ilen, plan, pc, stop, attempt, passes, last, scope, halted, faulted, res>>
  BY DEF PatchBlock
<1>2. PICK b \in todo, s \in {"Finished", "NonTrimmed"} :
        /\ todo' = todo \ {b}
        /\ map' = [map EXCEPT !.st[b] = s]
        /\ IF s = "Finished" THEN img' = [img EXCEPT ![b] = Source] ELSE img' = img
  BY DEF PatchBlock
<1>3. b \in Blocks /\ s \in Status
  BY <1>0, <1>2 DEF TypeOK, Status
<1>4. /\ map' \in Maps /\ map'.disc = map.disc /\ map'.raw = map.raw
      /\ \A c \in Blocks : map'.st[c] = IF c = b THEN s ELSE map.st[c]
  <2>1. map' = [map EXCEPT !.st[b] = s]
    BY <1>2
  <2>2. map \in Maps
    BY <1>0
  <2> QED BY <1>3, <2>1, <2>2, Settled DEF Status
<1>5. Source = [disc |-> map'.disc, raw |-> map'.raw] /\ Source \in [disc: Discs, raw: BOOLEAN]
  BY <1>0, <1>4 DEF Source, Maps
<1>6. img' \in [Blocks -> {NoData} \cup [disc: Discs, raw: BOOLEAN]]
  BY <1>0, <1>2, <1>5 DEF TypeOK
<1>7. TypeInv'
  <2>1. TypeOK'
    BY <1>0, <1>1, <1>2, <1>4, <1>6 DEF TypeOK, Attempts, plan
  <2> QED BY <1>1, <1>4, <2>1 DEF TypeInv, IInv, plan
<1>8. ControlInv' /\ SweepInv'
  BY <1>0, <1>1, <1>4 DEF ControlInv, SweepInv, IInv, plan
<1>9. OneSource'
  <2> SUFFICES ASSUME NEW c \in Blocks, map'.st[c] = "Finished", c < ilen
               PROVE  img'[c] = Source
    BY <1>1, <1>5 DEF OneSource, With
  <2>1. CASE c = b
    BY <1>0, <1>2, <1>4, <2>1 DEF TypeOK
  <2>2. CASE c # b
    <3>1. c \in With(map.st, {"Finished"})
      BY <1>4, <2>2 DEF With
    <3>2. img[c] = Source
      BY <1>0, <3>1, MapAssumption DEF OneSource, Loadable, Source
    <3> QED BY <1>0, <1>2, <2>2, <3>2 DEF TypeOK
  <2> QED BY <2>1, <2>2
<1>10. \A c \in Blocks : c < ilen
  BY <1>0, NAssumption DEF Blocks
<1>11. ReachInv' /\ LastInv'
  BY <1>0, <1>1, <1>2, <1>4, <1>10 DEF ReachInv, LastInv, Of
<1>12. ResultInv'
  BY <1>0, <1>1, NoClaim
<1> QED BY <1>7, <1>8, <1>9, <1>11, <1>12 DEF IInv, ImageInv

LEMMA PatchEndsInv ==
    ASSUME IInv, PatchEnds
    PROVE  IInv'
<1>0. /\ TypeOK /\ OneSource /\ pc = "patching" /\ res = NoResult /\ map \in Maps
      /\ map.disc = drive /\ map.raw = job.raw /\ (faulted => job.goOn)
      /\ ilen = N /\ (job.entry = "recover" => passes <= job.patches)
  BY DEF IInv, TypeInv, ControlInv, ImageInv, ReachInv, PatchEnds, Opened, Patched
<1>1. /\ UNCHANGED files /\ UNCHANGED plan /\ UNCHANGED <<stop, attempt, scope>> /\ todo' = {}
      /\ OneSource'
  BY <1>0, FilesKept DEF PatchEnds
<1>2. map.st \in Statuses /\ AllFinished(map.st) \in BOOLEAN
  BY <1>0 DEF Maps, AllFinished
<1>3. PICK h \in BOOLEAN, w \in BOOLEAN :
        /\ faulted' = (faulted \/ w)
        /\ IF job.entry # "recover"
           THEN Return(CopyResult(map.st, h)) /\ UNCHANGED <<passes, last, halted>>
           ELSE /\ passes' = passes + 1 /\ last' = map.st
                /\ halted' = (h \/ stop # "no")
                /\ IF halted' THEN Goto("verdict")
                   ELSE IF w /\ ~job.goOn
                   THEN Return([NoResult EXCEPT !.how = "wedged", !.clean = InterruptedClean(map.st)])
                   ELSE Goto(IF NoProgress THEN "verdict" ELSE "looptop")
  BY DEF PatchEnds
<1>4. AllFinished(map.st) => \A b \in Blocks : Holds(b, Source)
  <2> SUFFICES ASSUME AllFinished(map.st)
               PROVE  \A b \in Blocks : Holds(b, Source)
    OBVIOUS
  <2>1. \A b \in Blocks : b < ilen /\ Of("Finished", b)
    BY <1>0, <1>2, FinishedAll, NAssumption DEF Blocks, Of
  <2> QED BY <1>0, <2>1, AllHeld
<1>5. faulted' \in BOOLEAN
  BY <1>0, <1>3 DEF TypeOK
<1>6. CASE job.entry # "recover"
  <2>1. pc' = "idle" /\ res' = CopyResult(map.st, h) /\ UNCHANGED <<passes, last, halted>>
    BY <1>3, <1>6 DEF Return
  <2>2. res' \in Results /\ (res'.complete \/ res'.clean => AllFinished(map.st))
    BY <1>2, <2>1, CopyResults
  <2>3. ResultInv'
    BY <1>1, <1>4, <1>6, <2>2, Returned DEF files, plan
  <2>4. TypeOK'
    BY <1>0, <1>1, <1>5, <2>1, <2>2 DEF TypeOK, Attempts, files, plan, Labels, Results
  <2> QED BY <1>1, <2>1, <2>3, <2>4, IdleInv
<1>7. CASE job.entry = "recover"
  <2>1. /\ passes' = passes + 1 /\ last' = map.st /\ halted' = (h \/ stop # "no")
        /\ \/ pc' = "verdict" /\ res' = NoResult /\ halted'
           \/ pc' = "idle" /\ res' = [NoResult EXCEPT !.how = "wedged", !.clean = AllFinished(map.st)]
           \/ pc' \in {"verdict", "looptop"} /\ res' = NoResult /\ ~(w /\ ~job.goOn)
    BY <1>0, <1>3, <1>7 DEF Goto, Return, InterruptedClean
  <2>2. /\ passes' \in (0..(job.patches + 1))' /\ halted' \in BOOLEAN
    <3>1. job.patches \in Nat
      BY <1>0, JobsAssumption DEF TypeOK, JobType
    <3>2. passes + 1 \in 0..(job.patches + 1)
      BY <1>0, <1>7, <3>1 DEF TypeOK
    <3> QED BY <1>1, <2>1, <3>2 DEF plan
  <2>3. res' \in Results => TypeOK'
    BY <1>0, <1>1, <1>2, <1>5, <2>1, <2>2 DEF TypeOK, Attempts, files, plan, Labels, Results
  <2>4. CASE pc' = "idle" /\ res' = [NoResult EXCEPT !.how = "wedged", !.clean = AllFinished(map.st)]
    <3>1. res' = [how |-> "wedged", aborted |-> FALSE, complete |-> FALSE, clean |-> AllFinished(map.st)]
      BY <2>4 DEF NoResult
    <3>2. res' \in Results
      BY <1>2, <3>1 DEF Results
    <3>3. ~res'.complete /\ res'.how # "done" /\ (res'.clean => AllFinished(map.st))
      BY <3>1
    <3>4. ResultInv'
      BY <1>1, <1>4, <3>3, Returned DEF files, plan
    <3> QED BY <1>1, <2>3, <2>4, <3>2, <3>4, IdleInv
  <2>5. CASE pc' \in {"verdict", "looptop"} /\ res' = NoResult /\ ((halted' /\ pc' = "verdict") \/ ~(w /\ ~job.goOn))
    <3>1. TypeOK'
      BY <2>3, <2>5, NoClaim
    <3>2. faulted' /\ ~job.goOn => pc' = "verdict" /\ halted'
      BY <1>0, <1>3, <2>5
    <3> QED BY <1>0, <1>1, <1>7, <2>1, <2>5, <3>1, <3>2, OnwardInv DEF plan, Patched
  <2> QED BY <2>1, <2>4, <2>5
<1> QED BY <1>6, <1>7

LEMMA PatchFailsInv ==
    ASSUME IInv, PatchFails
    PROVE  IInv'
<1>0. TypeOK /\ OneSource /\ pc \in {"patch", "patching"} /\ res = NoResult /\ (faulted => job.goOn)
  BY DEF IInv, TypeInv, ControlInv, ImageInv, PatchFails
<1>1. /\ UNCHANGED files /\ UNCHANGED plan /\ todo' = {} /\ OneSource'
      /\ UNCHANGED <<stop, attempt, passes, last, scope, halted, faulted>>
  BY <1>0, FilesKept DEF PatchFails
<1>2. CASE job.entry = "recover" /\ Goto("verdict")
  <2>1. pc' = "verdict" /\ res' = NoResult
    BY <1>0, <1>2 DEF Goto
  <2>2. TypeOK'
    BY <1>0, <1>1, <2>1 DEF TypeOK, Attempts, files, plan, Labels, NoResult
  <2> QED BY <1>0, <1>1, <1>2, <2>1, <2>2, OnwardInv DEF plan, Patched
<1>3. CASE Fail
  <2>1. pc' = "idle" /\ res' = Failed
    BY <1>3 DEF Fail, Return, Failed
  <2>2. ResultInv' /\ res' \in Results
    BY <2>1, NoClaim
  <2>3. TypeOK'
    BY <1>0, <1>1, <2>1, <2>2 DEF TypeOK, Attempts, files, plan, Labels, Results
  <2> QED BY <1>1, <2>1, <2>2, <2>3, IdleInv
<1> QED BY <1>2, <1>3 DEF PatchFails

LEMMA VerdictInv ==
    ASSUME IInv, Verdict
    PROVE  IInv'
<1>0. /\ TypeOK /\ OneSource /\ pc = "verdict" /\ res = NoResult /\ map \in Maps
      /\ map.disc = drive /\ map.raw = job.raw /\ job.entry = "recover"
      /\ \A b \in Blocks : Of("Finished", b) => b < ilen
      /\ \A b \in Blocks : last[b] = "Finished" => Of("Finished", b)
      /\ faulted /\ ~job.goOn => halted
  BY DEF IInv, TypeInv, ControlInv, ImageInv, ReachInv, LastInv, Verdict, Opened, Patched
<1>1. UNCHANGED files /\ UNCHANGED plan /\ UNCHANGED <<stop, loop>> /\ OneSource'
  BY <1>0, FilesKept DEF Verdict
<1>2. CASE Stopped /\ Return([NoResult EXCEPT !.how = "halted", !.clean = InterruptedClean(last)])
  <2>1. /\ pc' = "idle"
        /\ res' = [how |-> "halted", aborted |-> FALSE, complete |-> FALSE, clean |-> AllFinished(last)]
    BY <1>2 DEF Return, NoResult, InterruptedClean
  <2>2. AllFinished(last) => \A b \in Blocks : Holds(b, Source)
    BY <1>0, FinishedAll, AllHeld DEF TypeOK
  <2>3. res' \in Results /\ ~res'.complete /\ res'.how # "done" /\ (res'.clean => AllFinished(last))
    BY <2>1 DEF Results, AllFinished
  <2>4. ResultInv'
    BY <1>1, <2>2, <2>3, Returned DEF files, plan
  <2>5. TypeOK'
    BY <1>0, <1>1, <2>1, <2>3 DEF TypeOK, Attempts, files, plan, loop, Labels, Results
  <2> QED BY <1>1, <2>1, <2>4, <2>5, IdleInv
<1>3. CASE ~Stopped /\ Goto("promote")
  <2>1. pc' = "promote" /\ res' = NoResult /\ ~halted /\ stop = "no"
    BY <1>0, <1>3 DEF Goto, Stopped
  <2>2. TypeOK'
    BY <1>0, <1>1, <2>1 DEF TypeOK, Attempts, files, plan, loop, Labels, NoResult
  <2> QED BY <1>0, <1>1, <2>1, <2>2, OnwardInv DEF plan, loop, Patched
<1> QED BY <1>2, <1>3 DEF Verdict

\* The promotion gives up what is retryable and nothing else.
LEMMA Promotion ==
    ASSUME NEW st \in Statuses
    PROVE  /\ Promoted(st) \in Statuses
           /\ \A b \in Blocks : Promoted(st)[b] = IF st[b] = "NonTrimmed" THEN "Unreadable" ELSE st[b]
  BY DEF Promoted, Statuses, Status

\* What is lost of the deliverable, as the verdict counts it: a promoted record
\* without untried blocks that does not abort is within the tolerance.
LEMMA WithinTolerance ==
    ASSUME TypeOK, NEW st \in Statuses,
           \A b \in Blocks : st[b] \in {"Finished", "Unreadable"},
           \A b \in Blocks : st[b] = "Finished" => Holds(b, Source),
           ~LossAborts(st)
    PROVE  LET lost == {b \in Deliverable : ~Holds(b, Source)}
           IN IF job.iso \/ job.tol = 0 THEN lost = {}
              ELSE job.title = {} \/ Cardinality(lost) <= job.tol
<1> DEFINE lost == {b \in Deliverable : ~Holds(b, Source)}
<1>0. job.title \subseteq Blocks /\ job.tol \in Nat
  BY JobsAssumption DEF TypeOK, JobType
<1>1. Deliverable \subseteq Blocks
  BY <1>0 DEF Deliverable
<1>2. lost \subseteq Unreadable(st) \cap Deliverable
  BY <1>1 DEF Unreadable, With
<1>3. CASE job.iso \/ job.tol = 0
  <2>1. LostBlocks(st) = {}
    BY <1>3 DEF LossAborts
  <2>2. CASE job.iso \/ job.title = {}
    <3>1. Unreadable(st) = {}
      BY <2>1, <2>2 DEF LostBlocks, Untimed
    <3> QED BY <1>2, <1>3, <3>1
  <2>3. CASE ~job.iso /\ job.title # {}
    <3>1. Unreadable(st) \cap job.title = {} /\ Deliverable = job.title
      BY <2>1, <2>3 DEF LostBlocks, Untimed, Deliverable
    <3> QED BY <1>2, <1>3, <3>1
  <2> QED BY <2>2, <2>3
<1>4. CASE ~(job.iso \/ job.tol = 0) /\ job.title # {}
  <2>1. Deliverable = job.title
    BY <1>4 DEF Deliverable
  <2> DEFINE unread == Unreadable(st) \cap job.title
  <2>2. ~(Cardinality(unread) > job.tol)
    BY <1>4 DEF LossAborts, Untimed
  <2>3. IsFiniteSet(Blocks)
    BY NAssumption, FS_Interval DEF Blocks
  <2>4. IsFiniteSet(unread)
    BY <1>0, <2>3, FS_Subset
  <2>5. IsFiniteSet(lost) /\ Cardinality(lost) <= Cardinality(unread)
    BY <1>2, <2>1, <2>4, FS_Subset
  <2>6. Cardinality(lost) \in Nat /\ Cardinality(unread) \in Nat
    BY <2>4, <2>5, FS_CardinalityType
  <2>7. Cardinality(lost) <= job.tol
    <3> HIDE DEF lost, unread
    <3> QED BY <1>0, <2>2, <2>5, <2>6
  <2> QED BY <1>4, <2>7
<1> QED BY <1>3, <1>4

LEMMA PromoteInv ==
    ASSUME IInv, Promote
    PROVE  IInv'
<1>0. /\ TypeOK /\ OneSource /\ pc = "promote" /\ map \in Maps
      /\ map.disc = drive /\ map.raw = job.raw
      /\ \A b \in Blocks : Of("Finished", b) => b < ilen
      /\ \A b \in Blocks : ~Of("NonTried", b)
      /\ \A b \in Blocks : last[b] = "Finished" => Of("Finished", b)
  BY DEF IInv, TypeInv, ControlInv, ImageInv, ReachInv, LastInv, Promote, Opened, Patched
<1> DEFINE st == Promoted(map.st)
           done(aborts, complete, clean) ==
               Return([how |-> "done", aborted |-> aborts, complete |-> complete, clean |-> clean])
<1>1. UNCHANGED <<img, ilen, plan, stop, loop>>
  BY DEF Promote
<1>2. map.st \in Statuses
  BY <1>0 DEF Maps
<1>3. st \in Statuses /\ \A b \in Blocks : st[b] = IF map.st[b] = "NonTrimmed" THEN "Unreadable" ELSE map.st[b]
  BY <1>2, Promotion
<1>4. \A b \in Blocks : st[b] \in {"Finished", "Unreadable"}
  BY <1>0, <1>2, <1>3 DEF Of, Statuses, Status
<1>5. \A b \in Blocks : st[b] = "Finished" => Holds(b, Source)
  <2> SUFFICES ASSUME NEW b \in Blocks, st[b] = "Finished"
               PROVE  Holds(b, Source)
    OBVIOUS
  <2>1. map.st[b] = "Finished" /\ b < ilen
    BY <1>0, <1>3 DEF Of
  <2>2. b \in With(map.st, {"Finished"}) /\ Loadable
    BY <1>0, <2>1, MapAssumption DEF With, Loadable
  <2> QED BY <1>0, <2>1, <2>2 DEF OneSource, Holds, Source
<1>6. map' = map \/ map' = [map EXCEPT !.st = st]
  BY DEF Promote
<1>7. [map EXCEPT !.st = st] \in Maps
  BY <1>0, <1>3 DEF Maps
<1>8. map' \in Maps /\ map'.disc = map.disc /\ map'.raw = map.raw /\ (map'.st = map.st \/ map'.st = st)
  <2> HIDE DEF st
  <2> QED BY <1>0, <1>6, <1>7 DEF Maps
<1>9. OneSource'
  <2> SUFFICES ASSUME NEW b \in Blocks, map'.st[b] = "Finished", b < ilen'
               PROVE  img'[b] = [disc |-> map'.disc, raw |-> map'.raw]
    BY DEF OneSource, With
  <2>1. map.st[b] = "Finished"
    BY <1>3, <1>8
  <2>2. b \in With(map.st, {"Finished"}) /\ Loadable
    BY <1>0, <2>1, MapAssumption DEF With, Loadable
  <2> QED BY <1>0, <1>1, <1>8, <2>2 DEF OneSource
<1>10. \/ /\ done(TRUE, FALSE, AllFinished(last))
          /\ map' = map
       \/ \E intact \in BOOLEAN :
            LET aborts == LossAborts(st) \/ ~intact
            IN done(aborts, RecoveryComplete(aborts, st), Damaged(st) = {})
  BY DEF Promote
<1>11. AllFinished(last) => \A b \in Blocks : Holds(b, Source)
  BY <1>0, FinishedAll, AllHeld DEF TypeOK
<1>12. Damaged(st) = {} \/ AllFinished(st) => \A b \in Blocks : Holds(b, Source)
  <2>1. ASSUME Damaged(st) = {}
        PROVE  \A b \in Blocks : st[b] = "Finished"
    <3> HIDE DEF st
    <3> QED BY <1>4, <2>1 DEF Damaged, With
  <2>2. ASSUME AllFinished(st)
        PROVE  \A b \in Blocks : st[b] = "Finished"
    <3> HIDE DEF st
    <3> QED BY <1>3, <2>2, FinishedAll
  <2> QED BY <1>5, <2>1, <2>2
<1>13. /\ pc' = "idle" /\ res' \in Results
       /\ res'.complete \/ res'.clean => \A b \in Blocks : Holds(b, Source)
       /\ res'.aborted \/ ~LossAborts(st)
  <2>1. CASE done(TRUE, FALSE, AllFinished(last))
    <3>1. /\ pc' = "idle"
          /\ res' = [how |-> "done", aborted |-> TRUE, complete |-> FALSE, clean |-> AllFinished(last)]
      BY <2>1 DEF Return
    <3>2. res' \in Results /\ ~res'.complete /\ (res'.clean <=> AllFinished(last)) /\ res'.aborted
      BY <3>1 DEF Results, AllFinished
    <3> QED BY <1>11, <3>1, <3>2
  <2>2. ASSUME NEW aborts \in BOOLEAN, LossAborts(st) => aborts,
               done(aborts, RecoveryComplete(aborts, st), Damaged(st) = {})
        PROVE  <1>13!:
    <3>1. /\ pc' = "idle"
          /\ res' = [how |-> "done", aborted |-> aborts, complete |-> ~aborts /\ AllFinished(st),
                     clean |-> Damaged(st) = {}]
      BY <2>2 DEF Return, RecoveryComplete
    <3>2. /\ res' \in Results /\ (res'.complete => AllFinished(st)) /\ (res'.clean => Damaged(st) = {})
          /\ (res'.aborted <=> aborts)
      <4> HIDE DEF st
      <4> QED BY <3>1 DEF Results, AllFinished
    <3> QED BY <1>12, <2>2, <3>1, <3>2
  <2>3. LossAborts(st) \in BOOLEAN
    BY DEF LossAborts
  <2> QED BY <1>10, <2>1, <2>2, <2>3
<1>14. ResultInv'
  <2>1. \A b \in Blocks : Holds(b, Source)' <=> Holds(b, Source)
    BY <1>1 DEF Holds, Source, plan
  <2>2. CompleteTrue' /\ CleanTrue'
    BY <1>13, <2>1 DEF CompleteTrue, CleanTrue
  <2>3. HonestVerdict'
    <3> SUFFICES ASSUME ~LossAborts(st)
                 PROVE  HonestVerdict'
      BY <1>13 DEF HonestVerdict
    <3> HIDE DEF st
    <3>1. LET lost == {b \in Deliverable : ~Holds(b, Source)}
          IN IF job.iso \/ job.tol = 0 THEN lost = {}
             ELSE job.title = {} \/ Cardinality(lost) <= job.tol
      BY <1>0, <1>3, <1>4, <1>5, WithinTolerance
    <3>2. job' = job /\ img' = img /\ ilen' = ilen /\ drive' = drive
      BY <1>1 DEF plan
    <3> QED BY <3>1, <3>2 DEF HonestVerdict, Deliverable, Holds, Source
  <2> QED BY <2>2, <2>3 DEF ResultInv
<1>15. TypeOK'
  BY <1>0, <1>1, <1>8, <1>13 DEF TypeOK, Attempts, plan, loop, Labels, Results
<1> QED BY <1>9, <1>13, <1>14, <1>15, IdleInv

LEMMA OutsideInv ==
    ASSUME IInv, Stop \/ Kill \/ LoseFiles
    PROVE  IInv'
<1>0. TypeOK /\ OneSource
  BY DEF IInv, TypeInv, ImageInv
<1>1. CASE Stop
  <2>1. /\ UNCHANGED files /\ UNCHANGED plan /\ UNCHANGED <<pc, loop, res>>
        /\ stop' = pc /\ pc \in Labels /\ res = NoResult /\ OneSource'
    BY <1>0, <1>1, FilesKept DEF Stop, IInv, ControlInv, TypeOK
  <2>2. TypeInv'
    <3>1. TypeOK'
      BY <1>0, <2>1 DEF TypeOK, Attempts, files, plan, loop
    <3> QED BY <2>1, <3>1 DEF TypeInv, IInv, files, plan, loop
  <2>3. ControlInv' /\ SweepInv'
    BY <2>1 DEF IInv, ControlInv, SweepInv, Resumes, Loadable, files, plan, loop
  <2>4. ReachInv' /\ LastInv'
    BY <2>1 DEF IInv, ImageInv, ReachInv, LastInv, Of, files, plan, loop
  <2>5. ResultInv'
    BY <2>1, NoClaim
  <2> QED BY <2>1, <2>2, <2>3, <2>4, <2>5 DEF IInv, ImageInv
<1>2. CASE Kill
  <2>1. /\ UNCHANGED files /\ UNCHANGED plan /\ UNCHANGED <<stop, loop>>
        /\ pc' = "idle" /\ res' = NoResult /\ OneSource'
    BY <1>0, <1>2, FilesKept DEF Kill
  <2>2. TypeOK'
    BY <1>0, <2>1 DEF TypeOK, Attempts, files, plan, loop, Labels, NoResult
  <2> QED BY <2>1, <2>2, NoClaim, IdleInv
<1>3. CASE LoseFiles
  <2>1. UNCHANGED plan /\ UNCHANGED <<pc, stop, loop>> /\ pc = "idle" /\ res' = NoResult
    BY <1>3 DEF LoseFiles
  <2>2. CASE map' = map /\ \E k \in 0..(ilen - 1) :
                 /\ ilen' = k
                 /\ img' = [b \in Blocks |-> IF b < k THEN img[b] ELSE NoData]
    <3>1. PICK k \in 0..(ilen - 1) :
                 /\ ilen' = k
                 /\ img' = [b \in Blocks |-> IF b < k THEN img[b] ELSE NoData]
      BY <2>2
    <3>2. /\ k \in 0..N /\ \A b \in Blocks : b < k => b < ilen
          /\ img' \in [Blocks -> {NoData} \cup [disc: Discs, raw: BOOLEAN]]
      BY <1>0, <3>1, NAssumption DEF TypeOK, Blocks
    <3>3. TypeOK'
      BY <1>0, <2>1, <2>2, <3>1, <3>2 DEF TypeOK, Attempts, plan, loop, NoResult
    <3>4. OneSource'
      BY <1>0, <2>2, <3>1, <3>2 DEF OneSource, Loadable, With
    <3> QED BY <2>1, <3>3, <3>4, NoClaim, IdleInv
  <2>3. CASE map' \in {NoMap, BadMap} /\ UNCHANGED <<img, ilen>>
    <3>1. TypeOK'
      BY <1>0, <2>1, <2>3 DEF TypeOK, Attempts, plan, loop, NoResult
    <3>2. OneSource'
      BY <2>3 DEF OneSource, Loadable
    <3> QED BY <2>1, <3>1, <3>2, NoClaim, IdleInv
  <2> QED BY <1>3, <2>2, <2>3 DEF LoseFiles
<1> QED BY <1>1, <1>2, <1>3

LEMMA StutterInv ==
    ASSUME IInv, UNCHANGED vars
    PROVE  IInv'
<1>0. UNCHANGED files /\ UNCHANGED plan /\ UNCHANGED loop /\ UNCHANGED <<pc, stop, res>>
  BY DEF vars
<1>1. TypeInv'
  <2>1. TypeOK'
    BY <1>0 DEF IInv, TypeInv, TypeOK, Attempts, files, plan, loop
  <2> QED BY <1>0, <2>1 DEF IInv, TypeInv, files, plan, loop
<1>2. ControlInv' /\ SweepInv'
  BY <1>0 DEF IInv, ControlInv, SweepInv, Resumes, Loadable, files, plan, loop
<1>3. ImageInv'
  BY <1>0, FilesKept DEF IInv, ImageInv, ReachInv, LastInv, Of, files, plan, loop
<1>4. ResultInv'
  BY <1>0 DEF IInv, ResultInv, CompleteTrue, CleanTrue, HonestVerdict, Deliverable, Holds, Source,
              files, plan
<1> QED BY <1>1, <1>2, <1>3, <1>4 DEF IInv

LEMMA NextInv == IInv /\ [Next]_vars => IInv'
<1> SUFFICES ASSUME IInv, [Next]_vars
             PROVE  IInv'
  OBVIOUS
<1>1. CASE Run
  BY <1>1, DispatchInv, OpenSweepInv, SweepBlockInv, SweepEndsInv, SweepFailsInv, LoopTopInv,
     OpenPatchInv, PatchBlockInv, PatchEndsInv, PatchFailsInv, VerdictInv, PromoteInv DEF Run
<1>2. CASE Done \/ UNCHANGED vars
  BY <1>2, StutterInv DEF Done
<1> QED BY <1>1, <1>2, StartRunInv, OutsideInv DEF Next

LEMMA InvAlways == Spec => []IInv
  BY InitInv, NextInv, PTL DEF Spec

----------------------------------------------------------------------------
(* What holds of every behaviour. *)

\* Every variable keeps its type: sweep attempts and passes never exceed what the
\* run's options allow.
THEOREM TypeCorrect == Spec => []TypeOK
<1>1. IInv => TypeOK
  BY DEF IInv, TypeInv
<1> QED BY <1>1, InvAlways, PTL

\* No image mixes discs, or raw and decrypted sectors, under one map (sweep_linked).
THEOREM OneSourceAlways == Spec => []OneSource
<1>1. IInv => OneSource
  BY DEF IInv, ImageInv
<1> QED BY <1>1, InvAlways, PTL

\* A run that reports a complete image left one (CopyResult, recovery_is_complete).
THEOREM CompleteTrueAlways == Spec => []CompleteTrue
<1>1. IInv => CompleteTrue
  BY DEF IInv, ResultInv
<1> QED BY <1>1, InvAlways, PTL

\* A recovery that does not abort lost no more of the deliverable than its options
\* tolerate (loss_verdict, loss_aborts).
THEOREM HonestVerdictAlways == Spec => []HonestVerdict
<1>1. IInv => HonestVerdict
  BY DEF IInv, ResultInv
<1> QED BY <1>1, InvAlways, PTL

\* A run that calls the image clean read every block of it (interrupted_severity).
THEOREM CleanTrueAlways == Spec => []CleanTrue
<1>1. IInv => CleanTrue
  BY DEF IInv, ResultInv
<1> QED BY <1>1, InvAlways, PTL

\* How a run changes a map it can load: it starts over, settles blocks that were
\* not Finished, or promotes what is left.
LEMMA MapStep ==
    ASSUME IInv, [Next]_vars, pc # "idle", Loadable
    PROVE  \/ map' = map
           \/ /\ pc = "sweep" /\ ~Refused
              /\ map'.st = IF Fresh THEN Untried ELSE map.st
           \/ /\ pc \in Opened /\ map'.disc = map.disc
              /\ \A b \in Blocks : \/ map'.st[b] = map.st[b]
                                   \/ /\ map.st[b] # "Finished"
                                      /\ map'.st[b] \in {"Finished", "NonTrimmed"}
           \/ /\ pc = "promote"
              /\ \A b \in Blocks : map.st[b] = "Finished" => map'.st[b] = "Finished"
<1>0. TypeOK /\ (pc \in Opened => map \in Maps)
  BY DEF IInv, TypeInv
<1>1. CASE \/ Dispatch \/ SweepEnds \/ SweepFails \/ LoopTop \/ OpenPatch \/ PatchEnds \/ PatchFails
           \/ Verdict \/ Stop \/ Kill \/ Done \/ UNCHANGED vars
  BY <1>1 DEF Dispatch, SweepEnds, SweepFails, LoopTop, OpenPatch, PatchEnds, PatchFails, Verdict,
              Stop, Kill, Done, files, vars
<1>2. CASE OpenSweep
  <2>1. CASE attempt >= Attempts \/ Refused
    BY <1>2, <2>1 DEF OpenSweep, files
  <2>2. CASE ~(attempt >= Attempts \/ Refused)
    <3>1. map' = [disc |-> drive, raw |-> job.raw,
                  st |-> IF Fresh \/ map = NoMap THEN Untried ELSE map.st]
      BY <1>2, <2>2 DEF OpenSweep
    <3>2. map # NoMap
      BY DEF Loadable
    <3> QED BY <1>2, <2>2, <3>1, <3>2 DEF OpenSweep
  <2> QED BY <2>1, <2>2
<1>3. CASE SweepBlock
  <2>1. PICK b \in With(map.st, {"NonTried"}), s \in {"Finished", "NonTrimmed"} :
            map' = [map EXCEPT !.st[b] = s]
    BY <1>3 DEF SweepBlock
  <2>2. b \in Blocks /\ map.st[b] = "NonTried" /\ pc \in Opened
    BY <1>3, <2>1 DEF With, SweepBlock, Opened
  <2>3. map'.disc = map.disc /\ \A c \in Blocks : map'.st[c] = IF c = b THEN s ELSE map.st[c]
    BY <1>0, <2>1, <2>2, Settled DEF Status
  <2> QED BY <2>2, <2>3
<1>4. CASE PatchBlock
  <2>1. PICK b \in todo, s \in {"Finished", "NonTrimmed"} : map' = [map EXCEPT !.st[b] = s]
    BY <1>4 DEF PatchBlock
  <2>2. b \in Blocks /\ map.st[b] # "Finished" /\ pc \in Opened
    BY <1>0, <1>4 DEF PatchBlock, TypeOK, IInv, ImageInv, ReachInv, Of, Opened, Patched
  <2>3. map'.disc = map.disc /\ \A c \in Blocks : map'.st[c] = IF c = b THEN s ELSE map.st[c]
    BY <1>0, <2>1, <2>2, Settled DEF Status
  <2> QED BY <2>2, <2>3
<1>5. CASE Promote
  <2>1. pc = "promote" /\ map.st \in Statuses /\ map \in Maps
    BY <1>0, <1>5 DEF Promote, Opened, Patched, Maps
  <2>2. map' = map \/ map' = [map EXCEPT !.st = Promoted(map.st)]
    BY <1>5 DEF Promote
  <2>3. [map EXCEPT !.st = Promoted(map.st)].st = Promoted(map.st)
    BY <2>1 DEF Maps
  <2> QED BY <2>1, <2>2, <2>3, Promotion
<1>6. pc = "idle" \/ ~(StartRun \/ LoseFiles)
  BY DEF StartRun, LoseFiles
<1> QED BY <1>1, <1>2, <1>3, <1>4, <1>5, <1>6 DEF Next, Run

\* No step of a run throws away a recovered block, whatever runs came before it, but
\* one that was told to start over, changed the mode or found the image cut
\* (resume || attempt > 1 of recover, copy_titled's dispatch).
THEOREM ProgressKeptAlways == Spec => ProgressKept
<1>1. ASSUME IInv, [Next]_vars, pc # "idle", Loadable, ~FreshOnPurpose, map.raw = job.raw, ilen = N
      PROVE  With(map.st, {"Finished"}) \subseteq With(map'.st, {"Finished"})
  <2>1. pc = "sweep" /\ ~Refused => ~Fresh
    <3> SUFFICES ASSUME pc = "sweep", ~Refused, Fresh
                 PROVE  FALSE
      OBVIOUS
    <3>1. N > 0 /\ map # BadMap
      BY <1>1, NAssumption DEF Loadable
    <3>2. ~Resumes
      BY <1>1, <3>1, NAssumption DEF Fresh, Refused, OtherMode
    <3>3. IF job.entry = "recover" THEN job.resume = "no" ELSE map.raw # job.raw \/ ilen # N
      BY <1>1, <3>2 DEF IInv, SweepInv
    <3>4. attempt = 0
      BY <1>1, <3>2, JobsAssumption DEF Resumes, IInv, TypeInv, TypeOK, Attempts, JobType
    <3> QED BY <1>1, <3>3, <3>4 DEF FreshOnPurpose
  <2>2. \A b \in Blocks : map.st[b] = "Finished" => map'.st[b] = "Finished"
    BY <1>1, <2>1, MapStep
  <2> QED BY <2>2 DEF With
<1>2. IInv /\ [Next]_vars =>
         [(pc # "idle" /\ Loadable /\ ~FreshOnPurpose /\ map.raw = job.raw /\ ilen = N) =>
             With(map.st, {"Finished"}) \subseteq With(map'.st, {"Finished"})]_vars
  BY <1>1
<1> QED BY <1>2, InvAlways, PTL DEF Spec, ProgressKept

\* While the map is another disc's, no step of a run that was not told to start over
\* touches the map or the image (sweep_linked's identity gate).
THEOREM OtherDiscKeptAlways == Spec => OtherDiscKept
<1>1. ASSUME IInv, [Next]_vars, pc # "idle", Loadable, map.disc # drive, ilen > 0, ~FreshOnPurpose
      PROVE  UNCHANGED <<map, img, ilen>>
  <2>1. pc \notin Opened
    BY <1>1 DEF IInv, ControlInv
  <2>2. CASE OpenSweep
    <3>1. Refused
      <4> SUFFICES ASSUME ~Refused
                   PROVE  FALSE
        OBVIOUS
      <4>1. ~Resumes /\ pc = "sweep"
        BY <1>1, <2>2 DEF Refused, OpenSweep
      <4>2. job.entry = "recover" /\ job.resume = "no"
        BY <1>1, <4>1, NAssumption DEF IInv, SweepInv, TypeInv, TypeOK
      <4>3. attempt = 0
        BY <1>1, <4>1, JobsAssumption DEF Resumes, IInv, TypeInv, TypeOK, Attempts, JobType
      <4> QED BY <1>1, <4>2, <4>3 DEF FreshOnPurpose
    <3> QED BY <2>2, <3>1 DEF OpenSweep, files
  <2>3. CASE \/ Dispatch \/ SweepFails \/ PatchFails \/ Stop \/ Kill \/ Done \/ UNCHANGED vars
    BY <2>3 DEF Dispatch, SweepFails, PatchFails, Stop, Kill, Done, files, vars
  <2>4. ~(\/ SweepBlock \/ SweepEnds \/ LoopTop \/ OpenPatch \/ PatchBlock \/ PatchEnds \/ Verdict
          \/ Promote \/ StartRun \/ LoseFiles)
    BY <1>1, <2>1 DEF SweepBlock, SweepEnds, LoopTop, OpenPatch, PatchBlock, PatchEnds, Verdict,
                      Promote, StartRun, LoseFiles, Opened, Patched
  <2> QED BY <1>1, <2>2, <2>3, <2>4 DEF Next, Run
<1>2. IInv /\ [Next]_vars =>
         [(pc # "idle" /\ Loadable /\ map.disc # drive /\ ilen > 0 /\ ~FreshOnPurpose) =>
             UNCHANGED <<map, img, ilen>>]_vars
  BY <1>1
<1> QED BY <1>2, InvAlways, PTL DEF Spec, OtherDiscKept

\* Damage is given up at the end of a recovery alone: no Stop came before the last
\* look for one, and no transport fault was to end the run (recover).
THEOREM GivenUpAtEndAlways == Spec => GivenUpAtEnd
<1>1. ASSUME IInv, [Next]_vars, pc # "idle", NEW b \in Blocks, NewlyGivenUp(b)
      PROVE  stop \in {"no", "promote"} /\ (faulted => job.goOn)
  <2>1. Loadable /\ map.st[b] # "Unreadable" /\ map' # map /\ map'.st[b] = "Unreadable"
    BY <1>1 DEF NewlyGivenUp
  <2>2. pc = "promote"
    BY <1>1, <2>1, MapStep, UntriedType
  <2> QED BY <1>1, <2>2 DEF IInv, ControlInv
<1>2. IInv /\ [Next]_vars =>
         [(pc # "idle" /\ \E b \in Blocks : NewlyGivenUp(b)) =>
             stop \in {"no", "promote"} /\ (faulted => job.goOn)]_vars
  BY <1>1
<1> QED BY <1>2, InvAlways, PTL DEF Spec, GivenUpAtEnd
=============================================================================
