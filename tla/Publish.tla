------------------------------ MODULE Publish ------------------------------
(* The verified remux: land_verified and what it is built from.

   A remux takes its target's lock, muxes into a partial file (beside the target,
   or in a local stage that is copied there once verified), syncs, verifies and
   renames the file to its target; where that needs a rename without replacing
   that the file system lacks, it keeps the verified file under another name.
   Remuxes run beside each other and beside programs that know no lock; each
   step may fail, hang, be stopped or be the last before a kill or a power loss.

   Files are told from names: a name leads to a file, and a file removed or
   replaced under its name lives on for who has it open.  What a name leads to
   after a power loss is anything it led to since its folder was last synced. *)
EXTENDS Naturals, Sequences

CONSTANTS
    Remuxes,    \* runs of the remux, each of one job
    Targets,    \* files they are asked for, in one folder
    Asked,      \* bound: what the remuxes may be asked for
    Shorts,     \* bound: the names freemkv-remux-<n>.verified
    NoFile,
    NoOne

ASSUME ShortsAssumption == Shorts \in Nat
ASSUME NoOneAssumption == NoOne \notin Remuxes

Target(t) == <<t, "target">>
Beside(t) == <<t, "partial">>
Stage(p) == <<p, "stage">>

\* Where an unpublished output of t may be kept, in order.
KeptNames(t) == <<<<t, "verified">>>> \o [n \in 1..Shorts |-> <<n, "short">>]
Kept(t) == {KeptNames(t)[n] : n \in 1..Shorts + 1}
Public == {Target(t) : t \in Targets} \cup UNION {Kept(t) : t \in Targets}
Names == Public \cup {Beside(t) : t \in Targets} \cup {Stage(p) : p \in Remuxes}

\* What the mux and the copy wrote, the placeholder of a kept name, what was at
\* the target before, and what another program puts somewhere, empty or not.
Muxed(p) == <<p, "mux">>
Copied(p) == <<p, "copy">>
Placeholder(p) == <<p, "placeholder">>
Strange == {<<NoOne, "foreign">>, <<NoOne, "empty">>}
Foreign == {<<t, "before">> : t \in Targets} \cup Strange
Empty(file) == file[2] \in {"placeholder", "empty"}
Files == {Muxed(p) : p \in Remuxes} \cup {Copied(p) : p \in Remuxes}
             \cup {Placeholder(p) : p \in Remuxes} \cup Foreign
ASSUME NoFileAssumption == NoFile \notin Files

Jobs == [target: Targets, replace: BOOLEAN, staged: BOOLEAN]
ASSUME AskedAssumption == Asked \subseteq [Remuxes -> Jobs]

VARIABLES
    job,      \* what each remux was asked for
    pc,       \* where it is
    said,     \* what it reported
    armed,    \* names its guards remove when it returns
    tries,    \* kept names it has tried
    ours,     \* the file it takes for its placeholder
    landed,   \* history: it has renamed its file to the target
    caught,   \* history: the other program's file came while it could remove it
    before,   \* history: it ran before the last power loss
    dir,      \* the file under a name
    left,     \* the files a power loss may leave there
    whole,    \* files complete and playable
    synced,   \* files whose bytes outlive a power loss
    lock,     \* who holds <target>.lock
    stopped,  \* remuxes that were asked to stop
    hung,     \* remuxes waiting for an operation that does not return
    foreign   \* the other program has written its file

progress == <<pc, said, armed, tries, ours>>
folder == <<dir, left>>
bytes == <<whole, synced>>
world == <<stopped, hung, foreign, caught, before>>
vars == <<job, progress, landed, folder, bytes, lock, world>>

Present(name) == dir[name] # NoFile
T(p) == Target(job[p].target)
MuxName(p) == IF job[p].staged THEN Stage(p) ELSE Beside(job[p].target)
Landing(p) == Beside(job[p].target)
LandingFile(p) == IF job[p].staged THEN Copied(p) ELSE Muxed(p)

Ends == {"ended", "dead"}
Workers == {"sync", "verify", "copy", "copysync", "copyverify"}
Keeping == {"reserved", "keeping", "unkeep", "removing"}
Holding == Workers \cup Keeping \cup {"clear", "mux", "copyclear", "recheck", "commit", "land",
                                     "keep", "unwind"}
Waits == Workers \cup {"acquire", "mux"}
Labels == Ends \cup Holding \cup {"start", "acquire"}

Init ==
    /\ job \in Asked
    /\ pc = [p \in Remuxes |-> "start"] /\ said = [p \in Remuxes |-> "none"]
    /\ armed = [p \in Remuxes |-> {}] /\ tries = [p \in Remuxes |-> 0]
    /\ ours = [p \in Remuxes |-> NoFile]
    /\ landed = {} /\ caught = {} /\ before = {}
    /\ \E old \in SUBSET Targets :
          dir = [n \in Names |-> IF \E t \in old : n = Target(t)
                                 THEN <<n[1], "before">> ELSE NoFile]
    /\ left = [n \in Names |-> {dir[n]}]
    /\ whole = Foreign /\ synced = Foreign
    /\ lock = [t \in Targets |-> NoOne]
    /\ stopped = {} /\ hung = {} /\ foreign = FALSE

At(p, label) == pc[p] = label /\ p \notin hung
Goto(p, label) == pc' = [pc EXCEPT ![p] = label]
Stay == UNCHANGED <<said, armed, tries, ours>>

\* Mutant of Arm: the file is created before the guard that removes it.
ArmLate(p, name) == UNCHANGED <<said, armed, tries, ours>>

\* A guard removes the file at the name on every way out.
Arm(p, name) == armed' = [armed EXCEPT ![p] = @ \cup {name}] /\ UNCHANGED <<said, tries, ours>>

\* Mutant of Return: a return under the lock runs no guard.
ReturnUnguarded(p, what) ==
    /\ Goto(p, "ended")
    /\ said' = [said EXCEPT ![p] = what]
    /\ UNCHANGED <<armed, tries, ours>>

Return(p, what) ==
    /\ Goto(p, IF pc[p] \in Holding THEN "unwind" ELSE "ended")
    /\ said' = [said EXCEPT ![p] = what]
    /\ UNCHANGED <<armed, tries, ours>>
Fail(p) == Return(p, IF p \in stopped THEN "halted" ELSE "failed")

Removed(name) == [dir EXCEPT ![name] = NoFile]
Moved(from, to) == [dir EXCEPT ![to] = dir[from], ![from] = NoFile]

\* A change of the folder is durable once the folder is synced; staging never is.
Unsynced == left' = [n \in Names |-> left[n] \cup {dir'[n]}]
FolderSynced ==
    left' = [n \in Names |-> IF \E p \in Remuxes : n = Stage(p) THEN left[n] ELSE {dir'[n]}]

----------------------------------------------------------------------------
(* The steps of a remux that work. *)

RefuseExisting(p) == ~job[p].replace /\ Present(T(p))

Start(p) ==
    /\ At(p, "start")
    /\ \/ RefuseExisting(p) /\ Return(p, "exists")
       \/ ~RefuseExisting(p) /\ Goto(p, "acquire") /\ Stay
    /\ UNCHANGED <<job, landed, folder, bytes, lock, world>>

Acquire(p) ==
    /\ At(p, "acquire")
    /\ lock[job[p].target] = NoOne
    /\ lock' = [lock EXCEPT ![job[p].target] = p]
    /\ Goto(p, "clear") /\ Stay
    /\ UNCHANGED <<job, landed, folder, bytes, world>>

\* A partial file left by a killed run goes first.
Clear(p) ==
    /\ At(p, "clear")
    /\ dir' = Removed(MuxName(p)) /\ Unsynced
    /\ Goto(p, "mux") /\ Arm(p, MuxName(p))
    /\ UNCHANGED <<job, landed, bytes, lock, world>>

\* The mux opens its output, and later has written a whole title or a lossy one.
MuxOpens(p) ==
    /\ At(p, "mux") /\ ~Present(MuxName(p))
    /\ dir' = [dir EXCEPT ![MuxName(p)] = Muxed(p)] /\ Unsynced
    /\ UNCHANGED <<job, progress, landed, bytes, lock, world>>

MuxDone(p) ==
    /\ At(p, "mux") /\ Present(MuxName(p))
    /\ whole' \in {whole, whole \cup {Muxed(p)}}
    /\ Goto(p, "sync") /\ Stay
    /\ UNCHANGED <<job, landed, folder, synced, lock, world>>

\* Mutant of Synced: nothing is synced before it is verified and renamed.
SyncedNot(p, file, next) == Goto(p, next) /\ Stay /\ UNCHANGED bytes

Synced(p, file, next) ==
    /\ synced' = synced \cup {file} /\ UNCHANGED whole
    /\ Goto(p, next) /\ Stay

DurableSync(p) ==
    /\ \/ At(p, "sync") /\ Synced(p, dir[MuxName(p)], "verify")
       \/ At(p, "copysync") /\ Synced(p, dir[Landing(p)], "copyverify")
    /\ UNCHANGED <<job, landed, folder, lock, world>>

\* Tracks and runtime as the title has them.
Verified(p, name) == dir[name] \in whole

Verify(p) ==
    /\ \/ /\ At(p, "verify")
          /\ IF Verified(p, MuxName(p))
             THEN Goto(p, IF job[p].staged THEN "copyclear" ELSE "recheck") /\ Stay
             ELSE Fail(p)
       \/ /\ At(p, "copyverify")
          /\ IF Verified(p, Landing(p)) THEN Goto(p, "recheck") /\ Stay ELSE Fail(p)
    /\ UNCHANGED <<job, landed, folder, bytes, lock, world>>

\* The staged file goes beside the target: created anew, never truncated.
CopyClear(p) ==
    /\ At(p, "copyclear")
    /\ dir' = [dir EXCEPT ![Landing(p)] = Copied(p)] /\ Unsynced
    /\ Goto(p, "copy") /\ Arm(p, Landing(p))
    /\ UNCHANGED <<job, landed, bytes, lock, world>>

\* A copy of another length than its source is refused; its bytes may be wrong.
CopyDone(p) ==
    /\ At(p, "copy")
    /\ whole' \in {whole, whole \cup {Copied(p)}}
    /\ Goto(p, "copysync") /\ Stay
    /\ UNCHANGED <<job, landed, folder, synced, lock, world>>

Recheck(p) ==
    /\ At(p, "recheck")
    /\ \/ RefuseExisting(p) /\ Return(p, "exists")
       \/ ~RefuseExisting(p) /\ Goto(p, "commit") /\ Stay
    /\ UNCHANGED <<job, landed, folder, bytes, lock, world>>

\* A Stop that came before the commit wins over it.
Commit(p) ==
    /\ At(p, "commit")
    /\ IF p \in stopped THEN Fail(p) ELSE Goto(p, "land") /\ Stay
    /\ UNCHANGED <<job, landed, folder, bytes, lock, world>>

\* A rename over the target, or one that refuses an existing target.
MayLand(p) == job[p].replace \/ ~Present(T(p))

\* Mutant of AfterLanding: a folder sync that fails is a failure of the remux.
AfterLandingFailed(p) == {"done", "failed"}

\* Once renamed the remux is done, whether the folder could be synced or not.
AfterLanding(p) == {"done"}

Land(p) ==
    /\ At(p, "land")
    /\ \/ /\ MayLand(p)
          /\ dir' = Moved(Landing(p), T(p))
          /\ landed' = landed \cup {p}
          /\ Unsynced \/ FolderSynced
          /\ armed' = [armed EXCEPT ![p] = @ \ {Landing(p)}]
          /\ \E what \in AfterLanding(p) : said' = [said EXCEPT ![p] = what]
          /\ Goto(p, "unwind") /\ UNCHANGED <<tries, ours>>
       \/ ~MayLand(p) /\ Return(p, "exists") /\ UNCHANGED <<landed, folder>>
       \/ ~job[p].replace /\ Goto(p, "keep") /\ Stay /\ UNCHANGED <<landed, folder>>
    /\ UNCHANGED <<job, bytes, lock, world>>

----------------------------------------------------------------------------
(* Publishing without replacing is not supported: the verified file is kept. *)

KeptName(p) == KeptNames(job[p].target)[tries[p] + 1]

\* Mutant of Reserved: the name is looked at, not created exclusively.
ReservedAsSeen(p) == TRUE

Reserved(p) == ~Present(KeptName(p))

\* The next name, if this one is taken or cannot be created.
NextName(p) ==
    /\ tries' = [tries EXCEPT ![p] = @ + 1]
    /\ ours' = [ours EXCEPT ![p] = NoFile]
    /\ Goto(p, "keep") /\ UNCHANGED <<said, armed>>

Reserve(p) ==
    /\ At(p, "keep")
    /\ \/ /\ tries[p] <= Shorts /\ Reserved(p)
          /\ dir' = [dir EXCEPT ![KeptName(p)] = Placeholder(p)] /\ Unsynced
          /\ Goto(p, "reserved") /\ Stay
       \/ tries[p] <= Shorts /\ NextName(p) /\ UNCHANGED folder
       \/ tries[p] = Shorts + 1 /\ Return(p, "failed") /\ UNCHANGED folder
    /\ UNCHANGED <<job, landed, bytes, lock, world>>

\* Which file it made is asked by name, after it was made; it may not be told.
Identify(p) ==
    /\ At(p, "reserved")
    /\ \E file \in {dir[KeptName(p)], NoFile} : ours' = [ours EXCEPT ![p] = file]
    /\ Goto(p, "keeping") /\ UNCHANGED <<said, armed, tries>>
    /\ UNCHANGED <<job, landed, folder, bytes, lock, world>>

\* The rename over the placeholder.  The folder is not synced after it.
KeepAt(p) ==
    /\ At(p, "keeping")
    /\ \/ /\ dir' = Moved(Landing(p), KeptName(p)) /\ Unsynced
          /\ armed' = [armed EXCEPT ![p] = @ \ {Landing(p)}]
          /\ said' = [said EXCEPT ![p] = "kept"]
          /\ ours' = [ours EXCEPT ![p] = NoFile]
          /\ Goto(p, "unwind") /\ UNCHANGED tries
       \/ Goto(p, "unkeep") /\ Stay /\ UNCHANGED folder
    /\ UNCHANGED <<job, landed, bytes, lock, world>>

\* Mutant of Ours: what stands at the name is taken for the placeholder.
OursByName(p) == TRUE

\* Empty, and the file that was there when it was asked.
Ours(p) == ours[p] # NoFile /\ dir[KeptName(p)] = ours[p] /\ Empty(ours[p])

\* The rename failed: the placeholder goes, by name, if that is what is there.
Unkeep(p) ==
    /\ At(p, "unkeep")
    /\ IF Ours(p) THEN Goto(p, "removing") /\ Stay ELSE NextName(p)
    /\ UNCHANGED <<job, landed, folder, bytes, lock, world>>

Unreserve(p) ==
    /\ At(p, "removing")
    /\ dir' \in {dir, Removed(KeptName(p))} /\ Unsynced
    /\ NextName(p)
    /\ UNCHANGED <<job, landed, bytes, lock, world>>

----------------------------------------------------------------------------
(* Failures, Stop, hangs and the way out. *)

\* Opening the image, a file operation or the mux fails.
Fails(p) ==
    /\ pc[p] \in {"start", "clear", "copyclear", "recheck", "land"} \cup Waits
    /\ p \notin hung
    /\ Return(p, "failed")
    /\ UNCHANGED <<job, landed, folder, bytes, lock, world>>

\* Every wait sees the Stop.
Halts(p) ==
    /\ pc[p] \in Waits /\ p \in stopped \ hung
    /\ Fail(p)
    /\ UNCHANGED <<job, landed, folder, bytes, lock, world>>

\* A waiter gives up on a holder whose partial file no longer changes.
AcquireTimesOut(p) ==
    /\ At(p, "acquire") /\ lock[job[p].target] \in hung
    /\ Fail(p)
    /\ UNCHANGED <<job, landed, folder, bytes, lock, world>>

Hang(p) ==
    /\ pc[p] \in Workers /\ hung' = hung \cup {p}
    /\ UNCHANGED <<job, progress, landed, folder, bytes, lock, stopped, foreign, caught, before>>

\* Mutant of GivenUp: only a Stop ends the wait for a worker that hangs.
GivenUpOnStop(p) == p \in stopped

\* The wait ends on a Stop, or when the operation has moved nothing for too long.
GivenUp(p) == TRUE

\* The worker is left behind; its source is emptied.
GiveUp(p) ==
    /\ p \in hung /\ GivenUp(p)
    /\ hung' = hung \ {p}
    /\ whole' = IF pc[p] = "copy" THEN whole \ {Muxed(p)} ELSE whole
    /\ Fail(p)
    /\ UNCHANGED <<job, landed, folder, synced, lock, stopped, foreign, caught, before>>

\* Mutant of MayUnlock: the lock goes before the partial files.
MayUnlockFirst(p) == TRUE

MayUnlock(p) == armed[p] = {}

\* The guards in the order they are dropped: the partial files, then the lock.
Unwind(p) ==
    /\ At(p, "unwind")
    /\ \/ \E name \in armed[p] :
            /\ dir' = Removed(name) /\ Unsynced
            /\ armed' = [armed EXCEPT ![p] = @ \ {name}]
            /\ UNCHANGED <<pc, said, tries, lock>>
       \/ /\ MayUnlock(p) /\ lock[job[p].target] = p
          /\ lock' = [lock EXCEPT ![job[p].target] = NoOne]
          /\ IF armed[p] = {} THEN Goto(p, "ended") ELSE UNCHANGED pc
          /\ UNCHANGED <<folder, said, armed, tries>>
       \/ /\ armed[p] = {} /\ lock[job[p].target] # p
          /\ Goto(p, "ended") /\ UNCHANGED <<folder, said, armed, tries, lock>>
    /\ UNCHANGED <<job, ours, landed, bytes, world>>

Stop(p) ==
    /\ pc[p] \notin Ends /\ p \notin stopped
    /\ stopped' = stopped \cup {p}
    /\ UNCHANGED <<job, progress, landed, folder, bytes, lock, hung, foreign, caught, before>>

\* The operating system releases a dead process's lock.
Kill(p) ==
    /\ pc[p] \notin Ends
    /\ Goto(p, "dead") /\ hung' = hung \ {p}
    /\ lock' = [t \in Targets |-> IF lock[t] = p THEN NoOne ELSE lock[t]]
    /\ armed' = [armed EXCEPT ![p] = {}]
    /\ ours' = [ours EXCEPT ![p] = NoFile]
    /\ UNCHANGED <<job, said, tries, landed, folder, bytes, stopped, foreign, caught, before>>

\* The names come back one by one as they were at some moment since the folder
\* was synced; a remux that has yet to begin runs in what is left.
PowerLoss ==
    /\ pc' = [p \in Remuxes |-> IF pc[p] \in {"start", "ended"} THEN pc[p] ELSE "dead"]
    /\ before' = {p \in Remuxes : pc[p] # "start"}
    /\ hung' = {} /\ lock' = [t \in Targets |-> NoOne] /\ armed' = [p \in Remuxes |-> {}]
    /\ \E back \in SUBSET UNION {{n} \X (left[n] \ {dir[n]}) : n \in Names} :
          dir' = [n \in Names |-> IF \E f \in left[n] : <<n, f>> \in back
                                 THEN CHOOSE f \in left[n] : <<n, f>> \in back ELSE dir[n]]
    /\ left' = [n \in Names |-> {dir'[n]}]
    /\ whole' = whole \cap synced
    /\ ours' = [p \in Remuxes |-> NoFile]
    /\ UNCHANGED <<job, said, tries, landed, synced, stopped, foreign, caught>>

\* A program that knows no lock puts a file somewhere in the folder, for good.
\* It may be where a remux has made its placeholder and not yet asked which file
\* that is, or is about to remove it.  (A remux claims <target>.partial whole.)
ForeignWrite ==
    /\ ~foreign /\ foreign' = TRUE
    /\ \E n \in Public, f \in Strange :
          /\ dir' = [dir EXCEPT ![n] = f] /\ left' = [left EXCEPT ![n] = {f}]
          /\ caught' = caught \cup
                {p \in Remuxes : /\ pc[p] = "removing" \/ (pc[p] = "reserved" /\ Empty(f))
                                 /\ KeptName(p) = n}
    /\ UNCHANGED <<job, progress, landed, bytes, lock, stopped, hung, before>>

----------------------------------------------------------------------------
Step(p) ==
    \/ Start(p) \/ Acquire(p) \/ Clear(p) \/ MuxOpens(p) \/ MuxDone(p)
    \/ DurableSync(p) \/ Verify(p) \/ CopyClear(p) \/ CopyDone(p)
    \/ Recheck(p) \/ Commit(p) \/ Land(p)
    \/ Reserve(p) \/ Identify(p) \/ KeepAt(p) \/ Unkeep(p) \/ Unreserve(p)
    \/ Halts(p) \/ AcquireTimesOut(p) \/ GiveUp(p) \/ Unwind(p)

Next ==
    \/ \E p \in Remuxes : Step(p) \/ Fails(p) \/ Hang(p) \/ Stop(p) \/ Kill(p)
    \/ PowerLoss \/ ForeignWrite

Spec == Init /\ [][Next]_vars

\* A remux that can take a step takes one: its thread is never suspended for ever.
FairSpec == Spec /\ \A p \in Remuxes : WF_vars(Step(p))

----------------------------------------------------------------------------
\* The variables' types; who holds a lock is between taking it and its guards.
TypeOK ==
    /\ job \in [Remuxes -> Jobs] /\ pc \in [Remuxes -> Labels]
    /\ said \in [Remuxes -> {"none", "exists", "failed", "halted", "kept", "done"}]
    /\ armed \in [Remuxes -> SUBSET Names] /\ tries \in [Remuxes -> 0..Shorts + 1]
    /\ ours \in [Remuxes -> Files \cup {NoFile}]
    /\ landed \subseteq Remuxes /\ caught \subseteq Remuxes /\ before \subseteq Remuxes
    /\ dir \in [Names -> Files \cup {NoFile}] /\ left \in [Names -> SUBSET (Files \cup {NoFile})]
    /\ whole \subseteq Files /\ synced \subseteq Files
    /\ lock \in [Targets -> Remuxes \cup {NoOne}]
    /\ \A t \in Targets : lock[t] # NoOne => pc[lock[t]] \in Holding
    /\ stopped \subseteq Remuxes /\ hung \subseteq Remuxes /\ foreign \in BOOLEAN

\* A target is always a whole file, the one from before or a verified one, and
\* still is after a power loss (durable_sync before each verify and the rename).
TargetWhole ==
    \A t \in Targets :
        {dir[Target(t)]} \cup left[Target(t)] \subseteq (whole \cap synced) \cup {NoFile}

\* From mux to rename a remux works on its own file: no other run of the same
\* target, living or killed, puts one under that name or takes it away
\* (the lock, remove_stale_partial, the order the guards are dropped in).
OwnFile ==
    \A p \in Remuxes :
        /\ pc[p] \in {"sync", "verify"} => dir[MuxName(p)] = Muxed(p)
        /\ pc[p] \in {"copy", "copysync", "copyverify"} => dir[Landing(p)] = Copied(p)
        /\ pc[p] \in {"recheck", "commit", "land", "keep"} \cup Keeping =>
              dir[Landing(p)] = LandingFile(p)

\* A verified file reported as kept is there under the name reported, whatever
\* other remuxes keep or clean up, until the power fails (keep_at's exclusive
\* placeholder); and it is whole wherever the name leads to it, then and later.
KeptStays ==
    \A p \in Remuxes : said[p] = "kept" =>
        /\ p \notin before => dir[KeptName(p)] \in {LandingFile(p)} \cup Foreign
        /\ dir[KeptName(p)] = LandingFile(p) => LandingFile(p) \in whole \cap synced

\* A failed or stopped remux has not touched its target, and one that renamed
\* its file is reported done (land_verified after the rename).
ResultTrue == \A p \in Remuxes : said[p] # "none" => (said[p] = "done" <=> p \in landed)

\* A remux that returns leaves no partial file and no lock (PartialFile,
\* DeleteOnDrop); a power loss may bring the partial file back.
NothingLeft ==
    \A p \in Remuxes : pc[p] = "ended" =>
        /\ p \notin before =>
              \A n \in {Stage(p), Landing(p)} : dir[n] \notin {Muxed(p), Copied(p)}
        /\ lock[job[p].target] # p

\* Another program's file is replaced by a remux that was asked to, or where a
\* placeholder was reserved before it came.  It is removed only by a remux into
\* whose hands it came: between that remux's last look at the placeholder and
\* its unlink, or, being empty too, before the first look (no_replace, keep_at).
ForeignStays ==
    [][\A n \in Public : dir[n] \in Foreign /\ dir'[n] # dir[n] =>
          \/ foreign' # foreign
          \/ \E p \in Remuxes : n = T(p) /\ job[p].replace /\ p \in landed' \ landed
          \/ \E p \in Remuxes : said'[p] = "kept" /\ said[p] # "kept" /\ n = KeptName(p)
          \/ \E p \in caught : pc[p] = "removing" /\ n = KeptName(p)]_vars

\* A retry never sweeps the verified output another run reported as kept: not
\* the last name that leads to it (kept_names' comment).
RetryNeverSweeps ==
    [][\A p, q \in Remuxes :
          said[p] = "kept" /\ pc[q] = "clear" /\ pc'[q] = "mux"
              /\ dir[MuxName(q)] = LandingFile(p) => dir[KeptName(p)] = LandingFile(p)]_vars

\* Every remux returns: workers that hang, a holder that hangs and a holder that
\* dies are all waited for no longer than they move (watch_worker, durable_sync,
\* the lock's window).
RemuxEnds == \A p \in Remuxes : <>(pc[p] \in Ends)
============================================================================
