----------------------------- MODULE NamesUndo -----------------------------
(* The decrypted-name rename of a finished image and its undo file.

   Renaming rewrites a few directory sectors, each kept twice on the disc (main
   and mirror).  The undo file is written first and holds what the sectors held;
   it is pending until the renamed image is verified, then committed, then
   removed.  The process may die between any two file operations, the power may
   fail, every operation may fail, and the next run's passes read around what an
   interrupted rename left.

   A sector's content is the set of versions its bytes come from: more than one
   when a write of it was torn.                                             *)
EXTENDS Naturals, FiniteSets

CONSTANTS
    Pages,      \* directory sectors to rename, each with its mirror
    MaxRuns,    \* bound: runs of the engine
    NoUndo,     \* there is no undo file
    NoSector

Mains == Pages \X {"main"}
Mirrors == Pages \X {"mirror"}
Sectors == Mains \cup Mirrors

\* "disc" as the ripped disc has it, "new" renamed, "blank" never read, "other"
\* from another disc.
Versions == {"disc", "new", "blank", "other"}
Contents == (SUBSET Versions) \ {{}}
Images == [Sectors -> Contents]
Undos == [state: {"pending", "committed"}, was: Images, fill: SUBSET Sectors]

ASSUME PagesAssumption == IsFiniteSet(Pages) /\ Pages # {}
ASSUME MaxRunsAssumption == MaxRuns \in Nat
ASSUME NoUndoAssumption == NoUndo \notin Undos
ASSUME NoSectorAssumption == NoSector \notin Sectors

VARIABLES
    img,      \* the image's sectors, as the process sees them
    safe,     \* the same as a power loss would leave them at worst
    owed,     \* sectors saved as Finished before their data was synced
    hurt,     \* history: Finished sectors a pass lost again (see LateWrite, PowerLoss)
    stale,    \* history: the image was begun beside an earlier image's undo file
    done,     \* sectors the mapfile calls Finished
    undo,     \* the undo file
    usafe,    \* the undo file a power loss may bring back
    late,     \* the sector an abandoned consumer has yet to write
    drive,    \* the disc in the drive
    pc,       \* where the run is
    caller,   \* who settles or rolls back: a pass, the rename, its failed write
    todo,     \* sectors left for the loop at pc
    back,     \* sectors the rollback is about; those a pass has read
    said,     \* what the run reported of the names
    runs

image == <<img, safe, owed, hurt, stale>>
file  == <<undo, usafe>>
world == <<late, drive, runs>>
vars  == <<image, done, file, world, pc, caller, todo, back, said>>

Labels == {"idle", "settle", "restore", "reset", "drop", "reading", "plan", "undo",
           "write", "sync", "verify", "mark", "commit", "dropped"}

Init ==
    /\ img = [s \in Sectors |-> {"blank"}] /\ safe = img /\ stale = FALSE
    /\ owed = {} /\ hurt = {}
    /\ done = {} /\ undo = NoUndo /\ usafe = NoUndo
    /\ late = NoSector /\ drive = "disc" /\ runs = 0
    /\ pc = "idle" /\ caller = "pass" /\ todo = {} /\ back = {} /\ said = "none"

Goto(label) == pc' = label /\ UNCHANGED said
Say(what) == pc' = "idle" /\ said' = what
Kept == Say("kept")

----------------------------------------------------------------------------
(* A run: a pass over the image, fresh or resumed, and then the rename. *)

\* A fresh sweep removes the map and the undo file, which may fail to go, and
\* blanks the image.  (A late writer of an earlier disc is Capture's subject.)
StartFresh ==
    /\ pc = "idle" /\ runs < MaxRuns /\ late = NoSector
    /\ runs' = runs + 1 /\ drive' \in {"disc", "other"} /\ UNCHANGED late
    /\ img' = [s \in Sectors |-> {"blank"}] /\ safe' = img'
    /\ done' = {} /\ owed' = {} /\ hurt' = {}
    /\ undo' \in {NoUndo, undo}
    /\ usafe' \in {undo', usafe}
    /\ stale' = ({undo', usafe'} # {NoUndo})
    /\ pc' = "reading" /\ said' = "none" /\ caller' = "pass"
    /\ todo' = Sectors /\ back' = {}

\* Any other pass settles an undo file it finds before it reads.
StartResumed ==
    /\ pc = "idle" /\ runs \in 1..MaxRuns - 1
    /\ runs' = runs + 1
    /\ pc' = "settle" /\ caller' = "pass" /\ said' = "none"
    /\ UNCHANGED <<image, done, file, late, drive, todo, back>>

\* A pass reads every sector not Finished that it may touch, or cannot.
ReadSector ==
    /\ pc = "reading"
    /\ \E s \in todo :
        /\ todo' = todo \ {s}
        /\ \/ /\ img' = [img EXCEPT ![s] = {drive}]
              /\ back' = back \cup {s} /\ hurt' = hurt \ {s}
           \/ img' = [img EXCEPT ![s] = {"blank"}] /\ UNCHANGED <<back, hurt>>
           \/ UNCHANGED <<img, back, hurt>>
    /\ UNCHANGED <<safe, owed, stale, done, file, world, pc, caller, said>>

\* Saving the map syncs the directory that holds the undo file, too.
Flush(finished) == done' = finished /\ usafe' = undo /\ UNCHANGED undo

Synced == safe' = img /\ owed' = {}

\* The map is saved behind a sync of the image.
SaveMap ==
    /\ pc = "reading" /\ back # {}
    /\ Flush(done \cup back) /\ back' = {} /\ Synced
    /\ UNCHANGED <<img, hurt, stale, world, pc, caller, todo, said>>

\* The record of what could not be read saves the map with no sync before it.
SaveUnsynced ==
    /\ pc = "reading" /\ back # {}
    /\ Flush(done \cup back) /\ back' = {} /\ owed' = owed \cup back
    /\ UNCHANGED <<img, safe, hurt, stale, world, pc, caller, todo, said>>

WriterGone == late = NoSector

\* The rename follows a pass that closed, behind a sync, and was neither stopped
\* nor wedged, unless an abandoned consumer may still write the image.
PassEnds ==
    /\ pc = "reading" /\ todo' = {} /\ back' = {}
    /\ \/ Say("none") /\ UNCHANGED <<safe, owed, caller>>
       \/ /\ todo = {} /\ back = {} /\ Synced
          /\ IF WriterGone THEN Goto("settle") /\ caller' = "finish"
             ELSE Kept /\ UNCHANGED caller
    /\ UNCHANGED <<img, hurt, stale, done, file, world>>

\* A Stop gives up on a consumer that hangs in a write.
Abandon ==
    /\ pc = "reading" /\ late = NoSector
    /\ late' \in todo /\ todo' = {} /\ back' = {}
    /\ Say("none")
    /\ UNCHANGED <<image, done, file, drive, runs, caller>>

\* The write lands: the disc's data, or the zeros of a fill over what a resumed
\* pass may meanwhile have read and recorded.
LateWrite ==
    /\ late # NoSector
    /\ \/ img' = [img EXCEPT ![late] = {drive}] /\ UNCHANGED hurt
       \/ /\ img' = [img EXCEPT ![late] = {"blank"}]
          /\ hurt' = hurt \cup {s \in {late} : caller = "pass" /\ s \in done \cup back}
    /\ late' = NoSector
    /\ UNCHANGED <<safe, owed, stale, done, file, drive, runs, pc, caller, todo, back, said>>

----------------------------------------------------------------------------
(* Settling an undo file that was left behind: settle_names_undo. *)

\* Settled: the caller goes on.  A pass leaves the sectors it could not roll
\* back alone; the rename needs the undo file gone.
Settled(how) ==
    /\ CASE caller = "pass" ->
              /\ Goto("reading")
              /\ todo' = Sectors \ (done' \cup IF how = "Unrestored" THEN Sectors ELSE {})
         [] caller = "finish" ->
              /\ todo' = {}
              /\ IF how = "Done" /\ undo' = NoUndo THEN Goto("plan") ELSE Kept
         [] caller = "apply" -> Kept /\ todo' = {}
    /\ back' = {} /\ UNCHANGED caller

Mixed(s) == img[s] \subseteq undo.was[s] \cup {"new"}

\* It is this image's undo: a rebuilt mirror may have been read since.
Ours == \A s \in Sectors \ undo.fill : Mixed(s)

RollBack == {s \in Sectors : Mixed(s)}

Settle ==
    /\ pc = "settle"
    /\ UNCHANGED <<image, done, file, world>>
    /\ \/ undo = NoUndo /\ Settled("Done")
       \/ undo # NoUndo /\ Settled("Unknown")
       \/ undo # NoUndo /\ Settled("Unrestored")
       \/ /\ undo # NoUndo
          /\ IF undo.state = "pending" /\ Ours
             THEN Goto("restore") /\ todo' = RollBack /\ back' = RollBack
             ELSE Goto("drop") /\ UNCHANGED <<todo, back>>
          /\ UNCHANGED caller

\* The old bytes back, sector by sector, then a sync.
Restore ==
    /\ pc = "restore"
    /\ UNCHANGED <<hurt, stale, done, file, world>>
    /\ \/ \E s \in todo :
            /\ img' = [img EXCEPT ![s] = undo.was[s]]
            /\ todo' = todo \ {s}
            /\ Goto("restore") /\ UNCHANGED <<safe, owed, caller, back>>
       \/ /\ todo = {} /\ Synced
          /\ Goto("reset") /\ UNCHANGED <<img, caller, todo, back>>
       \/ Settled("Unrestored") /\ UNCHANGED <<img, safe, owed>>

\* Mutant of Unconfirmed: the rebuilt mirrors stay Finished.
UnconfirmedNone == {}

Unconfirmed == back \cap undo.fill

\* The rebuilt mirrors rolled back are unread again; the map may fail to load or save.
Reset ==
    /\ pc = "reset"
    /\ UNCHANGED <<image, world>>
    /\ \/ /\ IF Unconfirmed = {} THEN UNCHANGED <<done, file>> ELSE Flush(done \ Unconfirmed)
          /\ Goto("drop") /\ UNCHANGED <<caller, todo, back>>
       \/ Unconfirmed # {} /\ UNCHANGED <<done, file>> /\ Settled("StatusOwed")

\* The undo file is removed; whether the removal outlives a power loss is open.
Drop ==
    /\ pc = "drop"
    /\ UNCHANGED <<image, done, world>>
    /\ \/ undo' = NoUndo /\ usafe' \in {NoUndo, usafe} /\ Settled("Done")
       \/ UNCHANGED file /\ Settled(IF undo.state = "pending" THEN "StatusOwed" ELSE "Done")

----------------------------------------------------------------------------
(* The rename: finish_with and apply. *)

\* What libfreemkv finds in the image: names it can change, names changed.
Planned ==
    /\ Mains \subseteq done
    /\ \A s \in Mains \cup done : img[s] = {"disc"}
Renamed ==
    /\ Mains \subseteq done
    /\ \A s \in Mains \cup done : img[s] = {"new"}

\* What is planned holds the names in every Finished sector: none is lost.
Plan ==
    /\ pc = "plan"
    /\ \/ Planned /\ Goto("undo") /\ hurt' = {}
       \/ Renamed /\ Say("renamed") /\ hurt' = {}
       \/ Kept /\ UNCHANGED hurt
    /\ UNCHANGED <<img, safe, owed, stale, done, file, world, caller, todo, back>>

Record == [state |-> "pending", was |-> img, fill |-> Sectors \ done]

\* Mutant of WriteUndo: the rename goes on when the undo file could not be written.
WriteUndoIgnored ==
    /\ pc = "undo"
    /\ undo' \in {undo, Record} /\ usafe' = undo' /\ todo' = Sectors /\ Goto("write")
    /\ UNCHANGED <<image, done, world, caller, back>>

\* The undo file appears whole or not at all; its directory may fail to sync.
WriteUndo ==
    /\ pc = "undo"
    /\ \/ undo' = Record /\ usafe' = Record /\ todo' = Sectors /\ Goto("write")
       \/ undo' \in {undo, Record} /\ UNCHANGED <<usafe, todo>> /\ Kept
    /\ UNCHANGED <<image, done, world, caller, back>>

RollsBack == Goto("restore") /\ caller' = "apply" /\ todo' = Sectors /\ back' = Sectors

\* A sector is renamed in place; a write may get lost without an error.
Write ==
    /\ pc = "write"
    /\ \/ \E s \in todo :
            /\ img' = [img EXCEPT ![s] = {"new"}] \/ UNCHANGED img
            /\ todo' = todo \ {s}
            /\ Goto("write") /\ UNCHANGED <<caller, back>>
       \/ todo = {} /\ Goto("sync") /\ UNCHANGED <<img, caller, todo, back>>
       \/ RollsBack /\ UNCHANGED img
    /\ UNCHANGED <<safe, owed, hurt, stale, done, file, world>>

Sync ==
    /\ pc = "sync"
    /\ \/ Synced /\ Goto("verify") /\ UNCHANGED <<caller, todo, back>>
       \/ RollsBack /\ UNCHANGED <<safe, owed>>
    /\ UNCHANGED <<img, hurt, stale, done, file, world>>

\* Mutant of Took: the written image is not read back.
TookForGranted == TRUE

Took == \A s \in Sectors : img[s] = {"new"}

Verify ==
    /\ pc = "verify"
    /\ \/ Took /\ Goto("mark") /\ UNCHANGED <<caller, todo, back>>
       \/ RollsBack
    /\ UNCHANGED <<image, done, file, world>>

\* The rebuilt mirrors are Finished from now on.
Mark ==
    /\ pc = "mark"
    /\ \/ /\ IF undo.fill = {} THEN UNCHANGED <<done, file>> ELSE Flush(done \cup undo.fill)
          /\ Goto("commit") /\ UNCHANGED <<caller, todo, back>>
       \/ RollsBack /\ UNCHANGED <<done, file>>
    /\ UNCHANGED <<image, world>>

\* The state byte is rewritten in place; failing that changes nothing for the caller.
Commit ==
    /\ pc = "commit"
    /\ LET committed == [undo EXCEPT !.state = "committed"]
       IN \/ undo' = committed /\ usafe' = committed /\ Goto("dropped")
          \/ undo' \in {undo, committed} /\ UNCHANGED usafe /\ Say("renamed")
    /\ UNCHANGED <<image, done, world, caller, todo, back>>

Dropped ==
    /\ pc = "dropped"
    /\ undo' \in {NoUndo, undo} /\ usafe' \in {undo', usafe}
    /\ Say("renamed")
    /\ UNCHANGED <<image, done, world, caller, todo, back>>

----------------------------------------------------------------------------
(* The process dies; the power fails.                                       *)

Over == pc' = "idle" /\ todo' = {} /\ back' = {} /\ late' = NoSector

Kill ==
    /\ pc # "idle" \/ late # NoSector
    /\ Over
    /\ UNCHANGED <<image, done, file, drive, runs, caller, said>>

\* What was saved as Finished and not synced may be lost.
PowerLoss ==
    /\ \E how \in [Sectors -> {"kept", "lost", "torn"}] :
          img' = [s \in Sectors |-> CASE how[s] = "kept" -> img[s]
                                     [] how[s] = "lost" -> safe[s]
                                     [] how[s] = "torn" -> img[s] \cup safe[s]]
    /\ safe' = img' /\ owed' = {}
    /\ hurt' = hurt \cup {s \in owed : img'[s] # img[s]}
    /\ undo' \in {undo, usafe} /\ usafe' = undo'
    /\ Over
    /\ UNCHANGED <<stale, done, drive, runs, caller, said>>

Rename == Plan \/ WriteUndo \/ Write \/ Sync \/ Verify \/ Mark \/ Commit \/ Dropped

Next ==
    \/ StartFresh \/ StartResumed \/ ReadSector \/ SaveMap \/ SaveUnsynced \/ PassEnds
    \/ Abandon \/ LateWrite
    \/ Settle \/ Restore \/ Reset \/ Drop
    \/ Rename
    \/ Kill \/ PowerLoss

Spec == Init /\ [][Next]_vars

----------------------------------------------------------------------------
NeedsUndo == {"restore", "reset", "drop", "write", "sync", "verify", "mark", "commit", "dropped"}

\* The variables' types; the steps that read the undo file have one.
TypeOK ==
    /\ img \in Images /\ safe \in Images /\ stale \in BOOLEAN
    /\ done \subseteq Sectors /\ owed \subseteq Sectors /\ hurt \subseteq Sectors
    /\ undo \in Undos \cup {NoUndo} /\ usafe \in Undos \cup {NoUndo}
    /\ late \in Sectors \cup {NoSector} /\ drive \in {"disc", "other"} /\ runs \in 0..MaxRuns
    /\ pc \in Labels /\ caller \in {"pass", "finish", "apply"}
    /\ todo \subseteq Sectors /\ back \subseteq Sectors
    /\ said \in {"none", "kept", "renamed"}
    /\ pc \in NeedsUndo => undo # NoUndo

\* What a settle that meets no error would leave.
Pending == undo # NoUndo /\ undo.state = "pending" /\ Ours
Settling == IF Pending THEN RollBack ELSE {}
After(s) == IF s \in Settling THEN undo.was[s] ELSE img[s]
AfterDone == IF Pending THEN done \ (RollBack \cap undo.fill) ELSE done

\* At every moment, through kills, torn writes and failures, the names are the
\* disc's or the new ones, never a mix: as they are, or once the undo file that is
\* there is settled.  Main and mirror agree, and no sector called Finished is
\* blank, but for those a pass lost before any rename: saved as Finished with no
\* sync and lost with the power, or zeroed by an abandoned consumer's fill
\* (apply's order, ours, reset_fills, abandoned_writer_alive).
OldOrNew ==
    ~stale => \E v \in {"disc", "new", "other"} : \A s \in AfterDone \ hurt : After(s) = {v}

\* A rename that was reported took, in main and mirror alike, and a power loss
\* does not take it back (write_and_verify, mark_fills, commit_undo).
RenamedTrue == said = "renamed" => \A s \in Sectors : img[s] = {"new"} /\ s \in done
=============================================================================
