-------------------------- MODULE NamesUndoProofs --------------------------
(* Theorems about NamesUndo, for every number of pages and runs. *)
EXTENDS NamesUndo, TLAPS

----------------------------------------------------------------------------
(* The inductive invariant.  Its first half speaks of every image, one begun
   beside an earlier image's undo file included: what a pass may touch, what an
   undo file knows, and that a main sector is new only under an undo file that
   can take it back, or for good.  Its second half, of an image without such a
   file, says what the sectors called Finished hold.                        *)

Renaming == {"write", "sync", "verify", "mark"}
Committing == {"commit", "dropped"}
Finishing == {"plan", "undo"} \cup Renaming \cup Committing

AllNew ==
    /\ \A s \in Sectors : img[s] = {"new"} /\ safe[s] = {"new"}
    /\ done = Sectors /\ late = NoSector

\* A main sector is, or after a power loss may be, new.
NewMain == \E m \in Mains : "new" \in img[m] \cup safe[m]

\* A Finished sector that no undo file takes for renamed and no pass reads again.
Stuck == \E s \in done \ {late} : img[s] = safe[s] /\ ~(img[s] \subseteq {"disc", "new"})

\* Every undo file was recorded from an image that had the disc's names.
Rec(u) ==
    /\ u.fill \subseteq Mirrors
    /\ \A s \in Sectors \ u.fill : u.was[s] = {"disc"}
Recorded(u) == u # NoUndo => Rec(u)

\* What an undo file rolls back for certain is Finished and no late writer's; if
\* it is nothing the file knows, a power loss has settled it.
Sealed(u) ==
    \A s \in Sectors \ u.fill :
        s \in done \ {late} /\ (img[s] \subseteq {"disc", "new"} \/ img[s] = safe[s])

Same(u, w) == u # NoUndo /\ w # NoUndo /\ u.was = w.was /\ u.fill = w.fill

\* Where the run is, and what it may rely on there.
PlaceInv ==
    /\ late # NoSector => caller = "pass"
    /\ pc \in Finishing => caller = "finish"
    /\ pc = "reading" =>
          /\ (todo \cup back) \cap done = {} /\ todo \cap back = {} /\ caller = "pass"
          /\ \A s \in back \ hurt : img[s] = {drive}
    /\ caller = "finish" /\ pc \in {"settle", "reset", "drop", "plan", "undo"} => safe = img
    /\ pc \in {"plan", "undo"} => undo = NoUndo
    /\ pc = "undo" => Planned
    /\ pc \in Renaming =>
          /\ usafe = undo /\ undo.state = "pending" /\ undo.fill = Sectors \ done
          /\ \A s \in done : img[s] \subseteq {"disc", "new"}
    /\ pc \in {"verify", "mark"} => safe = img
    /\ pc = "mark" => \A s \in Sectors : img[s] = {"new"}
    /\ pc \in Committing => AllNew /\ Same(undo, usafe)
    /\ pc \in {"restore", "reset"} => undo.state = "pending"
    /\ pc = "restore" => \A m \in Mains : m \in todo \/ "new" \notin img[m]
    /\ pc = "reset" => ~NewMain
    /\ pc = "drop" /\ NewMain => AllNew \/ Stuck
    /\ said = "renamed" => pc = "idle" /\ AllNew

\* A new main sector can be taken back, or never will be.
NewInv ==
    NewMain =>
        /\ Mains \subseteq done /\ late \notin Mains
        /\ AllNew \/ Stuck \/ (undo # NoUndo /\ usafe # NoUndo)
        /\ undo # NoUndo =>
              Same(undo, usafe) /\ (undo.state = "pending" => usafe.state = "pending")
        /\ \A u \in {undo, usafe} \ {NoUndo} :
              Sealed(u) /\ (u.state = "committed" => AllNew)

RenameInv == Recorded(undo) /\ Recorded(usafe) /\ PlaceInv /\ NewInv

----------------------------------------------------------------------------
\* The Finished sectors that no pass has lost again.
Held == done \ hurt

\* Every one of them holds v; what is not owed a sync does so for good.
Pure(v) == \A s \in Held : img[s] = {v} /\ (s \in owed \/ safe[s] = {v})

MixedAt(u, s) ==
    /\ img[s] \subseteq u.was[s] \cup {"new"}
    /\ s \in owed \/ safe[s] \subseteq u.was[s] \cup {"new"}
PureAt(s) == img[s] = {"disc"} /\ (s \in owed \/ safe[s] = {"disc"})

\* The undo file is this image's, and rolls it back whatever a power loss leaves.
Mine(u) ==
    /\ drive = "disc"
    /\ \A s \in Sectors \ u.fill :
          s \in done \ {late} /\ img[s] \subseteq {"disc", "new"} /\ safe[s] \subseteq {"disc", "new"}
    /\ \A s \in u.fill \cap Held :
          \/ MixedAt(u, s) /\ (s = late => "disc" \in u.was[s])
          \/ PureAt(s)

FileInv(u) ==
    u # NoUndo => IF u.state = "pending" THEN Mine(u) ELSE AllNew

FilesInv ==
    /\ FileInv(undo) /\ FileInv(usafe)
    /\ NoUndo \in {undo, usafe} => AllNew \/ Pure(drive)
    /\ undo # NoUndo /\ ~Same(undo, usafe) => Pure("disc") /\ undo.fill = Sectors \ done

\* How far a rollback has come.
RollInv ==
    /\ pc = "restore" =>
          /\ todo \subseteq back
          /\ \A s \in Sectors \ undo.fill : s \in back /\ (s \in todo \/ img[s] = {"disc"})
          /\ \A s \in undo.fill \cap Held :
                IF s \in back THEN MixedAt(undo, s) ELSE PureAt(s)
    /\ pc = "reset" => \A s \in Held \ (back \cap undo.fill) : PureAt(s)
    /\ pc = "drop" => AllNew \/ Pure("disc")

\* Nothing of the disc is in an image of another disc.
DiscInv == drive = "other" => \A s \in Sectors : "disc" \notin img[s] \cup safe[s]

NamesInv == FilesInv /\ RollInv /\ DiscInv

IInv == TypeOK /\ RenameInv /\ (~stale => NamesInv)

----------------------------------------------------------------------------
(* Facts every step needs. *)

LEMMA SectorFacts ==
    /\ Sectors = Mains \cup Mirrors /\ Mains \cap Mirrors = {}
    /\ NoSector \notin Sectors
    /\ \E m \in Sectors : m \in Mains
<1>1. Mains \cap Mirrors = {}
  BY DEF Mains, Mirrors
<1>2. PICK p \in Pages : TRUE
  BY PagesAssumption
<1>3. <<p, "main">> \in Mains
  BY DEF Mains
<1> QED BY <1>1, <1>3, NoSectorAssumption DEF Sectors

LEMMA ContentFacts ==
    /\ \A v \in Versions : {v} \in Contents
    /\ \A c, d \in Contents : c \cup d \in Contents
    /\ \A c \in Contents : c # {} /\ c \subseteq Versions
    /\ Versions = {"disc", "new", "blank", "other"}
<1>1. \A c : c \in Contents <=> c \subseteq Versions /\ c # {}
  BY DEF Contents
<1>2. \A v \in Versions : {v} \subseteq Versions /\ {v} # {}
  OBVIOUS
<1>3. \A c, d : c \subseteq Versions /\ d \subseteq Versions /\ c # {} =>
         c \cup d \subseteq Versions /\ c \cup d # {}
  OBVIOUS
<1> QED BY <1>1, <1>2, <1>3 DEF Versions

LEMMA InvFacts ==
    ASSUME IInv
    PROVE  /\ TypeOK /\ Recorded(undo) /\ Recorded(usafe) /\ PlaceInv /\ NewInv
           /\ ~stale => FilesInv /\ RollInv /\ DiscInv
  BY DEF IInv, RenameInv, NamesInv

\* An undo file's sectors.
LEMMA UndoFacts ==
    ASSUME NEW u \in Undos \cup {NoUndo}, u # NoUndo
    PROVE  /\ u \in Undos /\ u.state \in {"pending", "committed"} /\ u.fill \subseteq Sectors
           /\ u.was \in Images /\ \A s \in Sectors : u.was[s] \in Contents
  BY DEF Undos, Images

\* A step of the run that leaves the image, the map and the undo file alone.
LEMMA ControlInv ==
    ASSUME IInv, UNCHANGED <<img, safe, owed, hurt, stale, done, undo, usafe, late, drive>>,
           TypeOK', PlaceInv', ~stale => RollInv'
    PROVE  IInv'
<1>1. (NewMain' <=> NewMain) /\ (AllNew' <=> AllNew) /\ (Stuck' <=> Stuck)
  BY DEF NewMain, AllNew, Stuck
<1>2. (Recorded(undo) /\ Recorded(usafe))'
  BY InvFacts DEF Recorded, Rec
<1>3. NewInv'
  BY <1>1, InvFacts DEF NewInv, Sealed, Same
<1>4. ~stale => FilesInv' /\ DiscInv'
  BY <1>1, InvFacts DEF FilesInv, FileInv, Mine, MixedAt, PureAt, Pure, Held, Same, DiscInv
<1> QED BY <1>2, <1>3, <1>4 DEF IInv, RenameInv, NamesInv

\* A sync of the image that leaves the bytes, the map and the undo file alone.
LEMMA SyncedInv ==
    ASSUME IInv, Synced, UNCHANGED <<img, hurt, stale, done, undo, usafe, late, drive>>,
           TypeOK', PlaceInv', ~stale => RollInv'
    PROVE  IInv'
<1>0. safe' = img /\ owed' = {} /\ done \subseteq Sectors
  BY InvFacts DEF Synced, TypeOK
<1>1. (NewMain' => NewMain) /\ (AllNew => AllNew') /\ (Stuck => Stuck')
  <2>1. NewMain' => NewMain
    BY <1>0 DEF NewMain
  <2>2. AllNew => AllNew'
    BY <1>0 DEF AllNew
  <2>3. Stuck => Stuck'
    BY <1>0 DEF Stuck
  <2> QED BY <2>1, <2>2, <2>3
<1>2. (Recorded(undo) /\ Recorded(usafe))'
  BY InvFacts DEF Recorded, Rec
<1>3. NewInv'
  <2> SUFFICES ASSUME NewMain' PROVE NewInv'
    BY DEF NewInv
  <2>1. \A u : Sealed(u) => Sealed(u)'
    BY <1>0 DEF Sealed
  <2>2. Same(undo, usafe) => Same(undo, usafe)'
    BY DEF Same
  <2> QED BY <1>1, <2>1, <2>2, InvFacts DEF NewInv
<1>4. ~stale => FilesInv' /\ DiscInv'
  <2> SUFFICES ASSUME ~stale PROVE FilesInv' /\ DiscInv'
    OBVIOUS
  <2>1. \A u : Mine(u) => Mine(u)'
    BY <1>0 DEF Mine, MixedAt, PureAt, Held
  <2>2. FileInv(undo)' /\ FileInv(usafe)'
    BY <1>1, <2>1, InvFacts DEF FilesInv, FileInv, Mine, MixedAt, PureAt, Held
  <2>3. \A v : Pure(v) => Pure(v)'
    BY <1>0 DEF Pure, Held
  <2>4. FilesInv'
    BY <1>1, <2>2, <2>3, InvFacts DEF FilesInv, Same, Pure
  <2> QED BY <1>0, <2>4, InvFacts DEF DiscInv
<1> QED BY <1>2, <1>3, <1>4 DEF IInv, RenameInv, NamesInv

LEMMA SettledFacts ==
    ASSUME NEW how, Settled(how), caller \in {"pass", "finish", "apply"}
    PROVE  /\ back' = {} /\ caller' = caller
           /\ \/ pc' = "reading" /\ caller = "pass" /\ todo' \subseteq Sectors \ done' /\ said' = said
              \/ /\ pc' = "plan" /\ caller = "finish" /\ todo' = {} /\ undo' = NoUndo /\ said' = said
                 /\ how = "Done"
              \/ pc' = "idle" /\ todo' = {} /\ said' = "kept"
<1>1. CASE caller = "pass"
  BY <1>1 DEF Settled, Goto
<1>2. CASE caller = "finish"
  BY <1>2 DEF Settled, Goto, Kept, Say
<1>3. CASE caller = "apply"
  BY <1>3 DEF Settled, Kept, Say
<1> QED BY <1>1, <1>2, <1>3

LEMMA SettledControl ==
    ASSUME IInv, NEW how, Settled(how)
    PROVE  /\ back' = {} /\ caller' = caller /\ todo' \subseteq Sectors
           /\ caller' \in {"pass", "finish", "apply"}
           /\ pc' \in {"reading", "plan", "idle"} /\ pc' \in Labels
           /\ said' \in {"none", "kept", "renamed"}
           /\ pc' = "reading" => caller = "pass" /\ todo' \cap done' = {}
           /\ pc' = "plan" => caller = "finish" /\ undo' = NoUndo /\ how = "Done"
           /\ said' = "renamed" => said = "renamed"
<1>1. caller \in {"pass", "finish", "apply"} /\ said \in {"none", "kept", "renamed"}
  BY InvFacts DEF TypeOK
<1> QED BY <1>1, SettledFacts DEF Labels

LEMMA SettledInv ==
    ASSUME IInv, NEW how, Settled(how), UNCHANGED <<image, done, file, world>>,
           pc \in {"settle", "restore", "reset", "drop"}, pc = "restore" => how # "Done"
    PROVE  IInv'
<1>1. UNCHANGED <<img, safe, owed, hurt, stale, done, undo, usafe, late, drive, runs>>
  BY DEF image, file, world
<1>2. TypeOK'
  BY <1>1, SettledControl, InvFacts DEF TypeOK, NeedsUndo
<1>3. PlaceInv'
  <2>1. said # "renamed"
    BY InvFacts DEF PlaceInv
  <2>2. late # NoSector => caller = "pass"
    BY InvFacts DEF PlaceInv
  <2>3. pc' = "plan" => safe' = img'
    BY <1>1, SettledControl, InvFacts DEF PlaceInv
  <2> QED BY <1>1, <2>1, <2>2, <2>3, SettledControl, InvFacts DEF PlaceInv, Finishing, Renaming, Committing
<1>4. RollInv'
  BY SettledControl DEF RollInv
<1> QED BY <1>1, <1>2, <1>3, <1>4, ControlInv

----------------------------------------------------------------------------
(* The steps that only move the run. *)

LEMMA StartResumedInv == ASSUME IInv, StartResumed PROVE IInv'
<1>1. UNCHANGED <<img, safe, owed, hurt, stale, done, undo, usafe, late, drive, todo, back>>
  BY DEF StartResumed, image, file
<1>2. pc = "idle" /\ pc' = "settle" /\ caller' = "pass" /\ said' = "none"
  BY DEF StartResumed
<1>3. TypeOK'
  <2>1. runs' \in 0..MaxRuns
    BY MaxRunsAssumption, InvFacts DEF StartResumed, TypeOK
  <2> QED BY <1>1, <1>2, <2>1, InvFacts DEF TypeOK, Labels, NeedsUndo
<1>4. PlaceInv'
  BY <1>1, <1>2, InvFacts DEF PlaceInv, Finishing, Renaming, Committing
<1>5. RollInv'
  BY <1>2 DEF RollInv
<1> QED BY <1>1, <1>3, <1>4, <1>5, ControlInv

LEMMA PassEndsInv == ASSUME IInv, PassEnds PROVE IInv'
<1>0. /\ UNCHANGED <<img, hurt, stale, done, undo, usafe, late, drive, runs>>
      /\ pc = "reading" /\ todo' = {} /\ back' = {} /\ caller = "pass"
  BY InvFacts DEF PassEnds, file, world, PlaceInv
<1>1. CASE Say("none") /\ UNCHANGED <<safe, owed, caller>>
  <2>1. pc' = "idle" /\ said' = "none"
    BY <1>1 DEF Say
  <2>2. TypeOK'
    BY <1>0, <1>1, <2>1, InvFacts DEF TypeOK, Labels, NeedsUndo
  <2>3. PlaceInv'
    BY <1>0, <1>1, <2>1, InvFacts DEF PlaceInv, Finishing, Renaming, Committing
  <2>4. RollInv'
    BY <2>1 DEF RollInv
  <2> QED BY <1>0, <1>1, <2>2, <2>3, <2>4, ControlInv
<1>2. CASE /\ todo = {} /\ back = {} /\ Synced
           /\ IF WriterGone THEN Goto("settle") /\ caller' = "finish"
              ELSE Kept /\ UNCHANGED caller
  <2>1. /\ safe' = img /\ owed' = {}
        /\ \/ pc' = "idle" /\ said' = "kept" /\ caller' = caller
           \/ pc' = "settle" /\ caller' = "finish" /\ said' = said /\ late = NoSector
    BY <1>2 DEF Synced, Say, Kept, Goto, WriterGone
  <2>2. TypeOK'
    BY <1>0, <2>1, InvFacts DEF TypeOK, Labels, NeedsUndo
  <2>3. PlaceInv'
    BY <1>0, <2>1, InvFacts DEF PlaceInv, Finishing, Renaming, Committing
  <2>4. RollInv'
    BY <2>1 DEF RollInv
  <2> QED BY <1>0, <1>2, <2>2, <2>3, <2>4, SyncedInv
<1> QED BY <1>1, <1>2 DEF PassEnds

LEMMA SettleInv == ASSUME IInv, Settle PROVE IInv'
<1>0. pc = "settle" /\ UNCHANGED <<image, done, file, world>>
  BY DEF Settle
<1>1. CASE \E how \in {"Done", "Unknown", "Unrestored"} : Settled(how)
  BY <1>0, <1>1, SettledInv
<1>2. UNCHANGED <<img, safe, owed, hurt, stale, done, undo, usafe, late, drive, runs>>
  BY <1>0 DEF image, file, world
<1>3. CASE /\ undo # NoUndo /\ undo.state = "pending" /\ Ours
           /\ Goto("restore") /\ todo' = RollBack /\ back' = RollBack /\ UNCHANGED caller
  <2>1. pc' = "restore" /\ said' = said /\ undo \in Undos /\ undo.fill \subseteq Sectors
    BY <1>3, UndoFacts, InvFacts DEF Goto, TypeOK
  <2>2. RollBack \subseteq Sectors /\ \A s \in Sectors : s \in RollBack <=> img[s] \subseteq undo.was[s] \cup {"new"}
    BY DEF RollBack, Mixed
  <2>3. \A s \in Sectors \ undo.fill : s \in RollBack
    BY <1>3, <2>2 DEF Ours, Mixed
  <2>4. TypeOK'
    BY <1>2, <1>3, <2>1, <2>2, InvFacts DEF TypeOK, Labels
  <2>5. PlaceInv'
    <3>1. \A m \in Mains : m \in RollBack
      BY <1>3, <2>3, SectorFacts, InvFacts DEF Recorded, Rec
    <3> QED BY <1>0, <1>2, <1>3, <2>1, <3>1, InvFacts DEF PlaceInv, Finishing, Renaming, Committing
  <2>6. ~stale => RollInv'
    <3> SUFFICES ASSUME ~stale PROVE RollInv'
      OBVIOUS
    <3>1. Mine(undo)
      BY <1>3, InvFacts DEF FilesInv, FileInv
    <3>2. \A s \in undo.fill \cap Held : IF s \in RollBack THEN MixedAt(undo, s) ELSE PureAt(s)
      BY <2>1, <2>2, <3>1 DEF Mine, MixedAt, PureAt
    <3>3. \A s \in undo.fill \cap Held : IF s \in RollBack THEN MixedAt(undo, s)' ELSE PureAt(s)'
      BY <1>2, <3>2 DEF MixedAt, PureAt
    <3> QED BY <1>2, <1>3, <2>1, <2>3, <3>3 DEF RollInv, Held
  <2> QED BY <1>2, <2>4, <2>5, <2>6, ControlInv
<1>4. CASE /\ undo # NoUndo /\ ~(undo.state = "pending" /\ Ours)
           /\ Goto("drop") /\ UNCHANGED <<todo, back, caller>>
  <2>1. pc' = "drop" /\ said' = said
    BY <1>4 DEF Goto
  <2>2. undo.state \in {"pending", "committed"} /\ undo.fill \subseteq Sectors
    BY <1>4, UndoFacts, InvFacts DEF TypeOK
  <2>3. TypeOK'
    BY <1>2, <1>4, <2>1, InvFacts DEF TypeOK, Labels
  <2>4. NewMain => AllNew \/ Stuck
    <3> SUFFICES ASSUME NewMain PROVE AllNew \/ Stuck
      OBVIOUS
    <3>1. Sealed(undo) /\ (undo.state = "committed" => AllNew) /\ Rec(undo)
      BY <1>4, InvFacts DEF NewInv, Recorded
    <3>2. CASE undo.state = "pending"
      <4>1. PICK s \in Sectors \ undo.fill : ~(img[s] \subseteq undo.was[s] \cup {"new"})
        BY <1>4, <3>2 DEF Ours, Mixed
      <4>2. undo.was[s] = {"disc"} /\ s \in done \ {late}
        BY <3>1 DEF Rec, Sealed
      <4>3. ~(img[s] \subseteq {"disc", "new"})
        BY <4>1, <4>2
      <4> QED BY <3>1, <4>2, <4>3 DEF Sealed, Stuck
    <3> QED BY <2>2, <3>1, <3>2
  <2>5. (NewMain' => NewMain) /\ (AllNew => AllNew') /\ (Stuck => Stuck')
    BY <1>2 DEF NewMain, AllNew, Stuck
  <2>6. PlaceInv'
    BY <1>0, <1>2, <1>4, <2>1, <2>4, <2>5, InvFacts DEF PlaceInv, Finishing, Renaming, Committing
  <2>7. ~stale => RollInv'
    <3> SUFFICES ASSUME ~stale PROVE RollInv'
      OBVIOUS
    <3>1. undo.state = "pending" => Ours
      <4>1. undo.state = "pending" => Mine(undo) /\ Rec(undo)
        BY <1>4, InvFacts DEF FilesInv, FileInv, Recorded
      <4> QED BY <4>1 DEF Mine, Rec, Ours, Mixed
    <3>2. AllNew
      BY <1>4, <2>2, <3>1, InvFacts DEF FilesInv, FileInv
    <3> QED BY <2>1, <2>5, <3>2 DEF RollInv
  <2> QED BY <1>2, <2>3, <2>6, <2>7, ControlInv
<1> QED BY <1>1, <1>3, <1>4 DEF Settle

\* The names are the new ones only if the rename took, mirrors and map included.
LEMMA RenamedTook ==
    ASSUME IInv, undo = NoUndo, Renamed \/ Planned
    PROVE  NewMain => AllNew
<1>1. ~Stuck
  BY SectorFacts DEF Renamed, Planned, Stuck
<1> QED BY <1>1, InvFacts DEF NewInv

LEMMA PlanInv == ASSUME IInv, Plan PROVE IInv'
<1>1. /\ UNCHANGED <<img, safe, owed, stale, done, undo, usafe, late, drive, runs, caller, todo, back>>
      /\ pc = "plan" /\ undo = NoUndo /\ late = NoSector /\ safe = img
      /\ done \subseteq Sectors /\ drive \in {"disc", "other"}
  BY InvFacts DEF Plan, file, world, TypeOK, PlaceInv, Finishing
<1>2. \/ Planned /\ pc' = "undo" /\ said' = said /\ hurt' = {}
      \/ Renamed /\ pc' = "idle" /\ said' = "renamed" /\ hurt' = {}
      \/ pc' = "idle" /\ said' = "kept" /\ hurt' = hurt
  BY DEF Plan, Goto, Say, Kept
<1>3. TypeOK'
  BY <1>1, <1>2, InvFacts DEF TypeOK, Labels, NeedsUndo
<1>4. (NewMain' <=> NewMain) /\ (AllNew' <=> AllNew) /\ (Stuck' <=> Stuck) /\ (Planned => Planned')
  BY <1>1 DEF NewMain, AllNew, Stuck, Planned
<1>5. Renamed => AllNew
  <2> SUFFICES ASSUME Renamed PROVE AllNew
    OBVIOUS
  <2>1. NewMain
    BY SectorFacts DEF Renamed, NewMain
  <2> QED BY <1>1, <2>1, RenamedTook
<1>6. PlaceInv'
  BY <1>1, <1>2, <1>4, <1>5, InvFacts DEF PlaceInv, Finishing, Renaming, Committing
<1>7. RollInv'
  BY <1>2 DEF RollInv
<1>8. CASE hurt' = hurt
  BY <1>1, <1>3, <1>6, <1>7, <1>8, ControlInv
<1>9. CASE hurt' = {} /\ (Planned \/ AllNew)
  <2>1. (Recorded(undo) /\ Recorded(usafe))' /\ NewInv'
    BY <1>1, <1>4, InvFacts DEF Recorded, Rec, NewInv, Sealed, Same
  <2>2. ~stale' => NamesInv'
    <3> SUFFICES ASSUME ~stale PROVE NamesInv'
      BY <1>1
    <3>1. CASE Planned
      <4>1. /\ \A s \in done : img'[s] = {"disc"} /\ safe'[s] = {"disc"}
            /\ \E m \in Sectors : img[m] = {"disc"}
        BY <1>1, <3>1, SectorFacts DEF Planned
      <4>2. drive = "disc" /\ ~AllNew
        BY <1>1, <4>1, InvFacts DEF DiscInv, AllNew
      <4>3. usafe # NoUndo => usafe.state = "pending" /\ Mine(usafe)'
        <5>1. usafe # NoUndo => usafe.state = "pending" /\ Mine(usafe)
          BY <4>2, InvFacts DEF FilesInv, FileInv
        <5> QED BY <1>1, <4>1, <5>1 DEF Mine, PureAt, Held
      <4>4. FileInv(usafe)' /\ FileInv(undo)'
        BY <1>1, <4>3 DEF FileInv, Mine, MixedAt, PureAt, Held
      <4>5. Pure(drive)'
        BY <1>1, <4>1, <4>2 DEF Pure, Held
      <4> QED BY <1>1, <1>7, <4>2, <4>4, <4>5 DEF NamesInv, FilesInv, DiscInv
    <3>2. CASE AllNew
      <4>1. usafe # NoUndo /\ usafe.state = "pending" => Mine(usafe)'
        <5>1. \A s \in Sectors : img'[s] = {"new"} /\ safe'[s] = {"new"} /\ s \in done' /\ s # late'
          BY <1>1, <3>2, SectorFacts DEF AllNew
        <5>2. \A s \in Sectors : MixedAt(usafe, s)' /\ s \in done' \ {late'}
          BY <5>1 DEF MixedAt
        <5>3. usafe # NoUndo /\ usafe.state = "pending" => drive' = "disc"
          BY <1>1, InvFacts DEF FilesInv, FileInv, Mine
        <5>4. usafe' = usafe /\ (usafe # NoUndo => usafe.fill \subseteq Sectors)
          BY <1>1, UndoFacts, InvFacts DEF TypeOK
        <5> QED BY <1>1, <5>1, <5>2, <5>3, <5>4 DEF Mine, Held
      <4>2. FileInv(usafe)' /\ FileInv(undo)'
        BY <1>1, <1>4, <3>2, <4>1 DEF FileInv, Mine, MixedAt, PureAt, Held
      <4> QED BY <1>1, <1>4, <1>7, <3>2, <4>2, InvFacts DEF NamesInv, FilesInv, DiscInv
    <3> QED BY <1>9, <3>1, <3>2
  <2> QED BY <1>3, <1>6, <2>1, <2>2 DEF IInv, RenameInv
<1> QED BY <1>2, <1>5, <1>8, <1>9

----------------------------------------------------------------------------
(* The rename. *)

LEMMA WriteUndoInv == ASSUME IInv, WriteUndo PROVE IInv'
<1>0. /\ pc = "undo" /\ undo = NoUndo /\ Planned /\ late = NoSector /\ caller = "finish"
      /\ UNCHANGED <<img, safe, owed, hurt, stale, done, late, drive, runs, caller, back>>
  BY InvFacts DEF WriteUndo, PlaceInv, Finishing, image, world
<1>1. ~NewMain
  <2>1. \E m \in Mains : img[m] = {"disc"}
    BY <1>0, SectorFacts DEF Planned
  <2>2. NewMain => AllNew
    BY <1>0, RenamedTook
  <2> QED BY <2>1, <2>2, SectorFacts DEF AllNew
<1>2. ~NewMain' /\ Planned'
  BY <1>0, <1>1 DEF NewMain, Planned
<1>3. Record \in Undos /\ Record # NoUndo /\ Record.state = "pending"
      /\ Record.was = img /\ Record.fill = Sectors \ done
  BY NoUndoAssumption, InvFacts DEF Record, Undos, TypeOK
<1>4. Rec(Record)
  BY <1>0, <1>3, SectorFacts DEF Planned, Rec
<1>5. /\ \A s \in done : img[s] = {"disc"} /\ safe[s] = {"disc"}
      /\ ~stale => drive = "disc"
  <2>1. \A s \in done : img[s] = {"disc"} /\ safe[s] = {"disc"}
    BY <1>0, InvFacts DEF Planned, PlaceInv
  <2>2. \E m \in Sectors : img[m] = {"disc"}
    BY <1>0, SectorFacts DEF Planned
  <2>3. ~stale => drive = "disc"
    BY <2>2, InvFacts DEF DiscInv, TypeOK
  <2> QED BY <2>1, <2>3
<1>6. ~stale => Mine(Record)'
  <2> SUFFICES ASSUME ~stale PROVE Mine(Record)'
    OBVIOUS
  <2>1. Record' = Record
    BY <1>0 DEF Record
  <2>2. drive' = "disc" /\ \A s \in done' : img'[s] = {"disc"} /\ safe'[s] = {"disc"}
    BY <1>0, <1>5
  <2>3. Record.fill \cap done' = {} /\ \A s \in Sectors \ Record.fill : s \in done' \ {late'}
    BY <1>0, <1>3, SectorFacts
  <2> QED BY <2>1, <2>2, <2>3 DEF Mine, Held
<1>7. (Recorded(undo))' /\ (Recorded(usafe))' /\ undo' \in Undos \cup {NoUndo} /\ usafe' \in Undos \cup {NoUndo}
  <2>1. undo' \in {NoUndo, Record} /\ usafe' \in {usafe, Record}
    BY <1>0 DEF WriteUndo
  <2>2. \A u : Rec(u) => Rec(u)'
    BY DEF Rec
  <2> QED BY <1>3, <1>4, <2>1, InvFacts DEF Recorded, Rec, TypeOK
<1>8. NewInv'
  BY <1>2 DEF NewInv
<1>9. CASE undo' = Record /\ usafe' = Record /\ todo' = Sectors /\ Goto("write")
  <2>1. pc' = "write" /\ said' = said
    BY <1>9 DEF Goto
  <2>2. TypeOK'
    BY <1>0, <1>3, <1>7, <1>9, <2>1, InvFacts DEF TypeOK, Labels
  <2>3. PlaceInv'
    <3>1. \A s \in done' : img'[s] \subseteq {"disc", "new"}
      BY <1>0 DEF Planned
    <3>2. undo'.fill = Sectors \ done' /\ undo'.state = "pending" /\ usafe' = undo'
      BY <1>0, <1>3, <1>9
    <3> QED BY <1>0, <2>1, <3>1, <3>2, InvFacts DEF PlaceInv, Finishing, Renaming, Committing
  <2>4. ~stale' => NamesInv'
    <3> SUFFICES ASSUME ~stale PROVE NamesInv'
      BY <1>0
    <3>1. FileInv(undo)' /\ FileInv(usafe)'
      <4>1. undo' = Record' /\ usafe' = Record' /\ undo'.state = "pending" /\ usafe'.state = "pending"
        BY <1>0, <1>3, <1>9 DEF Record
      <4> QED BY <1>6, <4>1 DEF FileInv, Mine, MixedAt, PureAt, Held
    <3>2. Same(undo, usafe)' /\ NoUndo \notin {undo', usafe'}
      BY <1>3, <1>9 DEF Same
    <3> QED BY <1>0, <1>5, <2>1, <3>1, <3>2 DEF NamesInv, FilesInv, RollInv, DiscInv
  <2> QED BY <1>7, <1>8, <2>2, <2>3, <2>4 DEF IInv, RenameInv
<1>10. CASE undo' \in {undo, Record} /\ UNCHANGED <<usafe, todo>> /\ Kept
  <2>1. pc' = "idle" /\ said' = "kept"
    BY <1>10 DEF Kept, Say
  <2>2. TypeOK'
    BY <1>0, <1>7, <1>10, <2>1, InvFacts DEF TypeOK, Labels, NeedsUndo
  <2>3. PlaceInv'
    BY <1>0, <2>1, InvFacts DEF PlaceInv, Finishing, Renaming, Committing
  <2>4. ~stale' => NamesInv'
    <3> SUFFICES ASSUME ~stale PROVE NamesInv'
      BY <1>0
    <3>1. Pure("disc")' /\ Pure(drive)' /\ ~AllNew
      <4>1. Pure("disc")' /\ Pure(drive)'
        BY <1>0, <1>5 DEF Pure, Held
      <4> QED BY <1>1, <4>1, SectorFacts DEF AllNew, NewMain
    <3>2. FileInv(undo)'
      BY <1>0, <1>3, <1>6, <1>10 DEF FileInv, Record
    <3>3. FileInv(usafe)'
      <4>1. usafe # NoUndo => usafe.state = "pending" /\ Mine(usafe)
        BY <3>1, InvFacts DEF FilesInv, FileInv
      <4>2. Mine(usafe) => Mine(usafe)'
        BY <1>0, <1>10 DEF Mine, MixedAt, PureAt, Held
      <4> QED BY <1>10, <4>1, <4>2 DEF FileInv
    <3>4. undo' # NoUndo => undo'.fill = Sectors \ done'
      BY <1>0, <1>3, <1>10
    <3> QED BY <1>0, <1>5, <2>1, <3>1, <3>2, <3>3, <3>4 DEF NamesInv, FilesInv, RollInv, DiscInv
  <2> QED BY <1>7, <1>8, <2>2, <2>3, <2>4 DEF IInv, RenameInv
<1> QED BY <1>9, <1>10 DEF WriteUndo

\* A write that failed, or a rename that did not take, is rolled back.
LEMMA RollsBackInv ==
    ASSUME IInv, RollsBack, pc \in Renaming, UNCHANGED <<image, done, file, world>>
    PROVE  IInv'
<1>1. UNCHANGED <<img, safe, owed, hurt, stale, done, undo, usafe, late, drive, runs, said>>
  BY DEF RollsBack, Goto, image, file, world
<1>2. pc' = "restore" /\ caller' = "apply" /\ todo' = Sectors /\ back' = Sectors
  BY DEF RollsBack, Goto
<1>3. /\ undo # NoUndo /\ undo.state = "pending" /\ undo.fill = Sectors \ done
      /\ late = NoSector /\ said # "renamed"
  BY InvFacts DEF PlaceInv, TypeOK, NeedsUndo, Renaming, Finishing
<1>4. TypeOK'
  BY <1>1, <1>2, <1>3, InvFacts DEF TypeOK, Labels
<1>5. PlaceInv'
  BY <1>1, <1>2, <1>3, SectorFacts DEF PlaceInv, Finishing, Renaming, Committing
<1>6. RollInv'
  BY <1>1, <1>2, <1>3 DEF RollInv, Held
<1> QED BY <1>1, <1>4, <1>5, <1>6, ControlInv

\* In the rename the undo file covers what is Finished and no consumer is left.
LEMMA RenamingFacts ==
    ASSUME IInv, pc \in Renaming
    PROVE  /\ undo # NoUndo /\ undo \in Undos /\ usafe = undo /\ Same(undo, usafe)
           /\ undo.state = "pending" /\ undo.fill = Sectors \ done /\ undo.fill \subseteq Sectors
           /\ done \subseteq Sectors /\ Mains \subseteq done /\ Rec(undo)
           /\ late = NoSector /\ caller = "finish" /\ said # "renamed"
           /\ \A s \in done : img[s] \subseteq {"disc", "new"}
<1>1. /\ undo # NoUndo /\ undo \in Undos /\ usafe = undo
      /\ undo.state = "pending" /\ undo.fill = Sectors \ done
      /\ done \subseteq Sectors /\ Rec(undo) /\ caller = "finish" /\ said # "renamed"
      /\ late = NoSector /\ \A s \in done : img[s] \subseteq {"disc", "new"}
  BY InvFacts DEF PlaceInv, TypeOK, NeedsUndo, Renaming, Finishing, Recorded
<1>2. Same(undo, usafe)
  BY <1>1 DEF Same
<1>3. Mains \subseteq done
  BY <1>1, SectorFacts DEF Rec
<1> QED BY <1>1, <1>2, <1>3

\* A step of the rename that may change the image, and syncs it or does not.
LEMMA RenamingInv ==
    ASSUME IInv, pc \in Renaming, pc' \in Renaming,
           UNCHANGED <<hurt, stale, done, file, world, caller, said>>, owed' \subseteq Sectors,
           img' \in Images, safe' \in Images, todo' \subseteq Sectors, back' \subseteq Sectors,
           \A s \in Sectors : img'[s] = img[s] \/ img'[s] = {"new"},
           safe' = safe \/ safe' = img',
           pc' \in {"verify", "mark"} => safe' = img',
           pc' = "mark" => \A s \in Sectors : img'[s] = {"new"}
    PROVE  IInv'
<1>1. UNCHANGED <<stale, done, undo, usafe, late, drive, runs, caller, said>>
  BY DEF file, world
<1>2. TypeOK'
  BY <1>1, RenamingFacts, InvFacts DEF TypeOK, Labels, Renaming, NeedsUndo
<1>3. (Recorded(undo) /\ Recorded(usafe))'
  BY <1>1, InvFacts DEF Recorded, Rec
<1>4. \A s \in done : img'[s] \subseteq {"disc", "new"}
  BY RenamingFacts
<1>5. PlaceInv'
  BY <1>1, <1>4, RenamingFacts DEF PlaceInv, Finishing, Renaming, Committing
<1>6. NewInv'
  <2>1. Sealed(undo)'
    BY <1>1, <1>4, RenamingFacts, SectorFacts DEF Sealed
  <2>2. Same(undo, usafe)'
    BY <1>1, RenamingFacts DEF Same
  <2> QED BY <1>1, <2>1, <2>2, RenamingFacts, SectorFacts DEF NewInv
<1>7. ~stale' => NamesInv'
  <2> SUFFICES ASSUME ~stale PROVE NamesInv'
    BY <1>1
  <2>1. Mine(undo)
    BY RenamingFacts, InvFacts DEF FilesInv, FileInv
  <2>2. \A s \in done : safe[s] \subseteq {"disc", "new"}
    BY <2>1, RenamingFacts DEF Mine
  <2>3. \A s \in done : safe'[s] \subseteq {"disc", "new"}
    BY <1>4, <2>2
  <2>4. Mine(undo)'
    BY <1>1, <1>4, <2>1, <2>3, RenamingFacts DEF Mine, Held
  <2>5. Same(undo, usafe)' /\ undo' # NoUndo /\ usafe' # NoUndo
    BY <1>1, RenamingFacts DEF Same
  <2>6. FileInv(undo)' /\ FileInv(usafe)'
    BY <1>1, <2>4, RenamingFacts DEF FileInv
  <2> QED BY <1>1, <2>1, <2>5, <2>6 DEF NamesInv, FilesInv, RollInv, Renaming, Mine, DiscInv
<1> QED BY <1>2, <1>3, <1>5, <1>6, <1>7 DEF IInv, RenameInv

LEMMA WriteInv == ASSUME IInv, Write PROVE IInv'
<1>0. pc = "write" /\ pc \in Renaming /\ UNCHANGED <<safe, owed, hurt, stale, done, file, world>>
  BY DEF Write, Renaming
<1>1. CASE \E s \in todo :
              /\ img' = [img EXCEPT ![s] = {"new"}] \/ UNCHANGED img
              /\ todo' = todo \ {s}
              /\ Goto("write") /\ UNCHANGED <<caller, back>>
  <2>1. PICK s \in todo :
              /\ img' = [img EXCEPT ![s] = {"new"}] \/ UNCHANGED img
              /\ todo' = todo \ {s}
              /\ Goto("write") /\ UNCHANGED <<caller, back>>
    BY <1>1
  <2>2. img \in Images /\ safe \in Images /\ owed \subseteq Sectors /\ todo \subseteq Sectors /\ back \subseteq Sectors
    BY InvFacts DEF TypeOK
  <2>3. img' \in Images /\ \A r \in Sectors : img'[r] = img[r] \/ img'[r] = {"new"}
    BY <2>1, <2>2, ContentFacts DEF Images
  <2> QED BY <1>0, <2>1, <2>2, <2>3, RenamingInv DEF Goto, Renaming
<1>2. CASE todo = {} /\ Goto("sync") /\ UNCHANGED <<img, caller, todo, back>>
  <2>1. img \in Images /\ safe \in Images /\ owed \subseteq Sectors /\ todo \subseteq Sectors /\ back \subseteq Sectors
    BY InvFacts DEF TypeOK
  <2> QED BY <1>0, <1>2, <2>1, RenamingInv DEF Goto, Renaming
<1>3. CASE RollsBack /\ UNCHANGED img
  BY <1>0, <1>3, RollsBackInv DEF image
<1> QED BY <1>1, <1>2, <1>3 DEF Write

LEMMA SyncInv == ASSUME IInv, Sync PROVE IInv'
<1>0. pc = "sync" /\ pc \in Renaming /\ UNCHANGED <<img, hurt, stale, done, file, world>>
  BY DEF Sync, Renaming
<1>1. CASE Synced /\ Goto("verify") /\ UNCHANGED <<caller, todo, back>>
  <2>1. img \in Images /\ todo \subseteq Sectors /\ back \subseteq Sectors
    BY InvFacts DEF TypeOK
  <2> QED BY <1>0, <1>1, <2>1, RenamingInv DEF Synced, Goto, Renaming
<1>2. CASE RollsBack /\ UNCHANGED <<safe, owed>>
  BY <1>0, <1>2, RollsBackInv DEF image
<1> QED BY <1>1, <1>2 DEF Sync

LEMMA VerifyInv == ASSUME IInv, Verify PROVE IInv'
<1>0. pc = "verify" /\ pc \in Renaming /\ UNCHANGED <<image, done, file, world>>
  BY DEF Verify, Renaming
<1>1. CASE Took /\ Goto("mark") /\ UNCHANGED <<caller, todo, back>>
  <2>1. /\ img \in Images /\ safe \in Images /\ todo \subseteq Sectors /\ back \subseteq Sectors
        /\ safe = img /\ owed \subseteq Sectors
    BY <1>0, InvFacts DEF TypeOK, PlaceInv
  <2> QED BY <1>0, <1>1, <2>1, RenamingInv DEF Goto, Renaming, Took, image
<1>2. CASE RollsBack
  BY <1>0, <1>2, RollsBackInv
<1> QED BY <1>1, <1>2 DEF Verify

\* The rebuilt mirrors are Finished, and so is the rename.
LEMMA MarkInv == ASSUME IInv, Mark PROVE IInv'
<1>0. /\ pc = "mark" /\ pc \in Renaming /\ UNCHANGED <<img, safe, owed, hurt, stale, late, drive, runs>>
      /\ UNCHANGED <<image, world>>
  BY DEF Mark, Renaming, image, world
<1>1. CASE RollsBack /\ UNCHANGED <<done, file>>
  BY <1>0, <1>1, RollsBackInv
<1>2. CASE /\ IF undo.fill = {} THEN UNCHANGED <<done, file>> ELSE Flush(done \cup undo.fill)
           /\ Goto("commit") /\ UNCHANGED <<caller, todo, back>>
  <2>1. done' = Sectors /\ UNCHANGED <<undo, usafe>>
    BY <1>0, <1>2, RenamingFacts DEF Flush, file
  <2>2. pc' = "commit" /\ UNCHANGED <<said, caller, todo, back>>
    BY <1>2 DEF Goto
  <2>3. \A s \in Sectors : img[s] = {"new"} /\ safe[s] = {"new"}
    BY <1>0, InvFacts DEF PlaceInv
  <2>4. AllNew'
    BY <1>0, <2>1, <2>3, RenamingFacts DEF AllNew
  <2>5. Same(undo, usafe)'
    BY <1>0, <2>1, RenamingFacts DEF Same
  <2>6. TypeOK'
    BY <1>0, <2>1, <2>2, RenamingFacts, InvFacts DEF TypeOK, Labels
  <2>7. (Recorded(undo) /\ Recorded(usafe))'
    BY <2>1, InvFacts DEF Recorded, Rec
  <2>8. PlaceInv'
    BY <1>0, <2>2, <2>4, <2>5, RenamingFacts DEF PlaceInv, Finishing, Renaming, Committing
  <2>9. NewInv'
    <3>1. Sealed(undo)'
      BY <1>0, <2>1, <2>3, RenamingFacts, SectorFacts DEF Sealed
    <3> QED BY <1>0, <2>1, <2>4, <2>5, <3>1, RenamingFacts, SectorFacts DEF NewInv
  <2>10. ~stale' => NamesInv'
    <3> SUFFICES ASSUME ~stale PROVE NamesInv'
      BY <1>0
    <3>1. Mine(undo)
      BY <1>0, RenamingFacts, InvFacts DEF FilesInv, FileInv
    <3>2. Mine(undo)'
      <4>1. \A s \in undo.fill \cap done' : MixedAt(undo, s)' /\ s \notin {late'}
        BY <1>0, <2>1, <2>3, RenamingFacts, SectorFacts DEF MixedAt
      <4>2. \A s \in Sectors \ undo.fill :
               s \in done' \ {late'} /\ img'[s] \subseteq {"disc", "new"} /\ safe'[s] \subseteq {"disc", "new"}
        BY <1>0, <2>1, <2>3, RenamingFacts, SectorFacts
      <4> QED BY <1>0, <2>1, <3>1, <4>1, <4>2 DEF Mine, Held
    <3>3. FileInv(undo)' /\ FileInv(usafe)'
      BY <1>0, <2>1, <3>2, RenamingFacts DEF FileInv
    <3> QED BY <1>0, <2>1, <2>2, <2>5, <3>1, <3>3, RenamingFacts DEF NamesInv, FilesInv, RollInv, Mine, DiscInv
  <2> QED BY <2>6, <2>7, <2>8, <2>9, <2>10 DEF IInv, RenameInv
<1> QED BY <1>1, <1>2 DEF Mark

\* From then on only the undo file changes.
LEMMA CommittingInv ==
    ASSUME IInv, pc \in Committing, UNCHANGED <<image, done, world, caller, todo, back>>,
           undo' \in Undos \cup {NoUndo}, usafe' \in Undos \cup {NoUndo},
           \A w \in {undo', usafe'} \ {NoUndo} :
               /\ w.was = undo.was /\ w.fill = undo.fill
               /\ w.state = "committed" \/ w \in {undo, usafe},
           undo' # NoUndo => usafe' # NoUndo,
           undo' # NoUndo /\ undo'.state = "pending" => undo' = undo /\ usafe' \in {undo', usafe},
           \/ pc' = "dropped" /\ said' = said /\ undo' # NoUndo
           \/ pc' = "idle" /\ said' = "renamed"
    PROVE  IInv'
<1>1. UNCHANGED <<img, safe, owed, hurt, stale, done, late, drive, runs, caller, todo, back>>
  BY DEF image, world
<1>2. AllNew /\ Same(undo, usafe) /\ caller = "finish" /\ said # "renamed" /\ late = NoSector
  BY InvFacts DEF PlaceInv, Finishing, Committing, AllNew
<1>3. AllNew'
  BY <1>1, <1>2 DEF AllNew
<1>4. Same(undo', usafe') \/ undo' = NoUndo
  BY DEF Same
<1>5. TypeOK'
  BY <1>1, InvFacts DEF TypeOK, Labels, NeedsUndo
<1>6. (Recorded(undo) /\ Recorded(usafe))'
  <2>1. Rec(undo)
    BY <1>2, InvFacts DEF Recorded, Same
  <2> QED BY <2>1 DEF Recorded, Rec
<1>7. PlaceInv'
  BY <1>1, <1>2, <1>3, <1>4 DEF PlaceInv, Finishing, Renaming, Committing, Same
<1>8. NewInv'
  <2>1. NewMain
    BY <1>2, SectorFacts DEF AllNew, NewMain
  <2>2. Sealed(undo)
    BY <1>2, <2>1, InvFacts DEF NewInv, Same
  <2>3. \A u \in {undo', usafe'} \ {NoUndo} : Sealed(u)'
    BY <1>1, <2>2 DEF Sealed
  <2>4. Mains \subseteq done' /\ late' \notin Mains
    BY <1>1, <1>2, SectorFacts DEF AllNew
  <2>5. undo' # NoUndo /\ undo'.state = "pending" => usafe'.state = "pending"
    BY <1>2, <2>1, InvFacts DEF NewInv, Same
  <2> QED BY <1>1, <1>2, <1>3, <1>4, <2>3, <2>4, <2>5 DEF NewInv, Same
<1>9. ~stale' => NamesInv'
  <2> SUFFICES ASSUME ~stale PROVE NamesInv'
    BY <1>1
  <2>1. \A w \in {undo', usafe'} \ {NoUndo} : w.state # "pending" => AllNew'
    BY <1>3
  <2>2. \A w \in {undo', usafe'} \ {NoUndo} : w.state = "pending" => Mine(w)
    BY <1>2, InvFacts DEF FilesInv, FileInv, Same
  <2>3. \A w : Mine(w) => Mine(w)'
    BY <1>1 DEF Mine, MixedAt, PureAt, Held
  <2>4. FileInv(undo)' /\ FileInv(usafe)'
    BY <1>3, <2>2, <2>3 DEF FileInv, Mine, MixedAt, PureAt, Held
  <2> QED BY <1>1, <1>3, <1>4, <2>4, InvFacts DEF NamesInv, FilesInv, RollInv, Same, DiscInv
<1> QED BY <1>5, <1>6, <1>7, <1>8, <1>9 DEF IInv, RenameInv

LEMMA CommitInv == ASSUME IInv, Commit PROVE IInv'
<1> DEFINE committed == [undo EXCEPT !.state = "committed"]
<1>0. /\ pc = "commit" /\ pc \in Committing /\ UNCHANGED <<image, done, world, caller, todo, back>>
      /\ undo \in Undos /\ undo # NoUndo /\ usafe \in Undos /\ usafe # NoUndo
      /\ usafe.was = undo.was /\ usafe.fill = undo.fill
  BY InvFacts DEF Commit, Committing, PlaceInv, Same, TypeOK
<1>1. committed \in Undos /\ committed.state = "committed" /\ committed # NoUndo
      /\ committed.was = undo.was /\ committed.fill = undo.fill
  BY <1>0, NoUndoAssumption DEF Undos
<1>2. \/ undo' = committed /\ usafe' = committed /\ Goto("dropped")
      \/ undo' \in {undo, committed} /\ UNCHANGED usafe /\ Say("renamed")
  BY DEF Commit
<1> HIDE DEF committed
<1> QED BY <1>0, <1>1, <1>2, CommittingInv DEF Goto, Say

LEMMA DroppedInv == ASSUME IInv, Dropped PROVE IInv'
<1>0. /\ pc = "dropped" /\ pc \in Committing /\ UNCHANGED <<image, done, world, caller, todo, back>>
      /\ undo \in Undos /\ undo # NoUndo /\ usafe \in Undos /\ usafe # NoUndo
      /\ usafe.was = undo.was /\ usafe.fill = undo.fill
  BY InvFacts DEF Dropped, Committing, PlaceInv, Same, TypeOK
<1>1. undo' \in {NoUndo, undo} /\ usafe' \in {undo', usafe} /\ pc' = "idle" /\ said' = "renamed"
  BY DEF Dropped, Say
<1> QED BY <1>0, <1>1, CommittingInv

----------------------------------------------------------------------------
(* A pass. *)

\* A fresh image has no name in it, and nothing of it is Finished.
LEMMA StartFreshInv == ASSUME IInv, StartFresh PROVE IInv'
<1>0. /\ pc = "idle" /\ late = NoSector /\ late' = late
      /\ img' = [s \in Sectors |-> {"blank"}] /\ safe' = img'
      /\ done' = {} /\ owed' = {} /\ hurt' = {}
      /\ undo' \in {NoUndo, undo} /\ usafe' \in {undo', usafe}
      /\ stale' = ({undo', usafe'} # {NoUndo})
      /\ pc' = "reading" /\ said' = "none" /\ caller' = "pass"
      /\ todo' = Sectors /\ back' = {}
  BY DEF StartFresh
<1>1. img' \in Images /\ safe' \in Images
  BY <1>0, ContentFacts DEF Images
<1>2. TypeOK'
  <2>1. runs' \in 0..MaxRuns /\ drive' \in {"disc", "other"}
    BY MaxRunsAssumption, InvFacts DEF StartFresh, TypeOK
  <2> QED BY <1>0, <1>1, <2>1, InvFacts DEF TypeOK, Labels, NeedsUndo
<1>3. (Recorded(undo) /\ Recorded(usafe))'
  BY <1>0, InvFacts DEF Recorded, Rec
<1>4. ~NewMain'
  BY <1>0, SectorFacts DEF NewMain
<1>5. PlaceInv'
  BY <1>0, <1>4 DEF PlaceInv, Finishing, Renaming, Committing
<1>6. NewInv'
  BY <1>4 DEF NewInv
<1>7. ~stale' => NamesInv'
  <2> SUFFICES ASSUME ~stale' PROVE NamesInv'
    OBVIOUS
  <2>1. undo' = NoUndo /\ usafe' = NoUndo
    BY <1>0
  <2>2. Pure(drive)'
    BY <1>0 DEF Pure, Held
  <2>3. DiscInv'
    BY <1>0 DEF DiscInv
  <2> QED BY <1>0, <2>1, <2>2, <2>3 DEF NamesInv, FilesInv, FileInv, RollInv
<1> QED BY <1>2, <1>3, <1>5, <1>6, <1>7 DEF IInv, RenameInv

\* A step that keeps what is Finished, and renames nothing.
LEMMA OutsideInv ==
    ASSUME IInv, UNCHANGED <<safe, owed, stale, done, undo, usafe, drive>>,
           \A s \in done : s \in hurt' <=> s \in hurt,
           late' \in Sectors \cup {NoSector}, late' = late \/ late' \notin done,
           \A s \in done : img'[s] = img[s],
           \A m \in Mains : "new" \in img'[m] => "new" \in img[m],
           \A s \in Sectors : "disc" \in img'[s] => "disc" \in img[s] \/ drive = "disc",
           TypeOK', PlaceInv', ~stale => RollInv'
    PROVE  IInv'
<1>1. done \subseteq Sectors /\ (late' = late \/ late' \notin done)
  BY InvFacts DEF TypeOK
<1>2. (NewMain' => NewMain) /\ (AllNew => AllNew') /\ (Stuck => Stuck')
  <2>1. NewMain' => NewMain
    BY DEF NewMain
  <2>2. AllNew => AllNew'
    BY DEF AllNew
  <2>3. Stuck => Stuck'
    BY <1>1 DEF Stuck
  <2> QED BY <2>1, <2>2, <2>3
<1>3. (Recorded(undo) /\ Recorded(usafe))'
  BY <1>1, InvFacts DEF Recorded, Rec
<1>4. NewInv'
  <2> SUFFICES ASSUME NewMain' PROVE NewInv'
    BY DEF NewInv
  <2>1. NewMain
    BY <1>2
  <2>2. Mains \subseteq done /\ late' \notin Mains
    BY <1>1, <2>1, InvFacts DEF NewInv
  <2>3. \A u : Sealed(u) => Sealed(u)'
    BY <1>1 DEF Sealed
  <2>4. Same(undo, usafe) => Same(undo, usafe)'
    BY <1>1 DEF Same
  <2> QED BY <1>1, <1>2, <2>1, <2>2, <2>3, <2>4, InvFacts DEF NewInv
<1>5. ~stale' => NamesInv'
  <2> SUFFICES ASSUME ~stale PROVE NamesInv'
    OBVIOUS
  <2>0. Held' = Held
    BY DEF Held
  <2>1. \A u : Mine(u) => Mine(u)'
    BY <1>1, <2>0 DEF Mine, MixedAt, PureAt, Held
  <2>2. FileInv(undo)' /\ FileInv(usafe)'
    BY <1>1, <1>2, <2>1, InvFacts DEF FilesInv, FileInv, Mine, MixedAt, PureAt, Held
  <2>3. \A v : Pure(v) => Pure(v)'
    BY <2>0 DEF Pure, Held
  <2>4. FilesInv'
    BY <1>1, <1>2, <2>2, <2>3, InvFacts DEF FilesInv, Same, Pure
  <2>5. DiscInv'
    BY InvFacts DEF DiscInv
  <2> QED BY <2>4, <2>5 DEF NamesInv
<1> QED BY <1>3, <1>4, <1>5 DEF IInv, RenameInv

LEMMA ReadSectorInv == ASSUME IInv, ReadSector PROVE IInv'
<1>0. /\ pc = "reading" /\ UNCHANGED <<safe, owed, stale, done, undo, usafe, late, drive, runs, pc, caller, said>>
      /\ todo \subseteq Sectors /\ back \subseteq Sectors /\ done \subseteq Sectors
      /\ img \in Images /\ drive \in {"disc", "other"}
      /\ (todo \cup back) \cap done = {} /\ todo \cap back = {}
      /\ \A s \in back \ hurt : img[s] = {drive}
      /\ hurt \subseteq Sectors
  BY InvFacts DEF ReadSector, file, world, TypeOK, PlaceInv
<1>1. PICK s \in todo :
         /\ todo' = todo \ {s}
         /\ \/ /\ img' = [img EXCEPT ![s] = {drive}]
               /\ back' = back \cup {s} /\ hurt' = hurt \ {s}
            \/ img' = [img EXCEPT ![s] = {"blank"}] /\ UNCHANGED <<back, hurt>>
            \/ UNCHANGED <<img, back, hurt>>
  BY DEF ReadSector
<1>2. s \in Sectors /\ s \notin done /\ s \notin back
  BY <1>0, <1>1
<1>3. /\ img' \in Images
      /\ \A r \in Sectors : r # s => img'[r] = img[r]
      /\ img'[s] = img[s] \/ img'[s] = {drive} \/ img'[s] = {"blank"}
  <2>1. {drive} \in Contents /\ {"blank"} \in Contents
    BY <1>0, ContentFacts
  <2> QED BY <1>0, <1>1, <1>2, <2>1 DEF Images
<1>4. /\ back' \subseteq back \cup {s} /\ (s \in back' => img'[s] = {drive})
      /\ hurt' \subseteq hurt /\ \A r \in Sectors \ {s} : r \in hurt' <=> r \in hurt
  BY <1>0, <1>1, <1>2 DEF Images
<1>5. TypeOK'
  BY <1>0, <1>1, <1>2, <1>3, <1>4, InvFacts DEF TypeOK, NeedsUndo
<1>6. PlaceInv'
  <2>1. \A r \in back' \ hurt' : img'[r] = {drive'}
    BY <1>0, <1>2, <1>3, <1>4
  <2>2. (todo' \cup back') \cap done' = {} /\ todo' \cap back' = {}
    BY <1>0, <1>1, <1>2, <1>4
  <2> QED BY <1>0, <2>1, <2>2, InvFacts DEF PlaceInv, Finishing, Renaming, Committing
<1>7. \A r \in done : img'[r] = img[r]
  BY <1>0, <1>2, <1>3
<1>8. \A m \in Mains : "new" \in img'[m] => "new" \in img[m]
  BY <1>0, <1>2, <1>3, SectorFacts
<1>9. late' \in Sectors \cup {NoSector} /\ \A r \in done : r \in hurt' <=> r \in hurt
  BY <1>0, <1>2, <1>4, InvFacts DEF TypeOK
<1>10. RollInv'
  BY <1>0 DEF RollInv
<1>11. \A r \in Sectors : "disc" \in img'[r] => "disc" \in img[r] \/ drive = "disc"
  BY <1>3
<1> QED BY <1>0, <1>5, <1>6, <1>7, <1>8, <1>9, <1>10, <1>11, OutsideInv

\* A sector left to an abandoned consumer is not Finished.
LEMMA AbandonInv == ASSUME IInv, Abandon PROVE IInv'
<1>0. /\ pc = "reading" /\ UNCHANGED <<img, safe, owed, hurt, stale, done, undo, usafe, drive, runs, caller>>
      /\ late' \in todo /\ todo' = {} /\ back' = {} /\ pc' = "idle" /\ said' = "none"
  BY DEF Abandon, Say, image, file
<1>1. late' \in Sectors /\ late' \notin done
  BY <1>0, InvFacts DEF PlaceInv, TypeOK
<1>2. TypeOK'
  BY <1>0, <1>1, InvFacts DEF TypeOK, Labels, NeedsUndo
<1>3. PlaceInv'
  BY <1>0, InvFacts DEF PlaceInv, Finishing, Renaming, Committing
<1>4. RollInv'
  BY <1>0 DEF RollInv
<1> QED BY <1>0, <1>1, <1>2, <1>3, <1>4, OutsideInv

\* The sectors read since the last save, and nothing else, become Finished; if
\* nothing is synced they are owed it.
LEMMA SavedInv ==
    ASSUME IInv, pc = "reading", Flush(done \cup back), back' = {},
           UNCHANGED <<img, hurt, stale, late, drive, runs, pc, caller, todo, said>>,
           Synced \/ (safe' = safe /\ owed' = owed \cup back)
    PROVE  IInv'
<1>0. /\ UNCHANGED <<img, hurt, stale, undo, late, drive, runs, pc, caller, todo, said>>
      /\ done' = done \cup back /\ usafe' = undo /\ back' = {}
      /\ \/ safe' = img /\ owed' = {}
         \/ safe' = safe /\ owed' = owed \cup back
      /\ todo \cap back = {} /\ (todo \cup back) \cap done = {}
      /\ \A s \in back \ hurt : img[s] = {drive}
      /\ back \subseteq Sectors /\ done \subseteq Sectors /\ owed \subseteq Sectors
      /\ safe' \in Images /\ owed' \subseteq Sectors /\ caller = "pass"
  BY InvFacts DEF Flush, Synced, PlaceInv, TypeOK
<1>1. TypeOK'
  BY <1>0, InvFacts DEF TypeOK, Labels, NeedsUndo
<1>2. (NewMain' => NewMain) /\ (AllNew => AllNew') /\ (Stuck => Stuck')
  <2>1. NewMain' => NewMain
    BY <1>0 DEF NewMain
  <2>2. AllNew => AllNew'
    BY <1>0 DEF AllNew
  <2>3. Stuck => Stuck'
    BY <1>0 DEF Stuck
  <2> QED BY <2>1, <2>2, <2>3
<1>3. (Recorded(undo) /\ Recorded(usafe))'
  BY <1>0, InvFacts DEF Recorded, Rec
<1>4. PlaceInv'
  BY <1>0, <1>2, InvFacts DEF PlaceInv, Finishing, Renaming, Committing
<1>5. NewInv'
  <2> SUFFICES ASSUME NewMain' PROVE NewInv'
    BY DEF NewInv
  <2>1. NewMain
    BY <1>2
  <2>2. Mains \subseteq done' /\ late' \notin Mains
    BY <1>0, <2>1, InvFacts DEF NewInv
  <2>3. undo # NoUndo => Sealed(undo)'
    BY <1>0, <2>1, InvFacts DEF Sealed, NewInv
  <2>4. undo # NoUndo => Same(undo, usafe)'
    BY <1>0 DEF Same
  <2>5. undo # NoUndo /\ undo.state = "committed" => AllNew'
    BY <1>2, <2>1, InvFacts DEF NewInv
  <2>6. AllNew' \/ Stuck' \/ undo # NoUndo
    BY <1>2, <2>1, InvFacts DEF NewInv
  <2>7. \A u \in {undo', usafe'} \ {NoUndo} : Sealed(u)' /\ (u.state = "committed" => AllNew')
    BY <1>0, <2>3, <2>5 DEF Sealed
  <2> QED BY <1>0, <2>2, <2>4, <2>6, <2>7 DEF NewInv
<1>6. ~stale' => NamesInv'
  <2> SUFFICES ASSUME ~stale PROVE NamesInv'
    BY <1>0
  <2>1. undo # NoUndo => FileInv(undo)'
    <3>1. Mine(undo) => Mine(undo)'
      <4> SUFFICES ASSUME Mine(undo) PROVE Mine(undo)'
        OBVIOUS
      <4>1. \A s \in undo.fill \cap Held' :
               \/ MixedAt(undo, s)' /\ (s = late => "disc" \in undo.was[s])
               \/ PureAt(s)'
        <5>1. drive = "disc"
          BY DEF Mine
        <5>2. \A s \in done : MixedAt(undo, s) => MixedAt(undo, s)'
          BY <1>0 DEF MixedAt
        <5>3. \A s \in done : PureAt(s) => PureAt(s)'
          BY <1>0 DEF PureAt
        <5>4. \A s \in back \ hurt : PureAt(s)'
          BY <1>0, <5>1 DEF PureAt
        <5> QED BY <1>0, <5>2, <5>3, <5>4 DEF Mine, Held
      <4>2. \A s \in Sectors \ undo.fill :
               s \in done' \ {late'} /\ img'[s] \subseteq {"disc", "new"} /\ safe'[s] \subseteq {"disc", "new"}
        BY <1>0 DEF Mine
      <4> QED BY <1>0, <4>1, <4>2 DEF Mine
    <3> QED BY <1>0, <1>2, <3>1, InvFacts DEF FilesInv, FileInv
  <2>2. FileInv(undo)' /\ FileInv(usafe)'
    BY <1>0, <2>1 DEF FileInv, Mine, MixedAt, PureAt, Held
  <2>3. undo = NoUndo => AllNew' \/ Pure(drive)'
    <3>1. Pure(drive) => Pure(drive)'
      BY <1>0 DEF Pure, Held
    <3> QED BY <1>2, <3>1, InvFacts DEF FilesInv
  <2>4. FilesInv'
    BY <1>0, <2>2, <2>3 DEF FilesInv, Same
  <2>5. DiscInv'
    BY <1>0, InvFacts DEF DiscInv
  <2> QED BY <1>0, <2>4, <2>5 DEF NamesInv, RollInv
<1> QED BY <1>1, <1>3, <1>4, <1>5, <1>6 DEF IInv, RenameInv

\* A save behind a sync, and the unsynced save of what could not be read.
LEMMA SaveMapInv == ASSUME IInv, SaveMap PROVE IInv'
BY SavedInv DEF SaveMap, world

LEMMA SaveUnsyncedInv == ASSUME IInv, SaveUnsynced PROVE IInv'
BY SavedInv DEF SaveUnsynced, world

\* The disc's bytes, of which an undo file knows, over what it can take back; or
\* the zeros of a fill, over what is no longer held.
LEMMA LateWriteInv == ASSUME IInv, LateWrite PROVE IInv'
<1>0. /\ late # NoSector /\ late \in Sectors /\ late' = NoSector /\ img \in Images
      /\ UNCHANGED <<safe, owed, stale, done, undo, usafe, drive, runs, pc, caller, todo, back, said>>
      /\ done \subseteq Sectors /\ hurt \subseteq Sectors /\ drive \in {"disc", "other"}
      /\ caller = "pass"
  BY InvFacts DEF LateWrite, file, TypeOK, PlaceInv
<1>a. /\ \/ img' = [img EXCEPT ![late] = {drive}] /\ hurt' = hurt
         \/ /\ img' = [img EXCEPT ![late] = {"blank"}]
            /\ \A s \in done \cup back : s = late => s \in hurt'
      /\ hurt \subseteq hurt' /\ hurt' \subseteq hurt \cup {late}
  BY <1>0 DEF LateWrite
<1>1. /\ img' \in Images /\ img'[late] \in {{drive}, {"blank"}}
      /\ \A s \in Sectors \ {late} : img'[s] = img[s]
      /\ late \in (done \cup back) \ hurt' => img'[late] = {drive}
  <2>1. {drive} \in Contents /\ {"blank"} \in Contents
    BY <1>0, ContentFacts
  <2> QED BY <1>0, <1>a, <2>1 DEF Images
<1>b. /\ Held' \subseteq Held /\ Held' \subseteq done
      /\ \A s \in Held' : s \in Sectors /\ s \in Held /\ s \in done
      /\ \A s \in Held' : s = late => img'[s] = {drive}
      /\ \A s \in Held' : s # late => img'[s] = img[s]
  BY <1>0, <1>a, <1>1 DEF Held
<1>2. ~AllNew /\ said # "renamed" /\ pc \notin Finishing
  <2>1. ~AllNew
    BY <1>0 DEF AllNew
  <2> QED BY <1>0, <2>1, InvFacts DEF PlaceInv, Finishing, Renaming, Committing
<1>3. \A s \in Sectors : s # NoSector
  BY SectorFacts
<1>4. (NewMain' => NewMain) /\ (Stuck => Stuck')
  <2>1. NewMain' => NewMain
    BY <1>0, <1>1, SectorFacts DEF NewMain
  <2>2. Stuck => Stuck'
    BY <1>0, <1>1, <1>3 DEF Stuck
  <2> QED BY <2>1, <2>2
<1>5. TypeOK'
  BY <1>0, <1>a, <1>1, InvFacts DEF TypeOK, NeedsUndo
<1>6. (Recorded(undo) /\ Recorded(usafe))'
  BY <1>0, InvFacts DEF Recorded, Rec
<1>7. PlaceInv'
  <2>1. pc = "reading" => \A s \in back \ hurt' : img'[s] = {drive}
    BY <1>0, <1>a, <1>1, InvFacts DEF PlaceInv, TypeOK
  <2>2. \A m \in Mains : "new" \in img'[m] => "new" \in img[m]
    BY <1>0, <1>1, SectorFacts
  <2>3. pc = "drop" /\ NewMain' => Stuck'
    BY <1>2, <1>4, InvFacts DEF PlaceInv
  <2> QED BY <1>0, <1>2, <1>4, <2>1, <2>2, <2>3, InvFacts DEF PlaceInv, Finishing, Renaming, Committing
<1>8. NewInv'
  <2> SUFFICES ASSUME NewMain' PROVE NewInv'
    BY DEF NewInv
  <2>1. NewMain
    BY <1>4
  <2>2. Mains \subseteq done' /\ late' \notin Mains
    BY <1>0, <1>3, <2>1, SectorFacts, InvFacts DEF NewInv
  <2>3. \A u : Sealed(u) => Sealed(u)'
    BY <1>0, <1>1, <1>3 DEF Sealed
  <2>4. \A u \in {undo, usafe} \ {NoUndo} : Sealed(u)' /\ u.state # "committed"
    BY <1>2, <2>1, <2>3, InvFacts DEF NewInv
  <2>5. Stuck' \/ (undo # NoUndo /\ usafe # NoUndo)
    BY <1>2, <1>4, <2>1, InvFacts DEF NewInv
  <2>6. undo # NoUndo =>
           Same(undo, usafe)' /\ (undo.state = "pending" => usafe.state = "pending")
    BY <1>0, <2>1, InvFacts DEF NewInv, Same
  <2> QED BY <1>0, <2>2, <2>4, <2>5, <2>6 DEF NewInv
<1>9. ~stale' => NamesInv'
  <2> SUFFICES ASSUME ~stale PROVE NamesInv'
    BY <1>0
  <2>1. \A u \in {undo, usafe} \ {NoUndo} : u.state = "pending" /\ Mine(u) /\ drive = "disc"
    BY <1>2, InvFacts DEF FilesInv, FileInv, Mine
  <2>2. \A s \in Held' : drive = "disc" /\ PureAt(s) => PureAt(s)'
    BY <1>0, <1>b DEF PureAt
  <2>3. ASSUME NEW u, Mine(u) PROVE Mine(u)'
    <3>1. \A s \in Sectors \ u.fill :
             s \in done' \ {late'} /\ img'[s] \subseteq {"disc", "new"} /\ safe'[s] \subseteq {"disc", "new"}
      BY <1>0, <1>1, <1>3, <2>3 DEF Mine
    <3>2. \A s \in u.fill \cap Held' : MixedAt(u, s)' \/ PureAt(s)'
      <4> SUFFICES ASSUME NEW s \in u.fill \cap Held' PROVE MixedAt(u, s)' \/ PureAt(s)'
        OBVIOUS
      <4>0. s \in u.fill \cap Held
        BY <1>b
      <4>1. CASE PureAt(s)
        BY <2>2, <2>3, <4>1 DEF Mine
      <4>2. CASE MixedAt(u, s) /\ (s = late => "disc" \in u.was[s])
        BY <1>0, <1>b, <2>3, <4>2 DEF Mine, MixedAt
      <4> QED BY <2>3, <4>0, <4>1, <4>2 DEF Mine
    <3>3. \A s \in u.fill \cap Held' : s # late'
      BY <1>0, <1>3, <1>b
    <3> QED BY <1>0, <2>3, <3>1, <3>2, <3>3 DEF Mine
  <2>4. FileInv(undo)' /\ FileInv(usafe)'
    BY <1>0, <2>1, <2>3 DEF FileInv, Mine, MixedAt, PureAt, Held
  <2>5. \A v : Pure(v) /\ drive = v => Pure(v)'
    BY <1>0, <1>b DEF Pure
  <2>6. FilesInv'
    <3>1. NoUndo \in {undo, usafe} => Pure(drive)'
      BY <1>0, <1>2, <2>5, InvFacts DEF FilesInv, Pure
    <3>2. undo # NoUndo /\ ~Same(undo, usafe) => Pure("disc")' /\ undo.fill = Sectors \ done
      BY <2>1, <2>5, InvFacts DEF FilesInv
    <3> QED BY <1>0, <2>4, <3>1, <3>2 DEF FilesInv, Same
  <2>7. pc \in {"restore", "reset", "drop"} => Mine(undo) /\ undo.state = "pending" /\ drive = "disc"
    BY <2>1, InvFacts DEF TypeOK, NeedsUndo
  <2>8. RollInv'
    <3>1. pc = "restore" =>
            /\ \A s \in Sectors \ undo.fill : s \in back /\ (s \in todo \/ img'[s] = {"disc"})
            /\ \A s \in undo.fill \cap Held' : IF s \in back THEN MixedAt(undo, s)' ELSE PureAt(s)'
      <4> SUFFICES ASSUME pc = "restore"
                   PROVE  /\ \A s \in Sectors \ undo.fill : s \in back /\ (s \in todo \/ img'[s] = {"disc"})
                          /\ \A s \in undo.fill \cap Held' : IF s \in back THEN MixedAt(undo, s)' ELSE PureAt(s)'
        OBVIOUS
      <4>1. \A s \in Sectors \ undo.fill : s \in back /\ (s \in todo \/ img'[s] = {"disc"})
        <5>1. \A s \in Sectors \ undo.fill : s # late
          BY <2>7 DEF Mine
        <5> QED BY <1>0, <1>1, <5>1, InvFacts DEF RollInv
      <4>2. ASSUME NEW s \in undo.fill \cap Held' PROVE IF s \in back THEN MixedAt(undo, s)' ELSE PureAt(s)'
        <5>0. s \in undo.fill \cap Held
          BY <1>b, <4>2
        <5>1. CASE s \notin back
          BY <2>2, <2>7, <4>2, <5>0, <5>1, InvFacts DEF RollInv
        <5>2. CASE s \in back
          <6>1. MixedAt(undo, s)
            BY <5>0, <5>2, InvFacts DEF RollInv
          <6>2. s = late => "disc" \in undo.was[s]
            BY <2>7, <5>0, <6>1 DEF Mine, PureAt, MixedAt
          <6>3. MixedAt(undo, s)'
            BY <1>0, <1>b, <2>7, <4>2, <6>1, <6>2 DEF MixedAt
          <6> QED BY <5>2, <6>3
        <5> QED BY <5>1, <5>2
      <4> QED BY <4>1, <4>2
    <3>2. pc = "reset" => \A s \in Held' \ (back \cap undo.fill) : PureAt(s)'
      BY <1>b, <2>2, <2>7, InvFacts DEF RollInv
    <3>3. pc = "drop" => Pure("disc")'
      BY <1>2, <2>5, <2>7, InvFacts DEF RollInv
    <3>4. pc = "restore" => todo \subseteq back
      BY InvFacts DEF RollInv
    <3> QED BY <1>0, <3>1, <3>2, <3>3, <3>4 DEF RollInv, MixedAt, PureAt
  <2>9. DiscInv'
    BY <1>0, <1>1, InvFacts DEF DiscInv
  <2> QED BY <2>6, <2>8, <2>9 DEF NamesInv
<1> QED BY <1>5, <1>6, <1>7, <1>8, <1>9 DEF IInv, RenameInv

----------------------------------------------------------------------------
(* The process dies; the power fails. *)

LEMMA KillInv == ASSUME IInv, Kill PROVE IInv'
<1>0. /\ UNCHANGED <<img, safe, owed, hurt, stale, done, undo, usafe, drive, runs, caller, said>>
      /\ pc' = "idle" /\ todo' = {} /\ back' = {} /\ late' = NoSector /\ done \subseteq Sectors
  BY InvFacts DEF Kill, Over, image, file, TypeOK
<1>1. TypeOK'
  BY <1>0, InvFacts DEF TypeOK, Labels, NeedsUndo
<1>2. AllNew => AllNew'
  BY <1>0 DEF AllNew
<1>3. PlaceInv'
  BY <1>0, <1>2, InvFacts DEF PlaceInv, Finishing, Renaming, Committing
<1>4. RollInv'
  BY <1>0 DEF RollInv
<1>5. late' \in Sectors \cup {NoSector} /\ late' \notin done
  BY <1>0, SectorFacts
<1> QED BY <1>0, <1>1, <1>3, <1>4, <1>5, OutsideInv

\* Each sector keeps what it held, falls back to what was synced, or is torn.
LEMMA PowerLossInv == ASSUME IInv, PowerLoss PROVE IInv'
<1>0. /\ UNCHANGED <<stale, done, drive, runs, caller, said>>
      /\ pc' = "idle" /\ todo' = {} /\ back' = {} /\ late' = NoSector /\ done \subseteq Sectors
      /\ undo' \in {undo, usafe} /\ usafe' = undo' /\ safe' = img' /\ owed' = {}
      /\ img \in Images /\ safe \in Images /\ owed \subseteq Sectors
      /\ hurt' = hurt \cup {s \in owed : img'[s] # img[s]} /\ hurt' \subseteq Sectors
  BY InvFacts DEF PowerLoss, Over, TypeOK
<1>1. \A s \in Sectors : img'[s] \in {img[s], safe[s], img[s] \cup safe[s]}
  BY DEF PowerLoss
<1>2. img' \in Images
  <2>1. PICK how \in [Sectors -> {"kept", "lost", "torn"}] :
           img' = [s \in Sectors |-> CASE how[s] = "kept" -> img[s]
                                       [] how[s] = "lost" -> safe[s]
                                       [] how[s] = "torn" -> img[s] \cup safe[s]]
    BY DEF PowerLoss
  <2>2. \A s \in Sectors : img'[s] \in Contents
    BY <1>0, <1>1, ContentFacts DEF Images
  <2> QED BY <2>1, <2>2 DEF Images
<1>3. TypeOK'
  BY <1>0, <1>2, InvFacts DEF TypeOK, Labels, NeedsUndo
<1>4. (NewMain' => NewMain) /\ (AllNew => AllNew') /\ (Stuck => Stuck')
  <2>1. NewMain' => NewMain
    BY <1>0, <1>1, SectorFacts DEF NewMain
  <2>2. AllNew => AllNew'
    BY <1>0, <1>1 DEF AllNew
  <2>3. Stuck => Stuck'
    BY <1>0, <1>1, SectorFacts DEF Stuck
  <2> QED BY <2>1, <2>2, <2>3
<1>5. (Recorded(undo) /\ Recorded(usafe))'
  BY <1>0, InvFacts DEF Recorded, Rec
<1>6. PlaceInv'
  BY <1>0, <1>4, InvFacts DEF PlaceInv, Finishing, Renaming, Committing
<1>7. NewInv'
  <2> SUFFICES ASSUME NewMain' PROVE NewInv'
    BY DEF NewInv
  <2>1. NewMain
    BY <1>4
  <2>2. Mains \subseteq done' /\ late' \notin Mains
    BY <1>0, <2>1, SectorFacts, InvFacts DEF NewInv
  <2>3. \A u \in {undo, usafe} \ {NoUndo} : Sealed(u)' /\ (u.state = "committed" => AllNew')
    <3>1. \A u : Sealed(u) => Sealed(u)'
      BY <1>0, SectorFacts DEF Sealed
    <3> QED BY <1>4, <2>1, <3>1, InvFacts DEF NewInv
  <2>4. AllNew' \/ Stuck' \/ undo' # NoUndo
    BY <1>0, <1>4, <2>1, InvFacts DEF NewInv
  <2> QED BY <1>0, <2>2, <2>3, <2>4 DEF NewInv, Same
<1>8. /\ Held' \subseteq Held
      /\ \A s \in Held' : s \in Held /\ s \in Sectors /\ (s \in owed => img'[s] = img[s])
  BY <1>0 DEF Held
<1>9. ~stale' => NamesInv'
  <2> SUFFICES ASSUME ~stale PROVE NamesInv'
    BY <1>0
  <2>1. ASSUME NEW u, Mine(u) PROVE Mine(u)'
    <3>1. \A s \in Sectors \ u.fill :
             s \in done' \ {late'} /\ img'[s] \subseteq {"disc", "new"} /\ safe'[s] \subseteq {"disc", "new"}
      BY <1>0, <1>1, <2>1, SectorFacts DEF Mine
    <3>2. \A s \in u.fill \cap Held' : MixedAt(u, s)' \/ PureAt(s)'
      <4> SUFFICES ASSUME NEW s \in u.fill \cap Held' PROVE MixedAt(u, s)' \/ PureAt(s)'
        OBVIOUS
      <4>0. s \in u.fill \cap Held /\ s \in Sectors /\ (s \in owed => img'[s] = img[s])
        BY <1>8
      <4>1. CASE PureAt(s)
        BY <1>0, <1>1, <4>0, <4>1 DEF PureAt
      <4>2. CASE MixedAt(u, s)
        BY <1>0, <1>1, <4>0, <4>2 DEF MixedAt
      <4> QED BY <2>1, <4>0, <4>1, <4>2 DEF Mine
    <3>3. \A s \in u.fill \cap Held' : s # late'
      BY <1>0, <1>8, SectorFacts
    <3> QED BY <1>0, <2>1, <3>1, <3>2, <3>3 DEF Mine
  <2>2. \A u \in {undo, usafe} \ {NoUndo} : IF u.state = "pending" THEN Mine(u)' ELSE AllNew'
    BY <1>4, <2>1, InvFacts DEF FilesInv, FileInv
  <2>3. undo' # NoUndo => IF undo'.state = "pending" THEN Mine(undo)' ELSE AllNew'
    BY <1>0, <2>2 DEF Mine, MixedAt, PureAt, Held
  <2>4. FileInv(undo)' /\ FileInv(usafe)'
    BY <1>0, <2>3 DEF FileInv, Mine, MixedAt, PureAt, Held
  <2>5. \A v : Pure(v) => Pure(v)'
    BY <1>0, <1>1, <1>8 DEF Pure
  <2>6. undo' = NoUndo => AllNew' \/ Pure(drive)'
    BY <1>0, <1>4, <2>5, InvFacts DEF FilesInv, Pure
  <2>7. FilesInv'
    BY <1>0, <2>4, <2>6 DEF FilesInv, Same
  <2>8. DiscInv'
    BY <1>0, <1>1, InvFacts DEF DiscInv
  <2> QED BY <1>0, <2>7, <2>8 DEF NamesInv, RollInv
<1> QED BY <1>3, <1>5, <1>6, <1>7, <1>9 DEF IInv, RenameInv

----------------------------------------------------------------------------
(* The rollback of an undo file that was left behind, or of a failed rename. *)

\* While it is rolled back the undo file is pending, and on the disk for good
\* unless nothing of the image is renamed.
LEMMA RestoreFacts ==
    ASSUME IInv, pc \in {"restore", "reset"}
    PROVE  /\ undo \in Undos /\ undo # NoUndo /\ undo.state = "pending" /\ Rec(undo)
           /\ undo.fill \subseteq Sectors
           /\ \A s \in Sectors : undo.was[s] \in Contents
           /\ \A s \in Sectors \ undo.fill : undo.was[s] = {"disc"}
           /\ \A m \in Mains : m \in Sectors \ undo.fill
           /\ said # "renamed"
<1>1. undo \in Undos /\ undo # NoUndo /\ undo.state = "pending" /\ Rec(undo) /\ said # "renamed"
  BY InvFacts DEF PlaceInv, TypeOK, NeedsUndo, Recorded
<1>2. undo.fill \subseteq Sectors /\ \A s \in Sectors : undo.was[s] \in Contents
  BY <1>1, UndoFacts
<1> QED BY <1>1, <1>2, SectorFacts DEF Rec

\* Of an image of its own the undo file is this image's, and so is a later one.
LEMMA RestoreMine ==
    ASSUME IInv, pc \in {"restore", "reset"}, ~stale
    PROVE  /\ Mine(undo) /\ drive = "disc"
           /\ usafe # NoUndo => Mine(usafe) /\ usafe.state = "pending"
           /\ Same(undo, usafe) \/ (Pure("disc") /\ undo.fill = Sectors \ done)
<1>1. Mine(undo) /\ drive = "disc"
  BY RestoreFacts, InvFacts DEF FilesInv, FileInv, Mine
<1>2. Same(undo, usafe) \/ (Pure("disc") /\ undo.fill = Sectors \ done)
  BY RestoreFacts, InvFacts DEF FilesInv
<1>3. usafe # NoUndo => Mine(usafe) /\ usafe.state = "pending"
  <2> SUFFICES ASSUME usafe # NoUndo, ~(Mine(usafe) /\ usafe.state = "pending") PROVE FALSE
    OBVIOUS
  <2>1. AllNew /\ usafe.state # "pending"
    BY InvFacts DEF FilesInv, FileInv
  <2>2. NewMain
    BY <2>1, SectorFacts DEF AllNew, NewMain
  <2> QED BY <2>1, <2>2, RestoreFacts, InvFacts DEF NewInv
<1> QED BY <1>1, <1>2, <1>3

\* One sector is rolled back.
LEMMA RestoreWriteInv ==
    ASSUME IInv, pc = "restore", NEW s \in todo,
           img' = [img EXCEPT ![s] = undo.was[s]], todo' = todo \ {s}, pc' = "restore",
           UNCHANGED <<safe, owed, hurt, stale, done, undo, usafe, late, drive, runs, caller, back, said>>
    PROVE  IInv'
<1>0. img \in Images /\ todo \subseteq Sectors /\ done \subseteq Sectors
  BY InvFacts DEF TypeOK
<1>1. /\ img' \in Images /\ img'[s] = undo.was[s] /\ \A r \in Sectors \ {s} : img'[r] = img[r]
  BY <1>0, RestoreFacts DEF Images
<1>2. TypeOK'
  BY <1>0, <1>1, RestoreFacts, InvFacts DEF TypeOK, Labels
<1>3. (Recorded(undo) /\ Recorded(usafe))'
  BY InvFacts DEF Recorded, Rec
<1>4. \A r \in Sectors \ undo.fill : img'[r] = img[r] \/ img'[r] = {"disc"}
  BY <1>0, <1>1, RestoreFacts
<1>5. \A m \in Mains : m \in todo' \/ "new" \notin img'[m]
  BY <1>0, <1>1, RestoreFacts, InvFacts DEF PlaceInv
<1>6. PlaceInv'
  BY <1>5, RestoreFacts, InvFacts DEF PlaceInv, Finishing, Renaming, Committing
<1>7. NewMain' => NewMain
  BY <1>4, RestoreFacts DEF NewMain
<1>8. NewInv'
  <2> SUFFICES ASSUME NewMain' PROVE NewInv'
    BY DEF NewInv
  <2>1. /\ NewMain /\ Mains \subseteq done /\ late \notin Mains
        /\ Same(undo, usafe) /\ Sealed(undo) /\ usafe.state = "pending"
    BY <1>7, RestoreFacts, InvFacts DEF NewInv
  <2>2. Sealed(undo)'
    BY <1>4, <2>1 DEF Sealed
  <2>3. \A u \in {undo', usafe'} \ {NoUndo} : Sealed(u)' /\ u.state # "committed"
    BY <2>1, <2>2, RestoreFacts DEF Sealed, Same
  <2> QED BY <2>1, <2>3, RestoreFacts DEF NewInv, Same
<1>9. ~stale' => NamesInv'
  <2> SUFFICES ASSUME ~stale PROVE NamesInv'
    OBVIOUS
  <2>1. /\ Mine(undo) /\ drive = "disc"
        /\ usafe # NoUndo => Mine(usafe) /\ usafe.state = "pending"
        /\ Same(undo, usafe) \/ (Pure("disc") /\ undo.fill = Sectors \ done)
    BY RestoreMine
  <2>2. s \in back
    BY InvFacts, <2>1 DEF RollInv
  <2>3. \A r \in undo.fill \cap Held : IF r \in back THEN MixedAt(undo, r) ELSE PureAt(r)
    BY InvFacts DEF RollInv
  <2>4. \A r \in undo.fill \cap Held : IF r \in back THEN MixedAt(undo, r)' ELSE PureAt(r)'
    BY <1>0, <1>1, <2>2, <2>3 DEF MixedAt, PureAt, Held
  <2>a. Held' = Held /\ Held \subseteq done
    BY DEF Held
  <2>5. ASSUME NEW u, u.was = undo.was, u.fill = undo.fill PROVE Mine(u)'
    <3>1. \A r \in Sectors \ u.fill :
             r \in done \ {late} /\ img'[r] \subseteq {"disc", "new"} /\ safe[r] \subseteq {"disc", "new"}
      BY <1>4, <2>1, <2>5 DEF Mine
    <3>2. ASSUME NEW r \in u.fill \cap Held
          PROVE  (MixedAt(u, r)' /\ (r = late => "disc" \in u.was[r])) \/ PureAt(r)'
      <4>1. CASE r \in back
        <5>1. MixedAt(undo, r) /\ MixedAt(undo, r)'
          BY <2>3, <2>4, <2>5, <4>1
        <5>2. r = late => "disc" \in u.was[r]
          BY <2>1, <2>5, <5>1 DEF Mine, MixedAt, PureAt
        <5> QED BY <2>5, <5>1, <5>2 DEF MixedAt
      <4>2. CASE r \notin back
        BY <2>4, <2>5, <4>2
      <4> QED BY <4>1, <4>2
    <3> QED BY <2>1, <2>a, <3>1, <3>2 DEF Mine
  <2>6. Pure("disc") /\ undo.fill = Sectors \ done => Pure("disc")'
    BY <1>0, <1>4, <2>a DEF Pure
  <2>7. Mine(undo)'
    BY <2>5
  <2>8. usafe # NoUndo => Mine(usafe)'
    <3>1. CASE Same(undo, usafe)
      <4>1. usafe.was = undo.was /\ usafe.fill = undo.fill
        BY <3>1 DEF Same
      <4> QED BY <2>5, <4>1 DEF Mine, MixedAt, PureAt, Held
    <3>2. CASE Pure("disc") /\ undo.fill = Sectors \ done
      <4> SUFFICES ASSUME usafe # NoUndo PROVE Mine(usafe)'
        OBVIOUS
      <4>1. \A r \in Held' : PureAt(r)'
        BY <2>6, <3>2 DEF Pure, PureAt
      <4>2. \A r \in Sectors \ usafe.fill :
               r \in done \ {late} /\ img'[r] \subseteq {"disc", "new"} /\ safe[r] \subseteq {"disc", "new"}
        BY <1>4, <2>1, <3>2 DEF Mine
      <4> QED BY <2>1, <4>1, <4>2 DEF Mine
    <3> QED BY <2>1, <3>1, <3>2
  <2>9. FilesInv'
    <3>1. FileInv(undo)' /\ FileInv(usafe)'
      BY <2>1, <2>7, <2>8, RestoreFacts DEF FileInv
    <3>2. usafe = NoUndo => Pure(drive)'
      BY <2>1, <2>6 DEF Same, Pure
    <3> QED BY <2>1, <2>6, <3>1, <3>2, RestoreFacts DEF FilesInv, Same, Mine
  <2>10. RollInv'
    <3>1. \A r \in Sectors \ undo.fill : r \in back /\ (r \in todo' \/ img'[r] = {"disc"})
      BY <1>0, <1>1, RestoreFacts, InvFacts DEF RollInv
    <3>2. todo' \subseteq back
      BY InvFacts DEF RollInv
    <3> QED BY <2>4, <2>a, <3>1, <3>2 DEF RollInv, MixedAt, PureAt
  <2>11. DiscInv'
    BY <2>1 DEF DiscInv
  <2> QED BY <2>9, <2>10, <2>11 DEF NamesInv
<1> QED BY <1>2, <1>3, <1>6, <1>8, <1>9 DEF IInv, RenameInv

\* All of it is rolled back, and synced.
LEMMA RestoreSyncInv ==
    ASSUME IInv, pc = "restore", todo = {}, Synced, pc' = "reset",
           UNCHANGED <<img, hurt, stale, done, undo, usafe, late, drive, runs, caller, todo, back, said>>
    PROVE  IInv'
<1>0. safe' = img /\ owed' = {}
  BY DEF Synced
<1>1. TypeOK'
  BY <1>0, RestoreFacts, InvFacts DEF TypeOK, Labels
<1>2. \A m \in Mains : "new" \notin img[m]
  BY InvFacts DEF PlaceInv
<1>3. ~NewMain'
  BY <1>0, <1>2 DEF NewMain
<1>4. PlaceInv'
  BY <1>0, <1>3, RestoreFacts, InvFacts DEF PlaceInv, Finishing, Renaming, Committing
<1>5. ~stale => RollInv'
  <2> SUFFICES ASSUME ~stale PROVE RollInv'
    OBVIOUS
  <2>1. \A s \in Held \ (back \cap undo.fill) : img[s] = {"disc"}
    BY InvFacts DEF RollInv, PureAt, Held, TypeOK
  <2> QED BY <1>0, <2>1 DEF RollInv, PureAt, Held
<1> QED BY <1>1, <1>4, <1>5, SyncedInv

LEMMA RestoreInv == ASSUME IInv, Restore PROVE IInv'
<1>0. pc = "restore" /\ UNCHANGED <<hurt, stale, done, file, world>>
  BY DEF Restore
<1>1. CASE \E s \in todo :
              /\ img' = [img EXCEPT ![s] = undo.was[s]]
              /\ todo' = todo \ {s}
              /\ Goto("restore") /\ UNCHANGED <<safe, owed, caller, back>>
  <2>1. PICK s \in todo :
              /\ img' = [img EXCEPT ![s] = undo.was[s]]
              /\ todo' = todo \ {s}
              /\ Goto("restore") /\ UNCHANGED <<safe, owed, caller, back>>
    BY <1>1
  <2>2. pc' = "restore" /\ UNCHANGED <<safe, owed, hurt, stale, done, undo, usafe, late, drive, runs, caller, back, said>>
    BY <1>0, <2>1 DEF Goto, file, world
  <2> QED BY <1>0, <2>1, <2>2, RestoreWriteInv
<1>2. CASE /\ todo = {} /\ Synced
           /\ Goto("reset") /\ UNCHANGED <<img, caller, todo, back>>
  <2>1. /\ pc' = "reset"
        /\ UNCHANGED <<img, hurt, stale, done, undo, usafe, late, drive, runs, caller, todo, back, said>>
    BY <1>0, <1>2 DEF Goto, file, world
  <2> QED BY <1>0, <1>2, <2>1, RestoreSyncInv
<1>3. CASE Settled("Unrestored") /\ UNCHANGED <<img, safe, owed>>
  <2>1. UNCHANGED <<image, done, file, world>>
    BY <1>0, <1>3 DEF image
  <2> QED BY <1>0, <1>3, <2>1, SettledInv
<1> QED BY <1>1, <1>2, <1>3 DEF Restore

\* What is still Finished was rolled back, or holds the disc's bytes anyway.
LEMMA ResetInv == ASSUME IInv, Reset PROVE IInv'
<1>0. /\ pc = "reset" /\ UNCHANGED <<img, safe, owed, hurt, stale, late, drive, runs>> /\ UNCHANGED <<image, world>>
      /\ done \subseteq Sectors /\ ~NewMain
  BY InvFacts DEF Reset, image, world, TypeOK, PlaceInv
<1>1. CASE Unconfirmed # {} /\ UNCHANGED <<done, file>> /\ Settled("StatusOwed")
  <2>1. UNCHANGED <<image, done, file, world>>
    BY <1>0, <1>1
  <2> QED BY <1>0, <1>1, <2>1, SettledInv
<1>2. CASE /\ IF Unconfirmed = {} THEN UNCHANGED <<done, file>> ELSE Flush(done \ Unconfirmed)
           /\ Goto("drop") /\ UNCHANGED <<caller, todo, back>>
  <2>1. /\ undo' = undo /\ usafe' \in {usafe, undo} /\ done' = done \ (back \cap undo.fill)
        /\ Unconfirmed = {} => usafe' = usafe
        /\ Unconfirmed # {} => usafe' = undo
        /\ pc' = "drop" /\ UNCHANGED <<caller, todo, back, said>>
    BY <1>2 DEF Flush, Goto, file, Unconfirmed
  <2>2. TypeOK'
    BY <1>0, <2>1, RestoreFacts, InvFacts DEF TypeOK, Labels
  <2>3. (Recorded(undo) /\ Recorded(usafe))'
    BY <2>1, InvFacts DEF Recorded, Rec
  <2>4. ~NewMain'
    BY <1>0 DEF NewMain
  <2>5. PlaceInv'
    BY <1>0, <2>1, <2>4, RestoreFacts, InvFacts DEF PlaceInv, Finishing, Renaming, Committing
  <2>6. NewInv'
    BY <2>4 DEF NewInv
  <2>7. ~stale' => NamesInv'
    <3> SUFFICES ASSUME ~stale PROVE NamesInv'
      BY <1>0
    <3>0. /\ Mine(undo) /\ drive = "disc"
          /\ usafe # NoUndo => Mine(usafe) /\ usafe.state = "pending"
          /\ Same(undo, usafe) \/ (Pure("disc") /\ undo.fill = Sectors \ done)
      BY <1>0, RestoreMine
    <3>1. Pure("disc")'
      BY <1>0, <2>1, InvFacts DEF RollInv, PureAt, Pure, Held
    <3>2. Mine(undo)'
      BY <1>0, <2>1, <3>0 DEF Mine, MixedAt, PureAt, Held
    <3>3. usafe' # NoUndo => Mine(usafe)' /\ usafe'.state = "pending"
      <4>1. CASE Unconfirmed = {}
        <5>1. done' = done /\ usafe' = usafe
          BY <2>1, <4>1 DEF Unconfirmed
        <5> QED BY <1>0, <3>0, <5>1 DEF Mine, MixedAt, PureAt, Held
      <4>2. CASE Unconfirmed # {}
        <5>1. usafe' = undo /\ undo' = undo
          BY <2>1, <4>2
        <5> QED BY <1>0, <3>2, <5>1, RestoreFacts DEF Mine, MixedAt, PureAt, Held
      <4> QED BY <4>1, <4>2
    <3>4. undo' # NoUndo /\ ~Same(undo, usafe)' => undo'.fill = Sectors \ done'
      <4> SUFFICES ASSUME ~Same(undo, usafe)' PROVE undo'.fill = Sectors \ done'
        OBVIOUS
      <4>1. usafe' # undo
        BY <1>0, <2>1, RestoreFacts DEF Same
      <4>2. usafe' = usafe /\ ~Same(undo, usafe)
        BY <2>1, <4>1 DEF Same
      <4> QED BY <2>1, <3>0, <4>2
    <3>5. Pure(drive)' /\ DiscInv'
      BY <1>0, <3>0, <3>1 DEF Pure, DiscInv
    <3>6. FileInv(undo)' /\ FileInv(usafe)'
      BY <1>0, <2>1, <3>2, <3>3, RestoreFacts DEF FileInv
    <3> QED BY <2>1, <3>1, <3>4, <3>5, <3>6 DEF NamesInv, FilesInv, RollInv
  <2> QED BY <2>2, <2>3, <2>5, <2>6, <2>7 DEF IInv, RenameInv
<1> QED BY <1>1, <1>2 DEF Reset

\* The undo file goes when the image needs it no more.
LEMMA DropInv == ASSUME IInv, Drop PROVE IInv'
<1>0. pc = "drop" /\ UNCHANGED <<image, done, world>> /\ undo # NoUndo
  BY InvFacts DEF Drop, TypeOK, NeedsUndo
<1>1. CASE UNCHANGED file /\ Settled(IF undo.state = "pending" THEN "StatusOwed" ELSE "Done")
  BY <1>0, <1>1, SettledInv
<1>2. CASE undo' = NoUndo /\ usafe' \in {NoUndo, usafe} /\ Settled("Done")
  <2>1. UNCHANGED <<img, safe, owed, hurt, stale, done, late, drive, runs>>
    BY <1>0 DEF image, world
  <2>2. TypeOK'
    BY <1>2, <2>1, SettledControl, InvFacts DEF TypeOK, NeedsUndo
  <2>3. (Recorded(undo) /\ Recorded(usafe))'
    BY <1>2, InvFacts DEF Recorded, Rec
  <2>4. PlaceInv'
    <3>1. /\ said # "renamed" /\ (late # NoSector => caller = "pass")
          /\ caller = "finish" => safe = img
      BY <1>0, InvFacts DEF PlaceInv
    <3> QED BY <1>2, <2>1, <3>1, SettledControl DEF PlaceInv, Finishing, Renaming, Committing
  <2>5. (NewMain' => NewMain) /\ (AllNew => AllNew') /\ (Stuck => Stuck')
    BY <2>1 DEF NewMain, AllNew, Stuck
  <2>6. NewInv'
    <3> SUFFICES ASSUME NewMain' PROVE NewInv'
      BY DEF NewInv
    <3>1. NewMain
      BY <2>5
    <3>2. AllNew' \/ Stuck'
      BY <1>0, <2>5, <3>1, InvFacts DEF PlaceInv
    <3>3. Mains \subseteq done' /\ late' \notin Mains
      BY <2>1, <3>1, InvFacts DEF NewInv
    <3>4. usafe # NoUndo => (usafe.state = "committed" => AllNew')
      BY <2>5, <3>1, InvFacts DEF NewInv
    <3>5. \A u \in {undo', usafe'} \ {NoUndo} : Sealed(u)' /\ (u.state = "committed" => AllNew')
      <4>1. ASSUME NEW u \in {undo', usafe'} \ {NoUndo} PROVE u = usafe /\ usafe # NoUndo
        BY <1>2, <4>1
      <4>2. usafe # NoUndo => \A s \in Sectors \ usafe.fill :
              s \in done' \ {late'} /\ (img'[s] \subseteq {"disc", "new"} \/ img'[s] = safe'[s])
        BY <2>1, <3>1, InvFacts DEF NewInv, Sealed
      <4> QED BY <3>4, <4>1, <4>2 DEF Sealed
    <3> QED BY <1>2, <3>2, <3>3, <3>5 DEF NewInv
  <2>7. ~stale' => NamesInv'
    <3> SUFFICES ASSUME ~stale PROVE NamesInv'
      BY <2>1
    <3>1. AllNew \/ Pure(drive)
      BY <1>0, InvFacts DEF FilesInv, FileInv, Mine, RollInv
    <3>2. AllNew' \/ Pure(drive)'
      BY <2>1, <2>5, <3>1 DEF Pure, Held
    <3>3. usafe # NoUndo => IF usafe.state = "pending" THEN Mine(usafe) ELSE AllNew
      BY InvFacts DEF FilesInv, FileInv
    <3>4. FileInv(usafe)'
      BY <1>2, <2>1, <2>5, <3>3 DEF FileInv, Mine, MixedAt, PureAt, Held
    <3>5. FilesInv'
      BY <1>2, <3>2, <3>4 DEF FilesInv, FileInv
    <3>6. RollInv'
      BY <1>2, SettledControl DEF RollInv
    <3>7. DiscInv'
      BY <2>1, InvFacts DEF DiscInv
    <3> QED BY <3>5, <3>6, <3>7 DEF NamesInv
  <2> QED BY <2>2, <2>3, <2>4, <2>6, <2>7 DEF IInv, RenameInv
<1> QED BY <1>1, <1>2 DEF Drop

----------------------------------------------------------------------------
(* The theorems. *)

LEMMA InitInv == ASSUME Init PROVE IInv
<1>1. img \in Images /\ safe \in Images /\ \A s \in Sectors : img[s] = {"blank"} /\ safe[s] = {"blank"}
  BY ContentFacts DEF Init, Images
<1>2. TypeOK
  <2>1. runs \in 0..MaxRuns
    BY MaxRunsAssumption DEF Init
  <2>2. pc \in Labels /\ pc \notin NeedsUndo
    BY DEF Init, Labels, NeedsUndo
  <2> QED BY <1>1, <2>1, <2>2 DEF Init, TypeOK
<1>3. ~NewMain
  BY <1>1, SectorFacts DEF NewMain
<1>4. RenameInv
  BY <1>3 DEF Init, RenameInv, Recorded, PlaceInv, NewInv, Finishing, Renaming, Committing
<1>5. NamesInv
  BY DEF Init, NamesInv, FilesInv, FileInv, RollInv, Pure, Held, DiscInv
<1> QED BY <1>2, <1>4, <1>5 DEF IInv

LEMMA StutterInv == ASSUME IInv, UNCHANGED vars PROVE IInv'
<1>1. UNCHANGED <<img, safe, owed, hurt, stale, done, undo, usafe, late, drive, runs, pc, caller, todo, back, said>>
  BY DEF vars, image, file, world
<1>2. TypeOK'
  BY <1>1, InvFacts DEF TypeOK
<1>3. (AllNew => AllNew') /\ (NewMain' => NewMain) /\ (Stuck => Stuck') /\ (Planned => Planned')
  BY <1>1 DEF AllNew, NewMain, Stuck, Planned
<1>4. PlaceInv'
  BY <1>1, <1>3, InvFacts DEF PlaceInv, Same
<1>5. ~stale => RollInv'
  BY <1>1, <1>3, InvFacts DEF RollInv, MixedAt, PureAt, Pure, Held
<1> QED BY <1>1, <1>2, <1>4, <1>5, ControlInv

LEMMA StepInv == ASSUME IInv, [Next]_vars PROVE IInv'
BY StartFreshInv, StartResumedInv, ReadSectorInv, SaveMapInv, SaveUnsyncedInv, PassEndsInv, AbandonInv, LateWriteInv,
   SettleInv, RestoreInv, ResetInv, DropInv, PlanInv, WriteUndoInv, WriteInv, SyncInv, VerifyInv,
   MarkInv, CommitInv, DroppedInv, KillInv, PowerLossInv, StutterInv DEF Next, Rename

\* IInv holds in every state: apply, settle_names_undo and the passes keep it.
THEOREM InvAlways == Spec => []IInv
<1>1. Init => IInv
  BY InitInv
<1>2. IInv /\ [Next]_vars => IInv'
  BY StepInv
<1> QED BY <1>1, <1>2, PTL DEF Spec

\* The variables keep their types, and no step that reads the undo file runs
\* without one (settle_names_undo, apply, commit_undo).
THEOREM TypeCorrect == Spec => []TypeOK
<1>1. IInv => TypeOK
  BY InvFacts
<1> QED BY <1>1, InvAlways, PTL

\* Whatever was killed, torn, lost or abandoned before, and beside whatever undo
\* file the image was begun: a rename that is reported took in every main and
\* mirror sector, all of them Finished (write_and_verify, mark_fills,
\* commit_undo, abandoned_writer_alive).
THEOREM RenamedTrueAlways == Spec => []RenamedTrue
<1>1. IInv => RenamedTrue
  BY InvFacts DEF PlaceInv, AllNew, RenamedTrue
<1> QED BY <1>1, InvAlways, PTL

\* As it stands, or once the undo file that is there is settled, every Finished
\* sector of an image that no pass has lost again holds the names of one and the
\* same version (apply's order, ours, reset_fills, abandoned_writer_alive).
THEOREM OldOrNewAlways == Spec => []OldOrNew
<1>1. ASSUME IInv, ~stale
      PROVE  \E v \in {"disc", "new", "other"} : \A s \in AfterDone \ hurt : After(s) = {v}
  <2>0. done \subseteq Sectors /\ drive \in {"disc", "other"} /\ Recorded(undo) /\ FilesInv
    BY <1>1, InvFacts DEF TypeOK
  <2>1. CASE undo = NoUndo
    <3>1. \A s \in done : After(s) = img[s]
      BY <2>1 DEF After, Settling, Pending
    <3>2. AfterDone = done
      BY <2>1 DEF AfterDone, Pending
    <3>3. AllNew \/ Pure(drive)
      BY <2>0, <2>1 DEF FilesInv
    <3> QED BY <2>0, <3>1, <3>2, <3>3 DEF AllNew, Pure, Held
  <2>2. CASE undo # NoUndo /\ undo.state # "pending"
    <3>1. AllNew
      BY <2>0, <2>2 DEF FilesInv, FileInv
    <3>2. AfterDone = done /\ \A s \in done : After(s) = img[s]
      BY <2>2 DEF AfterDone, After, Settling, Pending
    <3> QED BY <2>0, <3>1, <3>2 DEF AllNew
  <2>3. CASE undo # NoUndo /\ undo.state = "pending"
    <3>1. Mine(undo) /\ \A s \in Sectors \ undo.fill : undo.was[s] = {"disc"}
      BY <2>0, <2>3 DEF FilesInv, FileInv, Recorded, Rec
    <3>2. \A s \in Sectors : s \in RollBack <=> img[s] \subseteq undo.was[s] \cup {"new"}
      BY DEF RollBack, Mixed
    <3>3. \A s \in Sectors \ undo.fill : s \in RollBack
      BY <3>1, <3>2 DEF Mine
    <3>4. Pending
      BY <2>3, <3>3 DEF Pending, Ours, RollBack
    <3>5. \A s \in AfterDone \ hurt : s \in Held /\ s \in Sectors /\ (s \in RollBack => s \notin undo.fill)
      BY <2>0, <3>4 DEF AfterDone, Held
    <3>6. \A s \in AfterDone \ hurt : s \in RollBack => After(s) = {"disc"}
      BY <2>0, <3>1, <3>4, <3>5 DEF After, Settling
    <3>7. \A s \in AfterDone \ hurt : s \notin RollBack => img[s] = {"disc"} /\ After(s) = img[s]
      BY <2>0, <3>1, <3>2, <3>3, <3>4, <3>5 DEF Mine, MixedAt, PureAt, After, Settling
    <3> QED BY <3>6, <3>7
  <2> QED BY <2>1, <2>2, <2>3
<1>2. IInv => OldOrNew
  BY <1>1 DEF OldOrNew
<1> QED BY <1>2, InvAlways, PTL
=============================================================================
