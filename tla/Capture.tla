------------------------------ MODULE Capture ------------------------------
(* One disc image, its mapfile, and the passes that fill them.

   A pass is a producer (the calling thread: it reads the disc) and a consumer
   thread (it writes the image and the mapfile) joined by a bounded queue.
   A sweep pass reads the blocks nobody tried; a patch pass re-reads the
   damaged ones.  Passes run one after the other, but a consumer whose join
   gives up (Stop pressed, hung mount) is abandoned and runs on beside the
   passes that follow.  A pass is numbered by the order in which it starts.

   The disc is N blocks.  The image's content is abstracted to what the
   properties tell apart: a block holds the disc's data, or it does not.   *)
EXTENDS Naturals, Sequences, FiniteSets

CONSTANTS
    N,          \* blocks on the disc
    Depth,      \* items the queue holds
    MaxPass,    \* bound: passes started over the image's life
    NoMap,      \* there is no mapfile
    CanAbandon  \* a join or a send may give up on a consumer still at work

ASSUME NAssumption == N \in Nat \ {0}
ASSUME DepthAssumption == Depth \in Nat \ {0}
ASSUME MaxPassAssumption == MaxPass \in Nat \ {0}
ASSUME CanAbandonAssumption == CanAbandon \in BOOLEAN

Blocks == 0..(N - 1)
Passes == 1..MaxPass
Damage == {"NonTrimmed", "Unreadable"}
Status == {"NonTried", "Finished"} \cup Damage
Maps == [Blocks -> Status]
Items == [op: {"Good", "Fill", "Mark"}, blk: Blocks]

ASSUME NoMapAssumption == NoMap \notin Maps

VARIABLES
    held,     \* blocks of the image whose content is the disc's data
    ilen,     \* the image's length in blocks, 0 when there is none
    stable,   \* blocks of held that a power loss would leave in the image
    saved,    \* the mapfile on disk
    writer,   \* the pass that wrote it last, 0 when none did
    lock,     \* the pass holding the mapfile's commit lock, 0 when none does
    cur,      \* the newest pass, 0 before the first
    kind,     \* what it is
    fresh,    \* it starts the image over
    prod,     \* where its producer is
    todo,     \* blocks it has yet to read
    halt,     \* Stop was pressed
    end,      \* how its reading ended
    res,      \* what the last pass returned
    pc,       \* where each pass's consumer is
    site,     \* what its mapfile write is part of
    item,     \* the item it works on
    queue,    \* the items waiting for it
    mem,      \* the mapfile it holds in memory
    dirty,    \* mem has changes the mapfile on disk lacks
    due,      \* a flush interval has passed since its last write
    disowned  \* its mapfile was revoked

imageVars == <<held, ilen, stable>>
mapVars   == <<saved, writer, lock>>
prodVars  == <<cur, kind, fresh, prod, todo, halt, end, res>>
sinkVars  == <<pc, site, item, queue, mem, dirty, due, disowned>>
vars      == <<imageVars, mapVars, prodVars, sinkVars>>

----------------------------------------------------------------------------
AllNonTried == [b \in Blocks |-> "NonTried"]
With(m, s) == {b \in Blocks : m[b] \in s}
Finished(m) == IF m = NoMap THEN {} ELSE With(m, {"Finished"})

\* The map accounts for blocks that nothing will read again.
ClaimsProgress(m) == With(m, {"Finished", "Unreadable"}) # {}

NoItem == [op |-> "Mark", blk |-> 0]
NoResult == [ok |-> FALSE, complete |-> FALSE]
Ended == {"doneOk", "doneErr"}
Labels == {"none", "idle", "write", "sync", "record", "persist", "tmp", "rename",
           "failed", "closing"} \cup Ended
Live(p) == pc[p] \notin Ended \cup {"none"}
Opening == {"unlink", "openmap", "createmap", "openimg", "setlen"}

Init ==
    /\ held = {} /\ ilen = 0 /\ stable = {}
    /\ saved = NoMap /\ writer = 0 /\ lock = 0
    /\ cur = 0 /\ kind = "sweep" /\ fresh = FALSE /\ prod = "idle"
    /\ todo = {} /\ halt = FALSE /\ end = "none" /\ res = NoResult
    /\ pc = [p \in Passes |-> "none"] /\ site = [p \in Passes |-> "apply"]
    /\ item = [p \in Passes |-> NoItem] /\ queue = [p \in Passes |-> <<>>]
    /\ mem = [p \in Passes |-> AllNonTried] /\ dirty = [p \in Passes |-> FALSE]
    /\ due = [p \in Passes |-> FALSE] /\ disowned = [p \in Passes |-> FALSE]

----------------------------------------------------------------------------
(* Starting a pass.  The artifact lock admits one at a time. *)

Begin(k) ==
    /\ prod = "idle"
    /\ cur < MaxPass
    /\ cur' = cur + 1
    /\ kind' = k
    /\ halt' = FALSE /\ end' = "none" /\ res' = NoResult

\* Mutant of Inconsistent: a resumed map is trusted over whatever image is there.
InconsistentIgnored == FALSE

\* The mapfile over a missing or shorter image accounts for data that is gone.
Inconsistent == saved # NoMap /\ ilen < N /\ ClaimsProgress(saved)

StartSweep ==
    /\ Begin("sweep")
    /\ \E resume \in BOOLEAN : fresh' = (~resume \/ Inconsistent)
    /\ prod' = IF fresh' THEN "unlink" ELSE "openmap"
    /\ UNCHANGED <<todo, imageVars, mapVars, sinkVars>>

\* remove_file of the mapfile; ENOENT is fine.
Unlink ==
    /\ prod = "unlink"
    /\ prod' = "openmap"
    /\ saved' = NoMap
    /\ UNCHANGED <<writer, lock, cur, kind, fresh, todo, halt, end, res, imageVars, sinkVars>>

\* Mutants of OpenMap: a missing file taken for a loaded one; a file not reused.
OpenMapBlind ==
    /\ prod = "openmap"
    /\ prod' = "openimg" /\ mem' = [mem EXCEPT ![cur] = saved]
    /\ UNCHANGED <<cur, kind, fresh, todo, halt, end, res, imageVars, mapVars,
                   pc, site, item, queue, dirty, due, disowned>>
OpenMapAnew ==
    /\ prod = "openmap"
    /\ prod' = "createmap"
    /\ UNCHANGED <<cur, kind, fresh, todo, halt, end, res, imageVars, mapVars, sinkVars>>

\* open_or_create: whatever file is there is loaded.
OpenMap ==
    /\ prod = "openmap"
    /\ IF saved = NoMap
       THEN prod' = "createmap" /\ UNCHANGED mem
       ELSE prod' = "openimg" /\ mem' = [mem EXCEPT ![cur] = saved]
    /\ UNCHANGED <<cur, kind, fresh, todo, halt, end, res, imageVars, mapVars,
                   pc, site, item, queue, dirty, due, disowned>>

\* Mapfile::create persists at once, under the commit lock like every write.
CreateMap ==
    /\ prod = "createmap"
    /\ lock = 0
    /\ prod' = "openimg"
    /\ saved' = AllNonTried /\ writer' = cur
    /\ mem' = [mem EXCEPT ![cur] = AllNonTried]
    /\ UNCHANGED <<lock, cur, kind, fresh, todo, halt, end, res, imageVars,
                   pc, site, item, queue, dirty, due, disowned>>

\* The consumer is spawned over the opened image and map.
Spawn(p, blocks) ==
    /\ todo' = blocks
    /\ prod' = "reading"
    /\ pc' = [pc EXCEPT ![p] = "idle"]

\* A resumed image is opened as it is; any other is created empty.
OpenImage ==
    /\ prod = "openimg"
    /\ IF ~fresh /\ ilen > 0
       THEN /\ Spawn(cur, With(mem[cur], {"NonTried"}))
            /\ UNCHANGED imageVars
       ELSE /\ prod' = "setlen"
            /\ held' = {} /\ ilen' = 0 /\ stable' = {}
            /\ UNCHANGED <<todo, pc>>
    /\ UNCHANGED <<cur, kind, fresh, halt, end, res, mapVars,
                   site, item, queue, mem, dirty, due, disowned>>

SetLen ==
    /\ prod = "setlen"
    /\ ilen' = N
    /\ Spawn(cur, With(mem[cur], {"NonTried"}))
    /\ UNCHANGED <<held, stable, cur, kind, fresh, halt, end, res, mapVars,
                   site, item, queue, mem, dirty, due, disowned>>

\* An error before the consumer exists ends the pass.  A map already open is
\* dropped, and its drop writes it back: the pass stamped its identity on it.
OpenFail ==
    /\ prod \in Opening
    /\ prod' = "idle"
    /\ IF prod \in {"openimg", "setlen"}
       THEN lock = 0 /\ saved' = mem[cur] /\ writer' = cur
       ELSE UNCHANGED <<saved, writer>>
    /\ UNCHANGED <<lock, cur, kind, fresh, todo, halt, end, res, imageVars, sinkVars>>

\* A patch loads the map, and refuses a shorter image than the map describes.
StartPatch ==
    /\ Begin("patch")
    /\ saved # NoMap
    /\ ilen = N
    /\ fresh' = FALSE
    /\ mem' = [mem EXCEPT ![cur'] = saved]
    /\ Spawn(cur', With(saved, Damage))
    /\ UNCHANGED <<imageVars, mapVars, site, item, queue, dirty, due, disowned>>

----------------------------------------------------------------------------
(* The producer: it reads blocks and hands what it learns to the consumer. *)

\* A consumer whose apply failed discards what it is sent.
Gone(p) == pc[p] \in {"failed", "doneErr"} \/ site[p] = "drop"

Send(o, b) ==
    /\ ~Gone(cur)
    /\ Len(queue[cur]) < Depth
    /\ queue' = [queue EXCEPT ![cur] = Append(@, [op |-> o, blk |-> b])]

\* A sweep reads in disc order; a patch in whatever order its handlers choose.
NextUp(b) == b \in todo /\ (kind = "sweep" => \A c \in todo : b <= c)

\* The block was read (Good), was skipped over with zeros (a sweep's Fill), or
\* is still bad after the last handler (a patch's Mark).
Produce ==
    /\ prod = "reading"
    /\ \E b \in todo :
        /\ NextUp(b)
        /\ \E o \in {"Good", IF kind = "sweep" THEN "Fill" ELSE "Mark"} : Send(o, b)
        /\ todo' = todo \ {b}
    /\ UNCHANGED <<cur, kind, fresh, prod, halt, end, res, imageVars, mapVars,
                   pc, site, item, mem, dirty, due, disowned>>

EndReading(how) ==
    /\ prod = "reading"
    /\ prod' = "finishing"
    /\ end' = how
    /\ todo' = {}
    /\ UNCHANGED <<cur, kind, fresh, halt, res, imageVars, mapVars, sinkVars>>

\* Everything was read, or a patch ends early on a transport fault.
DoneReading == (todo = {} \/ kind = "patch") /\ EndReading("done")

\* Mutant of HaltSeen: a send that waits for room does not look at Stop.
HaltSeenBetweenSends ==
    halt /\ prod = "reading" /\ Len(queue[cur]) < Depth /\ EndReading("halted")

\* Seen at the top of the loop, during a read or a retry pause, and in a send
\* that waits for room: the block at hand stays as the map has it.
HaltSeen == halt /\ EndReading("halted")

\* A read error that ends the pass.
Abort == EndReading("error")

\* Mutant of ConsumerGone: a send into a channel nobody empties waits on.
ConsumerGoneUnseen == FALSE

\* The consumer is gone, or has left the queue full for the whole deadline.
ConsumerGone == prod = "reading" /\ Gone(cur) /\ EndReading("error")
Stall == CanAbandon /\ prod = "reading" /\ Len(queue[cur]) = Depth /\ EndReading("error")

\* Mutant of Complete: a copy with nothing left to try is called complete.
CompleteWithLosses == end # "halted" /\ With(mem[cur], {"NonTried", "NonTrimmed"}) = {}

Complete == end # "halted" /\ With(mem[cur], {"Finished"}) = Blocks

\* The consumer came back: its summary or its error is the pass's result.
Join ==
    /\ prod = "finishing"
    /\ pc[cur] \in Ended
    /\ prod' = "idle"
    /\ LET ok == end # "error" /\ pc[cur] = "doneOk"
       IN res' = [ok |-> ok, complete |-> ok /\ Complete]
    /\ disowned' = [disowned EXCEPT ![cur] = @ \/ pc[cur] = "doneErr"]
    /\ UNCHANGED <<cur, kind, fresh, todo, halt, end, imageVars, mapVars,
                   pc, site, item, queue, mem, dirty, due>>

\* Mutant of Abandon: the consumer left running keeps its mapfile.
AbandonOwning ==
    /\ CanAbandon
    /\ prod = "finishing"
    /\ pc[cur] \notin Ended
    /\ prod' = "idle"
    /\ UNCHANGED <<cur, kind, fresh, todo, halt, end, res, imageVars, mapVars, sinkVars>>

\* It did not: the join gives up, revokes its mapfile and leaves it running.
Abandon ==
    /\ CanAbandon
    /\ prod = "finishing"
    /\ pc[cur] \notin Ended
    /\ prod' = "idle"
    /\ disowned' = [disowned EXCEPT ![cur] = TRUE]
    /\ UNCHANGED <<cur, kind, fresh, todo, halt, end, res, imageVars, mapVars,
                   pc, site, item, queue, mem, dirty, due>>

----------------------------------------------------------------------------
(* The consumer of pass p. *)

Goto(p, label) == pc' = [pc EXCEPT ![p] = label]
Disown(p) == disowned' = [disowned EXCEPT ![p] = TRUE]

Take(p) ==
    /\ pc[p] = "idle"
    /\ queue[p] # <<>>
    /\ IF disowned[p]
       THEN Goto(p, "closing") /\ UNCHANGED <<item, queue>>
       ELSE /\ Goto(p, IF Head(queue[p]).op = "Mark" THEN "record" ELSE "write")
            /\ item' = [item EXCEPT ![p] = Head(queue[p])]
            /\ queue' = [queue EXCEPT ![p] = Tail(@)]
    /\ UNCHANGED <<site, mem, dirty, due, disowned, imageVars, mapVars, prodVars>>

LongerOf(a, b) == IF a < b THEN b ELSE a

\* Good data is made durable first when the record that follows will persist;
\* a fill goes straight to the record.
Write(p) ==
    /\ pc[p] = "write"
    /\ LET b == item[p].blk
           good == item[p].op = "Good"
       IN /\ held' = IF good THEN held \cup {b} ELSE held \ {b}
          /\ stable' = IF good THEN stable ELSE stable \ {b}
          /\ ilen' = LongerOf(ilen, b + 1)
          /\ Goto(p, IF good /\ due[p] THEN "sync" ELSE "record")
    /\ UNCHANGED <<site, item, queue, mem, dirty, due, disowned, mapVars, prodVars>>

\* A failed fill may have zeroed what it reached.
WriteFail(p) ==
    /\ pc[p] = "write"
    /\ Goto(p, "failed")
    /\ Disown(p)
    /\ \/ UNCHANGED <<held, stable>>
       \/ /\ item[p].op = "Fill"
          /\ held' = held \ {item[p].blk}
          /\ stable' = stable \ {item[p].blk}
    /\ UNCHANGED <<ilen, site, item, queue, mem, dirty, due, mapVars, prodVars>>

\* A fill looks at the revocation before each chunk; chunks already written stay.
FillStopped(p) ==
    /\ pc[p] = "write" /\ item[p].op = "Fill"
    /\ disowned[p]
    /\ Goto(p, "closing")
    /\ \/ UNCHANGED <<held, stable>>
       \/ held' = held \ {item[p].blk} /\ stable' = stable \ {item[p].blk}
    /\ UNCHANGED <<ilen, site, item, queue, mem, dirty, due, disowned, mapVars, prodVars>>

\* sync_all before a record that persists, and when the sink closes.
Sync(p) ==
    /\ pc[p] \in {"sync", "closing"}
    /\ \/ /\ stable' = held
          /\ IF pc[p] = "sync"
             THEN Goto(p, "record") /\ UNCHANGED site
             ELSE /\ Goto(p, IF dirty[p] THEN "persist" ELSE "doneOk")
                  /\ site' = [site EXCEPT ![p] = "close"]
          /\ UNCHANGED disowned
       \/ Goto(p, "failed") /\ Disown(p) /\ UNCHANGED <<site, stable>>
    /\ UNCHANGED <<held, ilen, item, queue, mem, dirty, due, mapVars, prodVars>>

Outcome == [Good |-> "Finished", Fill |-> "NonTrimmed", Mark |-> "NonTrimmed"]

\* Mapfile::record: the clock is asked again whether this record persists.
Record(p) ==
    /\ pc[p] = "record"
    /\ mem' = [mem EXCEPT ![p][item[p].blk] = Outcome[item[p].op]]
    /\ dirty' = [dirty EXCEPT ![p] = TRUE]
    /\ Goto(p, IF due[p] THEN "persist" ELSE "idle")
    /\ item' = [item EXCEPT ![p] = NoItem]
    /\ UNCHANGED <<site, queue, due, disowned, imageVars, mapVars, prodVars>>

\* A mapfile write succeeded, whether or not a revoked map was skipped.
Written(p) ==
    /\ Goto(p, CASE site[p] = "apply" -> "idle"
                 [] site[p] = "close" -> "doneOk"
                 [] OTHER -> "doneErr")
    /\ dirty' = [dirty EXCEPT ![p] = FALSE]
    /\ due' = [due EXCEPT ![p] = FALSE]

\* It failed; a drop swallows the error.
NotWritten(p) ==
    /\ Goto(p, IF site[p] = "drop" THEN "doneErr" ELSE "failed")
    /\ UNCHANGED <<dirty, due>>

\* The commit lock, then the first look at the revocation.
Acquire(p) ==
    /\ pc[p] = "persist"
    /\ lock = 0
    /\ IF disowned[p]
       THEN Written(p) /\ UNCHANGED lock
       ELSE Goto(p, "tmp") /\ lock' = p /\ UNCHANGED <<dirty, due>>
    /\ UNCHANGED <<saved, writer, site, item, queue, mem, disowned, imageVars, prodVars>>

\* The temporary file is written and synced, which may hang; then the second look.
TmpDone(p) ==
    /\ pc[p] = "tmp"
    /\ IF disowned[p]
       THEN Written(p) /\ lock' = 0
       ELSE \/ Goto(p, "rename") /\ UNCHANGED <<lock, dirty, due>>
            \/ NotWritten(p) /\ lock' = 0
    /\ UNCHANGED <<saved, writer, site, item, queue, mem, disowned, imageVars, prodVars>>

Rename(p) ==
    /\ pc[p] = "rename"
    /\ lock' = 0
    /\ \/ Written(p) /\ saved' = mem[p] /\ writer' = p
       \/ NotWritten(p) /\ UNCHANGED <<saved, writer>>
    /\ UNCHANGED <<site, item, queue, mem, disowned, imageVars, prodVars>>

\* After a failed apply or close the sink is dropped, and its map with it.
DropSink(p) ==
    /\ pc[p] = "failed"
    /\ Goto(p, IF dirty[p] THEN "persist" ELSE "doneErr")
    /\ site' = [site EXCEPT ![p] = "drop"]
    /\ queue' = [queue EXCEPT ![p] = <<>>]
    /\ UNCHANGED <<item, mem, dirty, due, disowned, imageVars, mapVars, prodVars>>

SenderGone(p) == p # cur \/ prod # "reading"

\* Mutant of Close: the map is written back with the image's data still cached.
CloseUnsynced(p) ==
    /\ pc[p] = "idle"
    /\ queue[p] = <<>>
    /\ SenderGone(p)
    /\ Goto(p, IF dirty[p] THEN "persist" ELSE "doneOk")
    /\ site' = [site EXCEPT ![p] = "close"]
    /\ UNCHANGED <<item, queue, mem, dirty, due, disowned, imageVars, mapVars, prodVars>>

\* The queue is drained and nothing more can come.
Close(p) ==
    /\ pc[p] = "idle"
    /\ queue[p] = <<>>
    /\ SenderGone(p)
    /\ Goto(p, "closing")
    /\ UNCHANGED <<site, item, queue, mem, dirty, due, disowned, imageVars, mapVars, prodVars>>

Consume(p) ==
    \/ Take(p) \/ Write(p) \/ WriteFail(p) \/ FillStopped(p) \/ Sync(p)
    \/ Record(p) \/ Acquire(p) \/ TmpDone(p) \/ Rename(p) \/ DropSink(p) \/ Close(p)

----------------------------------------------------------------------------
(* What happens to a pass from outside. *)

\* A flush interval passes since the pass's last mapfile write.
Tick(p) ==
    /\ Live(p) /\ ~due[p]
    /\ due' = [due EXCEPT ![p] = TRUE]
    /\ UNCHANGED <<pc, site, item, queue, mem, dirty, disowned, imageVars, mapVars, prodVars>>

Stop ==
    /\ prod # "idle" /\ ~halt
    /\ halt' = TRUE
    /\ UNCHANGED <<cur, kind, fresh, prod, todo, end, res, imageVars, mapVars, sinkVars>>

\* The process dies; what it wrote to its files stays.
Kill ==
    /\ cur # 0
    /\ prod' = "idle" /\ halt' = FALSE /\ end' = "none" /\ res' = NoResult
    /\ lock' = 0
    /\ pc' = [p \in Passes |-> IF pc[p] = "none" THEN "none" ELSE "doneErr"]
    /\ site' = [p \in Passes |-> "apply"] /\ item' = [p \in Passes |-> NoItem]
    /\ queue' = [p \in Passes |-> <<>>] /\ mem' = [p \in Passes |-> AllNonTried]
    /\ dirty' = [p \in Passes |-> FALSE] /\ due' = [p \in Passes |-> FALSE]
    /\ disowned' = [p \in Passes |-> FALSE]
    /\ todo' = {}
    /\ UNCHANGED <<saved, writer, cur, kind, fresh, imageVars>>

\* Between passes the user deletes the image, or a copy of it is cut short.
CutImage ==
    /\ prod = "idle"
    /\ \A p \in Passes : ~Live(p)
    /\ \E k \in 0..(ilen - 1) :
        /\ ilen' = k
        /\ held' = held \cap 0..(k - 1) /\ stable' = stable \cap 0..(k - 1)
    /\ end' = "none" /\ res' = NoResult
    /\ UNCHANGED <<cur, kind, fresh, prod, todo, halt, mapVars, sinkVars>>

\* The end of a multi-pass recovery that was not stopped: what is still damaged
\* is given up.
Promote ==
    /\ prod = "idle" /\ end # "none" /\ ~halt
    /\ res.ok \/ kind = "patch"
    /\ saved # NoMap /\ With(saved, {"NonTrimmed"}) # {}
    /\ lock = 0
    /\ saved' = [b \in Blocks |-> IF saved[b] = "NonTrimmed" THEN "Unreadable" ELSE saved[b]]
    /\ writer' = cur
    /\ UNCHANGED <<lock, imageVars, prodVars, sinkVars>>

Open == StartSweep \/ Unlink \/ OpenMap \/ CreateMap \/ OpenImage \/ SetLen
        \/ OpenFail \/ StartPatch
Read == Produce \/ DoneReading \/ HaltSeen \/ Abort \/ ConsumerGone \/ Stall
Teardown == Join \/ Abandon

Next ==
    \/ Open \/ Read \/ Teardown
    \/ \E p \in Passes : Consume(p) \/ Tick(p)
    \/ Stop \/ Kill \/ CutImage \/ Promote

\* The caller's thread is never held up for ever by its own steps: a read, a
\* send and a join all end.  Nothing is assumed of the consumers.
Spec == Init /\ [][Next]_vars /\ WF_vars(HaltSeen) /\ WF_vars(Teardown)

\* When no consumer hangs, the producer's and every consumer's steps are fair.
LiveSpec ==
    /\ Spec
    /\ WF_vars(Produce) /\ WF_vars(DoneReading) /\ WF_vars(ConsumerGone)
    /\ \A p \in Passes : WF_vars(Consume(p))

----------------------------------------------------------------------------
ImageOK == held \subseteq Blocks /\ ilen \in 0..N /\ stable \subseteq Blocks
MapOK ==
    /\ saved \in Maps \cup {NoMap}
    /\ writer \in 0..MaxPass /\ lock \in 0..MaxPass
ProducerOK ==
    /\ cur \in 0..MaxPass /\ kind \in {"sweep", "patch"} /\ fresh \in BOOLEAN
    /\ prod \in {"idle", "reading", "finishing"} \cup Opening
    /\ todo \subseteq Blocks /\ halt \in BOOLEAN
    /\ end \in {"none", "done", "halted", "error"}
    /\ res \in [ok: BOOLEAN, complete: BOOLEAN]
SinkOK ==
    /\ pc \in [Passes -> Labels]
    /\ site \in [Passes -> {"apply", "close", "drop"}]
    /\ dirty \in [Passes -> BOOLEAN] /\ due \in [Passes -> BOOLEAN]
    /\ disowned \in [Passes -> BOOLEAN]
HandsOK ==
    /\ item \in [Passes -> Items]
    /\ queue \in [Passes -> Seq(Items)]
    /\ mem \in [Passes -> Maps]
TypeOK == ImageOK /\ MapOK /\ ProducerOK /\ SinkOK /\ HandsOK

(* Promises about the image and the map. *)

\* A block the mapfile calls Finished holds the disc's data in every image of
\* full length, at every instant: a later pass never reads such a block again,
\* so a stale map, a truncated image or a skipped write would ship zeros.
SavedBacked == ilen = N => Finished(saved) \subseteq held

\* A pass that reports the copy complete leaves an image that is whole.
CompleteHonest == res.complete => ilen = N /\ held = Blocks

\* A pass that returns without error has its whole record in the mapfile, and
\* a power loss after it loses no block the mapfile calls Finished.
ClosedDurable ==
    res.ok => /\ With(mem[cur], {"Finished"}) \subseteq Finished(saved)
              /\ Finished(saved) \subseteq stable

\* No step takes back a Finished block of the mapfile, whatever is stopped,
\* fails or crashes: only a pass that starts over does, by removing the file.
ConfirmedKept ==
    [][saved' # NoMap => Finished(saved) \subseteq Finished(saved')]_saved

\* Once a newer pass wrote the mapfile, no consumer abandoned before it does:
\* its rename cannot land between two records of the pass that took over.
NewestWins == [][writer' >= writer]_writer

(* Promises about progress. *)

\* Stop ends a pass whose consumer may hang for ever in a write, an fsync or
\* the commit lock.
StopReturns == halt /\ prod \in {"reading", "finishing"} ~> prod = "idle"

\* Without a hang every pass ends, also when its consumer fails with the queue
\* full.
PassEnds == prod = "reading" ~> prod = "idle"

(* What comments and tests claim and the code does not keep; each is refuted. *)

\* mapfile.rs:520: "a consumer makes the image's data durable first, so the saved
\* map never marks unsynced sectors Finished", when a fill's record persists.
FillPersistsSynced ==
    [][\A p \in Passes :
        pc[p] = "record" /\ item[p].op = "Fill" /\ pc'[p] = "persist"
            => With(mem'[p], {"Finished"}) \subseteq stable]_pc

\* mod.rs:961: "A fresh sweep MUST start from an empty mapfile".
FreshMapEmpty ==
    prod = "setlen" /\ fresh => Finished(mem[cur]) = {}

\* sweep_tests.rs:255: "an in-flight zero-fill must not go on writing zeros over
\* what it recovers", said of the pass that resumes an abandoned consumer's.
RecoveredKept ==
    [][\A p \in Passes : pc[p] = "write" /\ p # cur =>
            With(mem[cur], {"Finished"}) \cap held \subseteq held']_held
============================================================================
