--------------------------- MODULE CaptureProofs ---------------------------
(* Theorems about Capture, for every number of blocks, passes and queue slots. *)
EXTENDS Capture, TLAPS

----------------------------------------------------------------------------
(* Type correctness.  A pass at work is one of the passes. *)

TypeInv == TypeOK /\ (prod # "idle" => cur \in Passes)

LEMMA TypeParts ==
    TypeInv <=> /\ ImageOK /\ MapOK /\ ProducerOK /\ SinkOK /\ HandsOK
                /\ prod # "idle" => cur \in Passes
  BY DEF TypeInv, TypeOK

LEMMA EmptyHands ==
    NoItem \in Items /\ AllNonTried \in Maps /\ NoResult \in [ok: BOOLEAN, complete: BOOLEAN]
  BY NAssumption DEF NoItem, NoResult, AllNonTried, Items, Maps, Status, Blocks

LEMMA InitType == Init => TypeInv
<1>1. Init => ImageOK
  BY NAssumption DEF ImageOK, Init
<1>2. Init => MapOK
  BY MaxPassAssumption DEF MapOK, Init
<1>3. Init => cur \in 0..MaxPass
  BY MaxPassAssumption DEF Init
<1>4. Init => ProducerOK
  BY <1>3, EmptyHands DEF ProducerOK, Init
<1>5. Init => SinkOK
  BY DEF SinkOK, Init, Labels
<1>6. Init => HandsOK
  BY EmptyHands DEF HandsOK, Init
<1> QED BY <1>1, <1>2, <1>4, <1>5, <1>6 DEF TypeInv, TypeOK, Init

LEMMA OpenType ==
    ASSUME TypeInv, Open
    PROVE  TypeInv'
<1>0. ImageOK /\ MapOK /\ ProducerOK /\ SinkOK /\ HandsOK /\ (prod # "idle" => cur \in Passes)
  BY TypeParts
<1>1. ASSUME NEW k \in {"sweep", "patch"}, Begin(k)
      PROVE  /\ cur' \in Passes /\ cur' \in 0..MaxPass /\ kind' \in {"sweep", "patch"}
             /\ halt' \in BOOLEAN /\ end' = "none" /\ res' \in [ok: BOOLEAN, complete: BOOLEAN]
  <2>1. cur' \in Passes /\ cur' \in 0..MaxPass
    BY <1>0, <1>1, MaxPassAssumption DEF ProducerOK, Begin, Passes
  <2>2. /\ kind' \in {"sweep", "patch"} /\ halt' \in BOOLEAN /\ end' = "none"
        /\ res' \in [ok: BOOLEAN, complete: BOOLEAN]
    BY <1>1, EmptyHands DEF Begin
  <2> QED BY <2>1, <2>2
<1>2. CASE StartSweep
  <2>1. ProducerOK' /\ cur' \in Passes
    BY <1>0, <1>1, <1>2 DEF ProducerOK, StartSweep, Opening
  <2>2. ImageOK' /\ MapOK' /\ SinkOK' /\ HandsOK'
    BY <1>0, <1>2 DEF ImageOK, MapOK, SinkOK, HandsOK, StartSweep, imageVars, mapVars, sinkVars
  <2> QED BY <2>1, <2>2 DEF TypeInv, TypeOK
<1>3. CASE Unlink
  <2>1. ImageOK' /\ MapOK' /\ ProducerOK' /\ cur' \in Passes
    BY <1>0, <1>3 DEF ImageOK, MapOK, ProducerOK, Unlink, imageVars, Opening
  <2>2. SinkOK' /\ HandsOK'
    BY <1>0, <1>3 DEF SinkOK, HandsOK, Unlink, sinkVars
  <2> QED BY <2>1, <2>2 DEF TypeInv, TypeOK
<1>4. CASE OpenMap
  <2>1. ImageOK' /\ MapOK' /\ ProducerOK' /\ cur' \in Passes
    BY <1>0, <1>4 DEF ImageOK, MapOK, ProducerOK, OpenMap, imageVars, mapVars, Opening
  <2>2. SinkOK' /\ HandsOK'
    BY <1>0, <1>4 DEF MapOK, SinkOK, HandsOK, OpenMap
  <2> QED BY <2>1, <2>2 DEF TypeInv, TypeOK
<1>5. CASE CreateMap
  <2>1. ImageOK' /\ MapOK' /\ ProducerOK' /\ cur' \in Passes
    BY <1>0, <1>5, EmptyHands DEF ImageOK, MapOK, ProducerOK, CreateMap, imageVars, Opening
  <2>2. SinkOK' /\ HandsOK'
    BY <1>0, <1>5, EmptyHands DEF SinkOK, HandsOK, CreateMap
  <2> QED BY <2>1, <2>2 DEF TypeInv, TypeOK
<1>6. CASE OpenImage
  <2>1. ImageOK' /\ MapOK' /\ HandsOK'
    BY <1>0, <1>6, NAssumption DEF ImageOK, MapOK, HandsOK, OpenImage, imageVars, mapVars
  <2>2. ProducerOK' /\ cur' \in Passes
    BY <1>0, <1>6 DEF ProducerOK, OpenImage, Opening, Spawn, With
  <2>3. SinkOK'
    BY <1>0, <1>6 DEF SinkOK, OpenImage, Spawn, Labels
  <2> QED BY <2>1, <2>2, <2>3 DEF TypeInv, TypeOK
<1>7. CASE SetLen
  <2>1. ImageOK' /\ MapOK' /\ HandsOK'
    BY <1>0, <1>7, NAssumption DEF ImageOK, MapOK, HandsOK, SetLen, mapVars
  <2>2. ProducerOK' /\ cur' \in Passes
    BY <1>0, <1>7 DEF ProducerOK, SetLen, Opening, Spawn, With
  <2>3. SinkOK'
    BY <1>0, <1>7 DEF SinkOK, SetLen, Spawn, Labels
  <2> QED BY <2>1, <2>2, <2>3 DEF TypeInv, TypeOK
<1>8. CASE OpenFail
  <2>1. saved' \in Maps \cup {NoMap} /\ writer' \in 0..MaxPass
    <3>1. CASE prod \in {"openimg", "setlen"}
      <4>1. cur \in Passes /\ cur \in 0..MaxPass
        BY <1>0, <3>1 DEF ProducerOK
      <4> QED BY <1>0, <1>8, <3>1, <4>1 DEF HandsOK, OpenFail
    <3>2. CASE prod \notin {"openimg", "setlen"}
      BY <1>0, <1>8, <3>2 DEF MapOK, OpenFail
    <3> QED BY <3>1, <3>2
  <2>3. ImageOK' /\ MapOK'
    BY <1>0, <1>8, <2>1 DEF ImageOK, MapOK, OpenFail, imageVars
  <2>2. ProducerOK' /\ SinkOK' /\ HandsOK' /\ prod' = "idle"
    BY <1>0, <1>8 DEF ProducerOK, SinkOK, HandsOK, OpenFail, sinkVars
  <2> QED BY <2>2, <2>3 DEF TypeInv, TypeOK
<1>9. CASE StartPatch
  <2>1. ImageOK' /\ MapOK'
    BY <1>0, <1>9 DEF ImageOK, MapOK, StartPatch, imageVars, mapVars
  <2>2. ProducerOK' /\ cur' \in Passes
    BY <1>0, <1>1, <1>9 DEF ProducerOK, StartPatch, Spawn, With
  <2>3. SinkOK'
    BY <1>0, <1>9 DEF SinkOK, StartPatch, Spawn, Labels
  <2>4. HandsOK'
    BY <1>0, <1>9 DEF HandsOK, MapOK, StartPatch
  <2> QED BY <2>1, <2>2, <2>3, <2>4 DEF TypeInv, TypeOK
<1> QED BY <1>2, <1>3, <1>4, <1>5, <1>6, <1>7, <1>8, <1>9 DEF Open

LEMMA ProducerType ==
    ASSUME TypeInv, Read \/ Teardown
    PROVE  TypeInv'
<1>0. ImageOK /\ MapOK /\ ProducerOK /\ SinkOK /\ HandsOK /\ (prod # "idle" => cur \in Passes)
  BY TypeParts
<1>1. CASE Produce
  <2>1. PICK b \in todo, o \in {"Good", "Fill", "Mark"} :
            Send(o, b) /\ todo' = todo \ {b}
    BY <1>1 DEF Produce
  <2>2. [op |-> o, blk |-> b] \in Items
    BY <1>0, <2>1 DEF Items, ProducerOK
  <2>3. queue' \in [Passes -> Seq(Items)]
    <3>1. cur \in Passes /\ queue[cur] \in Seq(Items)
      BY <1>0, <1>1 DEF Produce, HandsOK
    <3>2. Append(queue[cur], [op |-> o, blk |-> b]) \in Seq(Items)
      BY <2>2, <3>1
    <3> QED BY <1>0, <2>1, <3>2 DEF Send, HandsOK
  <2>4. UNCHANGED <<held, ilen, stable, saved, writer, lock, cur, kind, fresh, prod, halt, end, res>>
    BY <1>1 DEF Produce, imageVars, mapVars
  <2>5. /\ ImageOK' /\ MapOK' /\ (prod # "idle" => cur \in Passes)'
        /\ ProducerOK'
    <3>1. todo' \subseteq Blocks
      BY <1>0, <2>1 DEF ProducerOK
    <3>2. ProducerOK'
      BY <1>0, <2>4, <3>1 DEF ProducerOK
    <3> QED BY <1>0, <2>4, <3>2 DEF ImageOK, MapOK
  <2>6. SinkOK' /\ HandsOK'
    BY <1>0, <1>1, <2>3 DEF Produce, SinkOK, HandsOK
  <2> QED BY <2>5, <2>6 DEF TypeInv, TypeOK
<1>2. ASSUME NEW how \in {"done", "halted", "error"}, EndReading(how)
      PROVE  TypeInv'
  <2>1. ImageOK' /\ MapOK' /\ ProducerOK' /\ cur' \in Passes
    BY <1>0, <1>2 DEF EndReading, ImageOK, MapOK, ProducerOK, imageVars, mapVars
  <2>2. SinkOK' /\ HandsOK'
    BY <1>0, <1>2 DEF EndReading, SinkOK, HandsOK, sinkVars
  <2> QED BY <2>1, <2>2 DEF TypeInv, TypeOK
<1>3. CASE Teardown
  <2>1. ImageOK' /\ MapOK' /\ HandsOK'
    BY <1>0, <1>3 DEF Teardown, Join, Abandon, ImageOK, MapOK, HandsOK, imageVars, mapVars
  <2>2. ProducerOK' /\ prod' = "idle"
    <3>1. res' \in [ok: BOOLEAN, complete: BOOLEAN]
      <4>1. CASE Join
        BY <4>1 DEF Join
      <4>2. CASE Abandon
        BY <1>0, <4>2 DEF Abandon, ProducerOK
      <4> QED BY <1>3, <4>1, <4>2 DEF Teardown
    <3> QED BY <1>0, <1>3, <3>1 DEF Teardown, Join, Abandon, ProducerOK
  <2>3. SinkOK'
    BY <1>0, <1>3 DEF Teardown, Join, Abandon, SinkOK
  <2> QED BY <2>1, <2>2, <2>3 DEF TypeInv, TypeOK
<1> QED BY <1>1, <1>2, <1>3
        DEF Read, DoneReading, HaltSeen, Abort, ConsumerGone, Stall

LEMMA ConsumerFrame ==
    ASSUME NEW p \in Passes, Consume(p)
    PROVE  UNCHANGED prodVars
  BY DEF Consume, Take, Write, WriteFail, FillStopped, Sync, Record, Acquire, TmpDone, Rename,
         DropSink, Close

LEMMA ConsumerType ==
    ASSUME TypeInv, NEW p \in Passes, Consume(p)
    PROVE  TypeInv'
<1>0. ImageOK /\ MapOK /\ ProducerOK /\ SinkOK /\ HandsOK /\ (prod # "idle" => cur \in Passes)
  BY TypeParts
<1>1. ProducerOK' /\ (prod # "idle" => cur \in Passes)'
  BY <1>0, ConsumerFrame DEF ProducerOK, prodVars
<1>2. CASE Take(p)
  <2>1. ImageOK' /\ MapOK'
    BY <1>0, <1>2 DEF Take, ImageOK, MapOK, imageVars, mapVars
  <2>2. SinkOK'
    BY <1>0, <1>2 DEF Take, SinkOK, Labels, Goto, Ended
  <2>3. queue[p] \in Seq(Items) /\ Head(queue[p]) \in Items /\ Tail(queue[p]) \in Seq(Items)
    BY <1>0, <1>2 DEF Take, HandsOK
  <2>4. HandsOK'
    BY <1>0, <1>2, <2>3 DEF Take, HandsOK
  <2> QED BY <1>1, <2>1, <2>2, <2>4 DEF TypeInv, TypeOK
<1>3. CASE Write(p)
  <2>1. item[p].blk \in Blocks
    BY <1>0 DEF HandsOK, Items
  <2>2. ilen' \in 0..N
    BY <1>0, <1>3, <2>1, NAssumption DEF Write, ImageOK, LongerOf, Blocks
  <2>3. ImageOK' /\ MapOK' /\ HandsOK'
    BY <1>0, <1>3, <2>1, <2>2 DEF Write, ImageOK, MapOK, HandsOK, mapVars
  <2>4. SinkOK'
    BY <1>0, <1>3 DEF Write, SinkOK, Labels, Goto
  <2> QED BY <1>1, <2>3, <2>4 DEF TypeInv, TypeOK
<1>4. CASE WriteFail(p) \/ FillStopped(p)
  <2>1. ImageOK' /\ MapOK' /\ HandsOK'
    BY <1>0, <1>4 DEF WriteFail, FillStopped, ImageOK, MapOK, HandsOK, mapVars
  <2>2. SinkOK'
    BY <1>0, <1>4 DEF WriteFail, FillStopped, SinkOK, Labels, Goto, Disown
  <2> QED BY <1>1, <2>1, <2>2 DEF TypeInv, TypeOK
<1>5. CASE Sync(p)
  <2>1. ImageOK' /\ MapOK' /\ HandsOK'
    BY <1>0, <1>5 DEF Sync, ImageOK, MapOK, HandsOK, mapVars
  <2>2. SinkOK'
    BY <1>0, <1>5 DEF Sync, SinkOK, Labels, Goto, Disown, Ended
  <2> QED BY <1>1, <2>1, <2>2 DEF TypeInv, TypeOK
<1>6. CASE Record(p)
  <2>1. ImageOK' /\ MapOK'
    BY <1>0, <1>6 DEF Record, ImageOK, MapOK, imageVars, mapVars
  <2>2. SinkOK'
    BY <1>0, <1>6 DEF Record, SinkOK, Labels, Goto
  <2>3. Outcome[item[p].op] \in Status
    BY <1>0 DEF HandsOK, Items, Outcome, Status, Damage
  <2>4. HandsOK'
    BY <1>0, <1>6, <2>3, EmptyHands DEF Record, HandsOK, Maps
  <2> QED BY <1>1, <2>1, <2>2, <2>4 DEF TypeInv, TypeOK
<1>7. CASE Acquire(p) \/ TmpDone(p) \/ Rename(p)
  <2>1. ImageOK' /\ HandsOK'
    BY <1>0, <1>7 DEF Acquire, TmpDone, Rename, ImageOK, HandsOK, imageVars
  <2>2. MapOK'
    BY <1>0, <1>7, MaxPassAssumption DEF Acquire, TmpDone, Rename, MapOK, HandsOK, Passes
  <2>3. SinkOK'
    BY <1>0, <1>7 DEF Acquire, TmpDone, Rename, Written, NotWritten, SinkOK, Labels, Goto, Ended
  <2> QED BY <1>1, <2>1, <2>2, <2>3 DEF TypeInv, TypeOK
<1>8. CASE DropSink(p) \/ Close(p)
  <2>1. ImageOK' /\ MapOK' /\ HandsOK'
    <3>1. ImageOK' /\ MapOK' /\ UNCHANGED <<item, mem>>
      BY <1>0, <1>8 DEF DropSink, Close, ImageOK, MapOK, imageVars, mapVars
    <3>2. queue' = queue \/ queue' = [queue EXCEPT ![p] = <<>>]
      BY <1>8 DEF DropSink, Close
    <3>3. <<>> \in Seq(Items) /\ queue \in [Passes -> Seq(Items)]
      BY <1>0 DEF HandsOK
    <3>4. queue' \in [Passes -> Seq(Items)]
      BY <3>2, <3>3
    <3> QED BY <1>0, <3>1, <3>4 DEF HandsOK
  <2>2. SinkOK'
    BY <1>0, <1>8 DEF DropSink, Close, SinkOK, Labels, Goto, Ended
  <2> QED BY <1>1, <2>1, <2>2 DEF TypeInv, TypeOK
<1> QED BY <1>2, <1>3, <1>4, <1>5, <1>6, <1>7, <1>8 DEF Consume

LEMMA OutsideType ==
    ASSUME TypeInv, (\E p \in Passes : Tick(p)) \/ Stop \/ Kill \/ CutImage \/ Promote
    PROVE  TypeInv'
<1>0. ImageOK /\ MapOK /\ ProducerOK /\ SinkOK /\ HandsOK /\ (prod # "idle" => cur \in Passes)
  BY TypeParts
<1>1. ASSUME NEW p \in Passes, Tick(p)
      PROVE  TypeInv'
  <2>1. ImageOK' /\ MapOK' /\ ProducerOK' /\ (prod # "idle" => cur \in Passes)'
    BY <1>0, <1>1 DEF Tick, ImageOK, MapOK, ProducerOK, imageVars, mapVars, prodVars
  <2>2. SinkOK' /\ HandsOK'
    BY <1>0, <1>1 DEF Tick, SinkOK, HandsOK
  <2> QED BY <2>1, <2>2 DEF TypeInv, TypeOK
<1>2. CASE Stop
  <2>1. ImageOK' /\ MapOK' /\ ProducerOK' /\ (prod # "idle" => cur \in Passes)'
    BY <1>0, <1>2 DEF Stop, ImageOK, MapOK, ProducerOK, imageVars, mapVars
  <2>2. SinkOK' /\ HandsOK'
    BY <1>0, <1>2 DEF Stop, SinkOK, HandsOK, sinkVars
  <2> QED BY <2>1, <2>2 DEF TypeInv, TypeOK
<1>3. CASE Kill
  <2>1. ImageOK' /\ MapOK'
    BY <1>0, <1>3, MaxPassAssumption DEF Kill, ImageOK, MapOK, imageVars
  <2>2. ProducerOK' /\ prod' = "idle"
    BY <1>0, <1>3, EmptyHands DEF Kill, ProducerOK
  <2>3. SinkOK'
    BY <1>0, <1>3 DEF Kill, SinkOK, Labels, Ended
  <2>4. HandsOK'
    BY <1>0, <1>3, EmptyHands DEF Kill, HandsOK
  <2> QED BY <2>1, <2>2, <2>3, <2>4 DEF TypeInv, TypeOK
<1>4. CASE CutImage
  <2>1. ImageOK'
    BY <1>0, <1>4, NAssumption DEF CutImage, ImageOK
  <2>2. MapOK' /\ ProducerOK' /\ (prod # "idle" => cur \in Passes)'
    BY <1>0, <1>4, EmptyHands DEF CutImage, MapOK, ProducerOK, mapVars
  <2>3. SinkOK' /\ HandsOK'
    BY <1>0, <1>4 DEF CutImage, SinkOK, HandsOK, sinkVars
  <2> QED BY <2>1, <2>2, <2>3 DEF TypeInv, TypeOK
<1>5. CASE Promote
  <2>1. saved' \in Maps
    BY <1>0, <1>5 DEF Promote, MapOK, Maps, Status, Damage
  <2>2. ImageOK' /\ MapOK' /\ ProducerOK' /\ (prod # "idle" => cur \in Passes)'
    BY <1>0, <1>5, <2>1 DEF Promote, ImageOK, MapOK, ProducerOK, imageVars, prodVars
  <2>3. SinkOK' /\ HandsOK'
    BY <1>0, <1>5 DEF Promote, SinkOK, HandsOK, sinkVars
  <2> QED BY <2>2, <2>3 DEF TypeInv, TypeOK
<1> QED BY <1>1, <1>2, <1>3, <1>4, <1>5

LEMMA NextType == TypeInv /\ [Next]_vars => TypeInv'
<1> SUFFICES ASSUME TypeInv, [Next]_vars
             PROVE  TypeInv'
  OBVIOUS
<1>1. CASE UNCHANGED vars
  BY <1>1 DEF vars, imageVars, mapVars, prodVars, sinkVars, TypeInv, TypeOK,
              ImageOK, MapOK, ProducerOK, SinkOK, HandsOK
<1>2. CASE Next
  BY <1>2, OpenType, ProducerType, ConsumerType, OutsideType DEF Next
<1> QED BY <1>1, <1>2

\* Every reachable state of every instance is well typed.
THEOREM TypeCorrect == Spec => []TypeOK
<1>1. TypeInv => TypeOK
  BY DEF TypeInv
<1> QED BY InitType, NextType, <1>1, PTL DEF Spec

----------------------------------------------------------------------------
(* A newer pass's mapfile is never overwritten by an older one.  A consumer that
   was abandoned is disowned; the one that is not is the newest pass's; and a
   consumer on its way to the rename holds the commit lock, so nobody newer has
   written since it last looked at its revocation.                            *)

OwnerInv ==
    /\ writer <= cur
    /\ \A p \in Passes : pc[p] # "none" => p <= cur
    /\ \A p \in Passes : Live(p) /\ ~disowned[p] => p = cur /\ prod \in {"reading", "finishing"}
    /\ \A p \in Passes : pc[p] \in {"tmp", "rename"} => lock = p /\ writer <= p

LEMMA Typing ==
    ASSUME TypeInv
    PROVE  /\ writer \in Nat /\ cur \in Nat /\ Passes \subseteq Nat \ {0}
           /\ prod # "idle" => cur \in Passes
           /\ pc \in [Passes -> Labels]
           /\ disowned \in [Passes -> BOOLEAN]
<1>1. writer \in Nat /\ cur \in Nat
  BY TypeParts, MaxPassAssumption DEF MapOK, ProducerOK
<1>2. Passes \subseteq Nat \ {0}
  BY MaxPassAssumption DEF Passes
<1> QED BY TypeParts, <1>1, <1>2 DEF SinkOK

LEMMA InitOwner == Init => OwnerInv
  BY DEF Init, OwnerInv, Live

LEMMA OpenOwner ==
    ASSUME TypeInv, OwnerInv, Open
    PROVE  OwnerInv' /\ writer' >= writer
<1> USE Typing DEF OwnerInv, Live, Ended, Opening
<1>1. CASE StartSweep
  BY <1>1 DEF StartSweep, Begin, mapVars, sinkVars
<1>2. CASE Unlink \/ OpenMap
  BY <1>2 DEF Unlink, OpenMap, mapVars, sinkVars
<1>3. CASE CreateMap
  BY <1>3 DEF CreateMap
<1>4. CASE OpenImage \/ SetLen
  BY <1>4 DEF OpenImage, SetLen, Spawn, mapVars
<1>5. CASE OpenFail
  BY <1>5 DEF OpenFail, sinkVars
<1>6. CASE StartPatch
  BY <1>6 DEF StartPatch, Begin, Spawn, mapVars
<1> QED BY <1>1, <1>2, <1>3, <1>4, <1>5, <1>6 DEF Open

LEMMA ProducerOwner ==
    ASSUME TypeInv, OwnerInv, Read \/ Teardown
    PROVE  OwnerInv' /\ writer' >= writer
<1> USE Typing DEF OwnerInv, Live, Ended
<1>1. CASE Produce
  BY <1>1 DEF Produce, mapVars
<1>2. ASSUME NEW how, EndReading(how)
      PROVE  OwnerInv' /\ writer' >= writer
  BY <1>2 DEF EndReading, mapVars, sinkVars
<1>3. CASE Join
  BY <1>3 DEF Join, mapVars
<1>4. CASE Abandon
  BY <1>4 DEF Abandon, mapVars
<1> QED BY <1>1, <1>2, <1>3, <1>4
        DEF Read, Teardown, DoneReading, HaltSeen, Abort, ConsumerGone, Stall

LEMMA ConsumerOwner ==
    ASSUME TypeInv, OwnerInv, NEW p \in Passes, Consume(p)
    PROVE  OwnerInv' /\ writer' >= writer
<1>f. UNCHANGED <<cur, prod>>
  BY ConsumerFrame DEF prodVars
<1> USE Typing, <1>f DEF OwnerInv, Live, Ended, Goto
<1>1. CASE Take(p) \/ Close(p)
  BY <1>1 DEF Take, Close, mapVars
<1>8. CASE Record(p)
  BY <1>8 DEF Record, mapVars
<1>2. CASE Write(p)
  BY <1>2 DEF Write, mapVars
<1>3. CASE WriteFail(p) \/ FillStopped(p) \/ Sync(p)
  BY <1>3 DEF WriteFail, FillStopped, Sync, Disown, mapVars
<1>4. CASE DropSink(p)
  BY <1>4 DEF DropSink, mapVars
<1>5. CASE Acquire(p)
  BY <1>5 DEF Acquire, Written
<1>6. CASE TmpDone(p)
  BY <1>6 DEF TmpDone, Written, NotWritten
<1>7. CASE Rename(p)
  BY <1>7 DEF Rename, Written, NotWritten
<1> QED BY <1>1, <1>2, <1>3, <1>4, <1>5, <1>6, <1>7, <1>8 DEF Consume

LEMMA OutsideOwner ==
    ASSUME TypeInv, OwnerInv,
           (\E p \in Passes : Tick(p)) \/ Stop \/ Kill \/ CutImage \/ Promote
    PROVE  OwnerInv' /\ writer' >= writer
<1> USE Typing DEF OwnerInv, Live, Ended
<1>1. ASSUME NEW p \in Passes, Tick(p)
      PROVE  OwnerInv' /\ writer' >= writer
  BY <1>1 DEF Tick, mapVars, prodVars
<1>2. CASE Stop
  BY <1>2 DEF Stop, mapVars, sinkVars
<1>3. CASE Kill
  BY <1>3 DEF Kill
<1>4. CASE CutImage
  BY <1>4 DEF CutImage, mapVars, sinkVars
<1>5. CASE Promote
  BY <1>5 DEF Promote, prodVars, sinkVars
<1> QED BY <1>1, <1>2, <1>3, <1>4, <1>5

LEMMA NextOwner == TypeInv /\ OwnerInv /\ [Next]_vars => OwnerInv' /\ writer' >= writer
<1> SUFFICES ASSUME TypeInv, OwnerInv, [Next]_vars
             PROVE  OwnerInv' /\ writer' >= writer
  OBVIOUS
<1>1. CASE UNCHANGED vars
  <2>1. writer \in Nat
    BY TypeParts DEF MapOK
  <2> QED BY <1>1, <2>1 DEF vars, mapVars, prodVars, sinkVars, OwnerInv, Live, Ended
<1>2. CASE Next
  BY <1>2, OpenOwner, ProducerOwner, ConsumerOwner, OutsideOwner DEF Next
<1> QED BY <1>1, <1>2

\* However many consumers were abandoned and however late their writes land,
\* the mapfile on disk only ever passes from a pass to a newer one.
THEOREM NewestWinsAlways == Spec => NewestWins
<1>1. TypeInv /\ OwnerInv /\ [Next]_vars => [writer' >= writer]_writer
  BY NextOwner
<1> QED BY InitType, NextType, InitOwner, NextOwner, <1>1, PTL DEF Spec, NewestWins

----------------------------------------------------------------------------
(* When no consumer is ever abandoned, a block the mapfile calls Finished holds
   the disc's data.  The map in memory leads the one on disk and the image leads
   both; an item in the queue or at hand is about a block that is Finished in
   neither map, and no two of them are about the same block, so that no fill can
   reach a block recorded as good.                                             *)

FinishedIn(p) == With(mem[p], {"Finished"})
Busy(p) == pc[p] \in {"write", "sync", "record"}
QueuedOK(p) ==
    /\ \A i \in 1..Len(queue[p]) : queue[p][i].blk \notin FinishedIn(p) \cup todo
    /\ \A i, j \in 1..Len(queue[p]) : i # j => queue[p][i].blk # queue[p][j].blk
HandOK(p) ==
    Busy(p) => /\ item[p].blk \notin FinishedIn(p) \cup todo
               /\ \A i \in 1..Len(queue[p]) : queue[p][i].blk # item[p].blk
               /\ pc[p] # "write" /\ item[p].op = "Good" => item[p].blk \in held
AloneInv ==
    /\ \A p \in Passes : Live(p) => p = cur /\ prod \in {"reading", "finishing"}
    /\ \A p \in Passes : pc[p] = "none" => queue[p] = <<>>
    /\ \A p \in Passes : p > cur => pc[p] = "none"
    /\ prod \in Opening => pc[cur] = "none"
    /\ prod \in {"reading", "finishing"} => pc[cur] # "none"
OpeningInv ==
    /\ prod \in {"openmap", "createmap"} /\ fresh => saved = NoMap
    /\ prod = "openmap" => ilen = N \/ Finished(saved) = {}
    /\ prod = "createmap" => saved = NoMap
    /\ prod \in {"openimg", "setlen"} => saved = mem[cur] /\ saved # NoMap
    /\ prod = "openimg" => Finished(saved) = {} \/ (ilen = N /\ ~fresh)
    /\ prod = "setlen" => Finished(saved) = {}
WorkInv ==
    prod \in {"reading", "finishing"} =>
        /\ saved # NoMap
        /\ Finished(saved) \subseteq FinishedIn(cur)
        /\ FinishedIn(cur) \subseteq held
        /\ todo \cap FinishedIn(cur) = {}
        /\ QueuedOK(cur) /\ HandOK(cur)
ImageInv == held \subseteq 0..(ilen - 1)
ResultInv == CompleteHonest /\ (prod # "idle" => ~res.complete)
BackInv == AloneInv /\ OpeningInv /\ WorkInv /\ ImageInv /\ ResultInv /\ SavedBacked

LEMMA FinishedParts ==
    /\ Finished(NoMap) = {} /\ Finished(AllNonTried) = {} /\ AllNonTried # NoMap
    /\ \A m \in Maps : m # NoMap /\ Finished(m) = With(m, {"Finished"})
                       /\ Finished(m) \subseteq Blocks
<1>1. AllNonTried # NoMap
  BY EmptyHands, NoMapAssumption
<1> QED BY <1>1, NoMapAssumption DEF Finished, With, AllNonTried

LEMMA InitBack == Init => BackInv
<1> SUFFICES ASSUME Init
             PROVE  BackInv
  OBVIOUS
<1>1. AloneInv
  BY DEF Init, AloneInv, Live, Opening
<1>2. OpeningInv /\ WorkInv /\ ImageInv /\ ResultInv /\ SavedBacked
  BY FinishedParts DEF Init, OpeningInv, WorkInv, ImageInv, ResultInv, SavedBacked,
                       CompleteHonest, NoResult
<1> QED BY <1>1, <1>2 DEF BackInv

LEMMA BeginAlone ==
    ASSUME TypeInv, BackInv, NEW k, Begin(k)
    PROVE  /\ cur' \in Passes /\ pc[cur'] = "none" /\ queue[cur'] = <<>>
           /\ \A p \in Passes : ~Live(p) /\ (p > cur' => pc[p] = "none")
           /\ ~res'.complete
<1>1. cur' \in Passes /\ cur' > cur
  BY Typing, MaxPassAssumption DEF Begin, Passes
<1>2. \A p \in Passes : ~Live(p)
  BY DEF Begin, BackInv, AloneInv
<1> QED BY <1>1, <1>2, Typing DEF Begin, BackInv, AloneInv, NoResult

LEMMA SpawnBack ==
    ASSUME TypeInv, NEW p \in Passes, NEW blocks \in SUBSET Blocks,
           cur' = p, Spawn(p, blocks), queue' = queue,
           \A q \in Passes : ~Live(q) /\ (q > p => pc[q] = "none"),
           \A q \in Passes : pc[q] = "none" => queue[q] = <<>>,
           queue[p] = <<>>, saved' # NoMap,
           Finished(saved') \subseteq FinishedIn(p)', FinishedIn(p)' \subseteq held',
           blocks \cap FinishedIn(p)' = {}, held' \subseteq 0..(ilen' - 1), ~res'.complete
    PROVE  BackInv'
<1>1. AloneInv'
  BY Typing DEF Spawn, AloneInv, Live, Ended, Opening
<1>2. QueuedOK(p)' /\ HandOK(p)'
  BY Typing DEF Spawn, QueuedOK, HandOK, Busy
<1>3. WorkInv'
  BY <1>2 DEF Spawn, WorkInv
<1>4. OpeningInv' /\ ImageInv' /\ ResultInv' /\ SavedBacked'
  BY DEF Spawn, OpeningInv, ImageInv, ResultInv, CompleteHonest, SavedBacked
<1> QED BY <1>1, <1>3, <1>4 DEF BackInv

\* A pass that reads what its loaded map leaves, over an image that holds what it
\* calls Finished, starts in the invariant.
LEMMA SpawnFrom ==
    ASSUME TypeInv, AloneInv, ImageInv, cur' \in Passes, NEW s \in SUBSET (Status \ {"Finished"}),
           Spawn(cur', With(mem'[cur'], s)), queue' = queue, held' = held, ilen' \in {ilen, N},
           \A q \in Passes : ~Live(q) /\ (q > cur' => pc[q] = "none"),
           pc[cur'] = "none", saved' # NoMap, saved' = mem'[cur'],
           Finished(saved') \subseteq held, ~res'.complete
    PROVE  BackInv'
<1>1. PICK p \in Passes : p = cur'
  OBVIOUS
<1>2. queue[p] = <<>> /\ \A q \in Passes : pc[q] = "none" => queue[q] = <<>>
  BY <1>1 DEF AloneInv
<1>3. Finished(saved') = FinishedIn(p)'
  BY <1>1 DEF Finished, FinishedIn
<1>4. With(mem'[p], s) \in SUBSET Blocks /\ With(mem'[p], s) \cap FinishedIn(p)' = {}
  BY DEF With, FinishedIn
<1>5. held' \subseteq 0..(ilen' - 1)
  BY TypeParts, NAssumption DEF ImageInv, ImageOK, Blocks
<1> QED BY <1>1, <1>2, <1>3, <1>4, <1>5, SpawnBack

LEMMA OpenBack ==
    ASSUME TypeInv, BackInv, Open
    PROVE  BackInv'
<1>0. AloneInv /\ OpeningInv /\ WorkInv /\ ImageInv /\ ResultInv /\ SavedBacked
  BY DEF BackInv
<1>1. CASE StartSweep
  <2>1. AloneInv'
    BY <1>0, <1>1, BeginAlone DEF StartSweep, AloneInv, Live, sinkVars, Opening
  <2>2. ~fresh' => ilen = N \/ Finished(saved) = {}
    <3>1. ~ClaimsProgress(saved) => With(saved, {"Finished"}) = {}
      BY DEF ClaimsProgress, With
    <3>2. ilen # N => ilen < N
      BY TypeParts, NAssumption DEF ImageOK
    <3> QED BY <1>1, <3>1, <3>2 DEF StartSweep, Inconsistent, Finished
  <2>3. OpeningInv'
    BY <1>1, <2>2 DEF StartSweep, OpeningInv, imageVars, mapVars
  <2>4. WorkInv' /\ ImageInv' /\ ResultInv' /\ SavedBacked'
    BY <1>0, <1>1, BeginAlone DEF StartSweep, WorkInv, ImageInv, ResultInv, SavedBacked,
                                 CompleteHonest, imageVars, mapVars
  <2> QED BY <2>1, <2>3, <2>4 DEF BackInv
<1>2. CASE Unlink
  <2>1. AloneInv' /\ WorkInv' /\ ImageInv' /\ ResultInv'
    BY <1>0, <1>2 DEF Unlink, AloneInv, Live, WorkInv, ImageInv, ResultInv, CompleteHonest,
                      imageVars, sinkVars, Opening
  <2>2. OpeningInv' /\ SavedBacked'
    BY <1>2, FinishedParts DEF Unlink, OpeningInv, SavedBacked
  <2> QED BY <2>1, <2>2 DEF BackInv
<1>3. CASE OpenMap
  <2>1. AloneInv' /\ WorkInv' /\ ImageInv' /\ ResultInv' /\ SavedBacked'
    BY <1>0, <1>3 DEF OpenMap, AloneInv, Live, WorkInv, ImageInv, ResultInv, CompleteHonest,
                      SavedBacked, imageVars, mapVars, Opening
  <2>2. OpeningInv'
    BY <1>0, <1>3, Typing, TypeParts, FinishedParts DEF OpenMap, OpeningInv, imageVars, mapVars, HandsOK
  <2> QED BY <2>1, <2>2 DEF BackInv
<1>4. CASE CreateMap
  <2>1. AloneInv' /\ WorkInv' /\ ImageInv' /\ ResultInv'
    BY <1>0, <1>4 DEF CreateMap, AloneInv, Live, WorkInv, ImageInv, ResultInv, CompleteHonest,
                      imageVars, Opening
  <2>2. OpeningInv' /\ SavedBacked'
    BY <1>4, Typing, TypeParts, FinishedParts DEF CreateMap, OpeningInv, SavedBacked, HandsOK
  <2> QED BY <2>1, <2>2 DEF BackInv
<1>5. CASE OpenImage
  <2>0. /\ cur \in Passes /\ pc[cur] = "none" /\ queue[cur] = <<>>
        /\ saved = mem[cur] /\ saved # NoMap /\ mem[cur] \in Maps
        /\ Finished(saved) = FinishedIn(cur) /\ ~res.complete
    BY <1>0, <1>5, Typing, TypeParts, FinishedParts
       DEF OpenImage, AloneInv, OpeningInv, ResultInv, HandsOK, Opening, FinishedIn
  <2>1. CASE ~fresh /\ ilen > 0
    <3>1. Finished(saved) \subseteq held
      BY <1>0, <1>5 DEF OpenImage, OpeningInv, SavedBacked
    <3>2. /\ Spawn(cur, With(mem[cur], {"NonTried"}))
          /\ UNCHANGED <<held, ilen, cur, res, saved, mem, queue>>
      BY <1>5, <2>1 DEF OpenImage, imageVars, mapVars
    <3>3. \A q \in Passes : ~Live(q) /\ (q > cur => pc[q] = "none")
      BY <1>0, <1>5 DEF OpenImage, AloneInv
    <3> QED BY <1>0, <2>0, <3>1, <3>2, <3>3, SpawnFrom DEF Status
  <2>2. CASE ~(~fresh /\ ilen > 0)
    <3>1. Finished(saved) = {}
      BY <1>0, <1>5, <2>2, TypeParts, NAssumption DEF OpenImage, OpeningInv, ImageOK
    <3>2. AloneInv' /\ WorkInv' /\ ImageInv'
      BY <1>0, <1>5, <2>2 DEF OpenImage, AloneInv, WorkInv, ImageInv, Live, Opening
    <3>3. OpeningInv' /\ ResultInv' /\ SavedBacked'
      BY <1>0, <1>5, <2>0, <2>2, <3>1 DEF OpenImage, OpeningInv, ResultInv, CompleteHonest,
                                      SavedBacked, mapVars
    <3> QED BY <3>2, <3>3 DEF BackInv
  <2> QED BY <2>1, <2>2
<1>6. CASE SetLen
  <2>1. /\ cur \in Passes /\ pc[cur] = "none" /\ saved = mem[cur] /\ saved # NoMap
        /\ Finished(saved) = {} /\ ~res.complete
        /\ \A q \in Passes : ~Live(q) /\ (q > cur => pc[q] = "none")
    BY <1>0, <1>6, Typing DEF SetLen, AloneInv, OpeningInv, ResultInv, Opening
  <2>2. /\ Spawn(cur, With(mem[cur], {"NonTried"})) /\ ilen' = N
        /\ UNCHANGED <<held, cur, res, saved, mem, queue>>
    BY <1>6 DEF SetLen, mapVars
  <2> QED BY <1>0, <2>1, <2>2, SpawnFrom DEF Status
<1>7. CASE OpenFail
  <2>1. Finished(saved') = Finished(saved)
    BY <1>0, <1>7 DEF OpenFail, OpeningInv
  <2>2. AloneInv' /\ SavedBacked'
    BY <1>0, <1>7, <2>1 DEF OpenFail, AloneInv, Live, SavedBacked, imageVars, sinkVars, Opening
  <2>3. OpeningInv' /\ WorkInv' /\ ImageInv' /\ ResultInv'
    BY <1>0, <1>7 DEF OpenFail, OpeningInv, WorkInv, ImageInv, ResultInv, CompleteHonest, imageVars
  <2> QED BY <2>1, <2>2, <2>3 DEF BackInv
<1>8. CASE StartPatch
  <2>1. /\ saved # NoMap /\ Finished(saved) \subseteq held
        /\ mem'[cur'] = saved
    BY <1>0, <1>8, BeginAlone, TypeParts DEF StartPatch, SavedBacked, HandsOK
  <2>2. /\ Spawn(cur', With(mem'[cur'], Damage)) /\ UNCHANGED <<held, ilen, saved, queue>>
    BY <1>8, <2>1 DEF StartPatch, imageVars, mapVars
  <2>3. Damage \in SUBSET (Status \ {"Finished"})
    BY DEF Damage, Status
  <2> QED BY <1>0, <1>8, <2>1, <2>2, <2>3, BeginAlone, SpawnFrom DEF StartPatch
<1> QED BY <1>1, <1>2, <1>3, <1>4, <1>5, <1>6, <1>7, <1>8 DEF Open

LEMMA ProducerBack ==
    ASSUME ~CanAbandon, TypeInv, BackInv, Read \/ Teardown
    PROVE  BackInv'
<1>0. AloneInv /\ OpeningInv /\ WorkInv /\ ImageInv /\ ResultInv /\ SavedBacked
  BY DEF BackInv
<1>1. CASE Produce
  <2>1. PICK b \in todo, o \in {"Good", "Fill", "Mark"} :
            Send(o, b) /\ todo' = todo \ {b}
    BY <1>1 DEF Produce
  <2>2. cur \in Passes /\ queue[cur] \in Seq(Items) /\ queue \in [Passes -> Seq(Items)]
    BY <1>1, Typing, TypeParts DEF Produce, HandsOK
  <2>3. queue'[cur] = Append(queue[cur], [op |-> o, blk |-> b])
    BY <2>1, <2>2 DEF Send
  <2>4. UNCHANGED <<held, ilen, saved, cur, fresh, prod, res, pc, item, mem>>
    BY <1>1 DEF Produce, imageVars, mapVars
  <2>5. QueuedOK(cur) /\ HandOK(cur) /\ todo \cap FinishedIn(cur) = {}
    BY <1>0, <1>1 DEF Produce, WorkInv
  <2> DEFINE n == Len(queue[cur])
  <2>a. n \in Nat /\ Len(queue'[cur]) = n + 1
    BY <2>2, <2>3
  <2>b. /\ \A i \in 1..n : queue'[cur][i] = queue[cur][i]
        /\ queue'[cur][n + 1].blk = b
    BY <2>2, <2>3
  <2>c. FinishedIn(cur)' = FinishedIn(cur) /\ todo' \subseteq todo /\ b \in todo /\ b \notin todo'
    BY <2>1, <2>4 DEF FinishedIn
  <2>d. \A i \in 1..n : queue[cur][i].blk \notin FinishedIn(cur) \cup todo
    BY <2>5 DEF QueuedOK
  <2>e. \A i, j \in 1..n : i # j => queue[cur][i].blk # queue[cur][j].blk
    BY <2>5 DEF QueuedOK
  <2> HIDE DEF n
  <2>f. \A i \in 1..(n + 1) : queue'[cur][i].blk \notin FinishedIn(cur) \cup todo'
    BY <2>5, <2>a, <2>b, <2>c, <2>d
  <2>g. \A i, j \in 1..(n + 1) : i # j => queue'[cur][i].blk # queue'[cur][j].blk
    BY <2>a, <2>b, <2>c, <2>d, <2>e
  <2>6. QueuedOK(cur)'
    BY <2>4, <2>a, <2>c, <2>f, <2>g DEF QueuedOK
  <2>7. HandOK(cur)'
    <3>1. Busy(cur) => \A i \in 1..(n + 1) : queue'[cur][i].blk # item[cur].blk
      BY <2>5, <2>a, <2>b, <2>c DEF HandOK, n
    <3> QED BY <2>4, <2>5, <2>a, <2>c, <3>1 DEF HandOK, Busy
  <2>8. WorkInv'
    BY <1>0, <2>1, <2>4, <2>6, <2>7 DEF WorkInv, FinishedIn
  <2>9. AloneInv'
    <3>1. \A p \in Passes : p # cur => queue'[p] = queue[p]
      BY <2>1, <2>2 DEF Send
    <3> QED BY <1>0, <1>1, <2>4, <3>1 DEF AloneInv, Live, Produce, Opening
  <2>10. OpeningInv' /\ ImageInv' /\ ResultInv' /\ SavedBacked'
    BY <1>0, <2>4 DEF OpeningInv, ImageInv, ResultInv, CompleteHonest, SavedBacked
  <2> QED BY <2>8, <2>9, <2>10 DEF BackInv
<1>2. ASSUME NEW how, EndReading(how)
      PROVE  BackInv'
  <2>1. AloneInv' /\ OpeningInv' /\ ImageInv' /\ ResultInv' /\ SavedBacked'
    BY <1>0, <1>2 DEF EndReading, AloneInv, Live, OpeningInv, ImageInv, ResultInv,
                      CompleteHonest, SavedBacked, imageVars, mapVars, sinkVars, Opening
  <2>2. WorkInv'
    BY <1>0, <1>2 DEF EndReading, WorkInv, QueuedOK, HandOK, Busy, FinishedIn,
                      imageVars, mapVars, sinkVars
  <2> QED BY <2>1, <2>2 DEF BackInv
<1>3. CASE Join
  <2>1. UNCHANGED <<held, ilen, saved, cur, pc, queue>> /\ prod' = "idle"
    BY <1>3 DEF Join, imageVars, mapVars
  <2>2. AloneInv' /\ OpeningInv' /\ WorkInv' /\ ImageInv' /\ SavedBacked'
    BY <1>0, <1>3, <2>1 DEF Join, AloneInv, Live, OpeningInv, WorkInv, ImageInv, SavedBacked, Opening
  <2>3. ASSUME res'.complete
        PROVE  ilen = N /\ held = Blocks
    <3>1. FinishedIn(cur) = Blocks
      BY <1>3, <2>3 DEF Join, Complete, FinishedIn
    <3>2. FinishedIn(cur) \subseteq held
      BY <1>0, <1>3 DEF Join, WorkInv
    <3>3. held = Blocks
      BY <3>1, <3>2, TypeParts DEF ImageOK
    <3>4. N - 1 \in Blocks
      BY NAssumption DEF Blocks
    <3>5. ilen = N
      BY <1>0, <3>3, <3>4, TypeParts, NAssumption DEF ImageInv, ImageOK
    <3> QED BY <3>3, <3>5
  <2>4. ResultInv'
    BY <2>1, <2>3 DEF ResultInv, CompleteHonest
  <2> QED BY <2>2, <2>4 DEF BackInv
<1> QED BY <1>1, <1>2, <1>3
        DEF Read, Teardown, DoneReading, HaltSeen, Abort, ConsumerGone, Stall, Abandon

LEMMA OutsideBack ==
    ASSUME TypeInv, BackInv,
           (\E p \in Passes : Tick(p)) \/ Stop \/ Kill \/ CutImage \/ Promote
    PROVE  BackInv'
<1>0. AloneInv /\ OpeningInv /\ WorkInv /\ ImageInv /\ ResultInv /\ SavedBacked
  BY DEF BackInv
<1>1. CASE (\E p \in Passes : Tick(p)) \/ Stop
  <2>1. UNCHANGED <<held, ilen, saved, cur, fresh, prod, todo, res, pc, item, queue, mem>>
    BY <1>1 DEF Tick, Stop, imageVars, mapVars, prodVars, sinkVars
  <2>2. AloneInv' /\ OpeningInv' /\ ImageInv' /\ ResultInv' /\ SavedBacked'
    BY <1>0, <2>1 DEF AloneInv, Live, OpeningInv, ImageInv, ResultInv, CompleteHonest, SavedBacked
  <2>3. WorkInv'
    BY <1>0, <2>1 DEF WorkInv, QueuedOK, HandOK, Busy, FinishedIn
  <2> QED BY <2>2, <2>3 DEF BackInv
<1>2. CASE Kill
  <2>1. AloneInv'
    BY <1>0, <1>2, Typing DEF Kill, AloneInv, Live, Ended, Opening
  <2>2. OpeningInv' /\ WorkInv' /\ ImageInv' /\ ResultInv' /\ SavedBacked'
    BY <1>0, <1>2 DEF Kill, OpeningInv, WorkInv, ImageInv, ResultInv, CompleteHonest,
                      SavedBacked, NoResult, imageVars
  <2> QED BY <2>1, <2>2 DEF BackInv
<1>3. CASE CutImage
  <2>1. AloneInv'
    BY <1>0, <1>3 DEF CutImage, AloneInv, Live, sinkVars
  <2>2. PICK k \in 0..(ilen - 1) : ilen' = k /\ held' = held \cap 0..(k - 1)
    BY <1>3 DEF CutImage
  <2>3. ilen' # N
    BY <2>2, TypeParts, NAssumption DEF ImageOK
  <2>4. OpeningInv' /\ WorkInv' /\ ImageInv' /\ ResultInv' /\ SavedBacked'
    BY <1>3, <2>2, <2>3 DEF CutImage, OpeningInv, WorkInv, ImageInv, ResultInv, CompleteHonest,
                            SavedBacked, NoResult
  <2> QED BY <2>1, <2>4 DEF BackInv
<1>4. CASE Promote
  <2>1. Finished(saved') = Finished(saved)
    <3>1. saved \in Maps /\ saved' \in Maps
      BY <1>4, TypeParts DEF Promote, MapOK, Maps, Status, Damage
    <3>2. With(saved', {"Finished"}) = With(saved, {"Finished"})
      BY <1>4 DEF Promote, With
    <3> QED BY <3>1, <3>2, FinishedParts
  <2>2. UNCHANGED <<held, ilen, cur, prod, res, pc, queue>> /\ prod = "idle"
    BY <1>4 DEF Promote, imageVars, prodVars, sinkVars
  <2>3. AloneInv' /\ OpeningInv' /\ WorkInv' /\ ImageInv' /\ ResultInv' /\ SavedBacked'
    BY <1>0, <2>1, <2>2 DEF AloneInv, Live, OpeningInv, WorkInv, ImageInv, ResultInv,
                            CompleteHonest, SavedBacked, Opening
  <2> QED BY <2>3 DEF BackInv
<1> QED BY <1>1, <1>2, <1>3, <1>4

LEMMA ConsumerBack ==
    ASSUME TypeInv, BackInv, NEW p \in Passes, Consume(p)
    PROVE  BackInv'
<1>0. AloneInv /\ OpeningInv /\ WorkInv /\ ImageInv /\ ResultInv /\ SavedBacked
  BY DEF BackInv
<1>1. p = cur /\ prod \in {"reading", "finishing"}
  BY <1>0 DEF Consume, Take, Write, WriteFail, FillStopped, Sync, Record, Acquire, TmpDone, Rename,
              DropSink, Close, AloneInv, Live, Ended
<1>2. UNCHANGED <<cur, prod, fresh, todo, res>>
  BY ConsumerFrame DEF prodVars
<1>3. /\ saved # NoMap /\ Finished(saved) \subseteq FinishedIn(p)
      /\ FinishedIn(p) \subseteq held /\ todo \cap FinishedIn(p) = {}
      /\ QueuedOK(p) /\ HandOK(p) /\ ~res.complete
  BY <1>0, <1>1 DEF WorkInv, ResultInv
<1>4. /\ pc \in [Passes -> Labels] /\ queue \in [Passes -> Seq(Items)]
      /\ item \in [Passes -> Items] /\ mem \in [Passes -> Maps]
  BY TypeParts DEF SinkOK, HandsOK
\* What is left to show of a step: the newest pass's own part of the invariant.
<1>5. ASSUME pc' \in [Passes -> Labels], pc'[p] # "none",
             \A q \in Passes : q # p => pc'[q] = pc[q] /\ queue'[q] = queue[q],
             saved' # NoMap, Finished(saved') \subseteq FinishedIn(p)',
             FinishedIn(p)' \subseteq held', todo \cap FinishedIn(p)' = {},
             QueuedOK(p)', HandOK(p)', held' \subseteq 0..(ilen' - 1)
      PROVE  BackInv'
  <2>1. AloneInv'
    BY <1>0, <1>1, <1>2, <1>5, Typing DEF AloneInv, Live, Opening
  <2>2. WorkInv'
    BY <1>1, <1>2, <1>5 DEF WorkInv
  <2>3. OpeningInv' /\ ImageInv' /\ ResultInv' /\ SavedBacked'
    BY <1>1, <1>2, <1>3, <1>5 DEF OpeningInv, ImageInv, ResultInv, CompleteHonest, SavedBacked
  <2> QED BY <2>1, <2>2, <2>3 DEF BackInv
<1>6. CASE Take(p)
  <2> DEFINE q == queue[p]
             n == Len(q)
  <2>1. UNCHANGED <<held, ilen, saved, mem>>
    BY <1>6 DEF Take, imageVars, mapVars
  <2>2. CASE disowned[p]
    BY <1>0, <1>2, <1>3, <1>4, <1>5, <1>6, <2>1, <2>2
       DEF Take, Goto, QueuedOK, HandOK, Busy, FinishedIn, ImageInv, Labels
  <2>3. CASE ~disowned[p]
    <3>1. /\ q \in Seq(Items) /\ q # <<>> /\ n \in Nat \ {0}
          /\ Head(q) = q[1] /\ Len(Tail(q)) = n - 1
          /\ \A i \in 1..(n - 1) : Tail(q)[i] = q[i + 1]
      BY <1>4, <1>6 DEF Take
    <3>2. item'[p] = q[1] /\ queue'[p] = Tail(q) /\ pc'[p] \in {"record", "write"}
      BY <1>4, <1>6, <2>3, <3>1 DEF Take, Goto
    <3>3. pc'[p] = "record" => q[1].op = "Mark"
      BY <1>4, <1>6, <2>3, <3>1 DEF Take, Goto
    <3>4. \A i \in 1..n : q[i].blk \notin FinishedIn(p) \cup todo
      BY <1>3 DEF QueuedOK
    <3>5. \A i, j \in 1..n : i # j => q[i].blk # q[j].blk
      BY <1>3 DEF QueuedOK
    <3>6. FinishedIn(p)' = FinishedIn(p)
      BY <2>1 DEF FinishedIn
    <3> HIDE DEF n, q
    <3>7. QueuedOK(p)'
      BY <1>2, <3>1, <3>2, <3>4, <3>5, <3>6 DEF QueuedOK
    <3>8. HandOK(p)'
      BY <1>2, <3>1, <3>2, <3>3, <3>4, <3>5, <3>6 DEF HandOK, Busy
    <3>9. /\ pc' \in [Passes -> Labels] /\ pc'[p] # "none"
          /\ \A r \in Passes : r # p => pc'[r] = pc[r] /\ queue'[r] = queue[r]
      BY <1>4, <1>6, <2>3, <3>2 DEF Take, Goto, Labels
    <3> QED BY <1>0, <1>3, <1>5, <2>1, <3>6, <3>7, <3>8, <3>9 DEF ImageInv
  <2> QED BY <2>2, <2>3
<1>7. CASE Write(p)
  <2> DEFINE b == item[p].blk
  <2>1. /\ pc[p] = "write" /\ Busy(p) /\ item[p] \in Items /\ b \in Blocks
        /\ b \notin FinishedIn(p) /\ UNCHANGED <<saved, mem, item, queue>>
    BY <1>3, <1>4, <1>7 DEF Write, Busy, HandOK, Items, mapVars
  <2>2. /\ held' = IF item[p].op = "Good" THEN held \cup {b} ELSE held \ {b}
        /\ ilen' = LongerOf(ilen, b + 1)
        /\ pc' \in [Passes -> Labels] /\ pc'[p] \in {"sync", "record"}
        /\ \A q \in Passes : q # p => pc'[q] = pc[q]
    BY <1>4, <1>7 DEF Write, Goto, Labels
  <2>3. FinishedIn(p)' = FinishedIn(p)
    BY <2>1 DEF FinishedIn
  <2>4. FinishedIn(p)' \subseteq held'
    BY <1>3, <2>1, <2>2, <2>3
  <2>5. QueuedOK(p)' /\ HandOK(p)'
    BY <1>2, <1>3, <2>1, <2>2, <2>3 DEF QueuedOK, HandOK, Busy
  <2>6. held' \subseteq 0..(ilen' - 1)
    <3>1. ilen \in Nat /\ b \in Nat /\ held \subseteq 0..(ilen - 1)
      BY <1>0, <2>1, NAssumption, TypeParts DEF ImageInv, ImageOK, Blocks
    <3>2. held' \subseteq held \cup {b}
      BY <2>2
    <3> HIDE DEF b
    <3> QED BY <2>2, <3>1, <3>2 DEF LongerOf
  <2> QED BY <1>3, <1>5, <2>1, <2>2, <2>3, <2>4, <2>5, <2>6
<1>8. CASE WriteFail(p) \/ FillStopped(p)
  <2>1. /\ item[p].blk \notin FinishedIn(p) /\ UNCHANGED <<ilen, saved, mem, item, queue>>
        /\ held' \in {held, held \ {item[p].blk}}
    BY <1>3, <1>8 DEF WriteFail, FillStopped, Busy, HandOK, mapVars
  <2>2. /\ pc' \in [Passes -> Labels] /\ pc'[p] \in {"failed", "closing"}
        /\ \A q \in Passes : q # p => pc'[q] = pc[q]
    BY <1>4, <1>8 DEF WriteFail, FillStopped, Goto, Labels
  <2>3. FinishedIn(p)' = FinishedIn(p)
    BY <2>1 DEF FinishedIn
  <2>4. QueuedOK(p)' /\ HandOK(p)'
    BY <1>2, <1>3, <2>1, <2>2, <2>3 DEF QueuedOK, HandOK, Busy
  <2> QED BY <1>0, <1>3, <1>5, <2>1, <2>2, <2>3, <2>4 DEF ImageInv
<1>9. CASE Sync(p) \/ DropSink(p) \/ Close(p)
  <2>1. UNCHANGED <<held, ilen, saved, mem, item>>
    BY <1>9 DEF Sync, DropSink, Close, imageVars, mapVars
  <2>2. /\ pc' \in [Passes -> Labels] /\ pc'[p] # "none" /\ pc'[p] # "write"
        /\ pc'[p] = "record" => pc[p] = "sync"
        /\ pc'[p] # "sync"
        /\ \A q \in Passes : q # p => pc'[q] = pc[q]
    BY <1>4, <1>9 DEF Sync, DropSink, Close, Goto, Labels, Ended
  <2>3. /\ queue'[p] = queue[p] \/ queue'[p] = <<>>
        /\ \A q \in Passes : q # p => queue'[q] = queue[q]
    BY <1>4, <1>9 DEF Sync, DropSink, Close
  <2>4. FinishedIn(p)' = FinishedIn(p)
    BY <2>1 DEF FinishedIn
  <2>5. QueuedOK(p)'
    BY <1>2, <1>3, <2>3, <2>4 DEF QueuedOK
  <2>6. HandOK(p)'
    BY <1>2, <1>3, <2>1, <2>2, <2>3, <2>4 DEF HandOK, Busy
  <2> QED BY <1>0, <1>3, <1>5, <2>1, <2>2, <2>3, <2>4, <2>5, <2>6 DEF ImageInv
<1>10. CASE Record(p)
  <2> DEFINE b == item[p].blk
  <2>1. /\ pc[p] = "record" /\ Busy(p) /\ item[p] \in Items /\ b \in Blocks
        /\ b \notin FinishedIn(p) \cup todo
        /\ item[p].op = "Good" => b \in held
        /\ \A i \in 1..Len(queue[p]) : queue[p][i].blk # b
    BY <1>3, <1>4, <1>10 DEF Record, Busy, HandOK, Items
  <2>2. UNCHANGED <<held, ilen, saved, queue>>
    BY <1>10 DEF Record, imageVars, mapVars
  <2>3. /\ pc' \in [Passes -> Labels] /\ pc'[p] \in {"persist", "idle"}
        /\ \A q \in Passes : q # p => pc'[q] = pc[q]
    BY <1>4, <1>10 DEF Record, Goto, Labels
  <2>4. \A c \in Blocks : mem'[p][c] = IF c = b THEN Outcome[item[p].op] ELSE mem[p][c]
    BY <1>4, <1>10, <2>1 DEF Record, Maps
  <2>5. FinishedIn(p)' = FinishedIn(p) \cup (IF item[p].op = "Good" THEN {b} ELSE {})
    <3>1. item[p].op \in {"Good", "Fill", "Mark"}
      BY <2>1 DEF Items
    <3>2. Outcome[item[p].op] = "Finished" <=> item[p].op = "Good"
      BY <3>1 DEF Outcome
    <3> HIDE DEF b
    <3> QED BY <2>1, <2>4, <3>2 DEF FinishedIn, With
  <2>6. QueuedOK(p)' /\ HandOK(p)'
    BY <1>2, <1>3, <2>1, <2>2, <2>3, <2>5 DEF QueuedOK, HandOK, Busy
  <2> QED BY <1>0, <1>3, <1>5, <2>1, <2>2, <2>3, <2>5, <2>6 DEF ImageInv
<1>11. CASE Acquire(p) \/ TmpDone(p) \/ Rename(p)
  <2>1. /\ UNCHANGED <<held, ilen, mem, item, queue>>
        /\ saved' \in {saved, mem[p]}
    BY <1>11 DEF Acquire, TmpDone, Rename, imageVars
  <2>2. /\ pc' \in [Passes -> Labels] /\ pc'[p] \notin {"none", "write", "sync", "record"}
        /\ \A q \in Passes : q # p => pc'[q] = pc[q]
    BY <1>4, <1>11 DEF Acquire, TmpDone, Rename, Written, NotWritten, Goto, Labels, Ended
  <2>3. FinishedIn(p)' = FinishedIn(p)
    BY <2>1 DEF FinishedIn
  <2>4. saved' # NoMap /\ Finished(saved') \subseteq FinishedIn(p)'
    BY <1>3, <1>4, <2>1, <2>3, FinishedParts DEF FinishedIn
  <2>5. QueuedOK(p)' /\ HandOK(p)'
    BY <1>2, <1>3, <2>1, <2>2, <2>3 DEF QueuedOK, HandOK, Busy
  <2> QED BY <1>0, <1>3, <1>5, <2>1, <2>2, <2>3, <2>4, <2>5 DEF ImageInv
<1> QED BY <1>6, <1>7, <1>8, <1>9, <1>10, <1>11 DEF Consume

LEMMA NextBack ==
    ASSUME ~CanAbandon
    PROVE  TypeInv /\ BackInv /\ [Next]_vars => BackInv'
<1> SUFFICES ASSUME TypeInv, BackInv, [Next]_vars
             PROVE  BackInv'
  OBVIOUS
<1>1. CASE UNCHANGED vars
  BY <1>1 DEF vars, imageVars, mapVars, prodVars, sinkVars, BackInv, AloneInv, Live,
              OpeningInv, WorkInv, QueuedOK, HandOK, Busy, FinishedIn, ImageInv,
              ResultInv, CompleteHonest, SavedBacked
<1>2. CASE Next
  BY <1>2, OpenBack, ProducerBack, ConsumerBack, OutsideBack DEF Next
<1> QED BY <1>1, <1>2

LEMMA BackAlways ==
    ASSUME ~CanAbandon
    PROVE  Spec => []BackInv
<1>1. TypeInv /\ BackInv /\ [Next]_vars => BackInv'
  BY NextBack
<1> QED BY InitType, NextType, InitBack, <1>1, PTL DEF Spec

\* Where no consumer is abandoned, no interleaving of sweeps, patches, failures,
\* kills and cut images lets the mapfile call a block Finished that a full-length
\* image does not hold.
THEOREM SavedBackedAlways ==
    ASSUME ~CanAbandon
    PROVE  Spec => []SavedBacked
<1>1. BackInv => SavedBacked
  BY DEF BackInv
<1> QED BY BackAlways, <1>1, PTL

\* There a pass that reports the copy complete leaves a whole image.
THEOREM CompleteHonestAlways ==
    ASSUME ~CanAbandon
    PROVE  Spec => []CompleteHonest
<1>1. BackInv => CompleteHonest
  BY DEF BackInv, ResultInv
<1> QED BY BackAlways, <1>1, PTL

LEMMA KeptStep ==
    ASSUME ~CanAbandon, TypeInv, BackInv, [Next]_vars, saved' # NoMap
    PROVE  Finished(saved) \subseteq Finished(saved')
<1>0. OpeningInv /\ WorkInv /\ AloneInv
  BY DEF BackInv
<1>1. CASE Unlink
  BY <1>1 DEF Unlink
<1>2. CASE CreateMap
  BY <1>0, <1>2, FinishedParts DEF CreateMap, OpeningInv
<1>3. CASE OpenFail
  BY <1>0, <1>3 DEF OpenFail, OpeningInv
<1>4. ASSUME NEW p \in Passes, Rename(p)
      PROVE  Finished(saved) \subseteq Finished(saved')
  <2>1. p = cur /\ prod \in {"reading", "finishing"}
    BY <1>0, <1>4 DEF Rename, AloneInv, Live, Ended
  <2>2. Finished(saved) \subseteq With(mem[p], {"Finished"}) /\ mem[p] \in Maps
    BY <1>0, <2>1, TypeParts DEF WorkInv, FinishedIn, HandsOK
  <2>3. saved' \in {saved, mem[p]}
    BY <1>4 DEF Rename
  <2> QED BY <2>2, <2>3, FinishedParts
<1>5. CASE Promote
  <2>1. saved \in Maps /\ saved' \in Maps
    BY <1>5, TypeParts DEF Promote, MapOK, Maps, Status, Damage
  <2>2. With(saved', {"Finished"}) = With(saved, {"Finished"})
    BY <1>5 DEF Promote, With
  <2> QED BY <2>1, <2>2, FinishedParts
<1>6. \/ Unlink \/ CreateMap \/ OpenFail \/ Promote \/ (\E p \in Passes : Rename(p))
      \/ saved' = saved
  <2>1. CASE Open
    BY <2>1 DEF Open, StartSweep, OpenMap, OpenImage, SetLen, StartPatch, mapVars
  <2>2. CASE Read \/ Teardown
    BY <2>2 DEF Read, Teardown, Produce, DoneReading, HaltSeen, Abort, ConsumerGone, Stall,
                EndReading, Join, Abandon, mapVars
  <2>3. ASSUME NEW p \in Passes, Consume(p) \/ Tick(p)
        PROVE  Rename(p) \/ saved' = saved
    BY <2>3 DEF Consume, Take, Write, WriteFail, FillStopped, Sync, Record, Acquire, TmpDone,
                DropSink, Close, Tick, mapVars
  <2>4. CASE Stop \/ Kill \/ CutImage
    BY <2>4 DEF Stop, Kill, CutImage, mapVars
  <2>5. CASE UNCHANGED vars
    BY <2>5 DEF vars, mapVars
  <2> QED BY <2>1, <2>2, <2>3, <2>4, <2>5 DEF Next
<1> QED BY <1>1, <1>2, <1>3, <1>4, <1>5, <1>6

\* There no write of the mapfile, by a consumer, a failed opening or a promotion,
\* takes back a block it calls Finished.
THEOREM ConfirmedKeptAlways ==
    ASSUME ~CanAbandon
    PROVE  Spec => ConfirmedKept
<1>1. TypeInv /\ BackInv /\ [Next]_vars =>
          [saved' # NoMap => Finished(saved) \subseteq Finished(saved')]_saved
  BY KeptStep
<1> QED BY InitType, NextType, BackAlways, <1>1, PTL DEF Spec, ConfirmedKept

----------------------------------------------------------------------------
(* What a pass that returned without error left behind.  Its consumer went through
   a synced close: from then on the image's data is durable, nothing is written to
   the image, and the map in memory reaches the file before the consumer is done. *)

AtWork == {"idle", "write", "sync", "record", "closing"}
Failing(p) == pc[p] \in {"failed", "doneErr"} \/ site[p] = "drop"
UnusedInv ==
    \A p \in Passes : pc[p] = "none" => site[p] = "apply" /\ ~dirty[p] /\ ~disowned[p]
ClosingInv ==
    prod \in {"reading", "finishing"} =>
        /\ Failing(cur) \/ ~disowned[cur]
        /\ dirty[cur] \/ disowned[cur] \/ FinishedIn(cur) \subseteq Finished(saved)
        /\ site[cur] = "close" => FinishedIn(cur) \subseteq stable
        /\ pc[cur] \in AtWork => site[cur] = "apply"
        /\ pc[cur] = "doneOk" => site[cur] = "close" /\ ~dirty[cur]
DoneInv == ClosedDurable /\ (prod # "idle" => ~res.ok)
DurableInv == UnusedInv /\ ClosingInv /\ DoneInv

LEMMA InitDurable == Init => DurableInv
  BY DEF Init, DurableInv, UnusedInv, ClosingInv, DoneInv, ClosedDurable, NoResult

\* A pass spawned over the map it loaded has nothing to write back yet.
LEMMA SpawnDurable ==
    ASSUME TypeInv, DurableInv, NEW p \in Passes, NEW blocks, cur' = p, Spawn(p, blocks),
           pc[p] = "none", UNCHANGED <<site, dirty, disowned>>, saved' = mem'[p],
           saved' # NoMap, ~res'.ok
    PROVE  DurableInv'
<1>1. pc' \in [Passes -> Labels \cup {"idle"}] /\ pc'[p] = "idle"
      /\ \A q \in Passes : q # p => pc'[q] = pc[q]
  BY Typing DEF Spawn
<1>2. UnusedInv'
  BY <1>1 DEF DurableInv, UnusedInv
<1>3. site[p] = "apply" /\ ~dirty[p] /\ ~disowned[p]
  BY DEF DurableInv, UnusedInv
<1>4. FinishedIn(p)' \subseteq Finished(saved')
  BY DEF FinishedIn, Finished
<1>5. ClosingInv'
  BY <1>1, <1>3, <1>4 DEF ClosingInv, Failing
<1>6. DoneInv'
  BY DEF DoneInv, ClosedDurable
<1> QED BY <1>2, <1>5, <1>6 DEF DurableInv

LEMMA OpenDurable ==
    ASSUME TypeInv, BackInv, DurableInv, Open
    PROVE  DurableInv'
<1>0. AloneInv /\ OpeningInv /\ UnusedInv /\ DoneInv
  BY DEF BackInv, DurableInv
<1>1. CASE StartSweep \/ Unlink \/ OpenMap \/ CreateMap \/ OpenFail
  <2>1. UNCHANGED <<pc, site, dirty, disowned>> /\ prod' \notin {"reading", "finishing"}
    BY <1>1 DEF StartSweep, Unlink, OpenMap, CreateMap, OpenFail, sinkVars
  <2>2. ~res'.ok
    BY <1>0, <1>1 DEF StartSweep, Begin, NoResult, Unlink, OpenMap, CreateMap, OpenFail, DoneInv,
                      Opening
  <2> QED BY <1>0, <2>1, <2>2 DEF DurableInv, UnusedInv, ClosingInv, DoneInv, ClosedDurable
<1>2. CASE OpenImage \/ SetLen
  <2>1. /\ cur \in Passes /\ pc[cur] = "none" /\ saved = mem[cur] /\ saved # NoMap
        /\ ~res.ok
    BY <1>0, <1>2, Typing DEF OpenImage, SetLen, AloneInv, OpeningInv, DoneInv, Opening
  <2>2. UNCHANGED <<cur, saved, mem, res, site, dirty, disowned>>
    BY <1>2 DEF OpenImage, SetLen, mapVars
  <2>3. CASE Spawn(cur, With(mem[cur], {"NonTried"}))
    BY <2>1, <2>2, <2>3, SpawnDurable
  <2>4. CASE ~Spawn(cur, With(mem[cur], {"NonTried"}))
    <3>1. UNCHANGED pc /\ prod' = "setlen"
      BY <1>2, <2>4 DEF OpenImage, SetLen
    <3> QED BY <1>0, <2>1, <2>2, <3>1 DEF DurableInv, UnusedInv, ClosingInv, DoneInv, ClosedDurable
  <2> QED BY <2>3, <2>4
<1>3. CASE StartPatch
  <2>1. cur' \in Passes /\ pc[cur'] = "none" /\ ~res'.ok
    BY <1>3, BeginAlone DEF StartPatch, Begin, NoResult
  <2>2. mem'[cur'] = saved /\ saved # NoMap /\ UNCHANGED <<saved, site, dirty, disowned>>
    BY <1>3, <2>1, TypeParts DEF StartPatch, mapVars, HandsOK
  <2>3. PICK p \in Passes : p = cur'
    BY <2>1
  <2> QED BY <1>3, <2>1, <2>2, <2>3, SpawnDurable DEF StartPatch
<1> QED BY <1>1, <1>2, <1>3 DEF Open

LEMMA ProducerDurable ==
    ASSUME ~CanAbandon, TypeInv, BackInv, DurableInv, Read \/ Teardown
    PROVE  DurableInv'
<1>0. UnusedInv /\ ClosingInv /\ DoneInv /\ WorkInv
  BY DEF DurableInv, BackInv
<1>1. CASE Read
  <2>1. /\ UNCHANGED <<pc, site, dirty, disowned, mem, saved, stable, cur, res>>
        /\ prod = "reading" /\ prod' \in {"reading", "finishing"}
    BY <1>1 DEF Read, Produce, DoneReading, HaltSeen, Abort, ConsumerGone, Stall, EndReading,
                imageVars, mapVars, sinkVars
  <2> QED BY <1>0, <2>1 DEF DurableInv, UnusedInv, ClosingInv, DoneInv, ClosedDurable, Failing,
                            FinishedIn
<1>2. CASE Join
  <2>1. /\ UNCHANGED <<pc, site, dirty, mem, saved, stable, cur>>
        /\ prod = "finishing" /\ prod' = "idle" /\ pc[cur] \in Ended
        /\ res'.ok => pc[cur] = "doneOk"
    BY <1>2 DEF Join, imageVars, mapVars
  <2>2. UnusedInv'
    <3>1. \A p \in Passes : pc[p] = "none" => p # cur
      BY <2>1 DEF Ended
    <3>2. \A p \in Passes : p # cur => disowned'[p] = disowned[p]
      BY <1>2, Typing DEF Join
    <3> QED BY <1>0, <2>1, <3>1, <3>2 DEF UnusedInv
  <2>3. res'.ok => FinishedIn(cur) \subseteq Finished(saved) /\ Finished(saved) \subseteq stable
    BY <1>0, <2>1 DEF ClosingInv, WorkInv, Failing
  <2>4. ClosingInv' /\ DoneInv'
    BY <2>1, <2>3 DEF ClosingInv, DoneInv, ClosedDurable, FinishedIn
  <2> QED BY <2>2, <2>4 DEF DurableInv
<1> QED BY <1>1, <1>2 DEF Teardown, Abandon

LEMMA OutsideDurable ==
    ASSUME TypeInv, BackInv, DurableInv,
           (\E p \in Passes : Tick(p)) \/ Stop \/ Kill \/ CutImage \/ Promote
    PROVE  DurableInv'
<1>0. UnusedInv /\ ClosingInv /\ DoneInv
  BY DEF DurableInv
<1>1. CASE (\E p \in Passes : Tick(p)) \/ Stop
  <2>1. UNCHANGED <<pc, site, dirty, disowned, mem, saved, stable, cur, prod, res>>
    BY <1>1 DEF Tick, Stop, imageVars, mapVars, prodVars, sinkVars
  <2> QED BY <1>0, <2>1 DEF DurableInv, UnusedInv, ClosingInv, DoneInv, ClosedDurable, Failing,
                            FinishedIn
<1>2. CASE Kill
  BY <1>0, <1>2 DEF Kill, DurableInv, UnusedInv, ClosingInv, DoneInv, ClosedDurable, NoResult
<1>3. CASE CutImage
  BY <1>0, <1>3 DEF CutImage, sinkVars, DurableInv, UnusedInv, ClosingInv, DoneInv,
                    ClosedDurable, NoResult
<1>4. CASE Promote
  <2>1. saved \in Maps /\ saved' \in Maps
    BY <1>4, TypeParts DEF Promote, MapOK, Maps, Status, Damage
  <2>2. With(saved', {"Finished"}) = With(saved, {"Finished"})
    BY <1>4 DEF Promote, With
  <2>3. Finished(saved') = Finished(saved)
    BY <2>1, <2>2, FinishedParts
  <2>4. UNCHANGED <<pc, site, dirty, disowned, mem, stable, cur, prod, res>> /\ prod = "idle"
    BY <1>4 DEF Promote, imageVars, prodVars, sinkVars
  <2> QED BY <1>0, <2>3, <2>4 DEF DurableInv, UnusedInv, ClosingInv, DoneInv, ClosedDurable
<1> QED BY <1>1, <1>2, <1>3, <1>4

LEMMA ConsumerDurable ==
    ASSUME TypeInv, BackInv, DurableInv, NEW p \in Passes, Consume(p)
    PROVE  DurableInv'
<1>0. UnusedInv /\ ClosingInv /\ DoneInv /\ AloneInv /\ WorkInv
  BY DEF DurableInv, BackInv
<1>1. p = cur /\ prod \in {"reading", "finishing"} /\ pc[p] # "none"
  BY <1>0 DEF Consume, Take, Write, WriteFail, FillStopped, Sync, Record, Acquire, TmpDone, Rename,
              DropSink, Close, AloneInv, Live, Ended
<1>2. UNCHANGED <<cur, prod, res>> /\ ~res.ok
  BY <1>0, <1>1, ConsumerFrame DEF prodVars, DoneInv
<1>3. /\ Failing(p) \/ ~disowned[p]
      /\ dirty[p] \/ disowned[p] \/ FinishedIn(p) \subseteq Finished(saved)
      /\ site[p] = "close" => FinishedIn(p) \subseteq stable
      /\ pc[p] \in AtWork => site[p] = "apply"
      /\ pc[p] = "doneOk" => site[p] = "close" /\ ~dirty[p]
      /\ FinishedIn(p) \subseteq held
  BY <1>0, <1>1 DEF ClosingInv, WorkInv
<1>4. /\ pc \in [Passes -> Labels] /\ site \in [Passes -> {"apply", "close", "drop"}]
      /\ dirty \in [Passes -> BOOLEAN] /\ disowned \in [Passes -> BOOLEAN]
      /\ mem \in [Passes -> Maps]
  BY TypeParts DEF SinkOK, HandsOK
<1>5. ASSUME pc'[p] # "none",
             \A q \in Passes : q # p => /\ pc'[q] = pc[q] /\ site'[q] = site[q]
                                       /\ dirty'[q] = dirty[q] /\ disowned'[q] = disowned[q],
             Failing(p)' \/ ~disowned'[p],
             dirty'[p] \/ disowned'[p] \/ FinishedIn(p)' \subseteq Finished(saved'),
             site'[p] = "close" => FinishedIn(p)' \subseteq stable',
             pc'[p] \in AtWork => site'[p] = "apply",
             pc'[p] = "doneOk" => site'[p] = "close" /\ ~dirty'[p]
      PROVE  DurableInv'
  <2>1. UnusedInv'
    BY <1>0, <1>5 DEF UnusedInv
  <2>2. ClosingInv' /\ DoneInv'
    BY <1>1, <1>2, <1>5 DEF ClosingInv, DoneInv, ClosedDurable
  <2> QED BY <2>1, <2>2 DEF DurableInv
<1>6. CASE Take(p) \/ Close(p)
  <2>1. /\ UNCHANGED <<site, dirty, disowned, mem, saved, stable>>
        /\ pc[p] = "idle" /\ pc'[p] \in {"closing", "record", "write"}
        /\ \A q \in Passes : q # p => pc'[q] = pc[q]
    BY <1>4, <1>6 DEF Take, Close, Goto, imageVars, mapVars
  <2> QED BY <1>3, <1>5, <2>1 DEF Failing, FinishedIn, AtWork
<1>7. CASE Write(p)
  <2>1. /\ UNCHANGED <<site, dirty, disowned, mem, saved>>
        /\ pc[p] = "write" /\ pc'[p] \in {"sync", "record"}
        /\ \A q \in Passes : q # p => pc'[q] = pc[q]
    BY <1>4, <1>7 DEF Write, Goto, mapVars
  <2> QED BY <1>3, <1>5, <2>1 DEF Failing, FinishedIn, AtWork
<1>8. CASE WriteFail(p) \/ FillStopped(p)
  <2>1. /\ UNCHANGED <<site, dirty, mem, saved>> /\ pc[p] = "write"
        /\ \A q \in Passes : q # p => pc'[q] = pc[q] /\ disowned'[q] = disowned[q]
        /\ pc'[p] = "failed" \/ (pc'[p] = "closing" /\ disowned[p])
    BY <1>4, <1>8 DEF WriteFail, FillStopped, Goto, Disown, mapVars
  <2>2. disowned'[p]
    BY <1>4, <1>8 DEF WriteFail, FillStopped, Disown
  <2> QED BY <1>3, <1>5, <2>1, <2>2 DEF Failing, FinishedIn, AtWork
<1>9. CASE Sync(p)
  <2>1. /\ UNCHANGED <<dirty, mem, saved, held>> /\ pc[p] \in {"sync", "closing"}
        /\ \A q \in Passes : q # p => /\ pc'[q] = pc[q] /\ site'[q] = site[q]
                                      /\ disowned'[q] = disowned[q]
    BY <1>4, <1>9 DEF Sync, Goto, Disown, mapVars
  <2>2. \/ pc'[p] = "record" /\ UNCHANGED <<site, disowned>>
        \/ /\ pc'[p] = IF dirty[p] THEN "persist" ELSE "doneOk"
           /\ site'[p] = "close" /\ stable' = held /\ UNCHANGED disowned
        \/ pc'[p] = "failed" /\ disowned'[p] /\ UNCHANGED site
    BY <1>4, <1>9 DEF Sync, Goto, Disown
  <2>3. FinishedIn(p)' = FinishedIn(p)
    BY <2>1 DEF FinishedIn
  <2>4. site[p] = "apply" /\ ~disowned[p]
    BY <1>3, <2>1 DEF Failing, AtWork
  <2>5. CASE pc'[p] = "failed" /\ disowned'[p] /\ UNCHANGED site
    BY <1>5, <2>1, <2>4, <2>5 DEF Failing, AtWork
  <2>6. CASE pc'[p] = "record" /\ UNCHANGED <<site, disowned>>
    BY <1>3, <1>5, <2>1, <2>3, <2>4, <2>6 DEF AtWork
  <2>7. CASE /\ pc'[p] = IF dirty[p] THEN "persist" ELSE "doneOk"
             /\ site'[p] = "close" /\ stable' = held /\ UNCHANGED disowned
    <3>1. pc'[p] = "persist" \/ (pc'[p] = "doneOk" /\ ~dirty'[p])
      BY <2>1, <2>7
    <3> QED BY <1>3, <1>5, <2>1, <2>3, <2>4, <2>7, <3>1 DEF AtWork
  <2> QED BY <2>2, <2>5, <2>6, <2>7
<1>10. CASE Record(p)
  <2>1. /\ UNCHANGED <<site, disowned, saved>> /\ pc[p] = "record" /\ dirty'[p]
        /\ pc'[p] \in {"persist", "idle"}
        /\ \A q \in Passes : q # p => pc'[q] = pc[q] /\ dirty'[q] = dirty[q]
    BY <1>4, <1>10 DEF Record, Goto, mapVars
  <2> QED BY <1>3, <1>5, <2>1 DEF Failing, AtWork
<1>11. CASE Acquire(p) \/ TmpDone(p) \/ Rename(p)
  <2>1. /\ UNCHANGED <<site, disowned, mem, stable>> /\ pc[p] \in {"persist", "tmp", "rename"}
        /\ \A q \in Passes : q # p => pc'[q] = pc[q] /\ dirty'[q] = dirty[q]
    BY <1>4, <1>11 DEF Acquire, TmpDone, Rename, Written, NotWritten, Goto, imageVars
  <2>2. FinishedIn(p)' = FinishedIn(p)
    BY <2>1 DEF FinishedIn
  <2>3. ASSUME Written(p), (saved' = saved /\ disowned[p]) \/ saved' = mem[p]
        PROVE  DurableInv'
    <3>1. pc'[p] = IF site[p] = "apply" THEN "idle"
                   ELSE IF site[p] = "close" THEN "doneOk" ELSE "doneErr"
      BY <1>4, <2>3 DEF Written, Goto
    <3>2. ~dirty'[p]
      BY <1>4, <2>3 DEF Written
    <3>3. disowned[p] \/ FinishedIn(p)' \subseteq Finished(saved')
      BY <1>4, <2>2, <2>3, FinishedParts DEF FinishedIn
    <3> QED BY <1>3, <1>4, <1>5, <2>1, <2>2, <3>1, <3>2, <3>3 DEF Failing, AtWork
  <2>4. ASSUME pc'[p] \in {"tmp", "rename", "failed"} \/ (pc'[p] = "doneErr" /\ site[p] = "drop"),
               UNCHANGED <<saved, dirty>>
        PROVE  DurableInv'
    BY <1>3, <1>5, <2>1, <2>2, <2>4 DEF Failing, AtWork
  <2>5. CASE Acquire(p)
    BY <1>4, <2>3, <2>4, <2>5 DEF Acquire, Goto
  <2>6. CASE TmpDone(p)
    BY <1>4, <2>3, <2>4, <2>6 DEF TmpDone, NotWritten, Goto
  <2>7. CASE Rename(p)
    BY <1>4, <2>3, <2>4, <2>7 DEF Rename, NotWritten, Goto
  <2> QED BY <1>11, <2>5, <2>6, <2>7
<1>12. CASE DropSink(p)
  <2>1. /\ UNCHANGED <<dirty, disowned, mem, saved, stable>> /\ site'[p] = "drop"
        /\ pc'[p] \in {"persist", "doneErr"}
        /\ \A q \in Passes : q # p => pc'[q] = pc[q] /\ site'[q] = site[q]
    BY <1>4, <1>12 DEF DropSink, Goto, imageVars, mapVars
  <2> QED BY <1>3, <1>5, <2>1 DEF Failing, FinishedIn, AtWork
<1> QED BY <1>6, <1>7, <1>8, <1>9, <1>10, <1>11, <1>12 DEF Consume

LEMMA NextDurable ==
    ASSUME ~CanAbandon
    PROVE  TypeInv /\ BackInv /\ DurableInv /\ [Next]_vars => DurableInv'
<1> SUFFICES ASSUME TypeInv, BackInv, DurableInv, [Next]_vars
             PROVE  DurableInv'
  OBVIOUS
<1>1. CASE UNCHANGED vars
  BY <1>1 DEF vars, imageVars, mapVars, prodVars, sinkVars, DurableInv, UnusedInv, ClosingInv,
              DoneInv, ClosedDurable, Failing, FinishedIn
<1>2. CASE Next
  BY <1>2, OpenDurable, ProducerDurable, ConsumerDurable, OutsideDurable DEF Next
<1> QED BY <1>1, <1>2

\* There a pass that returns without error has its whole record in the mapfile, and
\* every block the mapfile calls Finished would outlive a power loss.
THEOREM ClosedDurableAlways ==
    ASSUME ~CanAbandon
    PROVE  Spec => []ClosedDurable
<1>1. DurableInv => ClosedDurable
  BY DEF DurableInv, DoneInv
<1>2. TypeInv /\ BackInv /\ DurableInv /\ [Next]_vars => DurableInv'
  BY NextDurable
<1> QED BY InitType, NextType, BackAlways, InitDurable, <1>1, <1>2, PTL DEF Spec
============================================================================
