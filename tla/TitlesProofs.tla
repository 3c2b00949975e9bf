---------------------------- MODULE TitlesProofs ----------------------------
(* Theorems about Titles, for every selection of titles and number of reports. *)
EXTENDS Titles, TLAPS

----------------------------------------------------------------------------
(* The inductive invariant. *)

Starting == {"askKeys", "keys", "keysJoin"}
AtTitle == {"ask", "mux", "muxJoin", "muxDone", "remove", "decide"}

\* A Stop that was read is remembered, and a token is cancelled by none other.
StopInv == (told => seen) /\ (token => told) /\ (result = "halt" => told)

\* The round that ends a watcher began when the mux had ended: what the mux had
\* opened by then, the watch has noted.
HelperInv ==
    /\ last => done
    /\ done => pc \in Joins
    /\ pc = "mux" => helper \in Watching
    /\ sent["opened"] = 1 /\ helper = "bytes" /\ last => noted
    /\ sent["opened"] = 1 /\ helper = "gone" /\ pc = "muxJoin" => noted

\* How the work at hand ended.
ResultInv ==
    /\ pc = "keysJoin" => result \in {"ok", "halt", "noKey", "failed", "panic"}
    /\ pc \in {"muxJoin", "muxDone"} => result \in Results /\ result = ended[n]
    /\ pc = "muxDone" => result # "panic"
    /\ pc \in {"remove", "decide"} =>
          /\ result \in {"ok", "halt", "noKey", "stub", "failed"}
          /\ result = ended[n] \/ (ended[n] = "incomplete" /\ result \in {"failed", "halt"})
    /\ pc = "remove" => result # "ok"

\* A title that was gone past without being written.
Skipped(t) ==
    \/ /\ ended[t] = "stub" /\ asked.titles[t] # 0
       /\ ~asked.explicit /\ Len(asked.titles) > 1
    \/ asked.keepGoing /\ failure /\ ended[t] \in {"stub", "failed", "incomplete"}

\* How far the loop has come.
LoopInv ==
    /\ pc \in AtTitle => n \in Places
    /\ pc \in Starting => n = 1 /\ \A t \in Places : ended[t] = "none"
    /\ \A t \in written : t < n /\ ended[t] = "ok"
    /\ \A t \in Places : t < n /\ t \notin written => Skipped(t)
    /\ failure => asked.keepGoing
    /\ pc # "returned" => outcome = "none"

\* What a mux left is the title at hand's, and the watch knows of it.
FileInv ==
    /\ \A t \in Places : file[t] = "ours" =>
          t \in written \/ (t = n /\ pc \in {"mux", "muxJoin", "muxDone", "remove", "decide", "panicked"})
    /\ pc \in {"mux", "muxJoin"} /\ file[n] = "ours" => sent["opened"] = 1
    /\ pc = "muxDone" /\ file[n] = "ours" => noted
    /\ pc = "decide" /\ file[n] = "ours" => result = "ok"

IInv == TypeOK /\ StopInv /\ HelperInv /\ ResultInv /\ LoopInv /\ OutcomeTrue /\ FileInv

----------------------------------------------------------------------------
(* Facts every step needs. *)

LEMMA AskedFacts ==
    ASSUME asked \in Runs
    PROVE  /\ asked.titles \in Seq(Nat) /\ Len(asked.titles) \in Nat
           /\ Places = 1..Len(asked.titles)
           /\ asked.explicit \in BOOLEAN /\ asked.keepGoing \in BOOLEAN
BY SelectionsAssumption DEF Runs, Places

LEMMA TypeFacts ==
    ASSUME IInv
    PROVE  /\ asked \in Runs /\ Places = 1..Len(asked.titles) /\ Len(asked.titles) \in Nat
           /\ pc \in Labels /\ n \in Nat /\ n >= 1 /\ n <= Len(asked.titles) + 1
           /\ written \subseteq Places /\ failure \in BOOLEAN /\ outcome \in Outcomes \cup {"none"}
           /\ op \in BOOLEAN /\ asks \in BOOLEAN /\ seen \in BOOLEAN /\ told \in BOOLEAN
           /\ token \in BOOLEAN /\ done \in BOOLEAN /\ last \in BOOLEAN /\ noted \in BOOLEAN
           /\ sent \in [Kinds -> 0..MaxReports + 1] /\ heard \in [Kinds -> 0..MaxReports + 1]
           /\ result \in Results \cup {"none"}
           /\ file \in [Places -> {"none", "other", "ours", "nameless"}]
           /\ ended \in [Places -> Results \cup {"none"}]
<1>1. asked \in Runs /\ n \in 1..Len(asked.titles) + 1
  BY DEF IInv, TypeOK
<1>2. Places = 1..Len(asked.titles) /\ Len(asked.titles) \in Nat
  BY <1>1, AskedFacts
<1>3. n \in Nat /\ n >= 1 /\ n <= Len(asked.titles) + 1
  BY <1>1, <1>2
<1>4. /\ op \in BOOLEAN /\ asks \in BOOLEAN /\ seen \in BOOLEAN /\ told \in BOOLEAN
      /\ token \in BOOLEAN /\ done \in BOOLEAN /\ last \in BOOLEAN /\ noted \in BOOLEAN
  BY DEF IInv, TypeOK
<1> QED BY <1>1, <1>2, <1>3, <1>4 DEF IInv, TypeOK

LEMMA InvFacts ==
    ASSUME IInv
    PROVE TypeOK /\ StopInv /\ HelperInv /\ ResultInv /\ LoopInv /\ OutcomeTrue /\ FileInv
BY DEF IInv

LEMMA ReportFacts == Kinds = {"opened", "bytes"} /\ MaxReports \in Nat /\ 0 \in 0..MaxReports + 1 /\ 1 \in 0..MaxReports + 1
                     /\ Limit \in [Kinds -> 0..MaxReports + 1] /\ Limit["opened"] = 1
                     /\ Limit["bytes"] = MaxReports
                     /\ Silent \in [Kinds -> 0..MaxReports + 1] /\ \A k \in Kinds : Silent[k] = 0
BY MaxReportsAssumption DEF Limit, Silent, Kinds

\* The Stop as it is read: what was read before is read again.
LEMMA ProbeFacts ==
    ASSUME IInv, NEW cancelled \in BOOLEAN, Probe(cancelled)
    PROVE  /\ UNCHANGED <<op, asks>> /\ seen' \in BOOLEAN /\ told' \in BOOLEAN
           /\ told => cancelled /\ told'
           /\ cancelled => told'
           /\ told' => cancelled
           /\ told' => seen'
<1>1. told => seen
  BY InvFacts DEF StopInv
<1>2. /\ cancelled = Sticky /\ seen' = (seen \/ cancelled) /\ told' = (told \/ cancelled)
      /\ UNCHANGED <<op, asks>>
  BY DEF Probe
<1> QED BY <1>1, <1>2, TypeFacts DEF Sticky

\* The places where the work at hand leaves the loop and the files alone.
LEMMA LoopKept ==
    ASSUME IInv, UNCHANGED <<asked, n, written, failure, outcome, ended>>,
           pc' \in AtTitle => pc \in AtTitle, pc' \in Starting => pc \in Starting,
           pc' # "returned" => pc # "returned"
    PROVE  LoopInv'
<1>1. Places' = Places /\ \A t \in Places : Skipped(t) => Skipped(t)'
  BY DEF Places, Skipped
<1> QED BY <1>1, InvFacts DEF LoopInv

LEMMA OutcomeKept ==
    ASSUME IInv, UNCHANGED <<asked, n, written, outcome, ended>>, told => told'
    PROVE  OutcomeTrue'
<1>1. Places' = Places
  BY DEF Places
<1> QED BY <1>1, InvFacts DEF OutcomeTrue

LEMMA TypeIs ==
    ASSUME IInv, UNCHANGED <<asked, n, written, failure, outcome, file, ended>>,
           pc' \in Labels, op' \in BOOLEAN, asks' \in BOOLEAN, seen' \in BOOLEAN, told' \in BOOLEAN,
           token' \in BOOLEAN, done' \in BOOLEAN, last' \in BOOLEAN, noted' \in BOOLEAN,
           helper' \in Watching \cup Bridging \cup {"none", "gone"},
           sent' \in [Kinds -> 0..MaxReports + 1], heard' \in [Kinds -> 0..MaxReports + 1],
           \A k \in Kinds : heard'[k] <= sent'[k] /\ sent'[k] <= Limit[k],
           result' \in Results \cup {"none"},
           helper' \in Bridging => pc' \in {"keys", "keysJoin"},
           helper' \in Watching => pc' \in {"mux", "muxJoin"}
    PROVE  TypeOK'
<1>1. {op', asks', seen', told', token', done', last', noted'} \subseteq BOOLEAN
  OBVIOUS
<1>2. failure' \in BOOLEAN
  BY TypeFacts
<1> QED BY <1>1, <1>2, InvFacts DEF TypeOK, Places

----------------------------------------------------------------------------
(* The Stop, from outside. *)

\* Nothing of the run changes.
LEMMA OutsideInv ==
    ASSUME IInv, UNCHANGED <<asked, pc, n, written, failure, outcome, seen, told, token, done, helper,
                             last, sent, heard, noted, result, file, ended>>,
           op' \in BOOLEAN, asks' \in BOOLEAN
    PROVE  IInv'
<1>1. TypeOK'
  BY TypeFacts, TypeIs, InvFacts DEF TypeOK
<1>2. StopInv' /\ HelperInv' /\ ResultInv'
  BY InvFacts DEF StopInv, HelperInv, ResultInv
<1>3. LoopInv' /\ OutcomeTrue'
  BY LoopKept, OutcomeKept
<1>4. FileInv'
  BY InvFacts DEF FileInv, Places
<1> QED BY <1>1, <1>2, <1>3, <1>4 DEF IInv

LEMMA StopOpInv == ASSUME IInv, StopOp PROVE IInv'
BY TypeFacts, OutsideInv DEF StopOp, loop, work, watch, disc

LEMMA SinkAsksInv == ASSUME IInv, SinkAsks PROVE IInv'
BY TypeFacts, OutsideInv DEF SinkAsks, loop, work, watch, disc

LEMMA StutterInv == ASSUME IInv, UNCHANGED vars PROVE IInv'
BY TypeFacts, OutsideInv DEF vars, loop, stop, work, watch, disc

----------------------------------------------------------------------------
(* Work that begins, and ends. *)

LEMMA BeginInv ==
    ASSUME IInv, NEW cancelled \in BOOLEAN, Probe(cancelled),
           UNCHANGED <<asked, n, written, failure, outcome, file, ended>>,
           token' = cancelled, done' = FALSE, result' = "none", sent' = Silent, heard' = Silent,
           last' = FALSE, noted' = FALSE,
           \/ pc = "askKeys" /\ pc' = "keys" /\ helper' = "bridge"
           \/ pc = "ask" /\ pc' = "mux" /\ helper' = "look"
    PROVE  IInv'
<1>1. TypeOK'
  <2>1. \A k \in Kinds : heard'[k] <= sent'[k] /\ sent'[k] <= Limit[k]
    BY ReportFacts
  <2>2. pc' \in Labels /\ helper' \in Watching \cup Bridging \cup {"none", "gone"}
    BY DEF Labels, Watching, Bridging
  <2>3. /\ helper' \in Bridging => pc' \in {"keys", "keysJoin"}
        /\ helper' \in Watching => pc' \in {"mux", "muxJoin"}
    BY DEF Watching, Bridging
  <2>4. op' \in BOOLEAN /\ asks' \in BOOLEAN /\ seen' \in BOOLEAN /\ told' \in BOOLEAN
    BY ProbeFacts, TypeFacts
  <2> QED BY <2>1, <2>2, <2>3, <2>4, TypeIs, ReportFacts
<1>2. StopInv'
  BY ProbeFacts DEF StopInv
<1>3. HelperInv' /\ ResultInv'
  BY DEF HelperInv, ResultInv, Watching
<1>4. LoopInv' /\ OutcomeTrue'
  BY ProbeFacts, LoopKept, OutcomeKept DEF AtTitle, Starting
<1>5. FileInv'
  <2>1. \A t \in Places : file[t] = "ours" => t \in written
    BY InvFacts DEF FileInv
  <2>2. n \notin written
    BY InvFacts, TypeFacts DEF LoopInv
  <2>3. pc = "ask" => n \in Places
    BY InvFacts DEF LoopInv, AtTitle
  <2> QED BY <2>1, <2>2, <2>3 DEF FileInv, Places
<1> QED BY <1>1, <1>2, <1>3, <1>4, <1>5 DEF IInv

LEMMA AskKeysInv == ASSUME IInv, AskKeys PROVE IInv'
BY BeginInv DEF AskKeys, Begin, AskedFirst, loop, disc

LEMMA StartMuxInv == ASSUME IInv, StartMux PROVE IInv'
BY BeginInv DEF StartMux, Begin, AskedFirst, loop, disc

LEMMA KeysEndInv == ASSUME IInv, NEW how \in Results, KeysEnd(how) PROVE IInv'
<1>0. /\ pc = "keys" /\ pc' = "keysJoin" /\ done' = TRUE /\ result' = how
      /\ how \in {"ok", "halt", "noKey", "failed", "panic"} /\ (how = "halt" => token)
      /\ UNCHANGED <<asked, n, written, failure, outcome, op, asks, seen, told, token, sent,
                     helper, last, heard, noted, file, ended>>
  BY DEF KeysEnd, End, Signalled, loop, stop, watch, disc
<1>1. TypeOK'
  BY <1>0, TypeFacts, TypeIs, InvFacts DEF TypeOK, Labels, Joins
<1>2. StopInv'
  BY <1>0, InvFacts DEF StopInv
<1>3. HelperInv'
  BY <1>0, InvFacts DEF HelperInv, Joins
<1>4. ResultInv'
  BY <1>0 DEF ResultInv
<1>5. LoopInv' /\ OutcomeTrue'
  BY <1>0, LoopKept, OutcomeKept DEF AtTitle, Starting
<1>6. FileInv'
  BY <1>0, InvFacts DEF FileInv, Places
<1> QED BY <1>1, <1>2, <1>3, <1>4, <1>5, <1>6 DEF IInv

LEMMA MuxEndsInv == ASSUME IInv, NEW how \in Results, MuxEnds(how) PROVE IInv'
<1>0. /\ pc = "mux" /\ pc' = "muxJoin" /\ done' = TRUE /\ result' = how
      /\ (how = "halt" => token)
      /\ ended' = [ended EXCEPT ![n] = how]
      /\ UNCHANGED <<asked, n, written, failure, outcome, op, asks, seen, told, token, sent,
                     helper, last, heard, noted, file>>
  BY DEF MuxEnds, End, Signalled, loop, stop, watch
<1>1. n \in Places /\ helper \in Watching /\ Places' = Places
  BY <1>0, InvFacts DEF LoopInv, AtTitle, HelperInv, Places
<1>2. ended' \in [Places -> Results \cup {"none"}] /\ ended'[n] = how
      /\ \A t \in Places : t # n => ended'[t] = ended[t]
  BY <1>0, <1>1, TypeFacts
<1>3. TypeOK'
  <2>1. {op', asks', seen', told', token', done', last', noted'} \subseteq BOOLEAN
    BY <1>0, TypeFacts
  <2> QED BY <1>0, <1>1, <1>2, <2>1, InvFacts DEF TypeOK, Labels, Joins
<1>4. StopInv'
  BY <1>0, InvFacts DEF StopInv
<1>5. HelperInv'
  BY <1>0, <1>1, InvFacts DEF HelperInv, Joins, Watching
<1>6. ResultInv'
  BY <1>0, <1>2 DEF ResultInv
<1>7. n \notin written
  BY InvFacts, TypeFacts DEF LoopInv
<1>8. LoopInv'
  <2>1. \A t \in Places : t < n /\ t \notin written => Skipped(t)'
    BY <1>0, <1>2, TypeFacts, InvFacts DEF LoopInv, Skipped
  <2> QED BY <1>0, <1>1, <1>2, <1>7, <2>1, TypeFacts, InvFacts DEF LoopInv, AtTitle, Starting
<1>9. OutcomeTrue'
  <2>1. outcome = "none" /\ \A t \in written : ended[t] = "ok"
    BY <1>0, InvFacts DEF LoopInv
  <2> QED BY <1>0, <1>2, <1>7, <2>1, TypeFacts DEF OutcomeTrue
<1>10. FileInv'
  BY <1>0, <1>1, InvFacts DEF FileInv
<1> QED BY <1>3, <1>4, <1>5, <1>6, <1>8, <1>9, <1>10 DEF IInv

\* The keys are there, or the run is over before any output.
LEMMA KeysJoinInv == ASSUME IInv, KeysJoin PROVE IInv'
<1>0. /\ pc = "keysJoin" /\ token' = FALSE /\ done' = FALSE /\ sent' = Silent /\ heard' = Silent
      /\ helper' = "none" /\ last' = FALSE
      /\ UNCHANGED <<asked, n, written, failure, op, asks, seen, told, result, noted, file, ended>>
      /\ \/ pc' = "panicked" /\ outcome' = outcome
         \/ result = "ok" /\ pc' = "loop" /\ outcome' = outcome
         \/ result \notin {"ok", "panic"} /\ pc' = "returned" /\ outcome' = Verdict(result)
  BY DEF KeysJoin, Gone, Return, stop, disc
<1>1. result \in {"ok", "halt", "noKey", "failed", "panic"} /\ outcome = "none"
  BY <1>0, InvFacts DEF ResultInv, LoopInv
<1>2. outcome' \in Outcomes \cup {"none"} /\ pc' \in Labels
  BY <1>0, <1>1 DEF Verdict, Outcomes, Labels, Over
<1>3. TypeOK'
  <2>1. \A k \in Kinds : heard'[k] <= sent'[k] /\ sent'[k] <= Limit[k]
    BY <1>0, ReportFacts
  <2>2. sent' \in [Kinds -> 0..MaxReports + 1] /\ heard' \in [Kinds -> 0..MaxReports + 1]
    BY <1>0, ReportFacts
  <2>3. {op', asks', seen', told', token', done', last', noted'} \subseteq BOOLEAN
    BY <1>0, TypeFacts
  <2>4. failure' \in BOOLEAN
    BY <1>0, TypeFacts
  <2> QED BY <1>0, <1>2, <2>1, <2>2, <2>3, <2>4, InvFacts DEF TypeOK, Places, Watching, Bridging
<1>4. StopInv'
  BY <1>0, InvFacts DEF StopInv
<1>5. HelperInv' /\ ResultInv'
  BY <1>0 DEF HelperInv, ResultInv
<1>6. n = 1 /\ \A t \in Places : ended[t] = "none"
  BY <1>0, InvFacts DEF LoopInv, Starting
<1>7. written = {}
  BY <1>6, TypeFacts, InvFacts DEF LoopInv
<1>8. LoopInv'
  <2>1. \A t \in Places : ~(t < n)
    BY <1>6, TypeFacts
  <2> QED BY <1>0, <1>1, <1>7, <2>1, InvFacts DEF LoopInv, AtTitle, Starting, Places
<1>9. OutcomeTrue'
  <2>1. result = "halt" => told
    BY InvFacts DEF StopInv
  <2> QED BY <1>0, <1>1, <1>6, <1>7, <2>1 DEF OutcomeTrue, Verdict, Places
<1>10. FileInv'
  BY <1>0, InvFacts DEF FileInv, Places
<1> QED BY <1>3, <1>4, <1>5, <1>8, <1>9, <1>10 DEF IInv

LEMMA MuxJoinInv == ASSUME IInv, MuxJoin PROVE IInv'
<1>0. /\ pc = "muxJoin" /\ token' = FALSE /\ done' = FALSE /\ sent' = Silent /\ heard' = Silent
      /\ helper = "gone" /\ helper' = "none" /\ last' = FALSE
      /\ pc' = (IF result = "panic" THEN "panicked" ELSE "muxDone")
      /\ UNCHANGED <<asked, n, written, failure, outcome, op, asks, seen, told, result, noted, file, ended>>
  BY DEF MuxJoin, Gone, Joined, loop, stop, disc
<1>1. TypeOK'
  <2>1. \A k \in Kinds : heard'[k] <= sent'[k] /\ sent'[k] <= Limit[k]
    BY <1>0, ReportFacts
  <2>2. pc' \in Labels
    BY <1>0 DEF Labels, Over
  <2> QED BY <1>0, <2>1, <2>2, TypeFacts, TypeIs, ReportFacts DEF Watching, Bridging
<1>2. StopInv'
  BY <1>0, InvFacts DEF StopInv
<1>3. HelperInv' /\ ResultInv'
  BY <1>0, InvFacts DEF HelperInv, ResultInv
<1>4. LoopInv' /\ OutcomeTrue'
  BY <1>0, LoopKept, OutcomeKept DEF AtTitle, Starting
<1>5. FileInv'
  <2>1. file[n] = "ours" => noted
    BY <1>0, InvFacts DEF FileInv, HelperInv
  <2> QED BY <1>0, <2>1, InvFacts DEF FileInv, Places
<1> QED BY <1>1, <1>2, <1>3, <1>4, <1>5 DEF IInv

----------------------------------------------------------------------------
(* The thread beside the work. *)

\* A step of the helper, which tells the work of the Stop or hears its reports.
LEMMA HelperInvKept ==
    ASSUME IInv, UNCHANGED <<asked, pc, n, written, failure, outcome, op, asks, done, sent, result, file, ended>>,
           seen' \in BOOLEAN, told' \in BOOLEAN, token' \in BOOLEAN, last' \in BOOLEAN, noted' \in BOOLEAN,
           pc # "muxDone", told => told', told' => seen', token' => told',
           helper' \in Watching \cup Bridging \cup {"none", "gone"},
           helper' \in Bridging => pc \in {"keys", "keysJoin"},
           helper' \in Watching => pc \in {"mux", "muxJoin"},
           heard' \in [Kinds -> 0..MaxReports + 1],
           \A k \in Kinds : heard'[k] <= sent[k],
           HelperInv'
    PROVE  IInv'
<1>1. TypeOK'
  BY TypeFacts, TypeIs, InvFacts DEF TypeOK
<1>2. StopInv'
  BY InvFacts DEF StopInv
<1>3. ResultInv'
  BY InvFacts DEF ResultInv
<1>4. LoopInv' /\ OutcomeTrue'
  BY LoopKept, OutcomeKept
<1> QED BY <1>1, <1>2, <1>3, <1>4, InvFacts DEF IInv, FileInv, Places

LEMMA BridgeInv == ASSUME IInv, BridgeStep PROVE IInv'
<1>0. UNCHANGED <<asked, pc, n, written, failure, outcome, done, sent, result, last, heard, noted, file, ended>>
  BY DEF BridgeStep, loop, disc
<1>1. helper \in Bridging /\ pc \in {"keys", "keysJoin"} /\ done' = done
      /\ helper' \in Bridging \cup {"gone"}
  BY <1>0, InvFacts DEF BridgeStep, Bridge, Bridging, TypeOK
<1>2. HelperInv'
  BY <1>0, <1>1, InvFacts DEF HelperInv, Bridging, Watching
<1>3. helper' \notin Watching /\ helper' \in Watching \cup Bridging \cup {"none", "gone"}
  BY <1>1 DEF Bridging, Watching
<1>4. CASE UNCHANGED <<op, asks, seen, told, token>>
  BY <1>0, <1>1, <1>2, <1>3, <1>4, TypeFacts, InvFacts, HelperInvKept DEF TypeOK, StopInv
<1>5. ASSUME NEW cancelled \in BOOLEAN, Probe(cancelled), token' = (token \/ cancelled) PROVE IInv'
  <2>1. token' \in BOOLEAN /\ (token' => told')
    BY <1>5, ProbeFacts, TypeFacts, InvFacts DEF StopInv
  <2>2. UNCHANGED <<op, asks>> /\ seen' \in BOOLEAN /\ told' \in BOOLEAN /\ (told => told') /\ (told' => seen')
    BY <1>5, ProbeFacts
  <2> QED BY <1>0, <1>1, <1>2, <1>3, <2>1, <2>2, TypeFacts, InvFacts, HelperInvKept DEF TypeOK
<1> QED BY <1>4, <1>5 DEF BridgeStep, Bridge, stop

\* A drain hears what was sent, and no more.
LEMMA Drained ==
    ASSUME IInv, NEW kind \in Kinds, heard' = [heard EXCEPT ![kind] = sent[kind]]
    PROVE  heard' \in [Kinds -> 0..MaxReports + 1] /\ \A k \in Kinds : heard'[k] <= sent[k]
<1>1. heard' \in [Kinds -> 0..MaxReports + 1]
  BY TypeFacts
<1>2. sent[kind] \in 0..MaxReports + 1 /\ MaxReports \in Nat
  BY ReportFacts, TypeFacts
<1>3. sent[kind] <= sent[kind]
  BY <1>2
<1>4. \A k \in Kinds : heard[k] <= sent[k]
  BY InvFacts DEF TypeOK
<1>5. \A k \in Kinds : heard'[k] = IF k = kind THEN sent[kind] ELSE heard[k]
  BY TypeFacts
<1> QED BY <1>1, <1>3, <1>4, <1>5

LEMMA WatcherInv == ASSUME IInv, WatcherStep PROVE IInv'
<1>0. UNCHANGED <<asked, pc, n, written, failure, outcome, done, sent, result, file, ended>>
      /\ UNCHANGED <<pc, done, sent>>
  BY DEF WatcherStep, loop, disc
<1>1. helper \in Watching /\ pc \in {"mux", "muxJoin"} /\ (last => done) /\ (done => pc \in Joins)
  BY InvFacts DEF WatcherStep, Look, DrainOpened, DrainBytes, Poll, Wake, Watching, TypeOK, HelperInv
<1>2. ASSUME NEW next, helper' = next, next \in Watching \cup {"gone"},
             UNCHANGED <<op, asks, seen, told, token>>, last' \in BOOLEAN, noted' \in BOOLEAN,
             heard' \in [Kinds -> 0..MaxReports + 1], \A k \in Kinds : heard'[k] <= sent[k], HelperInv'
      PROVE  IInv'
  <2>1. helper' \notin Bridging /\ helper' \in Watching \cup Bridging \cup {"none", "gone"}
    BY <1>2 DEF Watching, Bridging
  <2> QED BY <1>0, <1>1, <1>2, <2>1, TypeFacts, InvFacts, HelperInvKept DEF StopInv
<1>3. CASE Look
  <2>1. helper' = "opened" /\ last' = done /\ UNCHANGED <<op, asks, seen, told, token, heard, noted>>
    BY <1>3 DEF Look, stop
  <2>2. HelperInv'
    BY <1>0, <1>1, <2>1, InvFacts DEF HelperInv, Watching
  <2> QED BY <1>2, <2>1, <2>2, TypeFacts, InvFacts DEF TypeOK, Watching
<1>4. CASE DrainOpened
  <2>1. /\ helper' = "bytes" /\ UNCHANGED <<op, asks, seen, told, token, last>>
        /\ heard' = [heard EXCEPT !["opened"] = sent["opened"]]
        /\ noted' = (sent["opened"] = 1)
    BY <1>4 DEF DrainOpened, stop
  <2>2. HelperInv'
    <3>1. sent["opened"] = 1 => noted'
      BY <2>1
    <3>2. helper' = "bytes" /\ last' = last
      BY <2>1
    <3> QED BY <1>0, <1>1, <3>1, <3>2, InvFacts DEF HelperInv, Watching
  <2>3. heard' \in [Kinds -> 0..MaxReports + 1] /\ \A k \in Kinds : heard'[k] <= sent[k]
    BY <2>1, Drained DEF Kinds
  <2>4. noted' \in BOOLEAN
    BY <2>1
  <2> QED BY <1>2, <2>1, <2>2, <2>3, <2>4, TypeFacts DEF Watching
<1>5. CASE DrainBytes
  <2>1. /\ helper = "bytes" /\ helper' = (IF last THEN "gone" ELSE "poll")
        /\ UNCHANGED <<op, asks, seen, told, token, last, noted>>
        /\ heard' = [heard EXCEPT !["bytes"] = sent["bytes"]]
    BY <1>5 DEF DrainBytes, stop, LastRound
  <2>2. HelperInv'
    <3>1. CASE last
      BY <1>0, <1>1, <2>1, <3>1, InvFacts DEF HelperInv, Watching, Joins
    <3>2. CASE ~last
      BY <1>0, <1>1, <2>1, <3>2, InvFacts DEF HelperInv, Watching
    <3> QED BY <3>1, <3>2
  <2>3. heard' \in [Kinds -> 0..MaxReports + 1] /\ \A k \in Kinds : heard'[k] <= sent[k]
    BY <2>1, Drained DEF Kinds
  <2>4. helper' \in Watching \cup {"gone"}
    BY <2>1 DEF Watching
  <2> QED BY <1>2, <2>1, <2>2, <2>3, <2>4, TypeFacts
<1>6. CASE Poll
  <2>0. PICK cancelled \in BOOLEAN : Probe(cancelled) /\ token' = (token \/ cancelled)
    BY <1>6 DEF Poll
  <2>1. helper' = "parked" /\ UNCHANGED <<last, heard, noted>>
    BY <1>6 DEF Poll
  <2>2. HelperInv'
    BY <1>0, <1>1, <2>1, InvFacts DEF HelperInv, Watching
  <2>3. token' \in BOOLEAN /\ (token' => told')
    BY <2>0, ProbeFacts, TypeFacts, InvFacts DEF StopInv
  <2>4. UNCHANGED <<op, asks>> /\ seen' \in BOOLEAN /\ told' \in BOOLEAN /\ (told => told') /\ (told' => seen')
    BY <2>0, ProbeFacts
  <2>5. helper' \in Watching /\ helper' \notin Bridging
    BY <2>1 DEF Watching, Bridging
  <2> QED BY <1>0, <1>1, <2>1, <2>2, <2>3, <2>4, <2>5, TypeFacts, InvFacts, HelperInvKept DEF TypeOK
<1>7. CASE Wake
  <2>1. helper' = "look" /\ UNCHANGED <<op, asks, seen, told, token, last, heard, noted>>
    BY <1>7 DEF Wake, stop
  <2>2. HelperInv'
    BY <1>0, <1>1, <2>1, InvFacts DEF HelperInv, Watching
  <2> QED BY <1>2, <2>1, <2>2, TypeFacts, InvFacts DEF TypeOK, Watching
<1> QED BY <1>3, <1>4, <1>5, <1>6, <1>7 DEF WatcherStep

----------------------------------------------------------------------------
(* The loop over the titles. *)

LEMMA ConcludeInv == ASSUME IInv, Conclude PROVE IInv'
<1>0. /\ pc = "loop" /\ n > Len(asked.titles) /\ pc' = "returned"
      /\ outcome' = (IF written = {} /\ failure THEN "failed" ELSE "ok")
      /\ UNCHANGED <<asked, n, written, failure, op, asks, seen, told, token, done, helper, last,
                     sent, heard, noted, result, file, ended>>
  BY DEF Conclude, Return, stop, work, watch, disc
<1>1. TypeOK'
  <2>1. {op', asks', seen', told', token', done', last', noted'} \subseteq BOOLEAN /\ failure' \in BOOLEAN
    BY <1>0, TypeFacts
  <2>2. outcome' \in Outcomes
    BY <1>0 DEF Outcomes
  <2> QED BY <1>0, <2>1, <2>2, InvFacts DEF TypeOK, Places, Labels, Over
<1>2. StopInv' /\ HelperInv' /\ ResultInv'
  BY <1>0, InvFacts DEF StopInv, HelperInv, ResultInv, Joins
<1>3. \A t \in Places : t < n
  BY <1>0, TypeFacts
<1>4. LoopInv'
  <2>1. \A t \in Places : Skipped(t) => Skipped(t)'
    BY <1>0 DEF Skipped
  <2> QED BY <1>0, <2>1, InvFacts DEF LoopInv, AtTitle, Starting, Places
<1>5. OutcomeTrue'
  <2>1. \A t \in written : ended[t] = "ok"
    BY InvFacts DEF LoopInv
  <2>2. \A t \in Places \ written : Skipped(t)
    BY <1>3, InvFacts DEF LoopInv
  <2>3. failure => asked.keepGoing
    BY InvFacts DEF LoopInv
  <2>4. CASE written = {} /\ failure
    <3>1. outcome' = "failed" /\ asked.keepGoing /\ written' = {}
      BY <1>0, <2>3, <2>4
    <3> QED BY <1>0, <2>1, <3>1 DEF OutcomeTrue
  <2>5. CASE ~(written = {} /\ failure)
    <3>1. outcome' = "ok"
      BY <1>0, <2>5
    <3>2. \A t \in Places : ended[t] \in {"ok", "stub", "failed", "incomplete"}
      BY <2>1, <2>2 DEF Skipped
    <3>3. \A t \in Places \ written :
             \/ asked.keepGoing /\ written # {}
             \/ /\ ended[t] = "stub" /\ asked.titles[t] # 0
                /\ ~asked.explicit /\ Len(asked.titles) > 1
      BY <2>2, <2>5 DEF Skipped
    <3> QED BY <1>0, <2>1, <3>1, <3>2, <3>3 DEF OutcomeTrue, Places
  <2> QED BY <2>4, <2>5
<1>6. FileInv'
  BY <1>0, InvFacts DEF FileInv, Places
<1> QED BY <1>1, <1>2, <1>4, <1>5, <1>6 DEF IInv

LEMMA NextTitleInv == ASSUME IInv, NextTitle PROVE IInv'
<1>0. /\ pc = "loop" /\ n <= Len(asked.titles)
      /\ UNCHANGED <<asked, n, written, failure, token, done, helper, last,
                     sent, heard, noted, result, file, ended>>
  BY DEF NextTitle, work, watch, disc
<1>1. PICK cancelled \in BOOLEAN :
         /\ Probe(cancelled)
         /\ IF cancelled THEN pc' = "returned" /\ outcome' = "halted" ELSE pc' = "ask" /\ UNCHANGED outcome
  BY DEF NextTitle, Return
<1>2. /\ UNCHANGED <<op, asks>> /\ seen' \in BOOLEAN /\ told' \in BOOLEAN
      /\ (told => told') /\ (told' => seen') /\ (cancelled => told')
  BY <1>1, ProbeFacts
<1>3. \/ pc' = "returned" /\ outcome' = "halted" /\ told'
      \/ pc' = "ask" /\ outcome' = outcome
  BY <1>1, <1>2
<1>4. n \in Places /\ outcome = "none"
  BY <1>0, TypeFacts, InvFacts DEF LoopInv
<1>5. TypeOK'
  <2>1. {op', asks', seen', told', token', done', last', noted'} \subseteq BOOLEAN /\ failure' \in BOOLEAN
    BY <1>0, <1>2, TypeFacts
  <2>2. outcome' \in Outcomes \cup {"none"} /\ pc' \in Labels
    BY <1>3, TypeFacts DEF Outcomes, Labels, Over
  <2> QED BY <1>0, <2>1, <2>2, InvFacts DEF TypeOK, Places
<1>6. StopInv'
  BY <1>0, <1>2, InvFacts DEF StopInv
<1>7. HelperInv' /\ ResultInv'
  BY <1>0, <1>3, InvFacts DEF HelperInv, ResultInv, Joins
<1>8. LoopInv'
  <2>1. \A t \in Places : Skipped(t) => Skipped(t)'
    BY <1>0 DEF Skipped
  <2> QED BY <1>0, <1>3, <1>4, <2>1, InvFacts DEF LoopInv, AtTitle, Starting, Places
<1>9. OutcomeTrue'
  BY <1>0, <1>3, <1>4, InvFacts DEF OutcomeTrue, LoopInv
<1>10. FileInv'
  BY <1>0, <1>3, InvFacts DEF FileInv, Places
<1> QED BY <1>5, <1>6, <1>7, <1>8, <1>9, <1>10 DEF IInv

LEMMA RefuseInv == ASSUME IInv, Refuse PROVE IInv'
<1>0. /\ pc = "ask" /\ pc' = "decide" /\ result' = "failed" /\ noted' = FALSE
      /\ ended' = [ended EXCEPT ![n] = "failed"]
      /\ UNCHANGED <<asked, n, written, failure, outcome, op, asks, seen, told, token, done, sent,
                     helper, last, heard, file>>
  BY DEF Refuse, loop, stop
<1>1. n \in Places /\ n \notin written /\ outcome = "none" /\ Places' = Places
  BY <1>0, InvFacts, TypeFacts DEF LoopInv, AtTitle, Places
<1>2. ended' \in [Places -> Results \cup {"none"}] /\ ended'[n] = "failed"
      /\ \A t \in Places : t # n => ended'[t] = ended[t]
  BY <1>0, <1>1, TypeFacts DEF Results
<1>3. TypeOK'
  <2>1. {op', asks', seen', told', token', done', last', noted'} \subseteq BOOLEAN /\ failure' \in BOOLEAN
    BY <1>0, TypeFacts
  <2>2. helper \notin Watching /\ helper \notin Bridging
    BY <1>0, InvFacts DEF TypeOK
  <2> QED BY <1>0, <1>1, <1>2, <2>1, <2>2, InvFacts DEF TypeOK, Labels, Results
<1>4. StopInv' /\ HelperInv'
  BY <1>0, InvFacts DEF StopInv, HelperInv, Joins
<1>5. ResultInv'
  BY <1>0, <1>2 DEF ResultInv
<1>6. LoopInv'
  <2>1. \A t \in Places : t < n /\ t \notin written => Skipped(t)'
    BY <1>0, <1>2, TypeFacts, InvFacts DEF LoopInv, Skipped
  <2> QED BY <1>0, <1>1, <1>2, <2>1, TypeFacts, InvFacts DEF LoopInv, AtTitle, Starting
<1>7. OutcomeTrue'
  <2>1. \A t \in written : ended'[t] = "ok"
    BY <1>1, <1>2, TypeFacts, InvFacts DEF LoopInv
  <2> QED BY <1>0, <1>1, <2>1 DEF OutcomeTrue
<1>8. FileInv'
  BY <1>0, <1>1, InvFacts DEF FileInv
<1> QED BY <1>3, <1>4, <1>5, <1>6, <1>7, <1>8 DEF IInv

----------------------------------------------------------------------------
(* What the mux puts on the disc, and into its channels. *)

LEMMA MuxRunsInv == ASSUME IInv, MuxRuns PROVE IInv'
<1>0. /\ pc = "mux"
      /\ UNCHANGED <<asked, pc, n, written, failure, outcome, op, asks, seen, told, token, done,
                     result, helper, last, heard, noted, ended>>
  BY DEF MuxRuns, MuxOpens, MuxReports, loop, stop, watch, disc
<1>1. n \in Places /\ ~last /\ helper \in Watching
  BY <1>0, InvFacts DEF LoopInv, HelperInv, Joins, AtTitle
<1>2. /\ sent' \in [Kinds -> 0..MaxReports + 1] /\ sent'["opened"] \in {sent["opened"], 1}
      /\ \A k \in Kinds : sent[k] <= sent'[k] /\ sent'[k] <= Limit[k]
  <2>1. /\ sent["opened"] \in Nat /\ sent["bytes"] \in Nat /\ MaxReports \in Nat
        /\ sent["opened"] <= 1 /\ sent["bytes"] <= MaxReports
    BY ReportFacts, TypeFacts, InvFacts DEF TypeOK
  <2>2. CASE sent["opened"] = 0 /\ sent' = [sent EXCEPT !["opened"] = 1]
    <3>1. /\ sent' \in [Kinds -> 0..MaxReports + 1]
          /\ sent'["opened"] = 1 /\ sent'["bytes"] = sent["bytes"]
      BY <2>2, ReportFacts, TypeFacts
    <3> QED BY <2>1, <2>2, <3>1, ReportFacts
  <2>3. CASE sent["bytes"] < MaxReports /\ sent' = [sent EXCEPT !["bytes"] = @ + 1]
    <3> DEFINE more == sent["bytes"] + 1
    <3>0. more \in 0..MaxReports + 1 /\ sent["bytes"] <= more /\ more <= MaxReports
      BY <2>1, <2>3
    <3>1. sent' = [sent EXCEPT !["bytes"] = more]
      BY <2>3
    <3> HIDE DEF more
    <3>2. /\ sent' \in [Kinds -> 0..MaxReports + 1]
          /\ sent'["opened"] = sent["opened"] /\ sent'["bytes"] = more
      BY <3>0, <3>1, ReportFacts, TypeFacts
    <3> QED BY <2>1, <3>0, <3>2, ReportFacts
  <2> QED BY <2>2, <2>3 DEF MuxRuns, MuxOpens, MuxReports
<1>3. /\ file' \in [Places -> {"none", "other", "ours", "nameless"}]
      /\ \A t \in Places : t # n => file'[t] = file[t]
      /\ file'[n] = "ours" => sent'["opened"] = 1
  <2>1. CASE MuxOpens
    <3>1. PICK opened \in {"ours", "nameless"} : file' = [file EXCEPT ![n] = opened]
      BY <2>1 DEF MuxOpens
    <3>2. sent'["opened"] = 1
      BY <2>1, TypeFacts, ReportFacts DEF MuxOpens
    <3> QED BY <1>1, <3>1, <3>2, TypeFacts
  <2>2. CASE MuxReports
    <3>1. file' = file /\ sent'["opened"] = 1
      BY <2>2, TypeFacts, ReportFacts DEF MuxReports, disc
    <3> QED BY <3>1, TypeFacts
  <2> QED BY <2>1, <2>2 DEF MuxRuns
<1>4. TypeOK'
  <2>1. {op', asks', seen', told', token', done', last', noted'} \subseteq BOOLEAN /\ failure' \in BOOLEAN
    BY <1>0, TypeFacts
  <2>2. \A k \in Kinds : heard[k] <= sent'[k]
    <3>1. \A k \in Kinds : heard[k] <= sent[k] /\ heard[k] \in Nat /\ sent[k] \in Nat /\ sent'[k] \in Nat
      BY <1>2, ReportFacts, TypeFacts, InvFacts DEF TypeOK
    <3> QED BY <1>2, <3>1
  <2> QED BY <1>0, <1>2, <1>3, <2>1, <2>2, InvFacts DEF TypeOK, Places
<1>5. StopInv' /\ HelperInv'
  BY <1>0, <1>1, InvFacts DEF StopInv, HelperInv, Watching
<1>6. ResultInv'
  BY <1>0 DEF ResultInv
<1>7. LoopInv' /\ OutcomeTrue'
  BY <1>0, LoopKept, OutcomeKept
<1>8. FileInv'
  BY <1>0, <1>1, <1>3, InvFacts DEF FileInv, Places
<1> QED BY <1>4, <1>5, <1>6, <1>7, <1>8 DEF IInv

\* Another program's file is no output of the mux.
LEMMA SwapInv == ASSUME IInv, Swap PROVE IInv'
<1>0. /\ pc \in {"mux", "muxJoin", "remove"} /\ file' = [file EXCEPT ![n] = "other"]
      /\ UNCHANGED <<asked, pc, n, written, failure, outcome, op, asks, seen, told, token, done, sent,
                     result, helper, last, heard, noted, ended>>
  BY DEF Swap, loop, stop, work, watch
<1>1. n \in Places
  BY <1>0, InvFacts DEF LoopInv, AtTitle
<1>2. /\ file' \in [Places -> {"none", "other", "ours", "nameless"}] /\ file'[n] = "other"
      /\ \A t \in Places : t # n => file'[t] = file[t]
  BY <1>0, <1>1, TypeFacts
<1>3. TypeOK'
  <2>1. {op', asks', seen', told', token', done', last', noted'} \subseteq BOOLEAN /\ failure' \in BOOLEAN
    BY <1>0, TypeFacts
  <2> QED BY <1>0, <1>2, <2>1, InvFacts DEF TypeOK, Places
<1>4. StopInv' /\ HelperInv' /\ ResultInv'
  BY <1>0, InvFacts DEF StopInv, HelperInv, ResultInv
<1>5. LoopInv' /\ OutcomeTrue'
  BY <1>0, LoopKept, OutcomeKept
<1>6. FileInv'
  BY <1>0, <1>2, InvFacts DEF FileInv, Places
<1> QED BY <1>3, <1>4, <1>5, <1>6 DEF IInv

----------------------------------------------------------------------------
(* After the mux. *)

LEMMA MuxDoneInv == ASSUME IInv, MuxDone PROVE IInv'
<1>0. /\ pc = "muxDone"
      /\ pc' = (IF result' # "ok" /\ StillOpened THEN "remove" ELSE "decide")
      /\ UNCHANGED <<asked, n, written, failure, outcome, token, done, sent,
                     helper, last, heard, noted, file, ended>>
  BY DEF MuxDone, loop, watch, disc
<1>1. PICK cancelled \in BOOLEAN :
         /\ IF result = "incomplete" THEN Probe(cancelled)
            ELSE cancelled = FALSE /\ UNCHANGED <<op, asks, seen, told>>
         /\ result' = Finished(result, cancelled)
  BY DEF MuxDone, stop
<1>2. /\ UNCHANGED <<op, asks>> /\ seen' \in BOOLEAN /\ told' \in BOOLEAN
      /\ (told => told') /\ (told' => seen') /\ (cancelled => told')
  <2>1. CASE result = "incomplete"
    BY <1>1, <2>1, ProbeFacts
  <2>2. CASE result # "incomplete"
    BY <1>1, <2>2, TypeFacts, InvFacts DEF StopInv
  <2> QED BY <2>1, <2>2
<1>3. n \in Places /\ result \in Results /\ result # "panic" /\ result = ended[n]
      /\ (result = "halt" => told)
  BY <1>0, InvFacts DEF LoopInv, ResultInv, AtTitle, StopInv
<1>4. \/ result # "incomplete" /\ result' = result
      \/ result = "incomplete" /\ result' = "halt" /\ told'
      \/ result = "incomplete" /\ result' = "failed"
  BY <1>1, <1>2 DEF Finished
<1>5. result' \in {"ok", "halt", "noKey", "stub", "failed"} /\ (result' = "halt" => told')
  BY <1>2, <1>3, <1>4 DEF Results
<1>6. TypeOK'
  <2>1. pc' \in Labels /\ result' \in Results \cup {"none"}
    BY <1>0, <1>5 DEF Labels, Results
  <2>2. helper \notin Watching /\ helper \notin Bridging
    BY <1>0, InvFacts DEF TypeOK
  <2> QED BY <1>0, <1>2, <2>1, <2>2, TypeFacts, TypeIs, InvFacts DEF TypeOK
<1>7. StopInv'
  BY <1>0, <1>2, <1>5, InvFacts DEF StopInv
<1>8. HelperInv'
  BY <1>0, InvFacts DEF HelperInv, Joins
<1>9. ResultInv'
  BY <1>0, <1>3, <1>4, <1>5 DEF ResultInv
<1>10. LoopInv' /\ OutcomeTrue'
  BY <1>0, <1>2, LoopKept, OutcomeKept DEF AtTitle, Starting
<1>11. FileInv'
  <2>1. file[n] = "ours" => noted
    BY <1>0, InvFacts DEF FileInv
  <2>2. pc' = "decide" /\ file[n] = "ours" => result' = "ok"
    BY <1>0, <2>1 DEF StillOpened
  <2> QED BY <1>0, <2>2, InvFacts DEF FileInv, Places
<1> QED BY <1>6, <1>7, <1>8, <1>9, <1>10, <1>11 DEF IInv

LEMMA RemoveInv == ASSUME IInv, Remove PROVE IInv'
<1>0. /\ pc = "remove" /\ pc' = "decide" /\ file' = [file EXCEPT ![n] = "none"]
      /\ UNCHANGED <<asked, n, written, failure, outcome, op, asks, seen, told, token, done, sent,
                     result, helper, last, heard, noted, ended>>
  BY DEF Remove, loop, stop, work, watch
<1>1. n \in Places
  BY <1>0, InvFacts DEF LoopInv, AtTitle
<1>2. /\ file' \in [Places -> {"none", "other", "ours", "nameless"}] /\ file'[n] = "none"
      /\ \A t \in Places : t # n => file'[t] = file[t]
  BY <1>0, <1>1, TypeFacts
<1>3. TypeOK'
  <2>1. {op', asks', seen', told', token', done', last', noted'} \subseteq BOOLEAN /\ failure' \in BOOLEAN
    BY <1>0, TypeFacts
  <2> QED BY <1>0, <1>2, <2>1, InvFacts DEF TypeOK, Places, Labels
<1>4. StopInv' /\ HelperInv' /\ ResultInv'
  BY <1>0, InvFacts DEF StopInv, HelperInv, ResultInv, Joins
<1>5. LoopInv' /\ OutcomeTrue'
  BY <1>0, LoopKept, OutcomeKept DEF AtTitle, Starting
<1>6. FileInv'
  BY <1>0, <1>2, InvFacts DEF FileInv, Places
<1> QED BY <1>3, <1>4, <1>5, <1>6 DEF IInv

LEMMA DecideInv == ASSUME IInv, Decide PROVE IInv'
<1>0. /\ pc = "decide"
      /\ UNCHANGED <<asked, op, asks, seen, told, token, done, sent,
                     result, helper, last, heard, noted, file, ended>>
  BY DEF Decide, stop, work, watch, disc
<1>1. /\ n \in Places /\ n \notin written /\ outcome = "none" /\ Places' = Places
      /\ result \in {"ok", "halt", "noKey", "stub", "failed"}
      /\ result = ended[n] \/ (ended[n] = "incomplete" /\ result \in {"failed", "halt"})
      /\ (result = "halt" => told)
      /\ (file[n] = "ours" => result = "ok")
      /\ \A t \in written : t < n /\ ended[t] = "ok"
      /\ (failure => asked.keepGoing)
  <2>1. n \in Places /\ outcome = "none"
    BY <1>0, InvFacts DEF LoopInv, AtTitle
  <2>2. \A t \in written : t < n /\ ended[t] = "ok"
    BY InvFacts DEF LoopInv
  <2>3. n \notin written
    BY <2>2, TypeFacts
  <2>4. /\ result \in {"ok", "halt", "noKey", "stub", "failed"}
        /\ result = ended[n] \/ (ended[n] = "incomplete" /\ result \in {"failed", "halt"})
    BY <1>0, InvFacts DEF ResultInv
  <2>5. (result = "halt" => told) /\ (file[n] = "ours" => result = "ok")
    BY <1>0, InvFacts DEF StopInv, FileInv
  <2>6. Places' = Places
    BY <1>0 DEF Places
  <2>7. failure => asked.keepGoing
    BY InvFacts DEF LoopInv
  <2> QED BY <2>1, <2>2, <2>3, <2>4, <2>5, <2>6, <2>7
<1>2. StopInv' /\ HelperInv'
  <2>1. pc' \in {"loop", "returned"}
    BY DEF Decide, Return
  <2> QED BY <1>0, <2>1, InvFacts DEF StopInv, HelperInv, Joins
<1>3. CASE /\ result = "ok" \/ MaySkip \/ PassedOver
           /\ written' = (IF result = "ok" THEN written \cup {n} ELSE written)
           /\ failure' = (failure \/ PassedOver)
           /\ n' = n + 1 /\ pc' = "loop" /\ UNCHANGED outcome
  <2>1. failure' \in BOOLEAN /\ (failure' <=> failure \/ PassedOver)
    BY <1>3, TypeFacts DEF PassedOver
  <2>2. TypeOK'
    <3>1. {op', asks', seen', told', token', done', last', noted'} \subseteq BOOLEAN
      BY <1>0, TypeFacts
    <3>2. n' \in 1..Len(asked.titles) + 1
      BY <1>1, <1>3, TypeFacts
    <3>3. written' \subseteq Places
      BY <1>1, <1>3, TypeFacts
    <3> QED BY <1>0, <1>1, <1>3, <2>1, <3>1, <3>2, <3>3, InvFacts DEF TypeOK, Labels
  <2>3. ResultInv'
    BY <1>3 DEF ResultInv
  <2>4. LoopInv'
    <3>1. ASSUME NEW t \in Places, t < n', t \notin written' PROVE Skipped(t)'
      <4>1. CASE t = n
        <5>1. result # "ok" /\ (MaySkip \/ PassedOver)
          BY <1>3, <3>1, <4>1
        <5>2. CASE MaySkip
          BY <1>0, <1>1, <4>1, <5>2 DEF MaySkip, Skipped, Feature, Multi
        <5>3. CASE PassedOver
          BY <1>0, <1>1, <2>1, <4>1, <5>3 DEF PassedOver, Skipped
        <5> QED BY <5>1, <5>2, <5>3
      <4>2. CASE t # n
        <5>1. t < n /\ t \notin written
          BY <1>3, <3>1, <4>2, TypeFacts
        <5>2. Skipped(t)
          BY <5>1, InvFacts DEF LoopInv
        <5> QED BY <1>0, <2>1, <5>2 DEF Skipped
      <4> QED BY <4>1, <4>2
    <3>2. \A t \in written' : t < n' /\ ended'[t] = "ok"
      <4>1. \A t \in written : t < n + 1
        BY <1>1, TypeFacts
      <4>2. n < n + 1
        BY TypeFacts
      <4> QED BY <1>0, <1>1, <1>3, <4>1, <4>2
    <3>3. failure' => asked.keepGoing
      BY <1>1, <2>1 DEF PassedOver
    <3> QED BY <1>0, <1>1, <1>3, <3>1, <3>2, <3>3 DEF LoopInv, AtTitle, Starting
  <2>5. OutcomeTrue'
    BY <1>1, <1>3, <2>4 DEF OutcomeTrue, LoopInv
  <2>6. FileInv'
    <3>1. \A t \in Places : file[t] = "ours" => t \in written'
      BY <1>0, <1>1, <1>3, InvFacts DEF FileInv
    <3> QED BY <1>0, <1>1, <1>3, <3>1 DEF FileInv
  <2> QED BY <1>2, <2>2, <2>3, <2>4, <2>5, <2>6 DEF IInv
<1>4. CASE /\ result # "ok" /\ ~MaySkip /\ ~PassedOver
           /\ pc' = "returned" /\ outcome' = Verdict(result)
           /\ UNCHANGED <<n, written, failure>>
  <2>1. outcome' \in {"halted", "noKey", "failed"}
    BY <1>4 DEF Verdict
  <2>2. TypeOK'
    <3>1. {op', asks', seen', told', token', done', last', noted'} \subseteq BOOLEAN /\ failure' \in BOOLEAN
      BY <1>0, <1>4, TypeFacts
    <3> QED BY <1>0, <1>1, <1>4, <2>1, <3>1, InvFacts DEF TypeOK, Labels, Over, Outcomes
  <2>3. ResultInv'
    BY <1>4 DEF ResultInv
  <2>4. LoopInv'
    <3>1. \A t \in Places : Skipped(t) => Skipped(t)'
      BY <1>0, <1>4 DEF Skipped
    <3> QED BY <1>0, <1>1, <1>4, <3>1, InvFacts DEF LoopInv, AtTitle, Starting
  <2>5. OutcomeTrue'
    <3>1. outcome' = "halted" => told
      BY <1>1, <1>4 DEF Verdict
    <3>2. outcome' = "failed" => ended[n] \in {"stub", "failed", "incomplete"}
      BY <1>1, <1>4 DEF Verdict
    <3> QED BY <1>0, <1>1, <1>4, <2>1, <3>1, <3>2 DEF OutcomeTrue
  <2>6. FileInv'
    BY <1>0, <1>1, <1>4, InvFacts DEF FileInv
  <2> QED BY <1>2, <2>2, <2>3, <2>4, <2>5, <2>6 DEF IInv
<1> QED BY <1>3, <1>4 DEF Decide, Return

----------------------------------------------------------------------------
(* The theorems. *)

LEMMA InitInv == ASSUME Init PROVE IInv
<1>0. /\ asked \in Runs /\ Places = 1..Len(asked.titles) /\ Len(asked.titles) \in Nat
  BY AskedFacts DEF Init
<1>1. TypeOK
  <2>1. {op, asks, seen, told, token, done, last, noted} \subseteq BOOLEAN /\ failure \in BOOLEAN
    BY DEF Init
  <2>2. n \in 1..Len(asked.titles) + 1
    BY <1>0 DEF Init
  <2>3. \A k \in Kinds : heard[k] <= sent[k] /\ sent[k] <= Limit[k]
    BY ReportFacts DEF Init
  <2>4. file \in [Places -> {"none", "other", "ours", "nameless"}]
    BY DEF Init
  <2>5. ended \in [Places -> Results \cup {"none"}]
    BY DEF Init
  <2>6. helper \notin Watching /\ helper \notin Bridging
    BY DEF Init, Watching, Bridging
  <2> QED BY <1>0, <2>1, <2>2, <2>3, <2>4, <2>5, <2>6, ReportFacts DEF Init, TypeOK, Labels
<1>2. StopInv /\ HelperInv /\ ResultInv
  BY DEF Init, StopInv, HelperInv, ResultInv, Joins
<1>3. LoopInv
  <2>1. \A t \in Places : ~(t < n)
    BY <1>0 DEF Init
  <2> QED BY <2>1 DEF Init, LoopInv, AtTitle, Starting
<1>4. OutcomeTrue
  BY DEF Init, OutcomeTrue
<1>5. FileInv
  BY DEF Init, FileInv
<1> QED BY <1>1, <1>2, <1>3, <1>4, <1>5 DEF IInv

LEMMA StepInv == ASSUME IInv, [Next]_vars PROVE IInv'
<1>1. CASE Main
  BY <1>1, AskKeysInv, KeysJoinInv, ConcludeInv, NextTitleInv, RefuseInv, StartMuxInv, MuxJoinInv,
     MuxDoneInv, RemoveInv, DecideInv DEF Main
<1>2. CASE Helper \/ WorkEnds \/ MuxRuns
  BY <1>2, BridgeInv, WatcherInv, KeysEndInv, MuxEndsInv, MuxRunsInv DEF Helper, WorkEnds
<1>3. CASE StopOp \/ SinkAsks \/ Swap \/ UNCHANGED vars
  BY <1>3, StopOpInv, SinkAsksInv, SwapInv, StutterInv
<1> QED BY <1>1, <1>2, <1>3 DEF Next, Done

\* IInv holds in every state: the loop, its work and the threads beside it keep it.
THEOREM InvAlways == Spec => []IInv
<1>1. Init => IInv
  BY InitInv
<1>2. IInv /\ [Next]_vars => IInv'
  BY StepInv
<1> QED BY <1>1, <1>2, PTL DEF Spec

\* The variables keep their types: the sink never hears more than was sent, and
\* a helper thread outlives the work it is for by its join only (title_loop).
THEOREM TypeCorrect == Spec => []TypeOK
<1>1. IInv => TypeOK
  BY InvFacts
<1> QED BY <1>1, InvAlways, PTL

\* Whatever each mux ends in, the run's return says what became of the titles
\* (finished, decide_title, mux_titles).
THEOREM OutcomeTrueAlways == Spec => []OutcomeTrue
<1>1. IInv => OutcomeTrue
  BY InvFacts
<1> QED BY <1>1, InvAlways, PTL

\* However soon after its opening a mux ends, its watcher hears of the file
\* before it is gone, so a title that was not written leaves no file that could
\* be told (the watcher's last drain, still_opened).
THEOREM FailedGoneAlways == Spec => []FailedGone
<1>1. IInv => FailedGone
  BY InvFacts DEF FileInv, FailedGone
<1> QED BY <1>1, InvAlways, PTL

\* No title is started after a Stop was read anywhere, and a mux that starts in
\* the window after the loop's own question starts cancelled (EngineHalt::seen,
\* the token asked for before the mux).
THEOREM NoneAfterStopAlways == Spec => NoneAfterStop
<1>1. ASSUME IInv, [Next]_vars
      PROVE  [/\ told => ~(pc = "loop" /\ pc' = "ask")
              /\ told' /\ pc # "mux" /\ pc' = "mux" => token']_vars
  <2>1. ASSUME told, pc = "loop", pc' = "ask" PROVE FALSE
    <3>1. NextTitle
      BY <1>1, <2>1 DEF Next, Main, AskKeys, KeysJoin, Conclude, Refuse, StartMux, MuxJoin, MuxDone,
         Remove, Decide, Helper, BridgeStep, WatcherStep, WorkEnds, KeysEnd, MuxEnds, MuxRuns, MuxOpens,
         MuxReports, StopOp, SinkAsks, Swap, Done, vars, End, Return
    <3>2. PICK cancelled \in BOOLEAN : Probe(cancelled) /\ (cancelled => pc' = "returned")
      BY <3>1 DEF NextTitle, Return
    <3> QED BY <1>1, <2>1, <3>2, ProbeFacts
  <2>2. ASSUME told', pc # "mux", pc' = "mux" PROVE token'
    <3>1. StartMux
      BY <1>1, <2>2 DEF Next, Main, AskKeys, KeysJoin, Conclude, NextTitle, Refuse, MuxJoin, MuxDone,
         Remove, Decide, Helper, BridgeStep, WatcherStep, WorkEnds, KeysEnd, MuxEnds, MuxRuns, MuxOpens,
         MuxReports, StopOp, SinkAsks, Swap, Done, vars, End, Return, Begin
    <3>2. PICK cancelled \in BOOLEAN : Probe(cancelled) /\ token' = cancelled
      BY <3>1 DEF StartMux, Begin, AskedFirst
    <3> QED BY <1>1, <2>2, <3>2, ProbeFacts
  <2> QED BY <2>1, <2>2
<1> QED BY <1>1, InvAlways, PTL DEF Spec, NoneAfterStop
=============================================================================
