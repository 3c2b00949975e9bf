------------------------------- MODULE Titles -------------------------------
(* The titles of an opened image, muxed one after another (mux_image_titles_then,
   mux_titles, title_loop), under one view of the Stop (EngineHalt, HaltSink).

   Two kinds of work run beside a thread that carries the Stop to them: the one
   resolution of the keys beside a bridge, and each title's mux beside a watcher,
   which also hands the sink what the mux reports through channels. The thread
   that muxes waits for its helper whichever way the work ends, a panic included.

   The library's mux and key resolution are external: they may take for ever,
   end in any way, and say they were halted only when their token is cancelled. *)
EXTENDS Naturals, Sequences, FiniteSets

CONSTANTS
    Selections,  \* bound: the lists of titles asked for; title 0 is the feature
    MaxReports   \* bound: reports of one kind by one mux

ASSUME SelectionsAssumption == Selections \subseteq Seq(Nat)
ASSUME MaxReportsAssumption == MaxReports \in Nat

VARIABLES
    asked,    \* the titles, whether the user named them, whether a failure ends the loop
    pc,       \* where the muxing thread is
    n,        \* place in the selection of the title at hand
    written,  \* places of the titles written
    failure,  \* a hard failure has been passed over
    outcome,  \* what the run returned
    op,       \* the caller's token is cancelled
    asks,     \* Sink::should_cancel, as the front end would answer it now
    seen,     \* EngineHalt::seen
    token,    \* the token of the work that runs is cancelled
    done,     \* the flag that tells the helper the work has ended
    helper,   \* where the helper thread is
    last,     \* the watcher has read done before the drain it is in
    sent,     \* reports the mux has put into its channels
    heard,    \* reports of it the sink has heard
    noted,    \* the watch knows which file the mux opened
    result,   \* how the work at hand ended
    file,     \* what is at each title's destination
    told,     \* history: the Stop has been read somewhere
    ended     \* history: how each title's mux ended

stop == <<op, asks, seen, told>>
work == <<token, done, sent, result>>
watch == <<helper, last, heard, noted>>
loop == <<n, written, failure, outcome>>
disc == <<file, ended>>
vars == <<asked, pc, loop, stop, work, watch, disc>>

Kinds == {"opened", "bytes"}
Silent == [k \in Kinds |-> 0]
Limit == [k \in Kinds |-> IF k = "opened" THEN 1 ELSE MaxReports]

Results == {"ok", "incomplete", "halt", "noKey", "stub", "failed", "panic"}
Outcomes == {"ok", "halted", "noKey", "failed"}
Joins == {"keysJoin", "muxJoin"}
Over == {"returned", "panicked"}
Labels == Over \cup Joins
              \cup {"askKeys", "keys", "keysDone", "loop", "ask", "mux", "muxDone", "remove", "decide"}
Watching == {"look", "opened", "bytes", "poll", "parked"}
Bridging == {"bridge", "bridgePoll", "bridgeParked"}

Places == DOMAIN asked.titles

\* run_episodes goes on after a failure, and is never of named titles.
Runs == {r \in [titles : Selections, explicit : BOOLEAN, keepGoing : BOOLEAN] :
             ~(r.explicit /\ r.keepGoing)}

Init ==
    /\ asked \in Runs
    /\ pc = "askKeys" /\ n = 1 /\ written = {} /\ failure = FALSE /\ outcome = "none"
    /\ op \in BOOLEAN /\ asks \in BOOLEAN /\ seen = FALSE /\ told = FALSE
    /\ token = FALSE /\ done = FALSE /\ result = "none"
    /\ sent = Silent /\ heard = Silent
    /\ helper = "none" /\ last = FALSE /\ noted = FALSE
    /\ file \in [Places -> {"none", "other"}]
    /\ ended = [t \in Places |-> "none"]

(* ------------------------------ the Stop ------------------------------ *)

\* Mutant of Sticky: the view does not remember.
Forgotten == op \/ asks

Sticky == seen \/ op \/ asks

\* EngineHalt::is_cancelled, and the sink whose should_cancel it is.
Probe(cancelled) ==
    /\ cancelled = Sticky
    /\ seen' = (seen \/ cancelled) /\ told' = (told \/ cancelled)
    /\ UNCHANGED <<op, asks>>

(* ----------------------- work beside its helper ----------------------- *)

\* Mutant of AskedFirst: the token is left to the helper.
NotAsked(cancelled) == FALSE

\* The token of work that starts: asked for once before it.
AskedFirst(cancelled) == cancelled

Begin(place, cancelled, thread) ==
    /\ pc' = place
    /\ token' = AskedFirst(cancelled)
    /\ done' = FALSE /\ result' = "none" /\ sent' = Silent
    /\ helper' = thread /\ last' = FALSE /\ heard' = Silent /\ noted' = FALSE

\* Mutant of Signalled: the flag is set after the work, not by a guard.
SignalledUnguarded(how) == how # "panic"

\* SignalDone is dropped on every way out of the work.
Signalled(how) == TRUE

\* The work returns or unwinds: done is set, the helper is woken, then joined.
End(how, place) ==
    /\ result' = how
    /\ done' = Signalled(how)
    /\ pc' = place
    /\ UNCHANGED <<token, sent>>

Joined == helper = "gone"

\* What the helper and the channels held goes with them.
Gone ==
    /\ token' = FALSE /\ done' = FALSE /\ sent' = Silent
    /\ helper' = "none" /\ last' = FALSE /\ heard' = Silent /\ UNCHANGED noted

\* mux_image_titles_then: the keys, resolved under a child token.
AskKeys ==
    /\ pc = "askKeys"
    /\ \E cancelled \in BOOLEAN :
          /\ Probe(cancelled)
          /\ Begin("keys", cancelled, "bridge")
    /\ UNCHANGED <<asked, loop, disc>>

KeysEnd(how) ==
    /\ pc = "keys" /\ how \in {"ok", "halt", "noKey", "failed", "panic"}
    /\ how = "halt" => token
    /\ End(how, "keysJoin")
    /\ UNCHANGED <<asked, loop, stop, watch, disc>>

Return(what) == pc' = "returned" /\ outcome' = what

\* Mutant of Verdict: the class is returned as it stands.
VerdictRaw(how) == how

\* The classes of classify_title_error, as the outcome of a run that ends on them.
Verdict(how) ==
    CASE how = "halt" -> "halted" [] how = "noKey" -> "noKey" [] OTHER -> "failed"

\* The scope joins the bridge; a refusal ends the run before any output.
KeysJoin ==
    /\ pc = "keysJoin" /\ Joined
    /\ \/ result = "panic" /\ pc' = "panicked" /\ UNCHANGED outcome
       \/ result = "ok" /\ pc' = "loop" /\ UNCHANGED outcome
       \/ result \notin {"ok", "panic"} /\ Return(Verdict(result))
    /\ Gone
    /\ UNCHANGED <<asked, n, written, failure, stop, result, disc>>

\* Mutant of Woken: the helper parks with no timeout.
WokenByEnd == done

\* Unparked by the end of the work, or after 100 ms.
Woken == TRUE

Bridge ==
    \/ /\ helper = "bridge" /\ helper' = IF done THEN "gone" ELSE "bridgePoll"
       /\ UNCHANGED <<stop, token>>
    \/ /\ helper = "bridgePoll"
       /\ \E cancelled \in BOOLEAN :
             /\ Probe(cancelled)
             /\ token' = (token \/ cancelled)
             /\ helper' = IF cancelled THEN "gone" ELSE "bridgeParked"
    \/ /\ helper = "bridgeParked" /\ Woken /\ helper' = "bridge"
       /\ UNCHANGED <<stop, token>>

BridgeStep ==
    /\ Bridge
    /\ UNCHANGED <<asked, pc, loop, done, sent, result, last, heard, noted, disc>>

(* ---------------------------- the title loop ---------------------------- *)

\* The end of the list.
Conclude ==
    /\ pc = "loop" /\ n > Len(asked.titles)
    /\ Return(IF written = {} /\ failure THEN "failed" ELSE "ok")
    /\ UNCHANGED <<asked, n, written, failure, stop, work, watch, disc>>

\* Before each title: a full stop, or the title starts.
NextTitle ==
    /\ pc = "loop" /\ n <= Len(asked.titles)
    /\ \E cancelled \in BOOLEAN :
          /\ Probe(cancelled)
          /\ IF cancelled THEN Return("halted") ELSE pc' = "ask" /\ UNCHANGED outcome
    /\ UNCHANGED <<asked, n, written, failure, work, watch, disc>>

\* A title the image does not have is refused before any watcher.
Refuse ==
    /\ pc = "ask"
    /\ result' = "failed" /\ pc' = "decide" /\ noted' = FALSE
    /\ ended' = [ended EXCEPT ![n] = "failed"]
    /\ UNCHANGED <<asked, loop, stop, token, done, sent, helper, last, heard, file>>

StartMux ==
    /\ pc = "ask"
    /\ \E cancelled \in BOOLEAN :
          /\ Probe(cancelled)
          /\ Begin("mux", cancelled, "look")
    /\ UNCHANGED <<asked, loop, disc>>

\* The mux opens its output; not every file system gives the file an identity.
MuxOpens ==
    /\ pc = "mux" /\ sent["opened"] = 0
    /\ sent' = [sent EXCEPT !["opened"] = 1]
    /\ \E opened \in {"ours", "nameless"} : file' = [file EXCEPT ![n] = opened]
    /\ UNCHANGED <<asked, pc, loop, stop, token, done, result, watch, ended>>

\* ChannelEvents: the mux reports bytes written, or made durable.
MuxReports ==
    /\ pc = "mux" /\ sent["opened"] = 1 /\ sent["bytes"] < MaxReports
    /\ sent' = [sent EXCEPT !["bytes"] = @ + 1]
    /\ UNCHANGED <<asked, pc, loop, stop, token, done, result, watch, disc>>

MuxEnds(how) ==
    /\ pc = "mux" /\ how \in Results
    /\ how = "halt" => token
    /\ how = "ok" => sent["opened"] = 1
    /\ End(how, "muxJoin")
    /\ ended' = [ended EXCEPT ![n] = how]
    /\ UNCHANGED <<asked, loop, stop, watch, file>>

MuxJoin ==
    /\ pc = "muxJoin" /\ Joined
    /\ pc' = IF result = "panic" THEN "panicked" ELSE "muxDone"
    /\ Gone
    /\ UNCHANGED <<asked, loop, stop, result, disc>>

(* ----------------------------- the watcher ----------------------------- *)

\* Mutant of LastRound: done is read after the drain.
LastRoundLate == done

\* The drain that ends the watcher began after the mux had ended.
LastRound == last

\* done is read before the drain.
Look ==
    /\ helper = "look"
    /\ last' = done /\ helper' = "opened"
    /\ UNCHANGED <<stop, token, heard, noted>>

\* The opening goes through the title's watch, which notes the file.
DrainOpened ==
    /\ helper = "opened"
    /\ heard' = [heard EXCEPT !["opened"] = sent["opened"]]
    /\ noted' = (sent["opened"] = 1)
    /\ helper' = "bytes"
    /\ UNCHANGED <<stop, token, last>>

\* Of the progress queued, only the latest is heard.
DrainBytes ==
    /\ helper = "bytes"
    /\ heard' = [heard EXCEPT !["bytes"] = sent["bytes"]]
    /\ helper' = IF LastRound THEN "gone" ELSE "poll"
    /\ UNCHANGED <<stop, token, last, noted>>

\* The Stop reaches the token of the mux.
Poll ==
    /\ helper = "poll"
    /\ \E cancelled \in BOOLEAN :
          /\ Probe(cancelled)
          /\ token' = (token \/ cancelled)
    /\ helper' = "parked"
    /\ UNCHANGED <<last, heard, noted>>

Wake ==
    /\ helper = "parked" /\ Woken /\ helper' = "look"
    /\ UNCHANGED <<stop, token, last, heard, noted>>

WatcherStep ==
    /\ Look \/ DrainOpened \/ DrainBytes \/ Poll \/ Wake
    /\ UNCHANGED <<asked, pc, loop, done, sent, result, disc>>

(* --------------------------- after the mux --------------------------- *)

\* Mutant of Finished: an incomplete mux is a written title.
FinishedAnyway(how, cancelled) == IF how = "incomplete" THEN "ok" ELSE how

\* finished: an incomplete mux is no written title.
Finished(how, cancelled) ==
    IF how = "incomplete" THEN IF cancelled THEN "halt" ELSE "failed" ELSE how

\* still_opened: the destination is the very file the mux opened.
StillOpened == noted /\ file[n] = "ours"

MuxDone ==
    /\ pc = "muxDone"
    /\ \E cancelled \in BOOLEAN :
          /\ IF result = "incomplete" THEN Probe(cancelled) ELSE cancelled = FALSE /\ UNCHANGED stop
          /\ result' = Finished(result, cancelled)
    /\ pc' = IF result' # "ok" /\ StillOpened THEN "remove" ELSE "decide"
    /\ UNCHANGED <<asked, loop, token, done, sent, watch, disc>>

\* Another program may have put its file there since the check.
Remove ==
    /\ pc = "remove" /\ pc' = "decide"
    /\ file' = [file EXCEPT ![n] = "none"]
    /\ UNCHANGED <<asked, loop, stop, work, watch, ended>>

Feature == asked.titles[n] = 0
Multi == Len(asked.titles) > 1

\* Mutant of MaySkip: a stub is skipped wherever it is.
MaySkipAny == result = "stub"

\* decide_title: a stub is passed over unless it is the feature or was named.
MaySkip == result = "stub" /\ ~Feature /\ Multi /\ ~asked.explicit

PassedOver == asked.keepGoing /\ result \in {"stub", "failed"} /\ ~MaySkip

Decide ==
    /\ pc = "decide"
    /\ \/ /\ result = "ok" \/ MaySkip \/ PassedOver
          /\ written' = IF result = "ok" THEN written \cup {n} ELSE written
          /\ failure' = (failure \/ PassedOver)
          /\ n' = n + 1 /\ pc' = "loop"
          /\ UNCHANGED outcome
       \/ /\ result # "ok" /\ ~MaySkip /\ ~PassedOver
          /\ Return(Verdict(result))
          /\ UNCHANGED <<n, written, failure>>
    /\ UNCHANGED <<asked, stop, work, watch, disc>>

(* ------------------------------ outside ------------------------------ *)

StopOp ==
    /\ ~op /\ op' = TRUE
    /\ UNCHANGED <<asked, pc, loop, asks, seen, told, work, watch, disc>>

\* The front end's answer may come and go.
SinkAsks ==
    /\ asks' = ~asks
    /\ UNCHANGED <<asked, pc, loop, op, seen, told, work, watch, disc>>

\* Another program replaces the file of the title at hand.
Swap ==
    /\ pc \in {"mux", "muxJoin", "remove"} /\ file[n] \in {"ours", "nameless"}
    /\ file' = [file EXCEPT ![n] = "other"]
    /\ UNCHANGED <<asked, pc, loop, stop, work, watch, ended>>

Main ==
    \/ AskKeys \/ KeysJoin \/ Conclude \/ NextTitle \/ Refuse \/ StartMux
    \/ MuxJoin \/ MuxDone \/ Remove \/ Decide

Helper == BridgeStep \/ WatcherStep

WorkEnds == \E how \in Results : KeysEnd(how) \/ MuxEnds(how)
MuxRuns == MuxOpens \/ MuxReports

Done == pc \in Over /\ UNCHANGED vars

Next == Main \/ Helper \/ WorkEnds \/ MuxRuns \/ StopOp \/ SinkAsks \/ Swap \/ Done

\* The threads run; work whose token is cancelled ends, other work need not.
Fairness ==
    /\ WF_vars(Main) /\ WF_vars(Helper)
    /\ WF_vars(token /\ WorkEnds)

Spec == Init /\ [][Next]_vars
FairSpec == Spec /\ Fairness

----------------------------------------------------------------------------
\* The variables' types; the sink hears no more than was sent, and a helper
\* thread runs only while the muxing thread is in the work it is for.
TypeOK ==
    /\ asked \in Runs
    /\ pc \in Labels /\ n \in 1..Len(asked.titles) + 1
    /\ written \subseteq Places /\ failure \in BOOLEAN /\ outcome \in Outcomes \cup {"none"}
    /\ {op, asks, seen, told, token, done, last, noted} \subseteq BOOLEAN
    /\ helper \in Watching \cup Bridging \cup {"none", "gone"}
    /\ sent \in [Kinds -> 0..MaxReports + 1] /\ heard \in [Kinds -> 0..MaxReports + 1]
    /\ \A k \in Kinds : heard[k] <= sent[k] /\ sent[k] <= Limit[k]
    /\ result \in Results \cup {"none"}
    /\ file \in [Places -> {"none", "other", "ours", "nameless"}]
    /\ ended \in [Places -> Results \cup {"none"}]
    /\ helper \in Bridging => pc \in {"keys", "keysJoin"}
    /\ helper \in Watching => pc \in {"mux", "muxJoin"}

\* A Stop that was read anywhere, even one the front end then took back, starts
\* no other title: at most the work at hand goes on, and a mux that starts in the
\* very window after the loop's own question starts with its token cancelled.
NoneAfterStop ==
    [][/\ told => ~(pc = "loop" /\ pc' = "ask")
       /\ told' /\ pc # "mux" /\ pc' = "mux" => token']_vars

\* What the run returns is true: Ok only if each title was muxed to its end, or
\* was a stub that may be skipped (or, where failures are passed over, some title
\* was); Halted only after a Stop; a title is written only if its mux completed.
OutcomeTrue ==
    /\ \A t \in written : ended[t] = "ok"
    /\ outcome = "ok" =>
          /\ \A t \in Places : ended[t] \in {"ok", "stub", "failed", "incomplete"}
          /\ \A t \in Places \ written :
                \/ asked.keepGoing /\ written # {}
                \/ /\ ended[t] = "stub" /\ asked.titles[t] # 0
                   /\ ~asked.explicit /\ Len(asked.titles) > 1
    /\ outcome = "halted" => told
    /\ outcome = "failed" => \/ \A t \in Places : ended[t] = "none"
                             \/ asked.keepGoing /\ written = {}
                             \/ ended[n] \in {"stub", "failed", "incomplete"}

\* No title that was not written leaves the file its mux opened, if that file
\* could be told: the opening is heard before the watcher is gone, however soon
\* after it the mux ended.
FailedGone ==
    pc \in {"loop", "returned"} =>
        \A t \in Places : file[t] = "ours" => t \in written

\* A Stop ends the run, whatever work is at hand; and work that ended, by a panic
\* too, is not held up by the thread beside it.
StopAndWorkEnd ==
    /\ (op \/ told) ~> pc \in Over
    /\ pc \in Joins ~> pc \notin Joins
=============================================================================
