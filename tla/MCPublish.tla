----------------------------- MODULE MCPublish -----------------------------
(* Instances of Publish for TLC: two remuxes of one target, whose folder may not
   support publishing without replacing.                                      *)
EXTENDS Publish

CONSTANTS a, b, t

Job(replace, staged) == [target |-> t, replace |-> replace, staged |-> staged]
Retried == [p \in {a, b} |-> Job(FALSE, FALSE)]
Replaced == [Retried EXCEPT ![a] = Job(TRUE, TRUE)]

Retries == {Retried}
Both == {Retried, Replaced}

\* Two states that differ only in what a remux that is over was asked, tried or
\* saw are one: none of its actions is enabled again, and the properties ask of it
\* only whether it failed, where its file is kept and what a power loss undid.
Result(p) == IF said[p] \in {"exists", "failed", "halted"} THEN "failed" ELSE said[p]
Of(p) ==
    IF pc[p] \in Ends
    THEN <<pc[p], Result(p), p \in landed, IF said[p] = "kept" THEN tries[p] ELSE 0,
           p \in before /\ (said[p] = "kept" \/ pc[p] = "ended")>>
    ELSE <<pc[p], said[p], p \in landed, tries[p], armed[p], ours[p],
           p \in stopped, p \in hung, p \in caught>>
View == <<job, [p \in Remuxes |-> Of(p)], folder, bytes, lock, foreign>>
=============================================================================
