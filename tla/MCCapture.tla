----------------------------- MODULE MCCapture -----------------------------
(* Instances of Capture for TLC.  A Kill and a CutImage may strike any number
   of times; passes, blocks and queue slots bound the rest.                 *)
EXTENDS Capture

\* Two states that differ only in what an ended consumer had in memory are one:
\* no action of such a pass is enabled again, and no other reads it unless the
\* pass is the newest.
SinkOf(p) ==
    IF p = cur \/ Live(p)
    THEN <<pc[p], site[p], item[p], queue[p], mem[p], dirty[p], due[p], disowned[p]>>
    ELSE pc[p]
LiveView == <<imageVars, mapVars, prodVars, [p \in Passes |-> SinkOf(p)]>>
============================================================================
