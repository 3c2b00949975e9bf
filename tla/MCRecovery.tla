----------------------------- MODULE MCRecovery -----------------------------
(* Instances of Recovery for TLC: the option sets the front ends use. *)
EXTENDS Recovery

Options(entry, raw) ==
    [entry |-> entry, raw |-> raw, iso |-> FALSE, title |-> {0}, tol |-> 0,
     patches |-> 2, sweeps |-> 1, resume |-> "auto", finish |-> FALSE, goOn |-> FALSE]

\* The engine's own defaults, for an ISO; the CLI's copies, in both modes.
EngineIso == [Options("recover", FALSE) EXCEPT !.iso = TRUE]
Plain == Options("plain", FALSE)
Step == Options("step", TRUE)

\* The server: it retries a sweep, carries on after failures, decides resuming.
Server == [Options("recover", FALSE) EXCEPT !.sweeps = 2, !.resume = "no",
                                            !.finish = TRUE, !.goOn = TRUE]
Tolerant == [Options("recover", TRUE) EXCEPT !.tol = 1, !.title = Blocks, !.resume = "yes"]
NoExtents == [Options("recover", FALSE) EXCEPT !.title = {}, !.patches = 1]

AllJobs == {EngineIso, Plain, Step, Server, Tolerant, NoExtents}
=============================================================================
