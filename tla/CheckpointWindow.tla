-------------------------- MODULE CheckpointWindow --------------------------
(***************************************************************************)
(* What one run of schedule_georep.py promises about the geo-replication  *)
(* session, whatever the steps in between: the session is first stopped, *)
(* the checkpoint is set while it is stopped, the session is started, and *)
(* the window is closed by stopping it again before a normal exit.  A    *)
(* failing command or a KeyboardInterrupt may abandon the run at any      *)
(* point; the session is then left as it is.                              *)
(***************************************************************************)

VARIABLES
    phase,      \* how far the run has got
    session,    \* the session state at the control plane
    marked,     \* this run has set the checkpoint
    exited      \* the script has ended

avars == <<phase, session, marked, exited>>

Phases == {"setup", "stopped", "marked", "window", "closed", "abandoned"}

Init ==
    /\ phase = "setup"
    /\ session \in {"Started", "Stopped"}
    /\ marked = FALSE
    /\ exited = FALSE

\* stop force, whatever state the session was in.
StopFirst ==
    /\ phase = "setup"
    /\ phase' = "stopped"
    /\ session' = "Stopped"
    /\ UNCHANGED <<marked, exited>>

\* config checkpoint now, on the stopped session.
Mark ==
    /\ phase = "stopped"
    /\ session = "Stopped"
    /\ phase' = "marked"
    /\ marked' = TRUE
    /\ UNCHANGED <<session, exited>>

\* start: the window in which the checkpoint is synced opens.
Open ==
    /\ phase = "marked"
    /\ marked
    /\ phase' = "window"
    /\ session' = "Started"
    /\ UNCHANGED <<marked, exited>>

\* stop when the checkpoint is complete, or stop force on the timeout; the
\* timeout exits at once.
Close ==
    /\ phase = "window"
    /\ phase' = "closed"
    /\ session' = "Stopped"
    /\ exited' \in BOOLEAN
    /\ UNCHANGED marked

\* The clean-up after a complete checkpoint, then the exit.
Finish ==
    /\ phase = "closed"
    /\ ~exited
    /\ exited' = TRUE
    /\ UNCHANGED <<phase, session, marked>>

\* A fatal command or an interrupt: the script exits, the session as it is.
Abandon ==
    /\ ~exited
    /\ phase' = "abandoned"
    /\ exited' = TRUE
    /\ UNCHANGED <<session, marked>>

Progress == StopFirst \/ Mark \/ Open \/ Close \/ Finish

Next == Progress \/ Abandon

\* Every run ends: it either gets through its window or is abandoned.
Spec == Init /\ [][Next]_avars /\ WF_avars(Progress)

\* The safety part alone, the part a step-by-step proof can establish.
SafeSpec == Init /\ [][Next]_avars

(***************************************************************************)
(* A closed window has a stopped session: the only step into "closed" is  *)
(* the stop at the end of the window, and neither the clean-up nor the    *)
(* exit after it starts the session again.                               *)
(***************************************************************************)
ClosedStopped == phase = "closed" => session = "Stopped"
=============================================================================
