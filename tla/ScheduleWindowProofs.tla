------------------------ MODULE ScheduleWindowProofs ------------------------
(***************************************************************************)
(* The scheduling loop of schedule_georep.py implements the checkpoint    *)
(* window of CheckpointWindow under the mapping of ScheduleGeorep: a     *)
(* proof of the safety part, for every brick list, timeout, interval and *)
(* set of failing commands.                                               *)
(***************************************************************************)
EXTENDS ScheduleGeorepProofs

\* The steps from the warm-up to the final stop.
WindowPCs == PCs \ {"check", "stopforce", "checkpoint", "start", "rmdirs",
                    "done", "timedout", "failed", "interrupted"}

\* What the refinement needs besides the types: the checkpoint is set only
\* at its own step, on the session stop force has stopped, and before the
\* start.
WinInv ==
    /\ TypeInv
    /\ pc \in {"check", "stopforce", "checkpoint"} => ~ckptSet
    /\ pc = "checkpoint" => georep = "Stopped"
    /\ pc = "start" => ckptSet

\* The phase of each step of the script.
LEMMA PhaseOfPC ==
    ASSUME NEW x \in PCs
    PROVE  /\ x \in {"check", "stopforce"} => WindowPhaseOf(x) = "setup"
           /\ x = "checkpoint" => WindowPhaseOf(x) = "stopped"
           /\ x = "start" => WindowPhaseOf(x) = "marked"
           /\ x \in {"rmdirs", "done", "timedout"} => WindowPhaseOf(x) = "closed"
           /\ x \in {"failed", "interrupted"} => WindowPhaseOf(x) = "abandoned"
           /\ x \in WindowPCs => WindowPhaseOf(x) = "window"
BY DEF WindowPhaseOf, WindowPCs, PCs

LEMMA WinInvInit == Init => WinInv
BY TypeInvInit DEF Init, WinInv

LEMMA WinInvStep == WinInv /\ [Next]_vars => WinInv'
<1> SUFFICES ASSUME WinInv, [Next]_vars PROVE WinInv'
    OBVIOUS
<1>1. TypeInv'
    BY TypeInvStep DEF WinInv
<1> USE DEF WinInv, TypeInv, TypeOK, PCs, sched, env
<1>2. CASE CheckSession \/ StopForce \/ SetCheckpoint \/ StartSession
    BY <1>1, <1>2 DEF CheckSession, StopForce, SetCheckpoint, StartSession
<1>3. CASE CommandFails \/ TmCheckFails \/ PollBricksFail \/ Interrupt
    BY <1>1, <1>3 DEF CommandFails, TmCheckFails, PollBricksFail, Interrupt
<1>4. CASE WarmUp \/ TmMkdtemp \/ TmAppend \/ TmMount \/ TmCheckOk \/ TmTouch
    BY <1>1, <1>4 DEF WarmUp, TmMkdtemp, TmAppend, TmMount, TmCheckOk, TmTouch
<1>5. CASE TmUmount \/ TmRmdir \/ PollUnavailable \/ PollComplete \/ PollIncomplete
    BY <1>1, <1>5 DEF TmUmount, TmRmdir, PollUnavailable, PollComplete, PollIncomplete
<1>6. CASE TickTimeout \/ TickSleep \/ TimeoutStop \/ StopSession \/ RemoveDirs
    BY <1>1, <1>6 DEF TickTimeout, TickSleep, TimeoutStop, StopSession, RemoveDirs
<1>7. CASE Engine \/ UNCHANGED vars
    BY <1>1, <1>7 DEF Engine, WorkerChanges, WorkerSyncs, vars
<1>8. QED
    BY <1>2, <1>3, <1>4, <1>5, <1>6, <1>7 DEF Next, Scheduler

\* A step that keeps the phase, the session, the mark and whether the script
\* has exited is a stutter of the window.
LEMMA WindowStutter ==
    ASSUME WindowPhaseOf(pc') = WindowPhaseOf(pc), (pc' \in Terminal) = (pc \in Terminal),
           UNCHANGED <<georep, ckptSet>>
    PROVE  [Window!Next]_Window!avars
BY DEF Window!avars

LEMMA WindowStep == WinInv /\ [Next]_vars => [Window!Next]_Window!avars
<1> SUFFICES ASSUME WinInv, [Next]_vars PROVE [Window!Next]_Window!avars
    OBVIOUS
<1>0. pc' \in PCs
    BY TypeInvStep DEF WinInv, TypeInv, TypeOK
<1> USE DEF WinInv, TypeInv, TypeOK, sched, env
<1>1. CASE CommandFails \/ TmCheckFails \/ PollBricksFail \/ Interrupt
    <2>2. UNCHANGED <<georep, ckptSet>>
        BY <1>1 DEF CommandFails, TmCheckFails, PollBricksFail, Interrupt
    <2>3. pc \notin Terminal /\ pc' \in {"failed", "interrupted"}
        BY <1>1 DEF CommandFails, TmCheckFails, PollBricksFail, Interrupt,
                    StepCmd, Terminal
    <2>4. Window!Abandon
        BY <2>2, <2>3, <1>0, PhaseOfPC DEF Window!Abandon, Terminal
    <2>5. QED
        BY <2>4 DEF Window!Next
<1>2. CASE CheckSession
    BY <1>2, <1>0, PhaseOfPC, WindowStutter DEF CheckSession, Terminal
<1>3. CASE StopForce
    <2>1. Window!StopFirst
        BY <1>3, <1>0, PhaseOfPC DEF StopForce, Terminal, Window!StopFirst
    <2>2. QED
        BY <2>1 DEF Window!Next, Window!Progress
<1>4. CASE SetCheckpoint
    <2>1. Window!Mark
        BY <1>4, <1>0, PhaseOfPC DEF SetCheckpoint, Terminal, Window!Mark
    <2>2. QED
        BY <2>1 DEF Window!Next, Window!Progress
<1>5. CASE StartSession
    <2>1. Window!Open
        BY <1>5, <1>0, PhaseOfPC DEF StartSession, Terminal, Window!Open, WindowPCs, PCs
    <2>2. QED
        BY <2>1 DEF Window!Next, Window!Progress
<1>6. ASSUME pc \in WindowPCs, pc' \in WindowPCs, UNCHANGED env
      PROVE  [Window!Next]_Window!avars
    BY <1>6, <1>0, PhaseOfPC, WindowStutter DEF WindowPCs, Terminal
<1>7. CASE WarmUp \/ TmMkdtemp \/ TmAppend \/ TmMount \/ TmCheckOk \/ TmTouch
    BY <1>6, <1>7 DEF WarmUp, TmMkdtemp, TmAppend, TmMount, TmCheckOk, TmTouch,
                      WindowPCs, PCs
<1>8. CASE TmUmount \/ TmRmdir \/ PollUnavailable \/ PollComplete \/ PollIncomplete
    BY <1>6, <1>8 DEF TmUmount, TmRmdir, PollUnavailable, PollComplete,
                      PollIncomplete, WindowPCs, PCs
<1>9. CASE TickTimeout \/ TickSleep
    BY <1>6, <1>9 DEF TickTimeout, TickSleep, WindowPCs, PCs
<1>10. CASE TimeoutStop \/ StopSession
    <2>1. Window!Close
        BY <1>10, <1>0, PhaseOfPC DEF TimeoutStop, StopSession, Terminal,
                                       Window!Close, WindowPCs, PCs
    <2>2. QED
        BY <2>1 DEF Window!Next, Window!Progress
<1>11. CASE RemoveDirs
    <2>1. Window!Finish
        BY <1>11, <1>0, PhaseOfPC DEF RemoveDirs, Terminal, Window!Finish
    <2>2. QED
        BY <2>1 DEF Window!Next, Window!Progress
<1>12. CASE Engine \/ UNCHANGED vars
    BY <1>12, WindowStutter DEF Engine, WorkerChanges, WorkerSyncs, vars
<1>13. QED
    BY <1>1, <1>2, <1>3, <1>4, <1>5, <1>7, <1>8, <1>9, <1>10, <1>11, <1>12
       DEF Next, Scheduler

(***************************************************************************)
(* The scheduling loop keeps the checkpoint window, for every brick list, *)
(* timeout, interval and set of failing commands: every step of the       *)
(* script, of the engine and of the interrupt handler either stops the   *)
(* session first, sets the checkpoint on the stopped session, starts it,  *)
(* stops it again, ends after the stop, abandons the run leaving the      *)
(* session as it is, or changes none of these.                            *)
(***************************************************************************)
THEOREM WindowKept == Spec => Window!SafeSpec
<1>1. Init => Window!Init
    BY PhaseOfPC DEF Init, Window!Init, PCs, Terminal
<1>2. Init => WinInv
    BY WinInvInit
<1>3. WinInv /\ [Next]_vars => WinInv'
    BY WinInvStep
<1>4. WinInv /\ [Next]_vars => [Window!Next]_Window!avars
    BY WindowStep
<1>5. QED
    BY <1>1, <1>2, <1>3, <1>4, PTL DEF Spec, Window!SafeSpec

-----------------------------------------------------------------------------
(* What follows from the window alone, carried over to the script by      *)
(* WindowStep.                                                            *)

\* ClosedStopped holds initially and is kept by every step of the window.
LEMMA ClosedStoppedAbstract ==
    /\ Window!Init => Window!ClosedStopped
    /\ Window!ClosedStopped /\ [Window!Next]_Window!avars => Window!ClosedStopped'
<1>1. Window!Init => Window!ClosedStopped
    BY DEF Window!Init, Window!ClosedStopped
<1>2. Window!ClosedStopped /\ [Window!Next]_Window!avars => Window!ClosedStopped'
    BY DEF Window!ClosedStopped, Window!Next, Window!Progress, Window!StopFirst,
           Window!Mark, Window!Open, Window!Close, Window!Finish, Window!Abandon,
           Window!avars
<1>3. QED
    BY <1>1, <1>2

\* The checkpoint flag and the session change, in one step, only as the
\* baseline allows: the body of CheckpointThenStart.
BaselineStep ==
    /\ (~ckptSet /\ ckptSet') => georep = "Stopped"
    /\ (georep = "Stopped" /\ georep' = "Started") => ckptSet

LEMMA BaselineOfWindow == [Window!Next]_Window!avars => BaselineStep
BY DEF BaselineStep, Window!Next, Window!Progress, Window!StopFirst, Window!Mark,
       Window!Open, Window!Close, Window!Finish, Window!Abandon, Window!avars

(***************************************************************************)
(* The script exits normally (after the clean-up, or on the timeout) only *)
(* with the session stopped, for every brick list, timeout, interval and *)
(* set of failing commands: both exits are in the closed phase of the    *)
(* window, whose only entry is StopSession or TimeoutStop.               *)
(***************************************************************************)
THEOREM StoppedAtExit == Spec => []SessionStoppedAtExit
<1>1. Init => WinInv /\ Window!ClosedStopped
    BY WinInvInit, ClosedStoppedAbstract, WindowKept DEF Init, Window!Init,
       PCs, Terminal, WindowPhaseOf
<1>2. WinInv /\ Window!ClosedStopped /\ [Next]_vars
        => WinInv' /\ Window!ClosedStopped'
    BY WinInvStep, WindowStep, ClosedStoppedAbstract
<1>3. WinInv /\ Window!ClosedStopped => SessionStoppedAtExit
    BY PhaseOfPC DEF WinInv, TypeInv, TypeOK, Window!ClosedStopped,
       SessionStoppedAtExit
<1>4. QED
    BY <1>1, <1>2, <1>3, PTL DEF Spec

(***************************************************************************)
(* Checkpoint baseline, as an action property of the script: no step     *)
(* sets this run's checkpoint unless the session is stopped, and no step *)
(* starts the session before the checkpoint is set -- whatever fails and *)
(* whenever the interrupt comes.                                          *)
(***************************************************************************)
THEOREM BaselineKept == Spec => CheckpointThenStart
<1>1. WinInv /\ [Next]_vars => [BaselineStep]_vars
    BY WindowStep, BaselineOfWindow
<1>2. QED
    BY <1>1, WinInvInit, WinInvStep, PTL DEF Spec, CheckpointThenStart, BaselineStep
=============================================================================
