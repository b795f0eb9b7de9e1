------------------------ MODULE ScheduleGeorepProofs ------------------------
(***************************************************************************)
(* Proofs about the scheduling loop of schedule_georep.py, for every      *)
(* brick list, timeout, interval and set of failing commands.             *)
(***************************************************************************)
EXTENDS ScheduleGeorep, TLAPS

\* Steps between mkdtemp and the return of cleanup(): the newest temporary
\* directory is the one touch_mount_root works on.
DirPCs == {"tm_append", "tm_mount", "tm_check", "tm_touch", "tm_umount",
           "tm_rmdir"}

\* The steps at which the newest directory may have the volume mounted.
MountPCs == {"tm_check", "tm_touch", "tm_umount"}

\* TypeOK is not inductive on its own: TmAppend, TmMount, TmUmount and
\* TmRmdir update dirs[Len(dirs)], which is a directory only when touch_mount_root
\* has created one.
\* TypeOK allows turns = MaxTurns + 1 only after TickTimeout, which does not
\* check the bound: every other step needs turns <= MaxTurns.
TypeInv ==
    /\ TypeOK
    /\ pc \in DirPCs => Len(dirs) > 0
    /\ pc \notin {"timeout", "timedout", "failed", "interrupted"} => turns <= MaxTurns

\* The mount is confined to touch_mount_root: only the newest directory can
\* have the volume mounted on it, only between the mount and the umount of
\* cleanup(), and it is then in mnt_list, where the interrupt handler finds
\* it.
MountInv ==
    /\ TypeInv
    /\ pc \in DirPCs \ {"tm_append"} => dirs[Len(dirs)].listed
    /\ \A i \in DOMAIN dirs :
          dirs[i].st = "mounted" =>
              /\ i = Len(dirs)
              /\ dirs[i].listed
              /\ pc \in MountPCs

-----------------------------------------------------------------------------
(* Lemmas about the operators.                                             *)

LEMMA HorizonType == Horizon \in Nat
BY ParamAssumption DEF Horizon

\* Clamp keeps a time in 0..Horizon.
LEMMA ClampType ==
    ASSUME NEW x \in Nat
    PROVE  Clamp(x) \in 0..Horizon
BY HorizonType DEF Clamp

\* Replacing one entry of a sequence of directories keeps its type and
\* length.
LEMMA DirUpdate ==
    ASSUME NEW s \in Seq(DirRec), NEW i \in 1..Len(s), NEW r \in DirRec
    PROVE  /\ [s EXCEPT ![i] = r] \in Seq(DirRec)
           /\ Len([s EXCEPT ![i] = r]) = Len(s)
OBVIOUS

\* The newest directory, and what replacing it gives.
LEMMA LastDir ==
    ASSUME NEW s \in Seq(DirRec), Len(s) > 0
    PROVE  /\ Len(s) \in 1..Len(s)
           /\ s[Len(s)] \in DirRec
OBVIOUS

\* A function from the positions of a sequence of directories to
\* directories is a sequence of directories.
LEMMA DirMap ==
    ASSUME NEW s \in Seq(DirRec), NEW t \in [1..Len(s) -> DirRec]
    PROVE  t \in Seq(DirRec)
OBVIOUS

\* The workers after stop or stop force.
LEMMA StoppedWorkersType ==
    ASSUME TypeOK
    PROVE  StoppedWorkers \in [Bricks -> WorkerStates]
BY DEF TypeOK, StoppedWorkers, WorkerStates

-----------------------------------------------------------------------------
LEMMA TypeInvInit == Init => TypeInv
<1> SUFFICES ASSUME Init PROVE TypeInv
    OBVIOUS
<1>1. dirs \in Seq(DirRec)
    BY DEF Init
<1>2. elapsed \in 0..Horizon
    BY HorizonType DEF Init
<1>3. turns \in 1..MaxTurns + 1 /\ turns <= MaxTurns
    BY ParamAssumption DEF Init
<1>4. pc \in PCs /\ pc \notin DirPCs
    BY DEF Init, PCs, DirPCs
<1>5. QED
    BY <1>1, <1>2, <1>3, <1>4 DEF Init, TypeInv, TypeOK

LEMMA TypeInvStep == TypeInv /\ [Next]_vars => TypeInv'
<1> SUFFICES ASSUME TypeInv, [Next]_vars PROVE TypeInv'
    OBVIOUS
<1> USE ParamAssumption DEF TypeInv, TypeOK, PCs, DirPCs, sched, env
<1>1. CASE CommandFails
    BY <1>1 DEF CommandFails
<1>2. CASE CheckSession
    BY <1>2 DEF CheckSession
<1>3. CASE StopForce
    BY <1>3, StoppedWorkersType DEF StopForce
<1>4. CASE SetCheckpoint
    BY <1>4 DEF SetCheckpoint
<1>5. CASE StartSession
    BY <1>5, HorizonType DEF StartSession, WorkerStates
<1>6. CASE WarmUp
    <2>1. PICK j \in 0..Jitter : elapsed' = Clamp(elapsed + Warmup + j)
        BY <1>6 DEF WarmUp
    <2>2. elapsed + Warmup + j \in Nat
        BY HorizonType DEF Warmup
    <2>3. elapsed' \in 0..Horizon
        BY <2>1, <2>2, ClampType
    <2>4. QED
        BY <1>6, <2>3 DEF WarmUp
<1>7. CASE TmMkdtemp
    BY <1>7 DEF TmMkdtemp, DirRec, DirStates
<1>8. CASE TmAppend
    <2>1. Len(dirs) \in 1..Len(dirs) /\ dirs[Len(dirs)] \in DirRec
        BY <1>8, LastDir DEF TmAppend
    <2>2. [dirs[Len(dirs)] EXCEPT !.listed = TRUE] \in DirRec
        BY <2>1 DEF DirRec, DirStates
    <2>3. dirs' = [dirs EXCEPT ![Len(dirs)] = [dirs[Len(dirs)] EXCEPT !.listed = TRUE]]
        BY <1>8 DEF TmAppend
    <2>4. QED
        BY <1>8, <2>1, <2>2, <2>3, DirUpdate DEF TmAppend
<1>9. CASE TmMount
    <2>1. Len(dirs) \in 1..Len(dirs) /\ dirs[Len(dirs)] \in DirRec
        BY <1>9, LastDir DEF TmMount
    <2>2. [dirs[Len(dirs)] EXCEPT !.st = "mounted"] \in DirRec
        BY <2>1 DEF DirRec, DirStates
    <2>3. dirs' = [dirs EXCEPT ![Len(dirs)] = [dirs[Len(dirs)] EXCEPT !.st = "mounted"]]
        BY <1>9 DEF TmMount
    <2>4. QED
        BY <1>9, <2>1, <2>2, <2>3, DirUpdate DEF TmMount
<1>10. CASE TmCheckOk
    BY <1>10 DEF TmCheckOk
<1>11. CASE TmCheckFails
    <2>1. Len(dirs) \in 1..Len(dirs) /\ dirs[Len(dirs)] \in DirRec
        BY <1>11, LastDir DEF TmCheckFails
    <2>2. PICK s \in {"empty", "mounted"} :
                dirs' = [dirs EXCEPT ![Len(dirs)] = [dirs[Len(dirs)] EXCEPT !.st = s]]
        BY <1>11 DEF TmCheckFails
    <2>3. [dirs[Len(dirs)] EXCEPT !.st = s] \in DirRec
        BY <2>1 DEF DirRec, DirStates
    <2>4. QED
        BY <1>11, <2>1, <2>2, <2>3, DirUpdate DEF TmCheckFails
<1>12. CASE TmTouch
    BY <1>12 DEF TmTouch
<1>13. CASE TmUmount
    <2>1. Len(dirs) \in 1..Len(dirs) /\ dirs[Len(dirs)] \in DirRec
        BY <1>13, LastDir DEF TmUmount
    <2>2. [st |-> "empty", listed |-> dirs[Len(dirs)].listed, umounts |-> dirs[Len(dirs)].umounts + 1] \in DirRec
        BY <2>1 DEF DirRec, DirStates
    <2>3. dirs' = [dirs EXCEPT ![Len(dirs)] = [st |-> "empty", listed |-> dirs[Len(dirs)].listed, umounts |-> dirs[Len(dirs)].umounts + 1]]
        BY <1>13 DEF TmUmount
    <2>4. QED
        BY <1>13, <2>1, <2>2, <2>3, DirUpdate DEF TmUmount
<1>14. CASE TmRmdir
    <2>1. Len(dirs) \in 1..Len(dirs) /\ dirs[Len(dirs)] \in DirRec
        BY <1>14, LastDir DEF TmRmdir
    <2>2. [dirs[Len(dirs)] EXCEPT !.st = "gone"] \in DirRec
        BY <2>1 DEF DirRec, DirStates
    <2>3. dirs' = [dirs EXCEPT ![Len(dirs)] = [dirs[Len(dirs)] EXCEPT !.st = "gone"]]
        BY <1>14 DEF TmRmdir
    <2>4. QED
        BY <1>14, <2>1, <2>2, <2>3, DirUpdate DEF TmRmdir
<1>15. CASE PollUnavailable
    BY <1>15 DEF PollUnavailable
<1>16. CASE PollBricksFail
    BY <1>16 DEF PollBricksFail
<1>17. CASE PollComplete
    BY <1>17 DEF PollComplete
<1>18. CASE PollIncomplete
    BY <1>18 DEF PollIncomplete
<1>19. CASE TickTimeout
    BY <1>19 DEF TickTimeout
<1>20. CASE TickSleep
    <2>1. PICK j \in 0..Jitter : elapsed' = Clamp(elapsed + Interval + j)
        BY <1>20 DEF TickSleep
    <2>2. elapsed + Interval + j \in Nat
        BY HorizonType
    <2>3. elapsed' \in 0..Horizon
        BY <2>1, <2>2, ClampType
    <2>4. QED
        BY <1>20, <2>3 DEF TickSleep
<1>21. CASE TimeoutStop
    BY <1>21, StoppedWorkersType DEF TimeoutStop
<1>22. CASE StopSession
    BY <1>22, StoppedWorkersType DEF StopSession
<1>23. CASE RemoveDirs
    <2>0. \A i \in 1..Len(dirs) : dirs[i] \in DirRec
        OBVIOUS
    <2>1. dirs' \in [1..Len(dirs) -> DirRec]
        BY <1>23, <2>0 DEF RemoveDirs, DirRec, DirStates
    <2>2. QED
        BY <1>23, <2>1, DirMap DEF RemoveDirs
<1>24. CASE Interrupt
    <2>0. \A i \in 1..Len(dirs) : dirs[i] \in DirRec
        OBVIOUS
    <2>1. dirs' \in [1..Len(dirs) -> DirRec]
        BY <1>24, <2>0 DEF Interrupt, DirRec, DirStates
    <2>2. QED
        BY <1>24, <2>1, DirMap DEF Interrupt, Terminal
<1>25. ASSUME NEW b \in Bricks, WorkerChanges(b) PROVE TypeInv'
    BY <1>25 DEF WorkerChanges, WorkerStates, sched
<1>26. ASSUME NEW b \in Bricks, WorkerSyncs(b) PROVE TypeInv'
    BY <1>26 DEF WorkerSyncs, sched
<1>27. CASE UNCHANGED vars
    BY <1>27 DEF vars, sched, env
<1>28. QED
    BY <1>1, <1>2, <1>3, <1>4, <1>5, <1>6, <1>7, <1>8, <1>9, <1>10,
       <1>11, <1>12, <1>13, <1>14, <1>15, <1>16, <1>17, <1>18, <1>19,
       <1>20, <1>21, <1>22, <1>23, <1>24, <1>25, <1>26, <1>27
       DEF Next, Scheduler, Engine

(***************************************************************************)
(* Type correctness: every reachable state of the scheduling loop and of  *)
(* the engine it observes is well typed, whatever commands fail and when  *)
(* the interrupt arrives.                                                 *)
(***************************************************************************)
THEOREM TypeCorrect == Spec => []TypeOK
<1>1. Init => TypeInv
    BY TypeInvInit
<1>2. TypeInv /\ [Next]_vars => TypeInv'
    BY TypeInvStep
<1>3. TypeInv => TypeOK
    BY DEF TypeInv
<1>4. QED
    BY <1>1, <1>2, <1>3, PTL DEF Spec

-----------------------------------------------------------------------------
(* The scoped mount.  The proof needs the three steps that can exit with   *)
(* the volume still mounted not to fail: os.path.ismount after the mount,  *)
(* the touch in the body of the with statement and the umount of cleanup().*)

NoLeakFailures == {"ismount", "touch", "umount"} \cap MayFail = {}

\* Where no step of touch_mount_root is under way, nothing is mounted.
LEMMA NothingMounted ==
    ASSUME MountInv, pc \notin MountPCs
    PROVE  \A i \in DOMAIN dirs : dirs[i].st # "mounted"
BY DEF MountInv

LEMMA MountInvInit == Init => MountInv
BY TypeInvInit DEF Init, MountInv, DirPCs

LEMMA MountInvStep ==
    ASSUME NoLeakFailures
    PROVE  MountInv /\ [Next]_vars => MountInv'
<1> SUFFICES ASSUME MountInv, [Next]_vars PROVE MountInv'
    OBVIOUS
<1>1. TypeInv'
    BY TypeInvStep DEF MountInv
<1> DEFINE Conf == /\ pc \in DirPCs \ {"tm_append"} => dirs[Len(dirs)].listed
                  /\ \A i \in DOMAIN dirs :
                        dirs[i].st = "mounted" =>
                            /\ i = Len(dirs)
                            /\ dirs[i].listed
                            /\ pc \in MountPCs
<1>2. SUFFICES Conf'
    BY <1>1 DEF MountInv, Conf
<1> HIDE DEF Conf
<1> USE DEF MountInv, TypeInv, TypeOK, DirPCs, MountPCs, sched, env
<1>3. ASSUME pc \notin MountPCs \cup DirPCs, pc' \notin MountPCs \cup DirPCs,
             dirs' = dirs
      PROVE  Conf'
    BY <1>3, NothingMounted DEF Conf
<1>4. CASE CommandFails
    <2>1. pc \notin MountPCs
        BY <1>4 DEF CommandFails, StepCmd, NoLeakFailures
    <2>2. QED
        BY <1>4, <2>1, NothingMounted DEF CommandFails, Conf
<1>5. CASE CheckSession \/ StopForce \/ SetCheckpoint \/ StartSession \/ WarmUp
    BY <1>3, <1>5 DEF CheckSession, StopForce, SetCheckpoint, StartSession, WarmUp
<1>6. CASE TmMkdtemp
    BY <1>6, NothingMounted DEF TmMkdtemp, Conf
<1>7. CASE TmAppend
    BY <1>7, NothingMounted DEF TmAppend, Conf
<1>8. CASE TmMount
    <2>1. \A i \in DOMAIN dirs : dirs[i].st # "mounted"
        BY <1>8, NothingMounted DEF TmMount
    <2>2. QED
        BY <1>8, <2>1 DEF TmMount, Conf
<1>9. CASE TmCheckOk \/ TmTouch
    BY <1>9 DEF TmCheckOk, TmTouch, Conf
<1>10. CASE TmCheckFails
    BY <1>10 DEF TmCheckFails, NoLeakFailures
<1>11. CASE TmUmount
    BY <1>11 DEF TmUmount, Conf
<1>12. CASE TmRmdir
    BY <1>12 DEF TmRmdir, Conf
<1>13. CASE PollUnavailable \/ PollBricksFail \/ PollComplete \/ PollIncomplete
    BY <1>3, <1>13 DEF PollUnavailable, PollBricksFail, PollComplete, PollIncomplete
<1>14. CASE TickTimeout \/ TickSleep \/ TimeoutStop \/ StopSession
    BY <1>3, <1>14 DEF TickTimeout, TickSleep, TimeoutStop, StopSession
<1>15. CASE RemoveDirs
    BY <1>15, NothingMounted DEF RemoveDirs, Conf
<1>16. CASE Interrupt
    BY <1>16 DEF Interrupt, Terminal, Conf
<1>17. CASE Engine \/ UNCHANGED vars
    BY <1>17 DEF Engine, WorkerChanges, WorkerSyncs, vars, Conf
<1>18. QED
    BY <1>4, <1>5, <1>6, <1>7, <1>8, <1>9, <1>10, <1>11, <1>12,
       <1>13, <1>14, <1>15, <1>16, <1>17 DEF Next, Scheduler

(***************************************************************************)
(* Scoped mount: as long as the mount check, the touch and the umount of  *)
(* cleanup() succeed, the script leaves no temporary directory with the    *)
(* volume mounted on it, whichever way it exits -- checkpoint complete,   *)
(* timeout, any other fatal command, or a KeyboardInterrupt at any step.  *)
(***************************************************************************)
THEOREM MountReleased ==
    ASSUME NoLeakFailures
    PROVE  Spec => []NoMountLeftMounted
<1>1. Init => MountInv
    BY MountInvInit
<1>2. MountInv /\ [Next]_vars => MountInv'
    BY MountInvStep
<1>3. MountInv => NoMountLeftMounted
    BY NothingMounted DEF NoMountLeftMounted, Terminal, MountPCs
<1>4. QED
    BY <1>1, <1>2, <1>3, PTL DEF Spec
=============================================================================
