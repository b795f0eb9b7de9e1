--------------------------- MODULE ScheduleGeorep ---------------------------
(***************************************************************************)
(* The scheduling loop of extras/geo-rep/schedule_georep.py: the session  *)
(* existence check, stop force, checkpoint, start, warm-up, the polling   *)
(* loop with its timeout, the scoped mount used to touch the volume root  *)
(* (glustermount/cleanup), the final removal of the temporary directories *)
(* and the KeyboardInterrupt handler, together with the parts of the      *)
(* geo-replication engine and control plane the loop observes: the state  *)
(* of the session, the status of each worker and whether it has synced    *)
(* past the checkpoint.                                                   *)
(*                                                                         *)
(* Every execute() of the script is a step of its own.  A command whose   *)
(* kind is in MayFail may exit non-zero, and execute() then ends the      *)
(* process (output_notok -> sys.exit); the status and brick-info queries  *)
(* failing to parse end it too (an uncaught GlusterBadXmlFormat).         *)
(***************************************************************************)
EXTENDS Naturals, Sequences, FiniteSets, GeoRepSummary

CONSTANTS
    Topo,           \* brick list of the primary volume (gluster volume info)
    Subvols,        \* its replica sets: each one needs one worker to sync
    LiveStatuses,   \* labels the workers of a started session may report
    MayFail,        \* kinds of command that may exit non-zero
    Interval,       \* --interval, seconds slept between two polls
    TimeoutMin,     \* --timeout, minutes (0 = no timeout)
    Jitter,         \* extra seconds a sleep and its commands may take
    MaxTurns        \* bound on the number of polls explored

Bricks == {Topo[i] : i \in DOMAIN Topo}

\* What execute() may run.
CmdKinds == {"status", "stopforce", "checkpoint", "start", "mount",
             "ismount", "touch", "umount", "volinfo", "stop"}

ASSUME TopoAssumption ==
    /\ Len(Topo) > 0
    /\ \A i, j \in DOMAIN Topo : i # j => Topo[i] # Topo[j]
ASSUME SubvolsAssumption ==
    /\ Subvols \subseteq (SUBSET Bricks) \ {{}}
    /\ UNION Subvols = Bricks
ASSUME StatusAssumption ==
    /\ LiveStatuses \subseteq StatusNames
    /\ "Offline" \notin LiveStatuses
ASSUME ParamAssumption ==
    /\ MayFail \subseteq CmdKinds
    /\ Interval \in Nat \ {0}
    /\ TimeoutMin \in Int
    /\ Jitter \in Nat
    /\ MaxTurns \in Nat \ {0}

\* time.sleep(60) before the first status read.
Warmup == 60

\* Elapsed time is only compared with the budget (duration > timeout * 60):
\* it is kept exactly up to one second past the budget and saturates there.
Horizon == IF TimeoutMin > 0 THEN TimeoutMin * 60 + 1 ELSE 0
Clamp(x) == IF x > Horizon THEN Horizon ELSE x

\* Steps of the script.  "tm_*" are the steps of touch_mount_root and the
\* glustermount context manager it enters.
PCs == {"check", "stopforce", "checkpoint", "start", "warmup",
        "tm_mkdtemp", "tm_append", "tm_mount", "tm_check", "tm_touch",
        "tm_umount", "tm_rmdir", "poll", "tick", "timeout", "stop",
        "rmdirs", "done", "timedout", "failed", "interrupted"}
Terminal == {"done", "timedout", "failed", "interrupted"}

\* The command execute() runs at a step, for the steps where its failure
\* ends the process and changes nothing else.
StepCmd == [check |-> "status", stopforce |-> "stopforce",
            checkpoint |-> "checkpoint", start |-> "start",
            tm_mount |-> "mount", tm_touch |-> "touch",
            tm_umount |-> "umount", poll |-> "status",
            timeout |-> "stopforce", stop |-> "stop"]

\* Temporary directory: exists empty, has the volume mounted on it, or was
\* removed; listed once appended to mnt_list; umounts counts the umount
\* commands run on it.
DirStates == {"empty", "mounted", "gone"}
DirRec == [st : DirStates, listed : BOOLEAN, umounts : Nat]

WorkerStates == LiveStatuses \cup {"Initializing...", "Stopped", "Absent"}

VARIABLES
    pc,         \* next step of the script
    ret,        \* where touch_mount_root returns to: "poll" or "tick"
    turns,      \* turns counter of main()
    elapsed,    \* seconds since start_time (saturated at Horizon)
    cached,     \* cache_data holds the brick list of the primary volume
    dirs,       \* every temporary directory created, in creation order
    georep,     \* state of the session at the control plane
    worker,     \* status of the worker of each brick ("Absent": no row)
    cpDone,     \* the worker of the brick synced past the current checkpoint
    ckptSet     \* this run set the current checkpoint

sched == <<pc, ret, turns, elapsed, cached, dirs>>
env == <<georep, worker, cpDone, ckptSet>>
vars == <<sched, env>>

-----------------------------------------------------------------------------
(* What the status query reports and what the loop makes of it.           *)

\* Only an Active worker reports checkpoint_completed Yes or No.
Completed(b) ==
    IF worker[b] = "Active" THEN IF cpDone[b] THEN "Yes" ELSE "No" ELSE "N/A"

\* The live status map of the session: a row for each brick whose node
\* answers.
LiveMap == [b \in {x \in Bricks : worker[x] # "Absent"} |->
               Row(b, worker[b], Completed(b))]

\* get_summary(mainvol, subordinate_url) when the status lists the session,
\* and the checkpoints_ok verdict of its (only) entry.
PollSummary == GetSummary(Get(Topo, <<LiveMap>>))
CheckpointsOk == PollSummary[1].summary.checkpoints_ok

\* stop and stop force: the workers that answer report Stopped.
StoppedWorkers == [b \in Bricks |-> IF worker[b] = "Absent" THEN "Absent"
                                                          ELSE "Stopped"]

-----------------------------------------------------------------------------
Init ==
    /\ pc = "check"
    /\ ret = "poll"
    /\ turns = 1
    /\ elapsed = 0
    /\ cached = FALSE
    /\ dirs = << >>
    /\ georep \in {"Started", "Stopped"}
    /\ worker \in [Bricks -> WorkerStates]
    /\ \A b \in Bricks : georep = "Stopped" => worker[b] \in {"Stopped", "Absent"}
    /\ cpDone \in [Bricks -> BOOLEAN]
    /\ ckptSet = FALSE

\* Any execute() in StepCmd whose command exits non-zero: output_notok
\* ends the process where it stands.
CommandFails ==
    /\ pc \in DOMAIN StepCmd
    /\ StepCmd[pc] \in MayFail
    /\ pc' = "failed"
    /\ UNCHANGED <<ret, turns, elapsed, cached, dirs, env>>

\* Mutant: main() entered without its stop force.
CheckSessionSkipStop ==
    /\ pc = "check"
    /\ pc' = "checkpoint"
    /\ UNCHANGED <<ret, turns, elapsed, cached, dirs, env>>

\* "gluster volume geo-replication M S status": the session exists.
CheckSession ==
    /\ pc = "check"
    /\ pc' = "stopforce"
    /\ UNCHANGED <<ret, turns, elapsed, cached, dirs, env>>

\* "... stop force".
StopForce ==
    /\ pc = "stopforce"
    /\ georep' = "Stopped"
    /\ worker' = StoppedWorkers
    /\ pc' = "checkpoint"
    /\ UNCHANGED <<ret, turns, elapsed, cached, dirs, cpDone, ckptSet>>

\* "... config checkpoint now": no worker has synced past the new marker.
SetCheckpoint ==
    /\ pc = "checkpoint"
    /\ cpDone' = [b \in Bricks |-> FALSE]
    /\ ckptSet' = TRUE
    /\ pc' = "start"
    /\ UNCHANGED <<ret, turns, elapsed, cached, dirs, georep, worker>>

\* "... start", then start_time = now.
StartSession ==
    /\ pc = "start"
    /\ georep' = "Started"
    /\ worker' = [b \in Bricks |-> IF worker[b] = "Absent" THEN "Absent"
                                                          ELSE "Initializing..."]
    /\ elapsed' = 0
    /\ pc' = "warmup"
    /\ UNCHANGED <<ret, turns, cached, dirs, cpDone, ckptSet>>

\* time.sleep(60), then touch_mount_root before the loop.
WarmUp ==
    /\ pc = "warmup"
    /\ \E j \in 0..Jitter : elapsed' = Clamp(elapsed + Warmup + j)
    /\ ret' = "poll"
    /\ pc' = "tm_mkdtemp"
    /\ UNCHANGED <<turns, cached, dirs, env>>

-----------------------------------------------------------------------------
(* touch_mount_root(mainvol): with glustermount("localhost", mainvol) as   *)
(* mnt: execute(["touch", mnt]).  The context manager has no try/finally *)
(* around its yield: cleanup() runs only when the body returns normally.   *)

\* mnt = tempfile.mkdtemp(prefix="georepsetup_")
TmMkdtemp ==
    /\ pc = "tm_mkdtemp"
    /\ dirs' = Append(dirs, [st |-> "empty", listed |-> FALSE, umounts |-> 0])
    /\ pc' = "tm_append"
    /\ UNCHANGED <<ret, turns, elapsed, cached, env>>

\* mnt_list.append(mnt)
TmAppend ==
    /\ pc = "tm_append"
    /\ dirs' = [dirs EXCEPT ![Len(dirs)].listed = TRUE]
    /\ pc' = "tm_mount"
    /\ UNCHANGED <<ret, turns, elapsed, cached, env>>

\* execute(["glusterfs", "--volfile-server", ..., mnt])
TmMount ==
    /\ pc = "tm_mount"
    /\ dirs' = [dirs EXCEPT ![Len(dirs)].st = "mounted"]
    /\ pc' = "tm_check"
    /\ UNCHANGED <<ret, turns, elapsed, cached, env>>

\* if os.path.ismount(mnt): yield mnt
TmCheckOk ==
    /\ pc = "tm_check"
    /\ pc' = "tm_touch"
    /\ UNCHANGED <<ret, turns, elapsed, cached, dirs, env>>

\* else: output_notok(...) ends the process.  The client daemon returned 0;
\* its mount may still appear, or never.
TmCheckFails ==
    /\ pc = "tm_check"
    /\ "ismount" \in MayFail
    /\ \E s \in {"empty", "mounted"} : dirs' = [dirs EXCEPT ![Len(dirs)].st = s]
    /\ pc' = "failed"
    /\ UNCHANGED <<ret, turns, elapsed, cached, env>>

\* execute(["touch", mnt]) in the body of the with statement.
TmTouch ==
    /\ pc = "tm_touch"
    /\ pc' = "tm_umount"
    /\ UNCHANGED <<ret, turns, elapsed, cached, dirs, env>>

\* cleanup(): execute(["umount", "-l", mnt]).
TmUmount ==
    /\ pc = "tm_umount"
    /\ dirs' = [dirs EXCEPT ![Len(dirs)] = [st |-> "empty", listed |-> @.listed,
                                             umounts |-> @.umounts + 1]]
    /\ pc' = "tm_rmdir"
    /\ UNCHANGED <<ret, turns, elapsed, cached, env>>

\* cleanup(): execute(["rmdir", mnt], exitcode=0), then return to the caller.
TmRmdir ==
    /\ pc = "tm_rmdir"
    /\ dirs' = [dirs EXCEPT ![Len(dirs)].st = "gone"]
    /\ pc' = ret
    /\ UNCHANGED <<ret, turns, elapsed, cached, env>>

-----------------------------------------------------------------------------
(* The while loop of main().                                               *)

\* The status lists no session ("Unable to get Geo-replication Status"):
\* no touch, on to the turn counter and the timeout check.
PollUnavailable ==
    /\ pc = "poll"
    /\ pc' = "tick"
    /\ UNCHANGED <<ret, turns, elapsed, cached, dirs, env>>

\* The session is listed and get_bricks() queries the volume info for the
\* first time; the query exits non-zero or its XML does not parse.
PollBricksFail ==
    /\ pc = "poll"
    /\ ~cached
    /\ "volinfo" \in MayFail
    /\ pc' = "failed"
    /\ UNCHANGED <<ret, turns, elapsed, cached, dirs, env>>

\* The session is listed and all checkpoints are complete: stop it.
PollComplete ==
    /\ pc = "poll"
    /\ CheckpointsOk
    /\ cached' = TRUE
    /\ pc' = "stop"
    /\ UNCHANGED <<ret, turns, elapsed, dirs, env>>

\* The session is listed and some checkpoint is not complete: touch the
\* mount root again, then on to the turn counter.
PollIncomplete ==
    /\ pc = "poll"
    /\ ~CheckpointsOk
    /\ cached' = TRUE
    /\ ret' = "tick"
    /\ pc' = "tm_mkdtemp"
    /\ UNCHANGED <<turns, elapsed, dirs, env>>

\* Mutant: the budget compared in the wrong unit (timeout * 3600).
TickTimeoutHours ==
    /\ pc = "tick"
    /\ TimeoutMin > 0 /\ elapsed > TimeoutMin * 3600
    /\ turns' = turns + 1
    /\ pc' = "timeout"
    /\ UNCHANGED <<ret, elapsed, cached, dirs, env>>

\* turns += 1; duration = now - start_time; over the budget.
TickTimeout ==
    /\ pc = "tick"
    /\ TimeoutMin > 0 /\ elapsed > TimeoutMin * 60
    /\ turns' = turns + 1
    /\ pc' = "timeout"
    /\ UNCHANGED <<ret, elapsed, cached, dirs, env>>

\* turns += 1; within the budget: time.sleep(args.interval).
TickSleep ==
    /\ pc = "tick"
    /\ ~(TimeoutMin > 0 /\ elapsed > TimeoutMin * 60)
    /\ turns < MaxTurns
    /\ turns' = turns + 1
    /\ \E j \in 0..Jitter : elapsed' = Clamp(elapsed + Interval + j)
    /\ pc' = "poll"
    /\ UNCHANGED <<ret, cached, dirs, env>>

\* Mutant: output_notok("Timed out") before the stop force.
TimeoutStopNoStop ==
    /\ pc = "timeout"
    /\ pc' = "timedout"
    /\ UNCHANGED <<ret, turns, elapsed, cached, dirs, env>>

\* Timed out: "... stop force", then output_notok("Timed out, ...") exits.
TimeoutStop ==
    /\ pc = "timeout"
    /\ georep' = "Stopped"
    /\ worker' = StoppedWorkers
    /\ pc' = "timedout"
    /\ UNCHANGED <<ret, turns, elapsed, cached, dirs, cpDone, ckptSet>>

\* Checkpoint complete: "... stop", then break.
StopSession ==
    /\ pc = "stop"
    /\ georep' = "Stopped"
    /\ worker' = StoppedWorkers
    /\ pc' = "rmdirs"
    /\ UNCHANGED <<ret, turns, elapsed, cached, dirs, cpDone, ckptSet>>

\* After the loop: execute(["rmdir", mnt], exitcode=0) for every mnt in
\* mnt_list; rmdir only removes an existing empty directory.
RemoveDirs ==
    /\ pc = "rmdirs"
    /\ dirs' = [i \in DOMAIN dirs |->
                   IF dirs[i].listed /\ dirs[i].st = "empty"
                   THEN [st |-> "gone", listed |-> TRUE, umounts |-> dirs[i].umounts]
                   ELSE dirs[i]]
    /\ pc' = "done"
    /\ UNCHANGED <<ret, turns, elapsed, cached, env>>

\* Mutant: the handler removes the directories without unmounting them;
\* rmdir fails on a directory the volume is mounted on.
InterruptNoUmount ==
    /\ pc \notin Terminal
    /\ dirs' = [i \in DOMAIN dirs |->
                   IF dirs[i].listed /\ dirs[i].st # "mounted"
                   THEN [st |-> "gone", listed |-> TRUE, umounts |-> dirs[i].umounts]
                   ELSE dirs[i]]
    /\ pc' = "interrupted"
    /\ UNCHANGED <<ret, turns, elapsed, cached, env>>

\* KeyboardInterrupt anywhere in main(): for every mnt in mnt_list,
\* "umount -l" and "rmdir", both with exitcode=0, then output_notok.  The
\* session is left as it is.
Interrupt ==
    /\ pc \notin Terminal
    /\ dirs' = [i \in DOMAIN dirs |->
                   IF dirs[i].listed
                   THEN [st |-> "gone", listed |-> TRUE,
                         umounts |-> dirs[i].umounts + 1]
                   ELSE dirs[i]]
    /\ pc' = "interrupted"
    /\ UNCHANGED <<ret, turns, elapsed, cached, env>>

-----------------------------------------------------------------------------
(* The geo-replication engine and the nodes, outside the script.           *)

\* A worker changes state, or its node stops or starts answering.
WorkerChanges(b) ==
    /\ \E s \in (IF georep = "Started" THEN LiveStatuses ELSE {"Stopped"})
                  \cup {"Absent"} :
          /\ s # worker[b]
          /\ worker' = [worker EXCEPT ![b] = s]
    /\ UNCHANGED <<sched, georep, cpDone, ckptSet>>

\* An Active worker syncs past the checkpoint (its stime passes it).
WorkerSyncs(b) ==
    /\ georep = "Started"
    /\ worker[b] = "Active"
    /\ ~cpDone[b]
    /\ cpDone' = [cpDone EXCEPT ![b] = TRUE]
    /\ UNCHANGED <<sched, georep, worker, ckptSet>>

-----------------------------------------------------------------------------
Scheduler ==
    \/ CommandFails \/ CheckSession \/ StopForce \/ SetCheckpoint
    \/ StartSession \/ WarmUp
    \/ TmMkdtemp \/ TmAppend \/ TmMount \/ TmCheckOk \/ TmCheckFails
    \/ TmTouch \/ TmUmount \/ TmRmdir
    \/ PollUnavailable \/ PollBricksFail \/ PollComplete \/ PollIncomplete
    \/ TickTimeout \/ TickSleep \/ TimeoutStop \/ StopSession \/ RemoveDirs

Engine == \E b \in Bricks : WorkerChanges(b) \/ WorkerSyncs(b)

Next == Scheduler \/ Interrupt \/ Engine

\* main() runs on one thread and each command returns: the script keeps
\* taking steps until it exits.  Interrupts and the engine get no fairness.
Spec == Init /\ [][Next]_vars /\ WF_vars(Scheduler)

-----------------------------------------------------------------------------
(* Properties.                                                             *)

TypeOK ==
    /\ pc \in PCs
    /\ ret \in {"poll", "tick"}
    /\ turns \in 1..(MaxTurns + 1)
    /\ elapsed \in 0..Horizon
    /\ cached \in BOOLEAN
    /\ dirs \in Seq(DirRec)
    /\ georep \in {"Started", "Stopped"}
    /\ worker \in [Bricks -> WorkerStates]
    /\ cpDone \in [Bricks -> BOOLEAN]
    /\ ckptSet \in BOOLEAN

(***************************************************************************)
(* Scoped mount (spec, section 4.2: unmount on every exit path): whenever *)
(* the script has exited -- checkpoint complete, timed out, a fatal       *)
(* command or a KeyboardInterrupt at any step -- no temporary directory  *)
(* it created still has the volume mounted on it.                         *)
(***************************************************************************)
NoMountLeftMounted ==
    pc \in Terminal => \A i \in DOMAIN dirs : dirs[i].st # "mounted"

(***************************************************************************)
(* Stop on normal exit (spec, section 4.6): when the script exits because *)
(* the checkpoint completed or because it timed out, the geo-replication *)
(* session is stopped.                                                    *)
(***************************************************************************)
SessionStoppedAtExit ==
    pc \in {"done", "timedout"} => georep = "Stopped"

(***************************************************************************)
(* Checkpoint baseline (spec, sections 4.6 and 5): the checkpoint of this *)
(* run is set only on a stopped session, and the session is started only *)
(* once this run has set its checkpoint, so the marker does not target a  *)
(* moving baseline.                                                       *)
(***************************************************************************)
CheckpointThenStart ==
    [][ /\ (~ckptSet /\ ckptSet') => georep = "Stopped"
        /\ (georep = "Stopped" /\ georep' = "Started") => ckptSet ]_vars

(***************************************************************************)
(* Termination (spec, section 7, Timeout): with a timeout configured the  *)
(* script eventually exits, whatever the workers report.                  *)
(***************************************************************************)
Terminates == <>(pc \in Terminal)

(***************************************************************************)
(* What a clean stop means (spec, section 1: poll "until every worker has *)
(* propagated past that checkpoint"): when the script stops the session   *)
(* because all checkpoints are complete, every replica set of the volume  *)
(* has a worker that synced past the checkpoint this run set.             *)
(***************************************************************************)
CleanStopImpliesPropagated ==
    pc \in {"rmdirs", "done"} =>
        /\ ckptSet
        /\ \A sv \in Subvols : \E b \in sv : cpDone[b]

(***************************************************************************)
(* Single unmount (spec, section 5: a mount path is never unmounted      *)
(* twice): no temporary directory has umount run on it more than once.    *)
(***************************************************************************)
UnmountAtMostOnce ==
    \A i \in DOMAIN dirs : dirs[i].umounts <= 1

-----------------------------------------------------------------------------
(* Refinement of the checkpoint window.                                    *)

\* How far the run has got, read off the step of the script: stop force
\* is the last step of the set-up, every step from the warm-up to the
\* final stop is inside the window, and the clean-up after the stop
\* belongs to the closed window.
WindowPhaseOf(x) ==
    CASE x \in {"check", "stopforce"}       -> "setup"
      [] x = "checkpoint"                   -> "stopped"
      [] x = "start"                        -> "marked"
      [] x \in {"rmdirs", "done", "timedout"} -> "closed"
      [] x \in {"failed", "interrupted"}    -> "abandoned"
      [] OTHER                              -> "window"

Window == INSTANCE CheckpointWindow
              WITH phase <- WindowPhaseOf(pc), session <- georep,
                   marked <- ckptSet, exited <- pc \in Terminal

(***************************************************************************)
(* The script keeps its checkpoint window (spec, sections 1 and 4.6): its *)
(* steps, the engine's and an interrupt's, taken together, only ever stop *)
(* the session first, set the checkpoint on the stopped session, start    *)
(* it, and stop it again before a normal exit -- or abandon the run and   *)
(* leave the session as it is -- and every run ends.                      *)
(***************************************************************************)
WindowRefined == Window!Spec

=============================================================================
