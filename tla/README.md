# TLA+ models of the geo-replication scheduler

This directory holds TLA+ models of `extras/geo-rep/schedule_georep.py`, of `geo-replication/src/peer_georep-sshkey.py` and of the start-up of `geo-replication/syncdaemon/gsyncd.py`. The models are checked with TLC, and their main safety properties are proved with TLAPS.

The script is a cron-driven scheduler. It runs one bounded geo-replication window between a primary GlusterFS volume and a secondary:

1. stop force
2. set checkpoint now
3. start
4. wait 60 s
5. poll the status until every checkpoint is complete, or the timeout is reached
6. stop

## Inventory of the source

| Part (spec name) | Source | Lines | State it changes |
|---|---|---|---|
| CommandExecutor | `execute`, `output_notok` | 55-96 | ends the process on a non-zero exit unless `exitcode=0` |
| TopologyCache | `cache_output_with_args`, `get_bricks` | 99-169 | `cache_data`, filled once per process |
| VolumeMountManager | `glustermount`, `cleanup`, `touch_mount_root` | 113-148, 352-358 | temp directories, mounts, `mnt_list` |
| StatusCollector | `get_georep_status`, `get_offline_status`, `get` | 172-285 | none (pure, given the command output) |
| SessionSummarizer | `get_summary` | 288-349 | none (pure) |
| SchedulingLoop | `main`, `__main__` | 361-492 | the session (via gluster), `turns`, the timer |
| PeerSshKeyDistribution | `GenCmd.run`, `NodeGenCmd.run` in `geo-replication/src/peer_georep-sshkey.py` | 44-110 | the two key pairs on every peer, `common_secret.pem.pub` on the local node |
| GsyncdEntry | `main`, `__main__` in `geo-replication/syncdaemon/gsyncd.py` | 33-330 | the session's log directories (`os.mkdir`); it reads the config files and dispatches to sub-commands that are not in this repository |

How the parts interact:

- The loop calls `get_summary()`.
- `get_summary()` calls `get()`.
- `get()` calls `get_georep_status()` and `get_bricks()`, both through `execute()`.
- The loop then stops the session, or calls `touch_mount_root()` to create a filesystem event so that the workers' stime moves past the checkpoint.

There is one thread. Concurrency comes from three other sources:

- the geo-replication workers, which change status and sync independently of the script;
- a `KeyboardInterrupt`, which may arrive between any two steps;
- commands that fail.

## Modules

| Module | Models |
|---|---|
| `GeoRepSummary` | `get()` and `get_summary()` as pure operators. A row is (brick, status, checkpoint_completed). A brick name is a model value. |
| `GetSummaryLoop` | `get_summary()` as the loop it is: one step per row (`CountRow`), one per session end (`EndSession`). The inputs are every brick order and every live status of up to two sessions. |
| `GetSummaryLoopProofs` | TLAPS proofs about `GetSummaryLoop`: types, the summaries in session order, and the checkpoint verdict. |
| `ScheduleGeorep` | The scheduling loop, the scoped mount and the interrupt handler, with the engine as its environment (see below). |
| `CheckpointWindow` | The abstract specification of one run of the scheduler: stop, checkpoint, start, stop, or abandon. `ScheduleGeorep` implements it (see below). |
| `MCScheduleGeorep` | Model values `b1`, `b2`, and two choices of replica sets: one pair, or two single bricks. |
| `ScheduleGeorepProofs` | TLAPS proofs about `ScheduleGeorep`: types and the scoped mount. |
| `ScheduleWindowProofs` | TLAPS proof that `ScheduleGeorep` implements the safety part of `CheckpointWindow`, and the two session properties derived from it. |
| `PeerSshKey` | `gluster-georep-sshkey generate`: node-generate on every peer, and the rewrite of `common_secret.pem.pub`. |
| `PeerSshKeyProofs` | TLAPS proofs about `PeerSshKey`. |
| `GsyncdEntry` | `main()` of `gsyncd.py` for several processes of one session started together. |
| `MCGsyncdEntry` | Two processes (`w1`, `w2`, symmetric) and the command lines of three kinds of sub-command. |
| `GsyncdEntryProofs` | TLAPS proofs about `GsyncdEntry`. |

### ScheduleGeorep: state

| Variable | What it models |
|---|---|
| `pc` | The next step of the script. `tm_*` are the steps of `touch_mount_root`. The exits are `done`, `timedout`, `failed` and `interrupted`. |
| `ret` | Where `touch_mount_root` returns to. |
| `turns` | `turns` in `main()`. |
| `elapsed` | `int(time.time()) - start_time`, saturated one second past the budget. Only the comparison `duration > timeout*60` reads it. |
| `cached` | Whether `cache_data` holds the brick list. |
| `dirs` | Every temp directory: empty, mounted or gone; whether it is in `mnt_list`; how many `umount` commands ran on it. |
| `georep`, `worker`, `cpDone`, `ckptSet` | The control plane's view: session state, each brick's worker status (`Absent` when its node gives no row), whether the worker synced past the checkpoint, and whether this run set the checkpoint. |

### ScheduleGeorep: actions

Every `execute()` is a step of its own. `CommandFails` is the failure of any command listed in `StepCmd` whose kind is in the constant `MayFail`: `output_notok` ends the process on the spot. The steps, in order:

- `CheckSession`
- `StopForce`
- `SetCheckpoint`
- `StartSession`
- `WarmUp`
- the mount steps: `TmMkdtemp`, `TmAppend`, `TmMount`, then `TmCheckOk` or `TmCheckFails`, then `TmTouch`, `TmUmount`, `TmRmdir`
- the poll steps: `PollUnavailable`, `PollBricksFail`, `PollComplete`, `PollIncomplete`
- `TickTimeout` or `TickSleep`
- `TimeoutStop`, `StopSession`, `RemoveDirs`
- `Interrupt`, possible at any step

`PollComplete` and `PollIncomplete` use the closed-form `GetSummary` of `GeoRepSummary` on the rows that the worker statuses produce. The run `summary_loop` shows that this closed form is what the code's loop computes.

Data is abstracted:

- Command text, XML, log output and colours are left out.
- Only the three columns that the summary reads are kept.

### The engine, outside the script

The engine is not code of this repository. Its behaviour follows the spec and the status protocol:

- `WorkerChanges`: a worker of a started session takes any live status or stops answering. A worker of a stopped session reports `Stopped`.
- `WorkerSyncs`: an Active worker syncs past the checkpoint.
- Only an Active worker reports `checkpoint_completed` as Yes or No. Every other worker reports N/A.

### CheckpointWindow: the abstract window

`CheckpointWindow` states what one run promises about the session, without any of the polling, mounting or timing. Its variables are `phase`, `session`, `marked` and `exited`. Its actions are:

- `StopFirst`: stop force, in the set-up;
- `Mark`: the checkpoint, on the stopped session;
- `Open`: start;
- `Close`: the stop after a complete checkpoint, or the stop force on the timeout (which exits at once);
- `Finish`: the exit after the clean-up;
- `Abandon`: a fatal command or an interrupt, with the session left as it is.

`WF(Progress)` makes every run end, through its window or by abandoning it.

`ScheduleGeorep` maps onto it with `Window == INSTANCE CheckpointWindow WITH ...`:

- `phase` is `WindowPhaseOf(pc)`. `check` and `stopforce` are the set-up, `checkpoint` is "stopped", `start` is "marked", every step from the warm-up to `stop` is the window, `rmdirs`, `done` and `timedout` are "closed", and `failed` and `interrupted` are "abandoned".
- `session` is `georep`, `marked` is `ckptSet`, and `exited` is `pc \in Terminal`.

The engine's steps and every step inside the window are stutters of the abstract spec. `WindowRefined` (`Window!Spec`, liveness included) is checked by `schedule_loop`.

### PeerSshKey: state and actions

`gluster-georep-sshkey generate` (`GenCmd.run`) runs `node-generate` (`NodeGenCmd.run`) on every peer through `execute_in_peers`. It then writes `common_secret.pem.pub` with mode `w` from the public keys of the peers that answered OK.

- A key is the number of its generation on that peer: `priv[p][k]` and `pub[p][k]` for the files of pair `k` (1 is `secret.pem`, 2 is `tar_ssh.pem`), 0 when the file is missing. `made` counts the `ssh-keygen` runs.
- `npc[p]` and `nk[p]` are the step and the pair of node-generate on peer `p`. `gpc` and `runs` are the step and the invocations of generate. `reply[p]` is what `p` returned, and `common` is the content of `common_secret.pem.pub`.
- `Generate`: a new invocation. Any set of peers containing the local one is up (`MayBeDown`).
- `Check`, `Remove`, `KeygenPriv`, `KeygenPub`, `Read`: the steps of `NodeGenCmd.run` for each pair. `ssh-keygen` writes the private key before the public one, so it is two steps.
- `Crash`: node-generate dies at any step (`MayCrash`), and its files stay as they are.
- `Collect`: once every peer answered, failed or is down, the file is replaced.

`Remove` removes both files of the pair in one step. The code removes them one at a time, in glob order. It only reaches that loop when the `.pub` file is already missing, so only the private key can be left, and the order cannot leave a public key alone.

The `command=` prefixes, the table and the text of the keys are left out.

### GsyncdEntry: state and actions

The monitor starts a worker and an agent for each brick, and glusterd runs status and config commands beside them. Each is a `gsyncd.py` process, and they share the session's log directories and config files.

- `pc[p]` is the step of process `p`. It ends in `version`, `badargs`, `died` or `finalized`. `call[p]` is its command line: the sub-command, `--version`, `--debug`, `-c`, and whether the secondary has the `user@host::vol` form.
- `cfg[p]` is `rconf.config_file`. `warn[p]` is "`config_file_error_msg` is set", and `warned[p]` is "it was logged". `log[p]` is the log file chosen. `exval[p]` is what `finalize` gets.
- `confFiles` is the config files that exist. `logDirs` is the log directories that exist. `BrokenDirs` is the log directories whose parent is missing.
- `Start`: the `--version` exit, or on to parsing. `Split`: `args.subordinate.split("::")` raises on a bad secondary, before logging.
- `ResolveConfig`: the `-c` path or the session default. A missing file becomes `None`, and the warning is kept for later.
- `ChooseLog`: the cli log, the session log, the subordinate's log, or stderr with `--debug`.
- `Mkdir`: `os.mkdir` of the log directory. `EEXIST` is ignored, and any other error kills the process before logging is set up.
- `SetupLogging`: logging, then the pending warning. `Dispatch`: the sub-command returns or raises, then `finalize`.

`gconf.load`, `setup_logging` and the sub-commands are outside this repository. They are one step each, and a sub-command may raise.

## Runs

| Run | Config | Expect | Shows |
|---|---|---|---|
| `summary_loop` | `GetSummaryLoop.cfg` | pass | The loop of `get_summary` equals the closed form (`LoopMatchesGetSummary`). Its verdict means "every Active worker completed, none Faulty or Offline" (`VerdictMatchesReference`). Both brick orders, all statuses, one or two sessions. |
| `summary_sessions` | `GetSummarySessions.cfg` | violation | `FaultyListsPerSession`: every session's entry holds the faulty bricks of all sessions. |
| `schedule_loop` | `MCScheduleGeorep.cfg` | pass | Any command outside the scoped mount may fail, and an interrupt may come at any step. Checks `NoMountLeftMounted` and `WindowRefined`: the script implements `CheckpointWindow`, fairness included. A stopped session at a normal exit and termination both follow from `WindowRefined`, so this run does not list them again. |
| `schedule_failures` | `MCScheduleFailures.cfg` | pass | When volume info, the mount check, touch, umount and stop force may fail, without the refinement: `SessionStoppedAtExit`, `CheckpointThenStart` and `Terminates`. |
| `peer_keys` | `PeerSshKey.cfg` | pass | Two peers, three invocations, any peer but the local one down, and node-generate dying at any step. Checks `CommonSecretValid` (every key in the file is the pair on disk) and `KeysNeverReplaced` (a public key file that exists is never overwritten by a later run). |
| `gsyncd_startup` | `MCGsyncdEntry.cfg` | pass | Two processes start together, with every command line of a worker, a subordinate and config-check, and every set of existing config files and log directories. Checks `LogDirReady` (a process dies before logging only when its log directory's parent is missing, and never because the other created it first) and `NoSilentFallback` (a missing config file is always logged before the sub-command runs). |
| `peer_coverage` | `PeerSshKeyCoverage.cfg` | violation | `CommonSecretCoversPeers`: a peer down on a second invocation loses its keys from the file. |
| `clean_stop` | `MCCleanStop.cfg` | violation | `CleanStopImpliesPropagated`: the script stops as "complete" with no Active worker and nothing synced. |
| `mount_leak` | `MCMountLeak.cfg` | violation | `NoMountLeftMounted`: a failing touch leaves the volume mounted, because there is no try/finally around `yield`. |
| `double_unmount` | `MCDoubleUnmount.cfg` | violation | `UnmountAtMostOnce`: `mnt_list` is never drained, so the interrupt handler unmounts a cleaned directory again. |

Each property of a passing run has a mutant in PROJECT.json: a plausible bug in the mapped code under which TLC finds the property violated.

**Bounds.**

- Two bricks are enough for the cases that matter. A replica pair lets one Active and one Passive worker happen, and two single-brick sets make both workers necessary.
- `Jitter = 1` makes each sleep take either its nominal time or one second more. Budgets that run out exactly at the boundary of `>` therefore happen.
- The timeout gives three or four polls (`schedule_loop`) or one or two (`schedule_failures`). That is enough for complete and incomplete polls, the re-touch, and the timeout after a touch.
- `MaxTurns` only caps exploration when no timeout is set. In these runs the timeout ends the loop first.

- `peer_keys`: two peers make a down peer and a peer that answers possible in the same invocation, with the local peer always up. Three invocations let a pair be regenerated after a crash and then distributed again. Every step may crash.

- `gsyncd_startup`: two processes are enough for the `os.mkdir` race on one directory, and symmetry folds the two orders together. `BrokenDirs = {"subordinate"}` puts one failing directory beside two that may or may not exist. Each of the three sub-commands differs in its arguments: a worker has a session, the subordinate has its own log, and config-check has neither.

**Fairness.** `WF_vars(Scheduler)` is assumed. The script is a single thread, every command returns in the model, and a sleep ends, so an enabled step of the script is eventually taken. The engine and the interrupt get no fairness: workers may never sync, and a user need not press Ctrl-C. `Terminates` therefore relies on the timeout alone. A command that hangs is a hazard the model does not cover.

`PeerSshKey` has no fairness and no liveness property. `GenCmd.run` does no waiting of its own. The wait for every peer is inside `execute_in_peers`, which is not in this repository, so that generate ends is not a property of this code.

## Findings

1. **Clean stop with nothing synced** (`clean_stop`, line 339). `checkpoints_ok` compares the number of Active workers with the number of Yes answers. Right after the warm-up, workers may all be `Initializing...`, or a replica pair may be all Passive. Then 0 == 0 holds and the script stops the session as complete.
2. **Mount leak** (`mount_leak`, lines 143-148, 358). Spec section 4.2 promises unmount on every exit path. The context manager runs `cleanup()` only after the body returns normally.
3. **Double unmount** (`double_unmount`, lines 135, 485-491). Spec section 5 says a mount is never unmounted twice. `mnt_list` is never drained.
4. **Keys dropped on a rerun** (`peer_coverage`, `peer_georep-sshkey.py` line 109). The docstring says generate collects the public keys of all peers. The file is opened with `w` and written from the peers that answered OK, so a peer that is down on a later run loses its keys from it.
5. **Shared failure lists** (`summary_sessions`, lines 296-297, 347). Spec section 9 leaves this as an open question.

## Proofs (`ScheduleGeorepProofs`)

- **`TypeCorrect`**: `Spec => []TypeOK` for all constants that satisfy the `ASSUME`s of `ScheduleGeorep`.
  - The inductive invariant is `TypeInv`. It strengthens `TypeOK` with two facts:
    - a mount step always has a directory to act on (`Len(dirs) > 0`);
    - `turns <= MaxTurns` outside the timeout path.
  - `TypeOK` alone is not inductive. `TmAppend` updates `dirs[Len(dirs)]`, which needs a non-empty `dirs`, and `TickTimeout` adds one to `turns`.
  - Lemmas:
    - `DirUpdate`: an `EXCEPT` at the last index keeps a sequence of `DirRec`.
    - `DirMap`: a function over `1..Len(s)` into `DirRec` is a sequence.
- **`MountReleased`**: `NoMountLeftMounted` holds whenever `NoLeakFailures` holds, that is, when the mount check, touch and umount never fail.
  - The inductive invariant is `MountInv`. A directory is mounted only when all three of these hold:
    - it is the last one created;
    - it is listed in `mnt_list`;
    - the script is between the mount check and the umount.
  - `NothingMounted` turns `MountInv` into "nothing is mounted" at every other step. The final steps, and the interrupt handler's umount of every listed directory, follow from it.
  - The theorem is the proved counterpart of `schedule_loop` and explains `mount_leak`: a leak needs one of the three excluded failures.

## Proofs (`ScheduleWindowProofs`)

- **`WindowKept`**: `Spec => Window!SafeSpec`, for all constants.
  - The inductive invariant is `WinInv`. It is `TypeInv` together with three facts:
    - the checkpoint is not yet set before its own step;
    - the session is stopped at the checkpoint step;
    - the checkpoint is set at the start step.
  - `PhaseOfPC` gives the phase of each step. `WindowStep` maps each action to an abstract one:
    - `StopForce` to `StopFirst`, `SetCheckpoint` to `Mark`, `StartSession` to `Open`;
    - `StopSession` and `TimeoutStop` to `Close`, and `RemoveDirs` to `Finish`;
    - every failure and the interrupt to `Abandon`;
    - everything else to a stutter.
  - The liveness part (`WF(Progress)`) is only checked by TLC, in `schedule_loop`.
- **`StoppedAtExit`**: `Spec => []SessionStoppedAtExit`. It is derived through the refinement, not proved again on the detailed model:
  - `ClosedStoppedAbstract` proves on `CheckpointWindow` alone that a closed window has a stopped session (`ClosedStopped`). `Close` is the only entry to the closed phase and stops the session. `Finish` stays in the phase and leaves the session alone, and `Abandon` leaves the phase.
  - `WinInv /\ Window!ClosedStopped` under the mapping is inductive, by `WindowStep`. `PhaseOfPC` puts `done` and `timedout` in the closed phase.
- **`BaselineKept`**: `Spec => CheckpointThenStart`. `BaselineOfWindow` shows that every abstract step or stutter sets the checkpoint only on a stopped session, and restarts the session only after the checkpoint is set. `WindowStep` carries this over to every step of the script.

## Proofs (`PeerSshKeyProofs`)

- **`KeysTypeCorrect`** and **`KeysValid`**: `Spec => []TypeOK` and `Spec => []CommonSecretValid`, for any set of peers and any `MaxRuns`, with crashes and down peers.
  - The inductive invariant is `KeyInv`. `CommonSecretValid` alone is not inductive, because a key in the file must also stay the public key on disk. `KeyInv` adds `TypeOK`, `PubHasPriv` (no public key without the private key of the same generation, true of the model of `ssh-keygen`, which writes the private key first), that every key in `common` is non-zero and still on disk, and `NodeInv` for each peer:
    - while a pair is being regenerated, its public key is missing;
    - when node-generate is at pair 2 or reads, the public keys of the pairs behind it exist;
    - between the two halves of `ssh-keygen`, the private key exists;
    - a peer that replied returned its current public keys.
  - The argument: a public key is only written as a copy of the private key of the same generation, and it is only removed when it is already missing. So a key in the file stays on disk for good.
  - `NextPairEffect` turns the step to the next pair into two `EXCEPT`s.
- **`KeysNotRotated`**: `Spec => KeysNeverReplaced`. No run of generate rotates a key in place. A pair is removed first (`Remove`), and `ssh-keygen` writes the public key only when it is missing, which `NodeInv` guarantees while a pair is being regenerated. `PubKeptStep` proves this per action from `KeyInv`.

## Proofs (`GetSummaryLoopProofs`)

- **`LoopTypeCorrect`** and **`SummariesInOrder`**: `Spec => []TypeOK` and `Spec => []SummariesExact`, for any finite brick set, any live status and any number of sessions. `GetSummaryLoop` assumes `IsFiniteSet(Bricks)` for this.
  - No run lists `SummariesExact`. Under TLC it repeats `LoopMatchesGetSummary`, because every session has rows and `out` only grows. It is proved because the provers cannot read the closed form that `LoopMatchesGetSummary` uses. It is the proved part of that property: the per-session counters and verdicts, in order.
  - The inductive invariant is `SummaryInv`. `SummariesExact` alone is not inductive, because the summary appended at a session's end depends on the counters. `SummaryInv` adds three facts:
    - `counts` equals `PrefixCounts`, the counts over the first `i - 1` rows of session `k`;
    - `named` holds exactly when `i > 1`;
    - `out` is a sequence of summaries.
  - `CountTo(rows, n, f, v)` is the number of the first `n` rows with value `v` in field `f`. `CountStep` proves that counting row `n` adds one exactly when the row has the value, by `FS_AddElement` on `1..n`.
  - `EndSummary` proves that the counters of a whole session, with the verdicts set by `EXCEPT`, form `Summarize` of its rows. `ZeroPrefix` proves that the reset dict is the count over no rows.
  - `ZeroCounts` lists `checkpoints_ok` and `ok` as `FALSE`, as the dict at lines 304-318 does. `EndSession` sets them with `EXCEPT`, as lines 339-347 do.
- **`VerdictsCorrect`**: `Spec => []VerdictMatchesReference`. The `checkpoints_ok` that is returned for a session holds exactly when `CheckpointReached` holds of its rows: every Active worker completed, and no brick is Faulty or Offline.
  - The code compares two counts, the Active rows and the "Yes" rows. `YesOnlyActive` shows that a reconciled row says "Yes" only when it is Active. A live row reports a completion only for an Active worker (`LiveRow`), and `get_offline_status` gives "N/A".
  - `CountVerdict` turns the count comparison into the per-worker statement. The "Yes" rows are a subset of the Active rows, and `FS_Subset` says that a subset with the same cardinality is the whole set. A zero count means an empty set (`FS_EmptySet`).
  - The theorem follows from `SummaryInv`, because `SummariesExact` pairs the x-th entry with the x-th session. The property pairs them the same way. This pairing replaces a `SelectSeq` over the sessions that the provers cannot read. `SummariesExact` shows that it is the same pairing, because no session is nameless.
  - The finding `clean_stop` is consistent with this theorem. With no Active worker the reference holds vacuously, so the verdict is right about the rows. What goes wrong is that those rows do not show that anything was synced.

## Proofs (`GsyncdEntryProofs`)

- **`LogDirsReady`** and **`FallbackLogged`**: `Spec => []LogDirReady` and `Spec => []NoSilentFallback`, for any number of processes, any command lines and any broken directories.
  - The inductive invariant is `EntryInv`. Neither property is inductive alone. A process at `mkdir` needs its log to be `LogOf` of its command line, and a process at `logging` needs the warning to be set whenever the config file was replaced. `EntryInv` adds these facts:
    - no broken directory ever exists, so `os.mkdir` of another process cannot make a broken directory look created;
    - after `ResolveConfig`, the config is the one asked for, or `warn` is set;
    - after `ChooseLog`, the log is `LogOf(call)`;
    - after `SetupLogging`, `warned` equals `warn`.
  - The `Mkdir` step is split into its three cases: the directory exists or the log is stderr, the directory is created, or its parent is missing.

Only TLC checks the following:

- Liveness: `Terminates` and the fairness part of `WindowRefined`. TLAPS does not handle fairness or `ENABLED`.
- `LoopMatchesGetSummary`. It compares the loop with the closed form `GetSummary`, which skips nameless sessions with `SelectSeq` and builds the faulty and offline lists with `FlattenSeq`. `SelectSeq` is built in, and tlapm can neither unfold it nor prove facts about it: even `SelectSeq(<<>>, T) = <<>>` fails. `FlattenSeq` is a fold, and what it computes for every input needs induction over data. `SummariesInOrder` and `VerdictsCorrect` prove the per-session counts and verdicts without the closed form.

## Not modelled

- In `peer_georep-sshkey.py`: two generate invocations overlapping on one peer, the `command=` prefixes and the result table.
- In `gsyncd.py`: the sub-commands, `gconf.load` and `setup_logging`, which are not in this repository. The config file can vanish between `os.path.exists` and `gconf.load`, but what the load then does is not known here. The label and the template values only change text.
- XML parsing and the `node:path` splitting. Brick names are model values.
- Topology changes during a run. `Topo` is a constant.

## Plan for later work

1. Overlapping generate invocations on one peer.
2. Overlapping cron invocations of the scheduler.
3. A topology change during the run, against the never-invalidated cache.
