---------------------------- MODULE GsyncdEntry ----------------------------
(***************************************************************************)
(* main() of geo-replication/syncdaemon/gsyncd.py up to and around the    *)
(* dispatch to its sub-command: the argument check, the split of the     *)
(* secondary user@host::vol, the choice of the config file (the session  *)
(* config, or the default one with a warning when it is missing), the    *)
(* choice of the log file, the creation of its directory, the logging    *)
(* set-up, the sub-command and finalize().  Several gsyncd processes of  *)
(* one session start at once (the monitor spawns a worker and an agent  *)
(* per brick, glusterd runs status and config commands), and they share *)
(* the log directories and the config files.                             *)
(*                                                                         *)
(* Paths are names: a config file is "given" (-c) or "default" (the       *)
(* session's gsyncd.conf), a log file is the cli log, the session log,   *)
(* the subordinate's log or stderr.  The text of the arguments, the label  *)
(* and the template values are left out.                                  *)
(***************************************************************************)
EXTENDS Naturals, FiniteSets, TLC

CONSTANTS
    Procs,          \* the gsyncd processes started
    Calls,          \* the command lines they may be started with
    BrokenDirs,     \* log directories whose parent is missing (ENOENT)
    SubcmdMayRaise  \* the sub-command may end with an exception

\* The positional and config arguments each sub-command's parser accepts.
Args ==
    LET session == {"main", "subordinate", "config_file"} IN
    ("monitor-status" :> session) @@ ("monitor" :> session) @@
    ("worker" :> session) @@ ("agent" :> session) @@
    ("subordinate" :> session) @@ ("status" :> session) @@
    ("config-check" :> {}) @@ ("config-get" :> session) @@
    ("config-set" :> session) @@ ("config-reset" :> session) @@
    ("voluuidget" :> {}) @@ ("delete" :> session)

Subcmds == DOMAIN Args

\* A command line: its sub-command, --version, --debug, -c, and whether
\* the secondary argument has the user@host::vol form.
Invocations == [subcmd : Subcmds, version : BOOLEAN, debug : BOOLEAN,
                cflag : BOOLEAN, form : {"ok", "bad"}]

ConfPaths == {"given", "default"}
LogFiles == {"cli", "session", "subordinate", "stderr"}

ASSUME EntryAssumption ==
    /\ Calls \subseteq Invocations
    /\ BrokenDirs \subseteq LogFiles \ {"stderr"}
    /\ SubcmdMayRaise \in BOOLEAN

VARIABLES
    pc,         \* step of each process
    call,       \* its command line
    cfg,        \* rconf.config_file: "none" or the path loaded
    warn,       \* config_file_error_msg is set
    warned,     \* ... and was logged
    log,        \* the log file chosen
    exval,      \* excont.exval passed to finalize()
    confFiles,  \* the config files that exist
    logDirs     \* the log directories that exist

vars == <<pc, call, cfg, warn, warned, log, exval, confFiles, logDirs>>

\* The config path a process looks for: -c, the session's default when the
\* sub-command takes a config file, or none.
ConfPath(c) ==
    IF "config_file" \notin Args[c.subcmd] THEN "none"
    ELSE IF c.cflag THEN "given" ELSE "default"

\* The log file: the cli log, the session log when main and secondary are
\* given, the subordinate's own log for "subordinate", stderr with --debug.
LogOf(c) ==
    LET base == IF {"main", "subordinate"} \subseteq Args[c.subcmd]
                THEN "session" ELSE "cli"
        own  == IF c.subcmd = "subordinate" THEN "subordinate" ELSE base
    IN  IF c.debug THEN "stderr" ELSE own

Init ==
    /\ pc = [p \in Procs |-> "start"]
    /\ call \in [Procs -> Calls]
    /\ cfg = [p \in Procs |-> "none"]
    /\ warn = [p \in Procs |-> FALSE]
    /\ warned = [p \in Procs |-> FALSE]
    /\ log = [p \in Procs |-> "stderr"]
    /\ exval = [p \in Procs |-> 0]
    /\ confFiles \in SUBSET ConfPaths
    /\ logDirs \in SUBSET (LogFiles \ ({"stderr"} \cup BrokenDirs))

\* argsupgrade.upgrade(); "--version" prints the version and exits 0;
\* parse_args() (the command lines of Calls all parse).
Start(p) ==
    /\ pc[p] = "start"
    /\ pc' = [pc EXCEPT ![p] = IF call[p].version THEN "version" ELSE "split"]
    /\ UNCHANGED <<call, cfg, warn, warned, log, exval, confFiles, logDirs>>

\* hostdata, subordinatevol = args.subordinate.split("::") raises a
\* ValueError, before any logging, unless there is exactly one "::".
Split(p) ==
    /\ pc[p] = "split"
    /\ pc' = [pc EXCEPT ![p] =
                 IF "subordinate" \in Args[call[p].subcmd] /\ call[p].form = "bad"
                 THEN "badargs" ELSE "config"]
    /\ UNCHANGED <<call, cfg, warn, warned, log, exval, confFiles, logDirs>>

\* The config path, and os.path.exists: a missing file is replaced by the
\* default config and the warning is kept for later.
ResolveConfig(p) ==
    /\ pc[p] = "config"
    /\ LET path == ConfPath(call[p]) IN
       /\ cfg' = [cfg EXCEPT ![p] = IF path \in confFiles THEN path ELSE "none"]
       /\ warn' = [warn EXCEPT ![p] = path # "none" /\ path \notin confFiles]
    /\ pc' = [pc EXCEPT ![p] = "log"]
    /\ UNCHANGED <<call, warned, log, exval, confFiles, logDirs>>

\* gconf.load(...), the label, and the log file and level.
ChooseLog(p) ==
    /\ pc[p] = "log"
    /\ log' = [log EXCEPT ![p] = LogOf(call[p])]
    /\ pc' = [pc EXCEPT ![p] = "mkdir"]
    /\ UNCHANGED <<call, cfg, warn, warned, exval, confFiles, logDirs>>

\* Mutant: an existing directory is an error like any other.
MkdirNoEexist(p) ==
    /\ pc[p] = "mkdir"
    /\ \/ /\ log[p] = "stderr"
          /\ pc' = [pc EXCEPT ![p] = "logging"]
          /\ UNCHANGED logDirs
       \/ /\ log[p] # "stderr" /\ log[p] \notin logDirs \cup BrokenDirs
          /\ logDirs' = logDirs \cup {log[p]}
          /\ pc' = [pc EXCEPT ![p] = "logging"]
       \/ /\ log[p] # "stderr" /\ log[p] \in logDirs \cup BrokenDirs
          /\ pc' = [pc EXCEPT ![p] = "died"]
          /\ UNCHANGED logDirs
    /\ UNCHANGED <<call, cfg, warn, warned, log, exval, confFiles>>

\* os.mkdir(os.path.dirname(log_file)) unless the log is stderr: EEXIST
\* is ignored, any other errno (ENOENT here) is raised before logging is
\* set up.
Mkdir(p) ==
    /\ pc[p] = "mkdir"
    /\ \/ /\ log[p] = "stderr" \/ log[p] \in logDirs
          /\ pc' = [pc EXCEPT ![p] = "logging"]
          /\ UNCHANGED logDirs
       \/ /\ log[p] # "stderr" /\ log[p] \notin logDirs \cup BrokenDirs
          /\ logDirs' = logDirs \cup {log[p]}
          /\ pc' = [pc EXCEPT ![p] = "logging"]
       \/ /\ log[p] \in BrokenDirs
          /\ pc' = [pc EXCEPT ![p] = "died"]
          /\ UNCHANGED logDirs
    /\ UNCHANGED <<call, cfg, warn, warned, log, exval, confFiles>>

\* Mutant: the warning about the missing config file is not logged.
SetupLoggingNoWarn(p) ==
    /\ pc[p] = "logging"
    /\ pc' = [pc EXCEPT ![p] = "run"]
    /\ UNCHANGED <<call, cfg, warn, warned, log, exval, confFiles, logDirs>>

\* setup_logging(...), then the warning about a missing config file and
\* set_term_handler().
SetupLogging(p) ==
    /\ pc[p] = "logging"
    /\ warned' = [warned EXCEPT ![p] = warn[p]]
    /\ pc' = [pc EXCEPT ![p] = "run"]
    /\ UNCHANGED <<call, cfg, warn, log, exval, confFiles, logDirs>>

\* subcmd_<name>(args) returns or raises; log_raise_exception sets a
\* non-zero exit value; finalize(exval=excont.exval) ends the process.
Dispatch(p) ==
    /\ pc[p] = "run"
    /\ \E raised \in (IF SubcmdMayRaise THEN BOOLEAN ELSE {FALSE}) :
          exval' = [exval EXCEPT ![p] = IF raised THEN 1 ELSE 0]
    /\ pc' = [pc EXCEPT ![p] = "finalized"]
    /\ UNCHANGED <<call, cfg, warn, warned, log, confFiles, logDirs>>

Step(p) ==
    \/ Start(p) \/ Split(p) \/ ResolveConfig(p) \/ ChooseLog(p)
    \/ Mkdir(p) \/ SetupLogging(p) \/ Dispatch(p)

Next == \E p \in Procs : Step(p)

Spec == Init /\ [][Next]_vars

Ended == {"version", "badargs", "died", "finalized"}

-----------------------------------------------------------------------------
TypeOK ==
    /\ pc \in [Procs -> {"start", "split", "config", "log", "mkdir", "logging",
                         "run"} \cup Ended]
    /\ call \in [Procs -> Calls]
    /\ cfg \in [Procs -> ConfPaths \cup {"none"}]
    /\ warn \in [Procs -> BOOLEAN] /\ warned \in [Procs -> BOOLEAN]
    /\ log \in [Procs -> LogFiles]
    /\ exval \in [Procs -> {0, 1}]
    /\ confFiles \subseteq ConfPaths
    /\ logDirs \subseteq LogFiles \ {"stderr"}

(***************************************************************************)
(* The log directory race: whichever of the processes that start together *)
(* runs os.mkdir first, and whatever directories exist beforehand, a     *)
(* gsyncd dies before setting up logging only when the parent of its log  *)
(* directory is missing -- never because another process created the     *)
(* directory first -- and every process that logs to a file finds its    *)
(* directory there.                                                       *)
(***************************************************************************)
LogDirReady ==
    \A p \in Procs :
        /\ pc[p] = "died" => log[p] \in BrokenDirs
        /\ pc[p] \in {"logging", "run", "finalized"} /\ log[p] # "stderr"
              => log[p] \in logDirs

(***************************************************************************)
(* No silent config fallback: a process that takes a config file and runs *)
(* its sub-command either runs it with that file or has logged, once     *)
(* logging was up, that the file is missing and the default config is    *)
(* used -- the warning computed before logging exists is not lost.        *)
(***************************************************************************)
NoSilentFallback ==
    \A p \in Procs :
        pc[p] \in {"run", "finalized"} /\ ConfPath(call[p]) # "none"
            => cfg[p] = ConfPath(call[p]) \/ warned[p]
=============================================================================
