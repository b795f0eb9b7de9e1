------------------------- MODULE GsyncdEntryProofs -------------------------
(***************************************************************************)
(* Proofs about the start-up of gsyncd.py, for any number of processes,  *)
(* any command lines, any existing config files and log directories.     *)
(***************************************************************************)
EXTENDS GsyncdEntry, TLAPS

\* Steps after ResolveConfig and after ChooseLog.
Resolved == {"log", "mkdir", "logging", "run", "finalized", "died"}
Chosen == {"mkdir", "logging", "run", "finalized", "died"}

\* What a process knows once past each step: the config it resolved or
\* the pending warning, its log file, its directory once past os.mkdir,
\* and the warning logged once logging is up.
EntryInv ==
    /\ TypeOK
    /\ logDirs \subseteq LogFiles \ ({"stderr"} \cup BrokenDirs)
    /\ \A p \in Procs :
          /\ pc[p] \in Resolved /\ ConfPath(call[p]) # "none"
                => cfg[p] = ConfPath(call[p]) \/ warn[p]
          /\ pc[p] \in Chosen => log[p] = LogOf(call[p])
          /\ pc[p] \in {"logging", "run", "finalized"} /\ log[p] # "stderr"
                => log[p] \in logDirs
          /\ pc[p] = "died" => log[p] \in BrokenDirs
          /\ pc[p] \in {"run", "finalized"} => warned[p] = warn[p]

LEMMA EntryInvInit == Init => EntryInv
BY EntryAssumption DEF Init, EntryInv, TypeOK, Resolved, Chosen, Ended,
                       LogFiles, ConfPaths

LEMMA EntryInvStep == EntryInv /\ [Next]_vars => EntryInv'
<1> SUFFICES ASSUME EntryInv, [Next]_vars PROVE EntryInv'
    OBVIOUS
<1> USE EntryAssumption DEF EntryInv, TypeOK, Resolved, Chosen, Ended,
                            LogFiles, ConfPaths
<1>1. ASSUME NEW p \in Procs, Start(p) PROVE EntryInv'
    BY <1>1 DEF Start
<1>2. ASSUME NEW p \in Procs, Split(p) PROVE EntryInv'
    BY <1>2 DEF Split
<1>3. ASSUME NEW p \in Procs, ResolveConfig(p) PROVE EntryInv'
    <2>1. ConfPath(call[p]) \in ConfPaths \cup {"none"}
        BY DEF ConfPath
    <2>2. QED
        BY <1>3, <2>1 DEF ResolveConfig
<1>4. ASSUME NEW p \in Procs, ChooseLog(p) PROVE EntryInv'
    <2>1. LogOf(call[p]) \in LogFiles
        BY DEF LogOf
    <2>2. QED
        BY <1>4, <2>1 DEF ChooseLog
<1>5. ASSUME NEW p \in Procs, Mkdir(p) PROVE EntryInv'
    <2>1. UNCHANGED <<call, cfg, warn, warned, log, exval, confFiles>>
        BY <1>5 DEF Mkdir
    <2>2. pc[p] = "mkdir"
        BY <1>5 DEF Mkdir
    <2>3. CASE /\ log[p] = "stderr" \/ log[p] \in logDirs
               /\ pc' = [pc EXCEPT ![p] = "logging"]
               /\ UNCHANGED logDirs
        BY <2>1, <2>2, <2>3
    <2>4. CASE /\ log[p] # "stderr" /\ log[p] \notin logDirs \cup BrokenDirs
               /\ logDirs' = logDirs \cup {log[p]}
               /\ pc' = [pc EXCEPT ![p] = "logging"]
        <3>1. /\ logDirs' \subseteq LogFiles \ ({"stderr"} \cup BrokenDirs)
              /\ logDirs \subseteq logDirs'
              /\ log[p] \in logDirs'
            BY <2>4
        <3>2. pc' \in [Procs -> {"start", "split", "config", "log", "mkdir",
                                 "logging", "run"} \cup Ended]
            BY <2>4
        <3>3. ASSUME NEW q \in Procs
              PROVE  /\ pc'[q] \in Resolved /\ ConfPath(call'[q]) # "none"
                           => cfg'[q] = ConfPath(call'[q]) \/ warn'[q]
                     /\ pc'[q] \in Chosen => log'[q] = LogOf(call'[q])
                     /\ pc'[q] \in {"logging", "run", "finalized"} /\ log'[q] # "stderr"
                           => log'[q] \in logDirs'
                     /\ pc'[q] = "died" => log'[q] \in BrokenDirs
                     /\ pc'[q] \in {"run", "finalized"} => warned'[q] = warn'[q]
            BY <2>1, <2>2, <2>4, <3>1
        <3>4. QED
            BY <2>1, <3>1, <3>2, <3>3
    <2>5. CASE /\ log[p] \in BrokenDirs
               /\ pc' = [pc EXCEPT ![p] = "died"]
               /\ UNCHANGED logDirs
        BY <2>1, <2>2, <2>5
    <2>6. QED
        BY <1>5, <2>3, <2>4, <2>5 DEF Mkdir
<1>6. ASSUME NEW p \in Procs, SetupLogging(p) PROVE EntryInv'
    BY <1>6 DEF SetupLogging
<1>7. ASSUME NEW p \in Procs, Dispatch(p) PROVE EntryInv'
    BY <1>7 DEF Dispatch
<1>8. CASE UNCHANGED vars
    BY <1>8 DEF vars
<1>9. QED
    BY <1>1, <1>2, <1>3, <1>4, <1>5, <1>6, <1>7, <1>8 DEF Next, Step

(***************************************************************************)
(* The log directory race, for any number of gsyncd processes starting   *)
(* together: os.mkdir ignoring EEXIST means a process dies before logging *)
(* only when the parent of its log directory is missing, and every       *)
(* process that logs to a file finds its directory.                       *)
(***************************************************************************)
THEOREM LogDirsReady == Spec => []LogDirReady
<1>1. EntryInv => LogDirReady
    BY DEF EntryInv, LogDirReady
<1>2. QED
    BY <1>1, EntryInvInit, EntryInvStep, PTL DEF Spec

(***************************************************************************)
(* No silent config fallback, for any number of processes and any config  *)
(* files: a process that runs its sub-command without the config file it  *)
(* looked for has logged the warning computed before logging was set up.  *)
(***************************************************************************)
THEOREM FallbackLogged == Spec => []NoSilentFallback
<1>1. EntryInv => NoSilentFallback
    BY DEF EntryInv, NoSilentFallback, Resolved
<1>2. QED
    BY <1>1, EntryInvInit, EntryInvStep, PTL DEF Spec
=============================================================================
