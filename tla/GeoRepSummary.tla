--------------------------- MODULE GeoRepSummary ---------------------------
(***************************************************************************)
(* The status collection and summary of extras/geo-rep/schedule_georep.py *)
(* as pure operators: get() reconciles the live geo-replication status of *)
(* a session with the brick list of its primary volume, get_summary()     *)
(* reduces the reconciled rows of every session to counters and the two  *)
(* verdicts the scheduling loop acts on.                                  *)
(*                                                                         *)
(* Data abstraction: a row keeps the three fields the summary reads       *)
(* (brick identity, status label, checkpoint_completed); the remaining    *)
(* columns of a pair (crawl status, counters, timestamps) only reach the  *)
(* log output.  A brick name is a model value, so the "node:path"         *)
(* formatting and splitting of get_offline_status is not represented.     *)
(***************************************************************************)
EXTENDS Naturals, Sequences, FiniteSets, SequencesExt

\* Status labels a geo-replication worker reports (the keys of the summary
\* dictionary, before .replace("...", "").lower()).
StatusNames == {"Active", "Passive", "Faulty", "Initializing...",
                "Stopped", "Created", "Paused", "Offline"}

\* Values of the checkpoint_completed column.
CompletedValues == {"Yes", "No", "N/A"}

Row(b, s, c) == [brick |-> b, status |-> s, checkpoint_completed |-> c]

\* get_offline_status(): the row synthesised for a brick that is missing
\* from the live status of its session; every other column is "N/A".
OfflineRow(b) == Row(b, "Offline", "N/A")

\* Mutant: the else branch of get() lost, so a brick without a live row
\* gets no row at all.
SessionRowsLiveOnly(bricks, live) ==
    SelectSeq([i \in 1..Len(bricks) |->
                  IF bricks[i] \in DOMAIN live THEN live[bricks[i]]
                                               ELSE OfflineRow(bricks[i])],
              LAMBDA r : r.status # "Offline")

\* The inner loop of get(): one row per brick of the primary volume, in the
\* order of the brick list; the live row when the session has one for that
\* brick, the synthesised Offline row otherwise.  Live rows of bricks that
\* are not in the brick list are dropped.
SessionRows(bricks, live) ==
    [i \in 1..Len(bricks) |->
        IF bricks[i] \in DOMAIN live THEN live[bricks[i]]
                                     ELSE OfflineRow(bricks[i])]

\* get(): the rows of every live session of the primary volume.  sessions
\* lists the live status map of each session key in the iteration order of
\* the session_keys set, which Python leaves unspecified.
Get(bricks, sessions) ==
    [k \in DOMAIN sessions |-> SessionRows(bricks, sessions[k])]

\* Number of rows whose field f is v.
CountRows(rows, f, v) == Cardinality({i \in DOMAIN rows : rows[i][f] = v})

\* Brick identities ("main_node:main_brick") of the rows with status s, in
\* row order.
BricksWithStatus(rows, s) ==
    LET sel == SelectSeq(rows, LAMBDA r : r.status = s)
    IN  [i \in DOMAIN sel |-> sel[i].brick]

\* Mutant: checkpoints_ok without the offline == 0 condition.
SummarizeIgnoringOffline(rows) ==
    LET active    == CountRows(rows, "status", "Active")
        faulty    == CountRows(rows, "status", "Faulty")
        offline   == CountRows(rows, "status", "Offline")
        completed == CountRows(rows, "checkpoint_completed", "Yes")
    IN  [active                |-> active,
         faulty                |-> faulty,
         offline               |-> offline,
         workers               |-> Len(rows),
         completed_checkpoints |-> completed,
         checkpoints_ok        |-> active = completed /\ faulty = 0,
         ok                    |-> faulty = 0 /\ offline = 0]

\* The per-session part of get_summary(): the counters of the rows and the
\* two verdicts.  checkpoints_ok compares the NUMBER of Active workers with
\* the NUMBER of rows whose checkpoint_completed is "Yes".
Summarize(rows) ==
    LET active    == CountRows(rows, "status", "Active")
        faulty    == CountRows(rows, "status", "Faulty")
        offline   == CountRows(rows, "status", "Offline")
        completed == CountRows(rows, "checkpoint_completed", "Yes")
    IN  [active                |-> active,
         faulty                |-> faulty,
         offline               |-> offline,
         workers               |-> Len(rows),
         completed_checkpoints |-> completed,
         checkpoints_ok        |-> active = completed /\ faulty = 0
                                                      /\ offline = 0,
         ok                    |-> faulty = 0 /\ offline = 0]

\* get_summary(): one entry per session with at least one row (a session
\* with no rows leaves session_name = "" and is skipped).  down_rows and
\* faulty_rows are created once per call and appended to while iterating
\* over ALL sessions, and every entry holds the same two lists: each entry
\* therefore carries the faulty and offline bricks of every session.
GetSummary(statusData) ==
    LET faultyRows == FlattenSeq([k \in DOMAIN statusData |->
                                   BricksWithStatus(statusData[k], "Faulty")])
        downRows   == FlattenSeq([k \in DOMAIN statusData |->
                                   BricksWithStatus(statusData[k], "Offline")])
        named      == SelectSeq(statusData, LAMBDA rows : Len(rows) > 0)
    IN  [k \in DOMAIN named |->
            [summary     |-> Summarize(named[k]),
             faulty_rows |-> faultyRows,
             down_rows   |-> downRows]]
=============================================================================
