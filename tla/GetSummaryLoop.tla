--------------------------- MODULE GetSummaryLoop ---------------------------
(***************************************************************************)
(* get_summary() of schedule_georep.py as the loop it is: one step per row *)
(* of the reconciled status (for row in session), one step per end of a   *)
(* session (the two verdicts and the append to out).  The inputs are every *)
(* brick order of Bricks and every live status of up to MaxSessions        *)
(* sessions, reconciled by get().  The loop is checked against the closed *)
(* form GetSummary that the scheduling loop model uses, and its verdict   *)
(* against what checkpoint completion means.                              *)
(*                                                                         *)
(* out keeps the summary of each named session; the faulty and offline   *)
(* lists are two objects every entry of out refers to (the code appends  *)
(* the same list objects), so an entry shows them as they are on return.  *)
(***************************************************************************)
EXTENDS GeoRepSummary

CONSTANTS
    Bricks,         \* brick identities of the primary volume (model values)
    LiveStatuses,   \* status labels the live status may report
    MaxSessions     \* number of sessions the status query may return

ASSUME LoopAssumption ==
    /\ IsFiniteSet(Bricks)
    /\ LiveStatuses \subseteq StatusNames
    /\ MaxSessions \in Nat \ {0}

VARIABLES
    bricks,     \* the brick list of the primary volume (get_bricks)
    sessions,   \* live status maps, one per session (get_georep_status)
    k,          \* index of the session being summarised
    i,          \* index of its next row
    counts,     \* the summary dictionary of the session being summarised
    named,      \* session_name # "": the session had a row
    faultyRows, \* faulty_rows, shared by every session
    downRows,   \* down_rows, shared by every session
    out         \* the summaries appended so far

vars == <<bricks, sessions, k, i, counts, named, faultyRows, downRows, out>>

\* A live row as the control plane reports it: only an Active worker
\* reports a checkpoint_completed of "Yes" or "No".
LiveRow(b) ==
    UNION {{Row(b, s, c) : c \in IF s = "Active" THEN {"Yes", "No"} ELSE {"N/A"}} :
               s \in LiveStatuses}

\* Brick lists: the distinct bricks in some order.
BrickLists == {f \in [1..Cardinality(Bricks) -> Bricks] :
                   \A x, y \in DOMAIN f : x # y => f[x] # f[y]}

\* A live status map of one session: some bricks, each with its own row.
LiveMaps == {m \in UNION {[D -> UNION {LiveRow(b) : b \in Bricks}] : D \in SUBSET Bricks} :
                \A b \in DOMAIN m : m[b].brick = b}

StatusData == Get(bricks, sessions)

\* The summary dictionary as initialised for each session.
ZeroCounts == [active |-> 0, faulty |-> 0, offline |-> 0, workers |-> 0,
               completed_checkpoints |-> 0, checkpoints_ok |-> FALSE, ok |-> FALSE]

Init ==
    /\ bricks \in BrickLists
    /\ sessions \in UNION {[1..n -> LiveMaps] : n \in 1..MaxSessions}
    /\ k = 1
    /\ i = 1
    /\ counts = ZeroCounts
    /\ named = FALSE
    /\ faultyRows = << >>
    /\ downRows = << >>
    /\ out = << >>

\* for row in session: count its status and completion, remember the
\* session name, append a Faulty or Offline brick to the shared lists.
CountRow ==
    /\ k <= Len(StatusData)
    /\ i <= Len(StatusData[k])
    /\ LET r == StatusData[k][i] IN
       /\ counts' = [counts EXCEPT
                       !.active = @ + (IF r.status = "Active" THEN 1 ELSE 0),
                       !.faulty = @ + (IF r.status = "Faulty" THEN 1 ELSE 0),
                       !.offline = @ + (IF r.status = "Offline" THEN 1 ELSE 0),
                       !.workers = @ + 1,
                       !.completed_checkpoints =
                           @ + (IF r.checkpoint_completed = "Yes" THEN 1 ELSE 0)]
       /\ faultyRows' = IF r.status = "Faulty" THEN Append(faultyRows, r.brick)
                                                ELSE faultyRows
       /\ downRows' = IF r.status = "Offline" THEN Append(downRows, r.brick)
                                               ELSE downRows
    /\ named' = TRUE
    /\ i' = i + 1
    /\ UNCHANGED <<bricks, sessions, k, out>>

\* Mutant: checkpoints_ok without the offline == 0 condition.
EndSessionIgnoringOffline ==
    /\ k <= Len(StatusData)
    /\ i > Len(StatusData[k])
    /\ LET s == [counts EXCEPT
                     !.checkpoints_ok = counts.active = counts.completed_checkpoints
                                        /\ counts.faulty = 0,
                     !.ok = counts.faulty = 0 /\ counts.offline = 0]
       IN  out' = IF named THEN Append(out, s) ELSE out
    /\ k' = k + 1
    /\ i' = 1
    /\ counts' = ZeroCounts
    /\ named' = FALSE
    /\ UNCHANGED <<bricks, sessions, faultyRows, downRows>>

\* End of a session: the two verdicts, then out.append(...) when the
\* session had a row.  The counters and the name start again; the lists
\* do not.
EndSession ==
    /\ k <= Len(StatusData)
    /\ i > Len(StatusData[k])
    /\ LET s == [counts EXCEPT
                     !.checkpoints_ok = /\ counts.active = counts.completed_checkpoints
                                        /\ counts.faulty = 0
                                        /\ counts.offline = 0,
                     !.ok = counts.faulty = 0 /\ counts.offline = 0]
       IN  out' = IF named THEN Append(out, s) ELSE out
    /\ k' = k + 1
    /\ i' = 1
    /\ counts' = ZeroCounts
    /\ named' = FALSE
    /\ UNCHANGED <<bricks, sessions, faultyRows, downRows>>

Returned == k > Len(StatusData)

Next == CountRow \/ EndSession

\* get_summary() returns once every session is summarised.
Spec == Init /\ [][Next]_vars

\* The value get_summary() returns.
Result == [x \in DOMAIN out |-> [summary     |-> out[x],
                                 faulty_rows |-> faultyRows,
                                 down_rows   |-> downRows]]

TypeOK ==
    /\ \A x \in DOMAIN StatusData :
          /\ Len(StatusData[x]) = Len(bricks)
          /\ \A y \in 1..Len(bricks) : StatusData[x][y].brick = bricks[y]
    /\ k \in 1..(Len(sessions) + 1)
    /\ i \in 1..(Len(bricks) + 1)
    /\ named \in BOOLEAN

(***************************************************************************)
(* Loop against closed form: when get_summary() returns, its value is the *)
(* GetSummary of the reconciled rows -- same counters, same verdicts, the *)
(* session entries in the same order and the same shared lists -- so the  *)
(* scheduling loop model may use the closed form.                         *)
(***************************************************************************)
LoopMatchesGetSummary ==
    Returned =>
        /\ Len(Result) = Len(GetSummary(StatusData))
        /\ \A x \in DOMAIN Result :
              LET g == GetSummary(StatusData)[x] IN
              /\ Result[x].faulty_rows = g.faulty_rows
              /\ Result[x].down_rows = g.down_rows
              /\ \A f \in {"active", "faulty", "offline", "workers",
                           "completed_checkpoints", "checkpoints_ok", "ok"} :
                    Result[x].summary[f] = g.summary[f]

(***************************************************************************)
(* Summaries in session order: get() gives every session a row for every *)
(* brick (an Offline one when the live status lacks it), so no session is *)
(* skipped as nameless, and the x-th summary get_summary() has appended   *)
(* is the summary of the x-th session's rows: counters, both verdicts.    *)
(***************************************************************************)
SummariesExact ==
    /\ Len(out) = IF Len(bricks) > 0 THEN k - 1 ELSE 0
    /\ \A x \in DOMAIN out : out[x] = Summarize(StatusData[x])

\* What a completed checkpoint means for one session (spec, sections 3 and
\* 4.5): every Active worker has completed it, and no brick is Faulty or
\* Offline.
CheckpointReached(rows) ==
    /\ \A y \in DOMAIN rows :
          rows[y].status = "Active" => rows[y].checkpoint_completed = "Yes"
    /\ \A y \in DOMAIN rows : rows[y].status \notin {"Faulty", "Offline"}

(***************************************************************************)
(* Checkpoint verdict against its reference (spec, sections 3 and 4.5):   *)
(* the value get_summary() returns reports checkpoints_ok for a session   *)
(* exactly when CheckpointReached holds of that session's reconciled      *)
(* rows -- a count comparison in the code, a statement about each worker *)
(* in the reference.  The x-th entry is the x-th session's: no session    *)
(* is skipped as nameless, as SummariesExact states.                      *)
(***************************************************************************)
VerdictMatchesReference ==
    Returned =>
        \A x \in DOMAIN Result :
            Result[x].summary.checkpoints_ok <=> CheckpointReached(StatusData[x])

(***************************************************************************)
(* Per-session failure lists (spec, section 3: a SessionSummary holds the *)
(* lists of ITS faulty and offline bricks): every brick get_summary()     *)
(* lists as Faulty for a session is Faulty in that session's rows.        *)
(***************************************************************************)
FaultyListsPerSession ==
    Returned =>
        LET rowsOf == SelectSeq(StatusData, LAMBDA rows : Len(rows) > 0) IN
        \A x \in DOMAIN Result :
            \A y \in DOMAIN Result[x].faulty_rows :
                \E z \in DOMAIN rowsOf[x] :
                    /\ rowsOf[x][z].brick = Result[x].faulty_rows[y]
                    /\ rowsOf[x][z].status = "Faulty"
=============================================================================
