------------------------ MODULE GetSummaryLoopProofs ------------------------
(***************************************************************************)
(* Proofs about the loop of get_summary(): its types, and that the        *)
(* summaries it appends are, in order, the summaries of the sessions'    *)
(* reconciled rows -- for every brick set, live status and number of      *)
(* sessions.                                                               *)
(***************************************************************************)
EXTENDS GetSummaryLoop, FiniteSetTheorems, TLAPS

\* How many of the first n rows have value v in field f.
CountTo(rows, n, f, v) == Cardinality({j \in 1..n : rows[j][f] = v})

\* The summary dictionary of session k after its first i - 1 rows.
PrefixCounts ==
    LET rows == StatusData[k] IN
    [active                |-> CountTo(rows, i - 1, "status", "Active"),
     faulty                |-> CountTo(rows, i - 1, "status", "Faulty"),
     offline               |-> CountTo(rows, i - 1, "status", "Offline"),
     workers               |-> i - 1,
     completed_checkpoints |-> CountTo(rows, i - 1, "checkpoint_completed", "Yes"),
     checkpoints_ok        |-> FALSE,
     ok                    |-> FALSE]

\* The summaries of the sessions, the values out may hold.
Summaries == {Summarize(StatusData[x]) : x \in DOMAIN StatusData}

\* The inductive invariant: the inputs are sequences, the counters are
\* those of the rows counted so far, and out holds the summaries of the
\* sessions before k.
SummaryInv ==
    /\ bricks \in Seq(Bricks)
    /\ sessions \in Seq(LiveMaps)
    /\ TypeOK
    /\ counts = PrefixCounts
    /\ (named <=> i > 1)
    /\ out \in Seq(Summaries)
    /\ SummariesExact

\* Counting one more row adds one exactly when it has the value.
LEMMA CountStep ==
    ASSUME NEW rows, NEW n \in Nat \ {0}, NEW f, NEW v
    PROVE  CountTo(rows, n, f, v) =
               CountTo(rows, n - 1, f, v) + (IF rows[n][f] = v THEN 1 ELSE 0)
<1> DEFINE S == {j \in 1..(n - 1) : rows[j][f] = v}
<1>1. IsFiniteSet(S) /\ n \notin S /\ Cardinality(S) \in Nat
    <2>1. IsFiniteSet(1..(n - 1))
        BY FS_Interval
    <2>2. IsFiniteSet(S)
        BY <2>1, FS_Subset
    <2>3. QED
        BY <2>2, FS_CardinalityType
<1>2. CASE rows[n][f] = v
    <2>1. {j \in 1..n : rows[j][f] = v} = S \cup {n}
        <3>1. 1..n = (1..(n - 1)) \cup {n}
            OBVIOUS
        <3>2. QED
            BY <1>2, <3>1, Zenon
    <2>2. Cardinality(S \cup {n}) = Cardinality(S) + 1
        BY <1>1, FS_AddElement
    <2>3. QED
        BY <1>2, <2>1, <2>2 DEF CountTo
<1>3. CASE rows[n][f] # v
    <2>1. {j \in 1..n : rows[j][f] = v} = S
        BY <1>3
    <2>2. CountTo(rows, n, f, v) = Cardinality(S)
        BY <2>1 DEF CountTo
    <2>3. CountTo(rows, n - 1, f, v) = Cardinality(S)
        BY DEF CountTo
    <2>4. QED
        BY <1>1, <1>3, <2>2, <2>3
<1>4. QED
    BY <1>2, <1>3

\* Nothing is counted before the first row.
LEMMA CountZero ==
    ASSUME NEW rows, NEW f, NEW v
    PROVE  CountTo(rows, 0, f, v) = 0
<1>1. {j \in 1..0 : rows[j][f] = v} = {}
    OBVIOUS
<1>2. QED
    BY <1>1, FS_EmptySet DEF CountTo

\* get() gives every session one row per brick, in the brick order.
LEMMA StatusShape ==
    ASSUME bricks \in Seq(Bricks), sessions \in Seq(LiveMaps)
    PROVE  /\ DOMAIN StatusData = 1..Len(sessions)
           /\ Len(StatusData) = Len(sessions)
           /\ \A x \in 1..Len(sessions) :
                 /\ DOMAIN StatusData[x] = 1..Len(bricks)
                 /\ Len(StatusData[x]) = Len(bricks)
                 /\ \A y \in 1..Len(bricks) : StatusData[x][y].brick = bricks[y]
<1>1. DOMAIN StatusData = 1..Len(sessions) /\ Len(StatusData) = Len(sessions)
    BY DEF StatusData, Get
<1>2. ASSUME NEW x \in 1..Len(sessions)
      PROVE  /\ DOMAIN StatusData[x] = 1..Len(bricks)
             /\ Len(StatusData[x]) = Len(bricks)
             /\ \A y \in 1..Len(bricks) : StatusData[x][y].brick = bricks[y]
    <2>1. sessions[x] \in LiveMaps
        OBVIOUS
    <2>2. \A b \in DOMAIN sessions[x] : sessions[x][b].brick = b
        BY <2>1 DEF LiveMaps
    <2>3. QED
        BY <2>2 DEF StatusData, Get, SessionRows, OfflineRow, Row
<1>3. QED
    BY <1>1, <1>2

\* At the end of a session that has had all its rows counted, the two
\* verdicts turn the counters into Summarize of its rows.
\* The counters of a session before its first row are the initial ones.
LEMMA ZeroPrefix ==
    ASSUME NEW rows
    PROVE  [active                |-> CountTo(rows, 0, "status", "Active"),
            faulty                |-> CountTo(rows, 0, "status", "Faulty"),
            offline               |-> CountTo(rows, 0, "status", "Offline"),
            workers               |-> 0,
            completed_checkpoints |-> CountTo(rows, 0, "checkpoint_completed", "Yes"),
            checkpoints_ok        |-> FALSE,
            ok                    |-> FALSE] = ZeroCounts
BY CountZero DEF ZeroCounts

LEMMA EndSummary ==
    ASSUME NEW rows, NEW n \in Nat, DOMAIN rows = 1..n, Len(rows) = n,
           NEW c,
           c = [active                |-> CountTo(rows, n, "status", "Active"),
                faulty                |-> CountTo(rows, n, "status", "Faulty"),
                offline               |-> CountTo(rows, n, "status", "Offline"),
                workers               |-> n,
                completed_checkpoints |-> CountTo(rows, n, "checkpoint_completed", "Yes"),
                checkpoints_ok        |-> FALSE,
                ok                    |-> FALSE]
    PROVE  [c EXCEPT
              !.checkpoints_ok = /\ c.active = c.completed_checkpoints
                                 /\ c.faulty = 0
                                 /\ c.offline = 0,
              !.ok = c.faulty = 0 /\ c.offline = 0] = Summarize(rows)
<1> DEFINE act == CountTo(rows, n, "status", "Active")
          flt == CountTo(rows, n, "status", "Faulty")
          off == CountTo(rows, n, "status", "Offline")
          yes == CountTo(rows, n, "checkpoint_completed", "Yes")
<1>1. ASSUME NEW f, NEW v PROVE CountRows(rows, f, v) = CountTo(rows, n, f, v)
    BY DEF CountRows, CountTo
<1>2. Summarize(rows) =
          [active |-> act, faulty |-> flt, offline |-> off, workers |-> n,
           completed_checkpoints |-> yes,
           checkpoints_ok |-> act = yes /\ flt = 0 /\ off = 0,
           ok |-> flt = 0 /\ off = 0]
    <2>1. /\ CountRows(rows, "status", "Active") = act
          /\ CountRows(rows, "status", "Faulty") = flt
          /\ CountRows(rows, "status", "Offline") = off
          /\ CountRows(rows, "checkpoint_completed", "Yes") = yes
        BY <1>1
    <2>2. QED
        BY <2>1 DEF Summarize
<1> DEFINE r == [c EXCEPT !.checkpoints_ok = act = yes /\ flt = 0 /\ off = 0,
                          !.ok = flt = 0 /\ off = 0]
           l == [active |-> act, faulty |-> flt, offline |-> off, workers |-> n,
                 completed_checkpoints |-> yes,
                 checkpoints_ok |-> act = yes /\ flt = 0 /\ off = 0,
                 ok |-> flt = 0 /\ off = 0]
<1>3. [c EXCEPT
          !.checkpoints_ok = /\ c.active = c.completed_checkpoints
                             /\ c.faulty = 0
                             /\ c.offline = 0,
          !.ok = c.faulty = 0 /\ c.offline = 0] = r
    BY DEF act, flt, off, yes
<1>4. DOMAIN r = DOMAIN l
    OBVIOUS
<1>5. /\ r.active = l.active /\ r.faulty = l.faulty /\ r.offline = l.offline
      /\ r.workers = l.workers /\ r.completed_checkpoints = l.completed_checkpoints
    BY DEF act, flt, off, yes
<1>6. r.checkpoints_ok = l.checkpoints_ok /\ r.ok = l.ok
    BY Zenon
<1>7. r = l
    BY <1>4, <1>5, <1>6, Zenon
<1>8. QED
    BY <1>2, <1>3, <1>7

LEMMA SummaryInvInit == Init => SummaryInv
<1> SUFFICES ASSUME Init PROVE SummaryInv
    OBVIOUS
<1>1. Cardinality(Bricks) \in Nat
    BY LoopAssumption, FS_CardinalityType
<1>2. bricks \in Seq(Bricks)
    BY <1>1 DEF Init, BrickLists
<1>3. sessions \in Seq(LiveMaps)
    BY LoopAssumption DEF Init
<1>4. counts = PrefixCounts
    <2>1. i - 1 = 0
        BY DEF Init
    <2>2. PrefixCounts =
              [active |-> CountTo(StatusData[k], 0, "status", "Active"),
               faulty |-> CountTo(StatusData[k], 0, "status", "Faulty"),
               offline |-> CountTo(StatusData[k], 0, "status", "Offline"),
               workers |-> 0,
               completed_checkpoints |->
                   CountTo(StatusData[k], 0, "checkpoint_completed", "Yes"),
               checkpoints_ok |-> FALSE, ok |-> FALSE]
        BY <2>1 DEF PrefixCounts
    <2>3. QED
        BY <2>2, ZeroPrefix DEF Init
<1>5. Len(sessions) \in 1..MaxSessions
    BY LoopAssumption DEF Init
<1>6. TypeOK
    <2>1. /\ DOMAIN StatusData = 1..Len(sessions)
          /\ \A x \in 1..Len(sessions) :
                /\ Len(StatusData[x]) = Len(bricks)
                /\ \A y \in 1..Len(bricks) : StatusData[x][y].brick = bricks[y]
        BY <1>2, <1>3, StatusShape
    <2>2. Len(bricks) \in Nat
        BY <1>2
    <2>3. k \in 1..(Len(sessions) + 1)
        BY <1>5 DEF Init
    <2>4. i \in 1..(Len(bricks) + 1)
        BY <2>2 DEF Init
    <2>5. named \in BOOLEAN
        BY DEF Init
    <2>6. QED
        BY <2>1, <2>3, <2>4, <2>5 DEF TypeOK
<1>7. SummariesExact
    BY <1>2, <1>3 DEF Init, SummariesExact
<1>8. out \in Seq(Summaries)
    BY DEF Init
<1>9. (named <=> i > 1)
    BY DEF Init
<1>10. QED
    BY <1>2, <1>3, <1>4, <1>6, <1>7, <1>8, <1>9 DEF SummaryInv

\* A row counted: the counters of session k now cover its first i rows.
LEMMA CountRowStep ==
    ASSUME SummaryInv, CountRow
    PROVE  SummaryInv'
<1> DEFINE rows == StatusData[k]
<1>1. /\ DOMAIN StatusData = 1..Len(sessions)
      /\ Len(StatusData) = Len(sessions)
      /\ \A x \in 1..Len(sessions) : Len(StatusData[x]) = Len(bricks)
      /\ Len(bricks) \in Nat /\ Len(sessions) \in Nat
    BY StatusShape DEF SummaryInv
<1>2. /\ UNCHANGED <<bricks, sessions, k, out>>
      /\ StatusData' = StatusData
      /\ i' = i + 1 /\ named' = TRUE
      /\ k \in 1..Len(sessions) /\ i \in 1..Len(bricks)
    <2>1. UNCHANGED <<bricks, sessions, k, out>> /\ i' = i + 1 /\ named' = TRUE
        BY DEF CountRow
    <2>2. StatusData' = StatusData
        BY <2>1 DEF StatusData
    <2>3. k \in 1..Len(sessions)
        BY <1>1 DEF CountRow, SummaryInv, TypeOK
    <2>4. i \in 1..Len(bricks)
        BY <1>1, <2>3 DEF CountRow, SummaryInv, TypeOK
    <2>5. QED
        BY <2>1, <2>2, <2>3, <2>4
<1>3. ASSUME NEW f, NEW v
      PROVE  CountTo(rows, i, f, v) =
                 CountTo(rows, i - 1, f, v) + (IF rows[i][f] = v THEN 1 ELSE 0)
    BY <1>2, CountStep
<1>4. PrefixCounts' =
          [active                |-> CountTo(rows, i, "status", "Active"),
           faulty                |-> CountTo(rows, i, "status", "Faulty"),
           offline               |-> CountTo(rows, i, "status", "Offline"),
           workers               |-> i,
           completed_checkpoints |-> CountTo(rows, i, "checkpoint_completed", "Yes"),
           checkpoints_ok        |-> FALSE,
           ok                    |-> FALSE]
    BY <1>2 DEF PrefixCounts
<1>5. counts' = PrefixCounts'
    <2> DEFINE l == PrefixCounts'
               Add(f, v) == IF rows[i][f] = v THEN 1 ELSE 0
               c0 == [active                |-> CountTo(rows, i - 1, "status", "Active"),
                      faulty                |-> CountTo(rows, i - 1, "status", "Faulty"),
                      offline               |-> CountTo(rows, i - 1, "status", "Offline"),
                      workers               |-> i - 1,
                      completed_checkpoints |-> CountTo(rows, i - 1, "checkpoint_completed", "Yes"),
                      checkpoints_ok        |-> FALSE,
                      ok                    |-> FALSE]
    <2>1. counts = c0
        BY DEF SummaryInv, PrefixCounts
    <2>2. counts' = [c0 EXCEPT
                       !.active = @ + Add("status", "Active"),
                       !.faulty = @ + Add("status", "Faulty"),
                       !.offline = @ + Add("status", "Offline"),
                       !.workers = @ + 1,
                       !.completed_checkpoints = @ + Add("checkpoint_completed", "Yes")]
        BY <2>1 DEF CountRow
    <2>3. /\ counts'.active = CountTo(rows, i - 1, "status", "Active") + Add("status", "Active")
          /\ counts'.faulty = CountTo(rows, i - 1, "status", "Faulty") + Add("status", "Faulty")
          /\ counts'.offline = CountTo(rows, i - 1, "status", "Offline") + Add("status", "Offline")
          /\ counts'.workers = (i - 1) + 1
          /\ counts'.completed_checkpoints =
                 CountTo(rows, i - 1, "checkpoint_completed", "Yes")
                 + Add("checkpoint_completed", "Yes")
          /\ counts'.checkpoints_ok = FALSE /\ counts'.ok = FALSE
          /\ DOMAIN counts' = DOMAIN c0
        BY <2>2
    <2>4. /\ counts'.active = l.active /\ counts'.faulty = l.faulty
          /\ counts'.offline = l.offline /\ counts'.workers = l.workers
          /\ counts'.completed_checkpoints = l.completed_checkpoints
        <3>1. /\ CountTo(rows, i, "status", "Active") =
                     CountTo(rows, i - 1, "status", "Active") + Add("status", "Active")
              /\ CountTo(rows, i, "status", "Faulty") =
                     CountTo(rows, i - 1, "status", "Faulty") + Add("status", "Faulty")
              /\ CountTo(rows, i, "status", "Offline") =
                     CountTo(rows, i - 1, "status", "Offline") + Add("status", "Offline")
              /\ CountTo(rows, i, "checkpoint_completed", "Yes") =
                     CountTo(rows, i - 1, "checkpoint_completed", "Yes")
                     + Add("checkpoint_completed", "Yes")
            BY <1>3 DEF Add
        <3>2. /\ l.active = CountTo(rows, i, "status", "Active")
              /\ l.faulty = CountTo(rows, i, "status", "Faulty")
              /\ l.offline = CountTo(rows, i, "status", "Offline")
              /\ l.workers = i
              /\ l.completed_checkpoints = CountTo(rows, i, "checkpoint_completed", "Yes")
            BY <1>4 DEF l
        <3>3. i \in Nat
            BY <1>2
        <3>4. QED
            BY <2>3, <3>1, <3>2, <3>3
    <2>5. /\ counts'.checkpoints_ok = l.checkpoints_ok /\ counts'.ok = l.ok
          /\ DOMAIN counts' = DOMAIN l
        BY <1>4, <2>3
    <2>6. counts' = [f \in DOMAIN counts' |-> counts'[f]]
        BY <2>2
    <2>7. l = [f \in DOMAIN l |-> l[f]]
        BY <1>4
    <2>8. DOMAIN l = {"active", "faulty", "offline", "workers",
                      "completed_checkpoints", "checkpoints_ok", "ok"}
        BY <1>4 DEF l
    <2>9. \A f \in DOMAIN l : counts'[f] = l[f]
        BY <2>4, <2>5, <2>8, Zenon
    <2>10. counts' = l
        BY <2>5, <2>6, <2>7, <2>9, Zenon
    <2>11. QED
        BY <2>10 DEF l
<1>6. TypeOK'
    <2>1. (\A x \in DOMAIN StatusData :
               /\ Len(StatusData[x]) = Len(bricks)
               /\ \A y \in 1..Len(bricks) : StatusData[x][y].brick = bricks[y])'
        BY <1>2 DEF SummaryInv, TypeOK
    <2>2. k' \in 1..(Len(sessions') + 1)
        BY <1>2
    <2>3. i' \in 1..(Len(bricks') + 1)
        BY <1>1, <1>2
    <2>4. named' \in BOOLEAN
        BY <1>2
    <2>5. QED
        BY <2>1, <2>2, <2>3, <2>4 DEF TypeOK
<1>7. (out \in Seq(Summaries) /\ SummariesExact)'
    BY <1>2 DEF SummaryInv, Summaries, SummariesExact
<1>8. QED
    BY <1>2, <1>5, <1>6, <1>7 DEF SummaryInv

\* A session ended: its summary is appended at position k when the
\* session has rows, and the counters start again for session k + 1.
LEMMA EndSessionStep ==
    ASSUME SummaryInv, EndSession
    PROVE  SummaryInv'
<1> DEFINE rows == StatusData[k]
           n == Len(bricks)
           s == [counts EXCEPT
                   !.checkpoints_ok = /\ counts.active = counts.completed_checkpoints
                                      /\ counts.faulty = 0
                                      /\ counts.offline = 0,
                   !.ok = counts.faulty = 0 /\ counts.offline = 0]
<1> USE DEF rows, n
<1>1. /\ DOMAIN StatusData = 1..Len(sessions)
      /\ Len(StatusData) = Len(sessions)
      /\ \A x \in 1..Len(sessions) : DOMAIN StatusData[x] = 1..Len(bricks)
                                     /\ Len(StatusData[x]) = Len(bricks)
      /\ n \in Nat /\ Len(sessions) \in Nat
    BY StatusShape DEF SummaryInv
<1>2. /\ UNCHANGED <<bricks, sessions>>
      /\ StatusData' = StatusData
      /\ k' = k + 1 /\ i' = 1 /\ counts' = ZeroCounts /\ named' = FALSE
      /\ out' = IF named THEN Append(out, s) ELSE out
    <2>1. UNCHANGED <<bricks, sessions>>
        BY DEF EndSession
    <2>2. QED
        BY <2>1 DEF EndSession, StatusData
<1>3. k \in 1..Len(sessions) /\ i = n + 1
    BY <1>1 DEF EndSession, SummaryInv, TypeOK
<1>4. s = Summarize(rows)
    <2>1. counts = [active                |-> CountTo(rows, n, "status", "Active"),
                    faulty                |-> CountTo(rows, n, "status", "Faulty"),
                    offline               |-> CountTo(rows, n, "status", "Offline"),
                    workers               |-> n,
                    completed_checkpoints |-> CountTo(rows, n, "checkpoint_completed", "Yes"),
                    checkpoints_ok        |-> FALSE,
                    ok                    |-> FALSE]
        BY <1>3 DEF SummaryInv, PrefixCounts
    <2>2. DOMAIN rows = 1..n /\ Len(rows) = n
        BY <1>1, <1>3
    <2>3. QED
        BY <1>1, <2>1, <2>2, EndSummary
<1>5. named <=> n > 0
    BY <1>1, <1>3 DEF SummaryInv
<1>6. Summarize(rows) \in Summaries
    BY <1>1, <1>3 DEF Summaries
<1>7. ASSUME n > 0 PROVE SummariesExact' /\ out' \in Seq(Summaries)
    <2>1. out' = Append(out, Summarize(rows))
        BY <1>2, <1>4, <1>5, <1>7
    <2>2. Len(out) = k - 1 /\ out \in Seq(Summaries)
        BY <1>7 DEF SummaryInv, SummariesExact
    <2>3. out' \in Seq(Summaries) /\ Len(out') = k
        BY <1>3, <1>6, <2>1, <2>2
    <2>4. \A x \in DOMAIN out' : out'[x] = Summarize(StatusData[x])
        BY <2>1, <2>2, <1>3 DEF SummaryInv, SummariesExact
    <2>5. QED
        BY <1>2, <1>7, <2>3, <2>4 DEF SummariesExact
<1>8. ASSUME n = 0 PROVE SummariesExact' /\ out' \in Seq(Summaries)
    <2>1. out' = out /\ Len(out) = 0 /\ out \in Seq(Summaries)
        BY <1>2, <1>5, <1>8 DEF SummaryInv, SummariesExact
    <2>2. QED
        BY <1>2, <1>8, <2>1 DEF SummariesExact
<1>9. SummariesExact' /\ out' \in Seq(Summaries)
    BY <1>1, <1>7, <1>8
<1>10. counts' = PrefixCounts'
    <2>1. PrefixCounts' =
              [active |-> CountTo(StatusData[k + 1], 0, "status", "Active"),
               faulty |-> CountTo(StatusData[k + 1], 0, "status", "Faulty"),
               offline |-> CountTo(StatusData[k + 1], 0, "status", "Offline"),
               workers |-> 0,
               completed_checkpoints |->
                   CountTo(StatusData[k + 1], 0, "checkpoint_completed", "Yes"),
               checkpoints_ok |-> FALSE, ok |-> FALSE]
        BY <1>2 DEF PrefixCounts
    <2>2. QED
        BY <1>2, <2>1, ZeroPrefix
<1>11. TypeOK'
    <2>1. \A x \in DOMAIN StatusData :
             /\ Len(StatusData[x]) = Len(bricks)
             /\ \A y \in 1..Len(bricks) : StatusData[x][y].brick = bricks[y]
        BY DEF SummaryInv, TypeOK
    <2>2. k' \in 1..(Len(sessions) + 1) /\ i' \in 1..(Len(bricks) + 1)
        BY <1>1, <1>2, <1>3
    <2>3. QED
        BY <1>2, <2>1, <2>2 DEF TypeOK
<1>12. (bricks \in Seq(Bricks) /\ sessions \in Seq(LiveMaps) /\ (named <=> i > 1))'
    BY <1>2 DEF SummaryInv
<1>13. Summaries' = Summaries
    BY <1>2 DEF Summaries
<1>14. QED
    BY <1>9, <1>10, <1>11, <1>12, <1>13 DEF SummaryInv

\* Every step of the loop, and every stutter, keeps the invariant.
LEMMA SummaryInvStep == SummaryInv /\ [Next]_vars => SummaryInv'
<1> SUFFICES ASSUME SummaryInv, [Next]_vars PROVE SummaryInv'
    OBVIOUS
<1>1. CASE CountRow
    BY <1>1, CountRowStep
<1>2. CASE EndSession
    BY <1>2, EndSessionStep
<1>3. CASE UNCHANGED vars
    BY <1>3 DEF vars, SummaryInv, StatusData, PrefixCounts, Summaries,
                SummariesExact, TypeOK
<1>4. QED
    BY <1>1, <1>2, <1>3 DEF Next

(* get_summary() keeps its types: every session has one row per brick,    *)
(* naming each brick in order, and the session and row cursors k and i   *)
(* stay within the lists they walk -- for every brick set and status.     *)
THEOREM LoopTypeCorrect == Spec => []TypeOK
<1>1. SummaryInv => TypeOK
    BY DEF SummaryInv
<1>2. QED
    BY <1>1, SummaryInvInit, SummaryInvStep, PTL DEF Spec

(* The summaries get_summary() appends are, at every point of its loop,  *)
(* exactly the summaries of the sessions already walked, in session      *)
(* order: the counters of a session are reset before the next one and    *)
(* its verdict is taken over all of its rows.                            *)
THEOREM SummariesInOrder == Spec => []SummariesExact
<1>1. SummaryInv => SummariesExact
    BY DEF SummaryInv
<1>2. QED
    BY <1>1, SummaryInvInit, SummaryInvStep, PTL DEF Spec

\* The control plane reports a completed checkpoint only for an Active
\* worker, and get_offline_status() reports "N/A": a reconciled row that
\* says "Yes" is an Active one.
LEMMA YesOnlyActive ==
    ASSUME bricks \in Seq(Bricks), sessions \in Seq(LiveMaps),
           NEW x \in 1..Len(sessions), NEW y \in 1..Len(bricks),
           StatusData[x][y].checkpoint_completed = "Yes"
    PROVE  StatusData[x][y].status = "Active"
<1> DEFINE live == sessions[x]
           b == bricks[y]
<1>1. StatusData[x][y] = IF b \in DOMAIN live THEN live[b] ELSE OfflineRow(b)
    BY DEF StatusData, Get, SessionRows
<1>2. CASE b \notin DOMAIN live
    BY <1>1, <1>2 DEF OfflineRow, Row
<1>3. CASE b \in DOMAIN live
    <2>1. live \in LiveMaps
        OBVIOUS
    <2>2. live[b] \in UNION {LiveRow(c) : c \in Bricks}
        BY <1>3, <2>1 DEF LiveMaps
    <2>3. PICK c \in Bricks, st \in LiveStatuses :
              \E v \in (IF st = "Active" THEN {"Yes", "No"} ELSE {"N/A"}) :
                  live[b] = Row(c, st, v)
        BY <2>2 DEF LiveRow
    <2>4. QED
        BY <1>1, <1>3, <2>3 DEF Row
<1>4. QED
    BY <1>2, <1>3

\* The count comparison of get_summary() is exact: when only Active rows
\* report "Yes", as many Active rows as "Yes" rows means every Active row
\* says "Yes", and a zero count means no such row.
LEMMA CountVerdict ==
    ASSUME NEW rows, NEW n \in Nat, DOMAIN rows = 1..n,
           \A y \in 1..n : rows[y].checkpoint_completed = "Yes" =>
                           rows[y].status = "Active"
    PROVE  Summarize(rows).checkpoints_ok <=> CheckpointReached(rows)
<1> DEFINE A == {y \in DOMAIN rows : rows[y]["status"] = "Active"}
           Y == {y \in DOMAIN rows : rows[y]["checkpoint_completed"] = "Yes"}
           F == {y \in DOMAIN rows : rows[y]["status"] = "Faulty"}
           O == {y \in DOMAIN rows : rows[y]["status"] = "Offline"}
<1>1. IsFiniteSet(A) /\ IsFiniteSet(F) /\ IsFiniteSet(O) /\ Y \subseteq A
    <2>1. IsFiniteSet(1..n)
        BY FS_Interval
    <2>2. QED
        BY <2>1, FS_Subset
<1>2. Cardinality(A) = Cardinality(Y) <=> A = Y
    BY <1>1, FS_Subset
<1>3. /\ Cardinality(F) = 0 <=> F = {}
      /\ Cardinality(O) = 0 <=> O = {}
    BY <1>1, FS_EmptySet
<1>4. Summarize(rows).checkpoints_ok <=>
          /\ Cardinality(A) = Cardinality(Y)
          /\ Cardinality(F) = 0
          /\ Cardinality(O) = 0
    BY DEF Summarize, CountRows
<1>5. A = Y <=> \A y \in DOMAIN rows :
                    rows[y].status = "Active" => rows[y].checkpoint_completed = "Yes"
    BY <1>1
<1>6. F = {} /\ O = {} <=>
          \A y \in DOMAIN rows : rows[y].status \notin {"Faulty", "Offline"}
    OBVIOUS
<1>7. QED
    BY <1>2, <1>3, <1>4, <1>5, <1>6 DEF CheckpointReached

(* The checkpoint verdict get_summary() returns for each session is what  *)
(* checkpoint completion means for that session's rows: every Active     *)
(* worker completed, none Faulty or Offline.  The code compares two      *)
(* counts; the verdict is right because get() and the control plane give *)
(* "Yes" only to Active rows -- for any bricks, status and sessions.      *)
THEOREM VerdictsCorrect == Spec => []VerdictMatchesReference
<1>1. SummaryInv => VerdictMatchesReference
    <2> SUFFICES ASSUME SummaryInv, Returned, NEW x \in DOMAIN Result
                 PROVE  Result[x].summary.checkpoints_ok <=>
                            CheckpointReached(StatusData[x])
        BY DEF VerdictMatchesReference
    <2>1. x \in DOMAIN out /\ Result[x].summary = out[x]
        BY DEF Result
    <2>2. out[x] = Summarize(StatusData[x])
        BY <2>1 DEF SummaryInv, SummariesExact
    <2>3. x \in 1..Len(sessions)
        BY <2>1 DEF SummaryInv, SummariesExact, TypeOK
    <2>4. bricks \in Seq(Bricks) /\ sessions \in Seq(LiveMaps)
        BY DEF SummaryInv
    <2>5. DOMAIN StatusData[x] = 1..Len(bricks)
        BY <2>3, <2>4, StatusShape
    <2>6. \A y \in 1..Len(bricks) :
              StatusData[x][y].checkpoint_completed = "Yes" =>
              StatusData[x][y].status = "Active"
        BY <2>3, <2>4, YesOnlyActive
    <2>7. Summarize(StatusData[x]).checkpoints_ok <=> CheckpointReached(StatusData[x])
        BY <2>4, <2>5, <2>6, CountVerdict
    <2>8. QED
        BY <2>1, <2>2, <2>7
<1>2. QED
    BY <1>1, SummaryInvInit, SummaryInvStep, PTL DEF Spec
=============================================================================
