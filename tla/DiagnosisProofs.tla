-------------------------- MODULE DiagnosisProofs --------------------------
(***************************************************************************)
(* Proofs about Diagnosis, for any processes, rows, size of the logs and   *)
(* number of attempts.                                                     *)
(***************************************************************************)
EXTENDS Diagnosis, TLAPS

Reading == {"diagnose", "diagnose-signals", "diagnosed",
            "show", "show-signals", "shown", "served"}

(***************************************************************************)
(* The inductive invariant.  A reader has the manifest lock (Locked), so   *)
(* that the attempt it reads about is the latest one until it is done;     *)
(* what it has seen are rows of that attempt (Seen), and what it may have  *)
(* to show is among them or still to be read (Awaited).  A row is in a log *)
(* for good, so that nobody records it again (Tagged).                     *)
(***************************************************************************)
Locked ==
  \A p \in Procs :
    /\ pc[p] \in Reading \cup {"begun"} => locker = p
    /\ pc[p] \in Reading => verdict # "running"

Logged(r) == \E l \in Logs : \E e \in log[l] : e.row = r

Tagged ==
  /\ \A l \in Logs : \A e \in log[l] : origin[e.row] \in {0, e.attempt}
  /\ \A p \in Procs : job[p].row # NoRow => origin[job[p].row] \in {0, job[p].attempt}
  /\ \A p \in Procs : pc[p] \in {"measure", "append", "invalidate"} => job[p].row # NoRow

Seen ==
  \A p \in Procs :
    /\ pc[p] \notin Reading => seen[p] = {}
    /\ \A r \in seen[p] : Logged(r) /\ origin[r] \in {0, latest}

Made ==
  diagnosis # NoDiagnosis =>
    \A r \in diagnosis.rows : Logged(r) /\ origin[r] \in {0, diagnosis.marker}

Awaited ==
  \A p \in Procs :
    /\ pc[p] = "show" =>
         due[p] \subseteq RowsOf("observations", latest) \cup RowsOf("signals", latest)
    /\ pc[p] = "show-signals" => due[p] \subseteq seen[p] \cup RowsOf("signals", latest)
    /\ pc[p] = "shown" => due[p] \subseteq seen[p]

Inv == /\ DiagnosisTypeOK
       /\ Locked
       /\ Tagged
       /\ Seen
       /\ Made
       /\ Awaited
       /\ ServedCurrent
       /\ ServedComplete

-----------------------------------------------------------------------------
\* A command that ends leaves nothing behind but what is on disk.
LEMMA LeaveClears ==
  ASSUME DiagnosisTypeOK, NEW p \in Procs, Leave(p)
  PROVE  /\ pc'[p] = "idle" /\ job'[p] = NoJob /\ seen'[p] = {} /\ due'[p] = {}
         /\ \A q \in Procs \ {p} :
              /\ pc'[q] = pc[q] /\ job'[q] = job[q] /\ seen'[q] = seen[q]
              /\ payload'[q] = payload[q] /\ due'[q] = due[q]
         /\ locker' = IF locker = p THEN NoProc ELSE locker
         /\ DOMAIN pc' = Procs
  BY DEF Leave, Goto, DiagnosisTypeOK

LEMMA LeaveTypes ==
  ASSUME DiagnosisTypeOK, NEW p \in Procs, Leave(p)
  PROVE  /\ locker' \in Procs \cup {NoProc}
         /\ pc' \in [Procs -> {"idle", "measure", "append", "invalidate", "begun",
                       "diagnose", "diagnose-signals", "diagnosed",
                       "show", "show-signals", "shown", "served"}]
         /\ job' \in [Procs -> {NoJob} \cup
                [log : Logs, row : Rows, attempt : 0..MaxGeneration]]
         /\ seen' \in [Procs -> SUBSET Rows]
         /\ payload' \in [Procs -> Diagnoses \cup {NoDiagnosis}]
         /\ due' \in [Procs -> SUBSET Rows]
  BY DEF Leave, Goto, DiagnosisTypeOK

\* A process that leaves while the rest of the world stays as it is.
LEMMA LeaveKeeps ==
  ASSUME Inv, NEW p \in Procs, Leave(p),
         UNCHANGED <<latest, verdict, log, origin>>,
         torn' \subseteq Logs, recorded' \subseteq Rows,
         diagnosis' \in {diagnosis, NoDiagnosis} \/ Made',
         diagnosis' \in Diagnoses \cup {NoDiagnosis}
  PROVE  Inv'
  <1> USE DiagnosisAssumption DEF Inv
  <1>1. DiagnosisTypeOK'
    BY LeaveTypes DEF DiagnosisTypeOK, TypeOK
  <1>2. Locked'
    BY LeaveClears DEF Locked, Reading
  <1>3. Tagged'
    BY LeaveClears DEF Tagged, NoJob
  <1>4. Seen'
    BY LeaveClears DEF Seen, Logged, Reading
  <1>5. Made'
    BY DEF Made, Logged
  <1>6. Awaited'
    BY LeaveClears DEF Awaited, RowsOf
  <1>7. ServedCurrent' /\ ServedComplete'
    BY LeaveClears DEF ServedCurrent, ServedComplete
  <1> QED BY <1>1, <1>2, <1>3, <1>4, <1>5, <1>6, <1>7

\* The rows of a log are rows.
LEMMA RowsOfType ==
  ASSUME DiagnosisTypeOK, NEW l \in Logs, NEW a
  PROVE  /\ RowsOf(l, a) \subseteq Rows
         /\ \A r \in RowsOf(l, a) : Logged(r)
  BY DEF DiagnosisTypeOK, RowsOf, Logged

\* A row of attempt a was observed by nobody's child or by one of a.
LEMMA RowsOfOrigin ==
  ASSUME Tagged, NEW l \in Logs, NEW a
  PROVE  \A r \in RowsOf(l, a) : origin[r] \in {0, a}
  BY DEF Tagged, RowsOf

-----------------------------------------------------------------------------
LEMMA RecordKeeps ==
  ASSUME Inv, NEW p \in Procs, Record(p)
  PROVE  Inv'
  <1> USE DiagnosisAssumption DEF Inv
  <1>1. PICK l \in Logs, r \in Rows, child \in 0..latest :
          /\ Fresh(r) /\ MayRecord(child)
          /\ job' = [job EXCEPT ![p] = [log |-> l, row |-> r, attempt |-> latest]]
          /\ origin' = [origin EXCEPT ![r] = child]
    BY DEF Record
  <1>2. /\ child \in {0, latest} /\ child \in 0..MaxGeneration
        /\ ~Logged(r) /\ \A q \in Procs : job[q].row # r
    BY <1>1, MaxGenerationAssumption
    DEF MayRecord, Fresh, Logged, DiagnosisTypeOK, TypeOK
  <1>3. /\ pc[p] = "idle" /\ pc' = [pc EXCEPT ![p] = "measure"]
        /\ UNCHANGED <<latest, verdict, log, torn, diagnosis, locker, seen, payload, due,
                       recorded>>
    BY DEF Record, Goto, logs
  <1>4. \A x \in Rows : x # r => origin'[x] = origin[x]
    BY <1>1 DEF DiagnosisTypeOK
  <1>5. DiagnosisTypeOK'
    BY <1>1, <1>2, <1>3 DEF DiagnosisTypeOK, TypeOK
  <1>6. Locked'
    BY <1>3 DEF Locked, Reading, DiagnosisTypeOK
  <1>7. Tagged'
    <2>1. \A m \in Logs : \A e \in log'[m] : origin'[e.row] \in {0, e.attempt}
      BY <1>2, <1>3, <1>4 DEF Tagged, Logged, DiagnosisTypeOK
    <2>2. \A q \in Procs : job'[q].row # NoRow => origin'[job'[q].row] \in {0, job'[q].attempt}
      <3> TAKE q \in Procs
      <3>1. CASE q = p
        BY <1>1, <1>2, <3>1 DEF DiagnosisTypeOK
      <3>2. CASE q # p
        BY <1>1, <1>2, <1>4, <3>2 DEF DiagnosisTypeOK, Tagged, NoJob
      <3> QED BY <3>1, <3>2
    <2>3. \A q \in Procs : pc'[q] \in {"measure", "append", "invalidate"} => job'[q].row # NoRow
      BY <1>1, <1>3 DEF Tagged, DiagnosisTypeOK
    <2> QED BY <2>1, <2>2, <2>3 DEF Tagged
  <1>8. Seen'
    BY <1>2, <1>3, <1>4 DEF Seen, Logged, Reading, DiagnosisTypeOK
  <1>9. Made'
    BY <1>2, <1>3, <1>4 DEF Made, Logged, DiagnosisTypeOK, Diagnoses
  <1>10. Awaited'
    BY <1>3 DEF Awaited, RowsOf, DiagnosisTypeOK
  <1>11. ServedCurrent' /\ ServedComplete'
    BY <1>3 DEF ServedCurrent, ServedComplete, DiagnosisTypeOK
  <1> QED BY <1>5, <1>6, <1>7, <1>8, <1>9, <1>10, <1>11

LEMMA MeasureKeeps ==
  ASSUME Inv, NEW p \in Procs, Measure(p)
  PROVE  Inv'
  <1> USE DiagnosisAssumption DEF Inv
  <1>1. CASE Leave(p)
    BY <1>1, LeaveKeeps DEF Measure, logs, DiagnosisTypeOK
  <1>2. CASE Goto(p, "append") /\ UNCHANGED <<commands, locker>>
    <2>1. /\ pc[p] = "measure" /\ pc' = [pc EXCEPT ![p] = "append"]
          /\ UNCHANGED <<latest, verdict, log, torn, diagnosis, locker, job, seen, payload,
                         due, origin, recorded>>
      BY <1>2 DEF Measure, Goto, logs, commands
    <2>2. DiagnosisTypeOK'
      BY <2>1 DEF DiagnosisTypeOK, TypeOK
    <2>3. Locked' /\ Tagged'
      BY <2>1 DEF Locked, Tagged, Reading, DiagnosisTypeOK
    <2>4. Seen' /\ Made' /\ Awaited'
      BY <2>1 DEF Seen, Made, Awaited, Logged, Reading, RowsOf, DiagnosisTypeOK
    <2>5. ServedCurrent' /\ ServedComplete'
      BY <2>1 DEF ServedCurrent, ServedComplete, DiagnosisTypeOK
    <2> QED BY <2>2, <2>3, <2>4, <2>5
  <1> QED BY <1>1, <1>2 DEF Measure

LEMMA AppendKeeps ==
  ASSUME Inv, NEW p \in Procs, Append(p)
  PROVE  Inv'
  <1> USE DiagnosisAssumption DEF Inv
  <1> DEFINE row == [row |-> job[p].row, attempt |-> job[p].attempt]
  <1>1. job[p] \in [log : Logs, row : Rows, attempt : 0..MaxGeneration]
    BY DEF Append, Tagged, DiagnosisTypeOK, NoJob
  <1>2. /\ pc[p] = "append" /\ pc' = [pc EXCEPT ![p] = "invalidate"]
        /\ log' = [log EXCEPT ![job[p].log] = @ \cup {row}]
        /\ UNCHANGED <<latest, verdict, torn, diagnosis, locker, job, seen, payload,
                       due, origin, recorded>>
    BY DEF Append, Goto, commands
  <1>3. row \in [row : Rows, attempt : 0..MaxGeneration] /\ origin[row.row] \in {0, row.attempt}
    BY <1>1 DEF Tagged
  <1>4. \A l \in Logs : /\ log[l] \subseteq log'[l]
                        /\ log'[l] \subseteq log[l] \cup {row}
    BY <1>1, <1>2 DEF DiagnosisTypeOK
  <1>5. DiagnosisTypeOK'
    BY <1>1, <1>2, <1>3 DEF DiagnosisTypeOK, TypeOK
  <1> HIDE DEF row
  <1>6. Locked'
    BY <1>2 DEF Locked, Reading, DiagnosisTypeOK
  <1>7. Tagged'
    BY <1>2, <1>3, <1>4 DEF Tagged, DiagnosisTypeOK
  <1>8. \A r : Logged(r) => Logged(r)'
    BY <1>4 DEF Logged
  <1>9. \A l \in Logs : RowsOf(l, latest) \subseteq RowsOf(l, latest)'
    BY <1>2, <1>4 DEF RowsOf
  <1>10. Seen'
    BY <1>2, <1>8 DEF Seen, Reading, DiagnosisTypeOK
  <1>11. Made'
    BY <1>2, <1>8 DEF Made
  <1>12. Awaited'
    BY <1>2, <1>9 DEF Awaited, Logs, DiagnosisTypeOK
  <1>13. ServedCurrent' /\ ServedComplete'
    BY <1>2 DEF ServedCurrent, ServedComplete, DiagnosisTypeOK
  <1> QED BY <1>5, <1>6, <1>7, <1>10, <1>11, <1>12, <1>13

LEMMA AppendFailsKeeps ==
  ASSUME Inv, NEW p \in Procs, AppendFails(p)
  PROVE  Inv'
  <1>1. job[p] \in [log : Logs, row : Rows, attempt : 0..MaxGeneration]
    BY DEF AppendFails, Inv, Tagged, DiagnosisTypeOK, NoJob
  <1>2. torn' \subseteq Logs
    BY <1>1 DEF AppendFails, Inv, DiagnosisTypeOK
  <1> QED BY <1>2, LeaveKeeps DEF AppendFails, Inv, DiagnosisTypeOK

LEMMA InvalidateKeeps ==
  ASSUME Inv, NEW p \in Procs, Invalidate(p)
  PROVE  Inv'
  <1>1. job[p] \in [log : Logs, row : Rows, attempt : 0..MaxGeneration]
    BY DEF Invalidate, Inv, Tagged, DiagnosisTypeOK, NoJob
  <1>2. recorded' \subseteq Rows
    BY <1>1 DEF Invalidate, Inv, DiagnosisTypeOK
  <1> QED BY <1>2, LeaveKeeps DEF Invalidate, Inv, DiagnosisTypeOK, logs

\* Nobody reads while an attempt begins, and what was read before is forgotten.
LEMMA BeginKeeps ==
  ASSUME Inv, NEW p \in Procs, Begin(p)
  PROVE  Inv'
  <1> USE DiagnosisAssumption, MaxGenerationAssumption DEF Inv
  <1>1. /\ locker = NoProc /\ locker' = p /\ pc' = [pc EXCEPT ![p] = "begun"]
        /\ latest' = latest + 1 /\ latest < MaxGeneration /\ verdict' = "running"
        /\ UNCHANGED <<log, torn, diagnosis, job, seen, payload, due, origin, recorded>>
    BY DEF Begin, Open, Goto, logs, commands
  <1>2. \A q \in Procs : pc[q] \notin Reading /\ pc'[q] \notin Reading
    BY <1>1 DEF Locked, DiagnosisTypeOK, Reading
  <1>3. DiagnosisTypeOK'
    BY <1>1 DEF DiagnosisTypeOK, TypeOK
  <1>4. Locked'
    BY <1>1, <1>2 DEF Locked, DiagnosisTypeOK
  <1>5. Tagged'
    BY <1>1 DEF Tagged, DiagnosisTypeOK
  <1>6. Seen' /\ Made'
    BY <1>1, <1>2 DEF Seen, Made, Logged
  <1>7. Awaited' /\ ServedCurrent' /\ ServedComplete'
    BY <1>1, <1>2 DEF Awaited, ServedCurrent, ServedComplete, Reading
  <1> QED BY <1>3, <1>4, <1>5, <1>6, <1>7

LEMMA EndKeeps == ASSUME Inv, End PROVE Inv'
  <1> USE DiagnosisAssumption DEF Inv
  <1>1. /\ locker = NoProc /\ verdict' \in Verdicts
        /\ UNCHANGED <<latest, log, torn, diagnosis, locker, pc, job, seen, payload, due,
                       origin, recorded>>
    BY DEF End, Close, logs, commands
  <1>2. DiagnosisTypeOK'
    BY <1>1 DEF DiagnosisTypeOK, TypeOK
  <1>3. Locked' /\ Tagged'
    BY <1>1 DEF Locked, Tagged, Verdicts
  <1>4. Seen' /\ Made' /\ Awaited'
    BY <1>1 DEF Seen, Made, Awaited, Logged, RowsOf
  <1>5. ServedCurrent' /\ ServedComplete'
    BY <1>1 DEF ServedCurrent, ServedComplete, Verdicts
  <1> QED BY <1>2, <1>3, <1>4, <1>5

-----------------------------------------------------------------------------
\* A reader goes on with the lock; only its own memory changes.
LEMMA ReadKeeps ==
  ASSUME Inv, NEW p \in Procs, NEW stage \in Reading, Goto(p, stage),
         locker' = p, locker \in {p, NoProc}, verdict # "running",
         UNCHANGED <<latest, verdict, logs, diagnosis, job, origin, recorded>>,
         seen' \in [Procs -> SUBSET Rows],
         payload' \in [Procs -> Diagnoses \cup {NoDiagnosis}],
         due' \in [Procs -> SUBSET Rows],
         \A q \in Procs \ {p} :
           seen'[q] = seen[q] /\ payload'[q] = payload[q] /\ due'[q] = due[q],
         \A r \in seen'[p] : Logged(r) /\ origin[r] \in {0, latest},
         stage = "show" =>
           due'[p] \subseteq RowsOf("observations", latest) \cup RowsOf("signals", latest),
         stage = "show-signals" => due'[p] \subseteq seen'[p] \cup RowsOf("signals", latest),
         stage = "shown" => due'[p] \subseteq seen'[p],
         stage = "served" => payload'[p].marker = latest /\ due'[p] \subseteq payload'[p].rows
  PROVE  Inv'
  <1> USE DiagnosisAssumption DEF Inv
  <1>1. /\ pc'[p] = stage /\ \A q \in Procs \ {p} : pc'[q] = pc[q]
    BY DEF Goto, DiagnosisTypeOK
  <1>2. DiagnosisTypeOK'
    BY DEF DiagnosisTypeOK, TypeOK, Goto, Reading, logs
  <1>3. \A q \in Procs \ {p} : pc[q] \notin Reading \cup {"begun"}
    BY DEF Locked
  <1>4. Locked'
    BY <1>1, <1>3 DEF Locked
  <1>5. Tagged'
    BY <1>1 DEF Tagged, Reading, logs
  <1>6. Seen' /\ Made'
    BY <1>1 DEF Seen, Made, Logged, logs
  <1>7. Awaited'
    BY <1>1, <1>3 DEF Awaited, RowsOf, Reading, logs
  <1>8. ServedCurrent' /\ ServedComplete'
    BY <1>1, <1>3 DEF ServedCurrent, ServedComplete, Reading
  <1> QED BY <1>2, <1>4, <1>5, <1>6, <1>7, <1>8

\* A reader that aggregates has the lock, and the attempt has ended.
LEMMA ReaderFacts ==
  ASSUME Inv, NEW p \in Procs, pc[p] \in Reading
  PROVE  /\ locker = p /\ verdict # "running"
         /\ \A r \in seen[p] : Logged(r) /\ origin[r] \in {0, latest}
         /\ seen \in [Procs -> SUBSET Rows]
         /\ payload \in [Procs -> Diagnoses \cup {NoDiagnosis}]
         /\ due \in [Procs -> SUBSET Rows]
  BY DEF Inv, Locked, Seen, DiagnosisTypeOK

LEMMA DiagnoseKeeps ==
  ASSUME Inv, NEW p \in Procs, Diagnose(p)
  PROVE  Inv'
  <1>1. seen[p] = {}
    BY DEF Diagnose, Inv, Seen, Reading
  <1>2. /\ seen \in [Procs -> SUBSET Rows] /\ due \in [Procs -> SUBSET Rows]
        /\ payload \in [Procs -> Diagnoses \cup {NoDiagnosis}]
    BY DEF Inv, DiagnosisTypeOK
  <1>3. /\ UNCHANGED <<latest, verdict, logs, diagnosis, job, origin, recorded>>
        /\ UNCHANGED <<seen, payload, due>>
        /\ Goto(p, "diagnose") /\ locker' = p /\ locker = NoProc /\ verdict # "running"
    BY DEF Diagnose, commands
  <1> QED BY <1>1, <1>2, <1>3, ReadKeeps DEF Reading

LEMMA ShowKeeps ==
  ASSUME Inv, NEW p \in Procs, Show(p)
  PROVE  Inv'
  <1> DEFINE mine == recorded \cap UNION {RowsOf(l, latest) : l \in Logs}
  <1>1. seen[p] = {} /\ seen \in [Procs -> SUBSET Rows]
    BY DEF Show, Inv, Seen, Reading, DiagnosisTypeOK
  <1>2. /\ payload' = [payload EXCEPT ![p] = diagnosis] /\ due' = [due EXCEPT ![p] = mine]
        /\ UNCHANGED <<latest, verdict, logs, diagnosis, job, origin, recorded, seen>>
        /\ Goto(p, "show") /\ locker' = p /\ locker = NoProc /\ verdict # "running"
    BY DEF Show
  <1>3. /\ mine \subseteq RowsOf("observations", latest) \cup RowsOf("signals", latest)
        /\ mine \subseteq Rows
    BY DEF Logs, Inv, DiagnosisTypeOK
  <1> HIDE DEF mine
  <1>4. /\ payload' \in [Procs -> Diagnoses \cup {NoDiagnosis}]
        /\ due' \in [Procs -> SUBSET Rows] /\ due'[p] = mine
        /\ \A q \in Procs \ {p} : payload'[q] = payload[q] /\ due'[q] = due[q]
    BY <1>2, <1>3 DEF Inv, DiagnosisTypeOK
  <1> QED BY <1>1, <1>2, <1>3, <1>4, ReadKeeps DEF Reading

LEMMA AggregateKeeps ==
  ASSUME Inv, NEW p \in Procs, pc[p] \in Reading, NEW l \in Logs, NEW stage \in Reading,
         Aggregate(p, l, stage), stage \notin {"show", "served"},
         stage = "show-signals" =>
           due[p] \subseteq seen[p] \cup RowsOf(l, latest) \cup RowsOf("signals", latest),
         stage = "shown" => due[p] \subseteq seen[p] \cup RowsOf(l, latest)
  PROVE  Inv'
  <1>1. CASE Leave(p)
    BY <1>1, LeaveKeeps DEF Aggregate, logs, Inv, DiagnosisTypeOK
  <1>2. CASE /\ seen' = [seen EXCEPT ![p] = @ \cup RowsOf(l, latest)]
             /\ Goto(p, stage) /\ UNCHANGED <<job, payload, due, locker>>
    <2>1. /\ RowsOf(l, latest) \subseteq Rows
          /\ \A r \in RowsOf(l, latest) : Logged(r) /\ origin[r] \in {0, latest}
      BY RowsOfType, RowsOfOrigin DEF Inv
    <2>2. /\ seen' \in [Procs -> SUBSET Rows]
          /\ seen'[p] = seen[p] \cup RowsOf(l, latest)
          /\ \A q \in Procs \ {p} : seen'[q] = seen[q]
      BY <1>2, <2>1, ReaderFacts
    <2>3. UNCHANGED <<latest, verdict, logs, diagnosis, job, origin, recorded>>
      BY <1>2 DEF Aggregate
    <2> QED BY <1>2, <2>1, <2>2, <2>3, ReaderFacts, ReadKeeps
  <1> QED BY <1>1, <1>2 DEF Aggregate

LEMMA ReadObservationsKeeps ==
  ASSUME Inv, NEW p \in Procs, ReadObservations(p)
  PROVE  Inv'
  <1>1. "observations" \in Logs
    BY DEF Logs
  <1>2. CASE pc[p] = "diagnose" /\ Aggregate(p, "observations", "diagnose-signals")
    BY <1>1, <1>2, AggregateKeeps DEF Reading
  <1>3. CASE pc[p] = "show" /\ Aggregate(p, "observations", "show-signals")
    <2>1. due[p] \subseteq RowsOf("observations", latest) \cup RowsOf("signals", latest)
      BY <1>3 DEF Inv, Awaited
    <2> QED BY <1>1, <1>3, <2>1, AggregateKeeps DEF Reading
  <1> QED BY <1>2, <1>3 DEF ReadObservations

LEMMA ReadSignalsKeeps ==
  ASSUME Inv, NEW p \in Procs, ReadSignals(p)
  PROVE  Inv'
  <1>1. "signals" \in Logs
    BY DEF Logs
  <1>2. CASE pc[p] = "diagnose-signals" /\ Aggregate(p, "signals", "diagnosed")
    BY <1>1, <1>2, AggregateKeeps DEF Reading
  <1>3. CASE pc[p] = "show-signals" /\ Aggregate(p, "signals", "shown")
    <2>1. due[p] \subseteq seen[p] \cup RowsOf("signals", latest)
      BY <1>3 DEF Inv, Awaited
    <2> QED BY <1>1, <1>3, <2>1, AggregateKeeps DEF Reading
  <1> QED BY <1>2, <1>3 DEF ReadSignals

LEMMA PublishKeeps ==
  ASSUME Inv, NEW p \in Procs, Publish(p)
  PROVE  Inv'
  <1>1. Current(p) \in Diagnoses
    BY DEF Current, Diagnoses, Inv, DiagnosisTypeOK, TypeOK
  <1>2. Made'
    <2>1. \A r \in seen[p] : Logged(r) /\ origin[r] \in {0, latest}
      BY DEF Inv, Seen
    <2> QED BY <2>1 DEF Publish, Current, Made, Logged, logs
  <1> QED BY <1>1, <1>2, LeaveKeeps DEF Publish, Inv, DiagnosisTypeOK, logs

LEMMA CompareKeeps ==
  ASSUME Inv, NEW p \in Procs, Compare(p)
  PROVE  Inv'
  <1>1. CASE Leave(p)
    BY <1>1, LeaveKeeps DEF Compare, logs, Inv, DiagnosisTypeOK
  <1>2. CASE payload[p] = Current(p) /\ Goto(p, "served") /\ UNCHANGED <<commands, locker>>
    <2>1. payload[p].marker = latest /\ payload[p].rows = seen[p]
      BY <1>2 DEF Current
    <2>2. due[p] \subseteq seen[p] /\ pc[p] \in Reading
      BY DEF Compare, Inv, Awaited, Reading
    <2>3. UNCHANGED <<latest, verdict, logs, diagnosis, job, origin, recorded>>
          /\ UNCHANGED <<seen, payload, due, locker>>
      BY <1>2 DEF Compare, commands
    <2> QED BY <1>2, <2>1, <2>2, <2>3, ReaderFacts, ReadKeeps DEF Reading
  <1> QED BY <1>1, <1>2 DEF Compare

-----------------------------------------------------------------------------
LEMMA InvInit == DiagnosisInit => Inv
  <1> SUFFICES ASSUME DiagnosisInit
               PROVE  Inv
    OBVIOUS
  <1> USE DiagnosisAssumption, MaxGenerationAssumption DEF DiagnosisInit
  <1>1. DiagnosisTypeOK
    BY DEF DiagnosisTypeOK, TypeOK, Init
  <1>2. Locked /\ Tagged
    BY DEF Locked, Tagged, Reading, NoJob
  <1>3. Seen /\ Made /\ Awaited
    BY DEF Seen, Made, Awaited, Reading
  <1>4. ServedCurrent /\ ServedComplete
    BY DEF ServedCurrent, ServedComplete
  <1> QED BY <1>1, <1>2, <1>3, <1>4 DEF Inv

LEMMA InvNext == Inv /\ [DiagnosisNext]_dvars => Inv'
  <1> SUFFICES ASSUME Inv, [DiagnosisNext]_dvars
               PROVE  Inv'
    OBVIOUS
  <1>1. ASSUME NEW p \in Procs, InvalidateBegun(p) \/ Return(p) \/ Crash(p)
        PROVE  Inv'
    <2>1. /\ Leave(p) /\ UNCHANGED <<latest, verdict, log, torn, origin, recorded>>
          /\ diagnosis' \in {diagnosis, NoDiagnosis}
      BY <1>1 DEF InvalidateBegun, Return, Crash, logs
    <2> QED BY <2>1, LeaveKeeps DEF Inv, DiagnosisTypeOK
  <1>2. CASE UNCHANGED dvars
    <2>1. UNCHANGED <<latest, verdict, log, torn, diagnosis, locker, pc, job, seen, payload,
                      due, origin, recorded>>
      BY <1>2 DEF dvars, logs, commands
    <2>2. DiagnosisTypeOK'
      BY <2>1 DEF Inv, DiagnosisTypeOK, TypeOK
    <2>3. Locked' /\ Tagged' /\ Seen' /\ Made' /\ Awaited'
      BY <2>1 DEF Inv, Locked, Tagged, Seen, Made, Awaited, Logged, RowsOf
    <2>4. ServedCurrent' /\ ServedComplete'
      BY <2>1 DEF Inv, ServedCurrent, ServedComplete
    <2> QED BY <2>2, <2>3, <2>4 DEF Inv
  <1> QED
    BY <1>1, <1>2, RecordKeeps, MeasureKeeps, AppendKeeps, AppendFailsKeeps,
       InvalidateKeeps, BeginKeeps, EndKeeps, DiagnoseKeeps, ShowKeeps,
       ReadObservationsKeeps, ReadSignalsKeeps, PublishKeeps, CompareKeeps
    DEF DiagnosisNext

LEMMA InvAlways == DiagnosisSpec => []Inv
  BY InvInit, InvNext, PTL DEF DiagnosisSpec

-----------------------------------------------------------------------------
\* The types, for any number of processes, rows and attempts.
THEOREM TypeCorrect == DiagnosisSpec => []DiagnosisTypeOK
  <1>1. Inv => DiagnosisTypeOK
    BY DEF Inv
  <1> QED BY <1>1, InvAlways, PTL

\* A diagnosis is not made of what a child of another attempt saw
\* (README.md:218).
THEOREM RowsAreOwn == DiagnosisSpec => []OwnRows
  <1>1. Inv => OwnRows
    BY DEF Inv, Made, OwnRows
  <1> QED BY <1>1, InvAlways, PTL

\* What is shown is about the latest attempt, which has ended.
THEOREM ShownIsCurrent == DiagnosisSpec => []ServedCurrent
  <1>1. Inv => ServedCurrent
    BY DEF Inv
  <1> QED BY <1>1, InvAlways, PTL

\* What is shown misses no row that was recorded before it was asked for.
THEOREM ShownIsComplete == DiagnosisSpec => []ServedComplete
  <1>1. Inv => ServedComplete
    BY DEF Inv
  <1> QED BY <1>1, InvAlways, PTL

-----------------------------------------------------------------------------
(***************************************************************************)
(* What Diagnosis shares with the rest of the run: the attempts are those  *)
(* of AttemptLedger, and the manifest lock is taken and freed as Mutex     *)
(* says, so that RunLock provides what Diagnosis takes for granted.        *)
(***************************************************************************)
Lock == INSTANCE Mutex WITH holder <- locker

\* A command that leaves frees the lock if it has it.
LEMMA LeaveFrees ==
  ASSUME NEW p \in Procs, Leave(p)
  PROVE  Lock!Release(p) \/ UNCHANGED locker
  BY DEF Leave, Lock!Release

LEMMA DiagnosisStep ==
  ASSUME [DiagnosisNext]_dvars
  PROVE  [Next]_<<latest, verdict>> /\ [Lock!Next]_locker
  <1> DEFINE Shown == [Next]_<<latest, verdict>> /\ [Lock!Next]_locker
  <1>1. ASSUME NEW p \in Procs, Begin(p)
        PROVE  Shown
    BY <1>1 DEF Begin, Next, Lock!Next, Lock!Acquire
  <1>2. ASSUME NEW p \in Procs, Diagnose(p) \/ Show(p)
        PROVE  Shown
    BY <1>2 DEF Diagnose, Show, Lock!Next, Lock!Acquire
  <1>3. ASSUME NEW p \in Procs, Record(p) \/ Append(p)
        PROVE  Shown
    BY <1>3 DEF Record, Append
  <1>4. ASSUME NEW p \in Procs,
               Measure(p) \/ AppendFails(p) \/ Invalidate(p) \/ InvalidateBegun(p)
        PROVE  Shown
    BY <1>4, LeaveFrees
    DEF Measure, AppendFails, Invalidate, InvalidateBegun, Lock!Next
  <1>5. ASSUME NEW p \in Procs,
               ReadObservations(p) \/ ReadSignals(p) \/ Publish(p) \/ Compare(p)
                 \/ Return(p) \/ Crash(p)
        PROVE  Shown
    BY <1>5, LeaveFrees
    DEF ReadObservations, ReadSignals, Aggregate, Publish, Compare, Return, Crash,
        Lock!Next
  <1>6. ASSUME End
        PROVE  Shown
    BY <1>6 DEF End, Next
  <1>7. ASSUME UNCHANGED dvars
        PROVE  Shown
    BY <1>7 DEF dvars
  <1> HIDE DEF Shown
  <1>8. Shown
    BY <1>1, <1>2, <1>3, <1>4, <1>5, <1>6, <1>7 DEF DiagnosisNext
  <1> QED BY <1>8 DEF Shown

\* Diagnoses and records change nothing about the attempts (workspace.py:
\* 666-714).
THEOREM LedgerKept == DiagnosisSpec => Spec
  <1>1. DiagnosisInit => Init
    BY DEF DiagnosisInit
  <1> QED BY <1>1, DiagnosisStep, PTL DEF DiagnosisSpec, Spec

\* The manifest lock is used as RunLock allows: one command takes it when it
\* is free, and frees it when it returns, raises or dies (workspace.py:
\* 351-384).
THEOREM LockUsed == DiagnosisSpec => Lock!Spec
  <1>1. DiagnosisInit => Lock!Init
    BY DEF DiagnosisInit, Lock!Init
  <1> QED BY <1>1, DiagnosisStep, PTL DEF DiagnosisSpec, Lock!Spec
=============================================================================
