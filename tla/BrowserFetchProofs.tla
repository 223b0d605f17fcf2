------------------------- MODULE BrowserFetchProofs -------------------------
(***************************************************************************)
(* Proofs about BrowserFetch, for any processes and handles, finite or     *)
(* not, and any bound on the records and on the index.                     *)
(***************************************************************************)
EXTENDS BrowserFetch, FiniteSetTheorems, TLAPS

(***************************************************************************)
(* The inductive invariant.  A call owns the handle it holds (Owned): no   *)
(* other call has it and no caller, and the manifest lists it only if the  *)
(* update that wrote it reported an error.  So what a call undoes nobody   *)
(* relies on, and what it records is there (Kept).                         *)
(***************************************************************************)
Drawn ==
  /\ artifacts.handles \subseteq drawn
  /\ returned \subseteq drawn
  /\ \A p \in Procs : handle[p] \in drawn \cup {NoHandle}

Owned ==
  /\ \A p, q \in Procs : handle[p] # NoHandle /\ handle[p] = handle[q] => p = q
  /\ \A p \in Procs :
       /\ handle[p] \notin returned
       /\ handle[p] \notin artifacts.handles \ doubtful

Kept ==
  \A p \in Procs :
    /\ pc[p] \in {"idle", "evaluate"} => handle[p] = NoHandle
    /\ pc[p] = "record" /\ handle[p] # NoHandle =>
         handle[p] \in bodies \ artifacts.handles
    /\ pc[p] = "undo" => handle[p] # NoHandle

Inv == /\ TypeOK
       /\ IsFiniteSet(artifacts.handles)
       /\ Drawn
       /\ Owned
       /\ Kept
       /\ NoDanglingHandle
       /\ NothingLeaked
       /\ RecordsBounded

-----------------------------------------------------------------------------
\* A call that ends holds nothing; the others go on.
LEMMA EndClears ==
  ASSUME TypeOK, NEW p \in Procs, End(p)
  PROVE  /\ pc' \in [Procs -> Stages] /\ handle' \in [Procs -> Handles \cup {NoHandle}]
         /\ pc'[p] = "idle" /\ handle'[p] = NoHandle
         /\ \A q \in Procs \ {p} : pc'[q] = pc[q] /\ handle'[q] = handle[q]
  BY DEF TypeOK, Stages, End, Goto

\* An ending call whose body is listed, given up or gone leaves the rest as
\* it should be, when the manifest and what callers know stay the same.
LEMMA EndKeeps ==
  ASSUME Inv, NEW p \in Procs, End(p), NEW h, h = handle[p],
         UNCHANGED <<artifacts, drawn, returned, doubtful, dropped>>,
         abandoned' \subseteq Handles, abandoned \subseteq abandoned',
         \/ bodies' = bodies \ {h} /\ h \notin returned
         \/ bodies' = bodies /\ h \in abandoned' \cup {NoHandle}
  PROVE  Inv'
  <1>1. /\ pc' \in [Procs -> Stages] /\ handle' \in [Procs -> Handles \cup {NoHandle}]
        /\ pc'[p] = "idle" /\ handle'[p] = NoHandle
        /\ \A q \in Procs \ {p} : pc'[q] = pc[q] /\ handle'[q] = handle[q]
    BY EndClears DEF Inv
  <1>2. TypeOK'
    BY <1>1 DEF Inv, TypeOK
  <1>3. IsFiniteSet(artifacts.handles)' /\ RecordsBounded'
    BY DEF Inv, RecordsBounded, Records
  <1>4. NoHandle \notin Handles
    BY BrowserFetchAssumption
  <1>5. Drawn'
    BY <1>1 DEF Inv, Drawn
  <1>6. Owned'
    BY <1>1, <1>4 DEF Inv, Owned, TypeOK
  <1>7. Kept'
    BY <1>1 DEF Inv, Kept, Owned
  <1>8. NoDanglingHandle'
    BY DEF Inv, NoDanglingHandle, Owned
  <1>9. NothingLeaked'
    <2>1. ASSUME NEW b \in bodies'
          PROVE  b \in artifacts.handles \cup dropped \cup abandoned'
                         \cup {handle'[q] : q \in Procs}
      <3>1. b \in bodies /\ b \in Handles /\ (b = h => h \in abandoned')
        BY <2>1, <1>4 DEF Inv, TypeOK
      <3>2. CASE b \in artifacts.handles \cup dropped \cup abandoned
        BY <3>2
      <3>3. CASE \E q \in Procs : b = handle[q]
        BY <1>1, <3>1, <3>3
      <3> QED BY <3>1, <3>2, <3>3 DEF Inv, NothingLeaked
    <2> QED BY <2>1 DEF NothingLeaked
  <1> QED BY <1>2, <1>3, <1>5, <1>6, <1>7, <1>8, <1>9 DEF Inv

\* The manifest gets one record more, within its bound.
LEMMA RecordAdds ==
  ASSUME Inv, HasRoom, NEW h \in (Handles \cup {NoHandle}) \ artifacts.handles,
         artifacts' = WithRecord(h)
  PROVE  /\ artifacts' \in [handles : SUBSET Handles, heads : 0..MaxRecords,
                            entries : 0..MaxEntries]
         /\ artifacts'.handles = artifacts.handles \cup ({h} \ {NoHandle})
         /\ IsFiniteSet(artifacts'.handles)
         /\ RecordsBounded'
  <1> DEFINE card == Cardinality(artifacts.handles)
  <1>1. card \in Nat /\ artifacts.heads \in Nat /\ artifacts.entries \in Nat
        /\ MaxRecords \in Nat /\ card + artifacts.heads + artifacts.entries < MaxRecords
    BY FS_CardinalityType, BrowserFetchAssumption
       DEF Inv, TypeOK, HasRoom, Length, Records
  <1> HIDE DEF card
  <1>2. CASE h = NoHandle
    <2>1. artifacts' = [artifacts EXCEPT !.heads = @ + 1]
      BY <1>2 DEF WithRecord
    <2>2. artifacts'.handles = artifacts.handles /\ artifacts'.heads = artifacts.heads + 1
          /\ artifacts' \in [handles : SUBSET Handles, heads : 0..MaxRecords,
                             entries : 0..MaxEntries]
      BY <1>1, <2>1 DEF Inv, TypeOK
    <2>3. RecordsBounded'
      BY <1>1, <2>2 DEF RecordsBounded, Records, card
    <2> QED BY <1>2, <2>2, <2>3 DEF Inv
  <1>3. CASE h # NoHandle
    <2>1. artifacts' = [artifacts EXCEPT !.handles = @ \cup {h}]
      BY <1>3 DEF WithRecord
    <2>2. artifacts'.handles = artifacts.handles \cup {h}
          /\ artifacts'.heads = artifacts.heads
          /\ artifacts' \in [handles : SUBSET Handles, heads : 0..MaxRecords,
                             entries : 0..MaxEntries]
      BY <1>3, <2>1 DEF Inv, TypeOK
    <2>3. IsFiniteSet(artifacts'.handles) /\ Cardinality(artifacts'.handles) = card + 1
      <3>1. IsFiniteSet(artifacts.handles) /\ h \notin artifacts.handles
        BY DEF Inv
      <3>2. IsFiniteSet(artifacts.handles \cup {h})
            /\ Cardinality(artifacts.handles \cup {h}) = Cardinality(artifacts.handles) + 1
        BY <3>1, FS_AddElement
      <3> QED BY <2>2, <3>2 DEF card
    <2>4. RecordsBounded'
      BY <1>1, <2>2, <2>3 DEF RecordsBounded, Records
    <2> QED BY <1>3, <2>2, <2>3, <2>4
  <1> QED BY <1>2, <1>3

-----------------------------------------------------------------------------
(* One lemma for each action.                                              *)

LEMMA FetchKeeps ==
  ASSUME Inv, NEW p \in Procs, Fetch(p)
  PROVE  Inv'
  <1>1. UNCHANGED <<artifacts, bodies, handle, history>> /\ pc[p] = "idle"
        /\ pc' = [pc EXCEPT ![p] = "evaluate"]
    BY DEF Fetch, Goto
  <1>2. TypeOK'
    BY <1>1 DEF Inv, TypeOK, Stages, history
  <1>3. Kept'
    BY <1>1 DEF Inv, TypeOK, Kept
  <1> QED BY <1>1, <1>2, <1>3 DEF Inv, Drawn, Owned, NoDanglingHandle, NothingLeaked,
      RecordsBounded, Records, history

LEMMA FetchFailsKeeps ==
  ASSUME Inv, NEW p \in Procs, FetchFails(p)
  PROVE  Inv'
  <1>1. handle[p] = NoHandle /\ End(p)
        /\ UNCHANGED <<artifacts, bodies, drawn, returned, doubtful, dropped, abandoned>>
    BY DEF FetchFails, Inv, Kept, history
  <1>2. abandoned' \subseteq Handles
    BY <1>1 DEF Inv, TypeOK
  <1> QED BY <1>1, <1>2, EndKeeps

LEMMA WriteBodyKeeps ==
  ASSUME Inv, NEW p \in Procs, WriteBody(p)
  PROVE  Inv'
  <1>1. PICK h \in Handles \ drawn :
          /\ bodies' = bodies \cup {h}
          /\ handle' = [handle EXCEPT ![p] = h]
          /\ drawn' = drawn \cup {h}
    BY DEF WriteBody
  <1>2. UNCHANGED <<artifacts, returned, doubtful, dropped, abandoned>>
        /\ pc' = [pc EXCEPT ![p] = "record"] /\ handle[p] = NoHandle
    BY DEF WriteBody, Goto, Inv, Kept
  <1>3. /\ pc'[p] = "record" /\ handle'[p] = h
        /\ \A q \in Procs \ {p} : pc'[q] = pc[q] /\ handle'[q] = handle[q]
    BY <1>1, <1>2 DEF Inv, TypeOK
  <1>4. NoHandle \notin Handles
    BY BrowserFetchAssumption
  <1>5. TypeOK'
    BY <1>1, <1>2 DEF Inv, TypeOK, Stages
  <1>6. Drawn'
    BY <1>1, <1>2, <1>3 DEF Inv, Drawn
  <1>7. Owned'
    BY <1>1, <1>2, <1>3, <1>4 DEF Inv, Drawn, Owned
  <1>8. Kept'
    BY <1>1, <1>2, <1>3 DEF Inv, Drawn, Kept
  <1>9. NoDanglingHandle'
    BY <1>1, <1>2 DEF Inv, NoDanglingHandle
  <1>10. NothingLeaked'
    <2>1. ASSUME NEW b \in bodies'
          PROVE  b \in artifacts.handles \cup dropped \cup abandoned
                         \cup {handle'[q] : q \in Procs}
      <3>1. CASE b = h
        BY <1>3, <3>1
      <3>2. CASE b \in artifacts.handles \cup dropped \cup abandoned
        BY <3>2
      <3>3. CASE \E q \in Procs : b = handle[q] /\ b \in bodies /\ b # h
        <4>1. PICK q \in Procs : b = handle[q] /\ b \in bodies
          BY <3>3
        <4>2. q # p
          BY <1>2, <1>4, <4>1 DEF Inv, TypeOK
        <4> QED BY <1>3, <4>1, <4>2
      <3> QED BY <1>1, <3>1, <3>2, <3>3 DEF Inv, NothingLeaked
    <2> QED BY <1>2, <2>1 DEF NothingLeaked
  <1>11. IsFiniteSet(artifacts.handles)' /\ RecordsBounded'
    BY <1>2 DEF Inv, RecordsBounded, Records
  <1> QED BY <1>5, <1>6, <1>7, <1>8, <1>9, <1>10, <1>11 DEF Inv

LEMMA AnswerHeadKeeps ==
  ASSUME Inv, NEW p \in Procs, AnswerHead(p)
  PROVE  Inv'
  <1>1. UNCHANGED <<artifacts, bodies, handle, history>> /\ handle[p] = NoHandle
        /\ pc' = [pc EXCEPT ![p] = "record"]
    BY DEF AnswerHead, Goto, Inv, Kept
  <1>2. TypeOK'
    BY <1>1 DEF Inv, TypeOK, Stages, history
  <1>3. Kept'
    BY <1>1 DEF Inv, TypeOK, Kept
  <1> QED BY <1>1, <1>2, <1>3 DEF Inv, Drawn, Owned, NoDanglingHandle, NothingLeaked,
      RecordsBounded, Records, history

LEMMA RecordKeeps ==
  ASSUME Inv, NEW p \in Procs, Record(p)
  PROVE  Inv'
  <1> DEFINE h == handle[p]
             own == {h} \ {NoHandle}
  <1>1. /\ pc[p] = "record" /\ HasRoom /\ artifacts' = WithRecord(h) /\ End(p)
        /\ returned' = returned \cup own
        /\ UNCHANGED <<bodies, drawn, doubtful, dropped, abandoned>>
    BY DEF Record
  <1>2. NoHandle \notin Handles
    BY BrowserFetchAssumption
  <1>3. h \in (Handles \cup {NoHandle}) \ artifacts.handles
        /\ own \subseteq bodies /\ own \subseteq drawn
    BY <1>1, <1>2 DEF Inv, TypeOK, Kept, Drawn
  <1> HIDE DEF h
  <1>4. /\ artifacts' \in [handles : SUBSET Handles, heads : 0..MaxRecords,
                           entries : 0..MaxEntries]
        /\ artifacts'.handles = artifacts.handles \cup own
        /\ IsFiniteSet(artifacts'.handles) /\ RecordsBounded'
    BY <1>1, <1>3, RecordAdds
  <1>5. /\ pc' \in [Procs -> Stages] /\ handle' \in [Procs -> Handles \cup {NoHandle}]
        /\ pc'[p] = "idle" /\ handle'[p] = NoHandle
        /\ \A q \in Procs \ {p} : pc'[q] = pc[q] /\ handle'[q] = handle[q]
    BY <1>1, EndClears DEF Inv
  <1>6. TypeOK'
    BY <1>1, <1>3, <1>4, <1>5 DEF Inv, TypeOK
  <1>7. Drawn'
    BY <1>1, <1>3, <1>4, <1>5 DEF Inv, Drawn
  <1>8. \A q \in Procs \ {p} : handle[q] \notin own
    BY DEF Inv, Owned, h
  <1>9. NoHandle \notin artifacts'.handles \cup returned'
    BY <1>2, <1>4, <1>6 DEF TypeOK
  <1>10. Owned'
    BY <1>1, <1>4, <1>5, <1>8, <1>9 DEF Inv, Owned
  <1>11. Kept'
    BY <1>1, <1>4, <1>5, <1>8 DEF Inv, Kept
  <1>12. NoDanglingHandle'
    BY <1>1, <1>3, <1>4 DEF Inv, NoDanglingHandle
  <1>13. NothingLeaked'
    <2>1. ASSUME NEW b \in bodies
          PROVE  b \in artifacts'.handles \cup dropped \cup abandoned
                         \cup {handle'[q] : q \in Procs}
      <3>1. CASE b \in artifacts.handles \cup dropped \cup abandoned
        BY <1>4, <3>1
      <3>2. CASE \E q \in Procs : b = handle[q]
        <4>1. PICK q \in Procs : b = handle[q]
          BY <3>2
        <4>2. CASE q = p
          <5>1. b \in own
            BY <1>2, <2>1, <4>1, <4>2 DEF Inv, TypeOK, h
          <5> QED BY <1>4, <5>1
        <4>3. CASE q # p
          BY <1>5, <4>1, <4>3
        <4> QED BY <4>2, <4>3
      <3> QED BY <3>1, <3>2 DEF Inv, NothingLeaked
    <2> QED BY <1>1, <2>1 DEF NothingLeaked
  <1> QED BY <1>4, <1>6, <1>7, <1>10, <1>11, <1>12, <1>13 DEF Inv

\* A failing update may have left the record, which is doubtful then.
LEMMA RecordFailsKeeps ==
  ASSUME Inv, NEW p \in Procs, RecordFails(p)
  PROVE  Inv'
  <1> DEFINE h == handle[p]
             own == {h} \ {NoHandle}
  <1>1. /\ pc[p] = "record"
        /\ IF h = NoHandle THEN End(p) ELSE Goto(p, "undo") /\ UNCHANGED handle
        /\ UNCHANGED <<bodies, drawn, returned, dropped, abandoned>>
    BY DEF RecordFails
  <1>2. NoHandle \notin Handles
    BY BrowserFetchAssumption
  <1>3. h \in (Handles \cup {NoHandle}) \ artifacts.handles
        /\ own \subseteq bodies /\ own \subseteq drawn /\ own \subseteq Handles
    BY <1>1, <1>2 DEF Inv, TypeOK, Kept, Drawn
  <1>4. /\ pc' \in [Procs -> Stages] /\ handle' = handle
        /\ pc'[p] = (IF h = NoHandle THEN "idle" ELSE "undo")
        /\ \A q \in Procs \ {p} : pc'[q] = pc[q]
    <2>1. CASE h = NoHandle
      <3>1. /\ pc' \in [Procs -> Stages] /\ handle' \in [Procs -> Handles \cup {NoHandle}]
            /\ pc'[p] = "idle" /\ handle'[p] = NoHandle
            /\ \A q \in Procs \ {p} : pc'[q] = pc[q] /\ handle'[q] = handle[q]
        BY <1>1, <2>1, EndClears DEF Inv
      <3>2. handle' = handle
        BY <1>1, <2>1 DEF End, Inv, TypeOK
      <3> QED BY <2>1, <3>1, <3>2
    <2>2. CASE h # NoHandle
      BY <1>1, <2>2 DEF Goto, Inv, TypeOK, Stages
    <2> QED BY <2>1, <2>2
  <1>5. /\ artifacts' \in [handles : SUBSET Handles, heads : 0..MaxRecords,
                           entries : 0..MaxEntries]
        /\ artifacts.handles \subseteq artifacts'.handles
        /\ artifacts'.handles \subseteq artifacts.handles \cup (own \cap doubtful')
        /\ doubtful \subseteq doubtful' /\ doubtful' \subseteq Handles
        /\ IsFiniteSet(artifacts'.handles) /\ RecordsBounded'
    <2>1. CASE UNCHANGED <<artifacts, doubtful>>
      BY <2>1 DEF Inv, TypeOK, RecordsBounded, Records
    <2>2. CASE HasRoom /\ artifacts' = WithRecord(h) /\ doubtful' = doubtful \cup own
      <3> HIDE DEF h
      <3>1. /\ artifacts' \in [handles : SUBSET Handles, heads : 0..MaxRecords,
                               entries : 0..MaxEntries]
            /\ artifacts'.handles = artifacts.handles \cup own
            /\ IsFiniteSet(artifacts'.handles) /\ RecordsBounded'
        BY <1>3, <2>2, RecordAdds
      <3> QED BY <1>3, <2>2, <3>1 DEF Inv, TypeOK
    <2> QED BY <2>1, <2>2 DEF RecordFails
  <1> HIDE DEF h
  <1>6. TypeOK'
    BY <1>1, <1>4, <1>5 DEF Inv, TypeOK
  <1>7. Drawn'
    BY <1>1, <1>3, <1>4, <1>5 DEF Inv, Drawn
  <1>8. \A q \in Procs \ {p} : handle[q] \notin own
    BY DEF Inv, Owned, h
  <1>9. Owned'
    BY <1>1, <1>4, <1>5 DEF Inv, Owned
  <1>10. Kept'
    BY <1>1, <1>4, <1>5, <1>8 DEF Inv, Kept, h
  <1>11. NoDanglingHandle'
    BY <1>1, <1>5 DEF Inv, NoDanglingHandle
  <1>12. NothingLeaked'
    BY <1>1, <1>4, <1>5 DEF Inv, NothingLeaked
  <1> QED BY <1>5, <1>6, <1>7, <1>9, <1>10, <1>11, <1>12 DEF Inv

LEMMA UndoKeeps ==
  ASSUME Inv, NEW p \in Procs, Undo(p)
  PROVE  Inv'
  <1>1. handle[p] \in Handles /\ handle[p] \notin returned
    BY DEF Undo, Inv, TypeOK, Kept, Owned
  <1>2. End(p) /\ UNCHANGED <<artifacts, drawn, returned, doubtful, dropped>>
    BY DEF Undo
  <1>3. /\ abandoned' \subseteq Handles /\ abandoned \subseteq abandoned'
        /\ \/ bodies' = bodies \ {handle[p]}
           \/ bodies' = bodies /\ handle[p] \in abandoned'
    BY <1>1 DEF Undo, Inv, TypeOK
  <1> QED BY <1>1, <1>2, <1>3, EndKeeps

LEMMA CrashKeeps ==
  ASSUME Inv, NEW p \in Procs, Crash(p)
  PROVE  Inv'
  <1>1. End(p) /\ UNCHANGED <<artifacts, bodies, drawn, returned, doubtful, dropped>>
        /\ abandoned' = abandoned \cup ({handle[p]} \ {NoHandle})
    BY DEF Crash
  <1>2. abandoned' \subseteq Handles
    BY <1>1 DEF Inv, TypeOK
  <1> QED BY <1>1, <1>2, EndKeeps

LEMMA IndexKeeps ==
  ASSUME Inv, NEW n \in 0..MaxEntries, Index(n)
  PROVE  Inv'
  <1>1. /\ artifacts'.handles = {} /\ artifacts'.heads = 0
        /\ artifacts' \in [handles : SUBSET Handles, heads : 0..MaxRecords,
                           entries : 0..MaxEntries]
    BY BrowserFetchAssumption DEF Index
  <1>2. dropped' = dropped \cup artifacts.handles
        /\ UNCHANGED <<bodies, pc, handle, drawn, returned, doubtful, abandoned>>
    BY DEF Index
  <1>3. IsFiniteSet(artifacts'.handles) /\ RecordsBounded'
    BY <1>1, FS_EmptySet, BrowserFetchAssumption DEF RecordsBounded, Records
  <1>4. TypeOK'
    BY <1>1, <1>2 DEF Inv, TypeOK
  <1>5. Drawn' /\ Owned' /\ Kept' /\ NoDanglingHandle'
    BY <1>1, <1>2 DEF Inv, Drawn, Owned, Kept, NoDanglingHandle
  <1>6. NothingLeaked'
    BY <1>1, <1>2 DEF Inv, NothingLeaked
  <1> QED BY <1>3, <1>4, <1>5, <1>6 DEF Inv

-----------------------------------------------------------------------------
LEMMA InvInit == Init => Inv
  <1> SUFFICES ASSUME Init PROVE Inv
    OBVIOUS
  <1>1. artifacts.handles = {} /\ artifacts.heads = 0
        /\ artifacts \in [handles : SUBSET Handles, heads : 0..MaxRecords,
                          entries : 0..MaxEntries]
    BY BrowserFetchAssumption DEF Init
  <1>2. IsFiniteSet(artifacts.handles) /\ RecordsBounded
    BY <1>1, FS_EmptySet, BrowserFetchAssumption DEF RecordsBounded, Records
  <1>3. TypeOK
    BY <1>1 DEF Init, TypeOK, Stages
  <1>4. Drawn /\ Owned /\ Kept /\ NoDanglingHandle /\ NothingLeaked
    BY <1>1 DEF Init, Drawn, Owned, Kept, NoDanglingHandle, NothingLeaked
  <1> QED BY <1>2, <1>3, <1>4 DEF Inv

LEMMA InvNext == Inv /\ [Next]_vars => Inv'
  <1> SUFFICES ASSUME Inv, [Next]_vars PROVE Inv'
    OBVIOUS
  <1>1. ASSUME NEW p \in Procs,
               \/ Fetch(p) \/ FetchFails(p) \/ WriteBody(p) \/ AnswerHead(p)
               \/ Record(p) \/ RecordFails(p) \/ Undo(p) \/ Crash(p)
        PROVE  Inv'
    BY <1>1, FetchKeeps, FetchFailsKeeps, WriteBodyKeeps, AnswerHeadKeeps, RecordKeeps,
       RecordFailsKeeps, UndoKeeps, CrashKeeps
  <1>2. ASSUME NEW n \in 0..MaxEntries, Index(n)
        PROVE  Inv'
    BY <1>2, IndexKeeps
  <1>3. CASE UNCHANGED vars
    BY <1>3 DEF Inv, TypeOK, Drawn, Owned, Kept, NoDanglingHandle, NothingLeaked,
       RecordsBounded, Records, vars, history
  <1> QED BY <1>1, <1>2, <1>3 DEF Next

LEMMA InvAlways == Spec => []Inv
  BY InvInit, InvNext, PTL DEF Spec

-----------------------------------------------------------------------------
\* The list of artifacts, the bodies and the calls have their types.
THEOREM TypeCorrect == Spec => []TypeOK
  <1>1. Inv => TypeOK
    BY DEF Inv
  <1> QED BY <1>1, InvAlways, PTL

\* A handle that is listed or was returned leads to a body, whatever other
\* calls undo (browser_fetch.py:216-221).
THEOREM HandlesLead == Spec => []NoDanglingHandle
  <1>1. Inv => NoDanglingHandle
    BY DEF Inv
  <1> QED BY <1>1, InvAlways, PTL

\* No error path forgets a private body (browser_fetch.py:201-224).
THEOREM BodiesAccountedFor == Spec => []NothingLeaked
  <1>1. Inv => NothingLeaked
    BY DEF Inv
  <1> QED BY <1>1, InvAlways, PTL

\* All processes together stay within the bound on the records
\* (artifacts.py:27-31).
THEOREM BoundHolds == Spec => []RecordsBounded
  <1>1. Inv => RecordsBounded
    BY DEF Inv
  <1> QED BY <1>1, InvAlways, PTL
=============================================================================
