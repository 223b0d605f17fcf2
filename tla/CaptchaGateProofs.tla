------------------------- MODULE CaptchaGateProofs -------------------------
(***************************************************************************)
(* Proofs about CaptchaGate, for any commands, pages, looks, and number of *)
(* attempts, cycles and polls.                                             *)
(***************************************************************************)
EXTENDS CaptchaGate, FiniteSetTheorems, TLAPS

Allocating == {"allocated", "budgeted", "photographed"}
Acting == {"applying", "unlinked", "clicked", "recorded"}
Held == Allocating \cup Acting

(***************************************************************************)
(* The inductive invariant.  One command at a time is between its first    *)
(* and its last write (Locked), so that the attempt and the authorization  *)
(* stay what it found them to be.  The heart is that a cycle is in one of  *)
(* three hands until it is used: capture's, which just counted it          *)
(* (Opening), an authorization's that is ready (Fresh), or act's, which    *)
(* took the authorization away before it clicks (Spending).                *)
(***************************************************************************)
Polling ==
  \A p \in Procs : /\ pc[p] = "idle" => checks[p] = 0
                   /\ pc[p] = "waiting" => checks[p] < MaxPolls

Locked == \A p \in Procs : holder = p <=> pc[p] \in Held

Dated == visual.marker <= latest /\ gate.marker <= latest

Opening ==
  \A p \in Procs : pc[p] \in Allocating => cycle > 0 /\ cycle \notin used

Fresh ==
  visual.status = "ready" /\ visual.marker = latest =>
    visual.cycle \in (1..cycle) \ used

Spending ==
  \A p \in Procs : pc[p] \in {"applying", "unlinked"} =>
    visual.status = "applying" /\ visual.cycle \in (1..cycle) \ used

Inv == /\ TypeOK
       /\ Polling
       /\ Locked
       /\ Dated
       /\ Opening
       /\ Fresh
       /\ Spending
       /\ SingleUse
       /\ ClicksWanted
       /\ GateFollowsCycle

-----------------------------------------------------------------------------
\* A step of p to another stage leaves the stages of the others.
LEMMA GotoMoves ==
  ASSUME TypeOK, NEW p \in Procs, NEW s, Goto(p, s)
  PROVE  pc'[p] = s /\ \A q \in Procs \ {p} : pc'[q] = pc[q]
  BY DEF TypeOK, Goto

\* What p forgets, the others remember.
LEMMA ForgetClears ==
  ASSUME TypeOK, NEW p \in Procs, Forget(p)
  PROVE  /\ mark' \in [Procs -> 0..MaxGeneration]
         /\ page' \in [Procs -> Pages \cup {NoPage}]
         /\ checks' \in [Procs -> 0..MaxPolls]
         /\ found' \in [Procs -> Statuses \cup {"none"}]
         /\ lost' \in [Procs -> Pages \cup {NoPage}]
         /\ checks'[p] = 0
         /\ \A q \in Procs \ {p} : checks'[q] = checks[q] /\ page'[q] = page[q]
  BY CaptchaGateAssumption DEF TypeOK, Forget

\* A gate that is written has a type, and is of this attempt and its cycle.
LEMMA GateWritten ==
  ASSUME TypeOK, NEW s \in Statuses \cup {"none"}, NEW t \in Pages \cup {NoPage},
         WriteGate(s, t)
  PROVE  /\ gate' \in GateStates
         /\ gate'.status = s /\ gate'.page = t
         /\ gate'.marker = latest /\ gate'.cycle = cycle /\ torn' = FALSE
  BY DEF TypeOK, GateStates, WriteGate

\* The authorization changes its status only.
MarkVisual(s) == visual' = [visual EXCEPT !.status = s]

LEMMA VisualMarked ==
  ASSUME TypeOK, NEW s \in {"none", "ready", "applying", "consumed", "uncertain"},
         MarkVisual(s)
  PROVE  /\ visual' \in Authorizations
         /\ visual'.status = s /\ visual'.page = visual.page
         /\ visual'.marker = visual.marker /\ visual'.cycle = visual.cycle
  BY DEF TypeOK, Authorizations, MarkVisual

-----------------------------------------------------------------------------
(* inspect and wait, which hold no lock before they write.                 *)

Free == {"idle", "waiting", "write"}

\* A command that looks and holds nothing may remember what it likes.
LEMMA QuietKeeps ==
  ASSUME Inv, NEW p \in Procs, pc[p] \in Free,
         NEW s \in Free, Goto(p, s), TypeOK',
         s = "idle" => checks'[p] = 0,
         s = "waiting" => checks'[p] < MaxPolls,
         \A q \in Procs \ {p} : checks'[q] = checks[q] /\ page'[q] = page[q],
         UNCHANGED <<gates, visuals, holder, torn, rounds>>
  PROVE  Inv'
  <1>1. pc'[p] = s /\ \A q \in Procs \ {p} : pc'[q] = pc[q]
    BY GotoMoves DEF Inv
  <1>2. Polling'
    BY <1>1 DEF Inv, Polling, Free
  <1>3. Locked'
    BY <1>1 DEF Inv, Locked, Held, Free, Allocating, Acting
  <1>4. Dated' /\ Fresh' /\ SingleUse'
    BY DEF Inv, Dated, Fresh, SingleUse, gates, visuals, rounds
  <1>5. Opening' /\ Spending'
    BY <1>1 DEF Inv, Opening, Spending, gates, visuals, rounds, Free, Allocating
  <1>6. ClicksWanted'
    BY <1>1 DEF Inv, ClicksWanted, gates, visuals, Free
  <1>7. GateFollowsCycle'
    BY <1>1 DEF Inv, GateFollowsCycle, gates, Free
  <1> QED BY <1>2, <1>3, <1>4, <1>5, <1>6, <1>7 DEF Inv

LEMMA InspectKeeps ==
  ASSUME Inv, NEW p \in Procs, Inspect(p)
  PROVE  Inv'
  <1>1. TypeOK'
    BY DEF Inspect, Inv, TypeOK, Goto, Stages, Statuses, gates, visuals, rounds
  <1>2. \A q \in Procs \ {p} : checks'[q] = checks[q] /\ page'[q] = page[q]
    BY DEF Inspect, Inv, TypeOK
  <1>3. Goto(p, "write") /\ pc[p] \in Free /\ "write" \in Free
    BY DEF Inspect, Free
  <1>4. UNCHANGED <<gates, visuals, holder, torn, rounds>>
    BY DEF Inspect
  <1> QED BY <1>1, <1>2, <1>3, <1>4, QuietKeeps

LEMMA WaitKeeps ==
  ASSUME Inv, NEW p \in Procs, Wait(p)
  PROVE  Inv'
  <1>1. Pin \in Pages \cup {NoPage} /\ gate.page \in Pages \cup {NoPage}
    BY DEF Inv, TypeOK, GateStates, Pin
  <1>2. TypeOK'
    BY <1>1 DEF Wait, Inv, TypeOK, Goto, Stages, gates, visuals, rounds
  <1>3. \A q \in Procs \ {p} : checks'[q] = checks[q] /\ page'[q] = page[q]
    BY DEF Wait, Inv, TypeOK
  <1>4. Goto(p, "waiting") /\ pc[p] \in Free /\ "waiting" \in Free
    BY DEF Wait, Free
  <1>5. UNCHANGED <<gates, visuals, holder, torn, rounds>>
    BY DEF Wait
  <1>6. checks'[p] < MaxPolls
    BY CaptchaGateAssumption DEF Wait, Inv, Polling, TypeOK
  <1> QED BY <1>2, <1>3, <1>4, <1>5, <1>6, QuietKeeps

LEMMA LookKeeps ==
  ASSUME Inv, NEW p \in Procs, Look(p)
  PROVE  Inv'
  <1>1. PICK t \in Pages, s \in Faces : Poll(p, t, s)
    BY DEF Look
  <1>2. pc[p] = "waiting" /\ checks[p] < MaxPolls /\ checks[p] \in Nat
    BY DEF Look, Inv, Polling, TypeOK
  <1>3. UNCHANGED <<gates, visuals, holder, mark, lost, torn, rounds>>
    BY DEF Look
  <1>4. /\ page' \in [Procs -> Pages \cup {NoPage}]
        /\ checks' \in [Procs -> 0..MaxPolls] /\ checks'[p] = checks[p] + 1
        /\ \A q \in Procs \ {p} : checks'[q] = checks[q] /\ page'[q] = page[q]
    BY <1>1, <1>2, CaptchaGateAssumption DEF Poll, Inv, TypeOK
  <1>5. CASE Goto(p, "write")
    <2>1. found' \in [Procs -> Statuses \cup {"none"}]
      BY <1>1 DEF Poll, Inv, TypeOK, Statuses, Pending
    <2>2. pc' \in [Procs -> Stages]
      BY <1>5 DEF Inv, TypeOK, Goto, Stages
    <2>3. TypeOK'
      BY <1>3, <1>4, <2>1, <2>2 DEF Inv, TypeOK, gates, visuals, rounds
    <2> QED BY <1>2, <1>3, <1>4, <1>5, <2>3, QuietKeeps DEF Free
  <1>6. CASE checks[p] + 1 < MaxPolls /\ UNCHANGED <<pc, found>>
    <2>1. TypeOK'
      BY <1>3, <1>4, <1>6 DEF Inv, TypeOK, gates, visuals, rounds
    <2>2. Goto(p, "waiting")
      BY <1>2, <1>6 DEF Inv, TypeOK, Goto
    <2> QED BY <1>2, <1>3, <1>4, <1>6, <2>1, <2>2, QuietKeeps DEF Free
  <1> QED BY <1>1, <1>5, <1>6 DEF Poll

LEMMA LookFailsKeeps ==
  ASSUME Inv, NEW p \in Procs, LookFails(p)
  PROVE  Inv'
  <1>1. pc' \in [Procs -> Stages]
    BY DEF LookFails, Inv, TypeOK, Goto, Stages
  <1>2. TypeOK'
    BY <1>1, ForgetClears DEF LookFails, Inv, TypeOK, gates, visuals, rounds
  <1>3. Goto(p, "idle") /\ pc[p] \in Free /\ "idle" \in Free
        /\ UNCHANGED <<gates, visuals, holder, torn, rounds>>
    BY DEF LookFails, Free
  <1> QED BY <1>2, <1>3, ForgetClears, QuietKeeps DEF LookFails, Inv

LEMMA WriteKeeps ==
  ASSUME Inv, NEW p \in Procs, Write(p)
  PROVE  Inv'
  <1>1. CASE UNCHANGED <<gate, torn>>
    <2>1. pc' \in [Procs -> Stages]
      BY DEF Write, Inv, TypeOK, Goto, Stages
    <2>2. TypeOK'
      BY <1>1, <2>1, ForgetClears DEF Write, Inv, TypeOK, gates, visuals, rounds
    <2>3. Goto(p, "idle") /\ pc[p] \in Free /\ "idle" \in Free
          /\ UNCHANGED <<gates, visuals, holder, torn, rounds>>
      BY <1>1 DEF Write, Free, gates
    <2> QED BY <2>2, <2>3, ForgetClears, QuietKeeps DEF Write, Inv
  <1>2. CASE WriteGate(found[p], page[p])
    <2>1. found[p] \in Statuses \cup {"none"} /\ page[p] \in Pages \cup {NoPage}
      BY DEF Inv, TypeOK
    <2>2. /\ gate' \in GateStates
          /\ gate'.marker = latest /\ gate'.cycle = cycle /\ torn' = FALSE
      BY <1>2, <2>1, GateWritten DEF Inv
    <2>3. pc'[p] = "idle" /\ \A q \in Procs \ {p} : pc'[q] = pc[q]
      BY GotoMoves DEF Write, Inv
    <2>4. \A q \in Procs : pc[q] \notin Held
      <3>1. NoProc \notin Procs
        BY CaptchaGateAssumption
      <3> QED BY <3>1 DEF Write, Inv, Locked
    <2>5. pc' \in [Procs -> Stages]
      BY DEF Write, Inv, TypeOK, Goto, Stages
    <2>6. TypeOK'
      BY <2>2, <2>5, ForgetClears DEF Write, Inv, TypeOK, visuals, rounds
    <2>7. Polling'
      BY <2>3, ForgetClears DEF Write, Inv, Polling
    <2>8. \A q \in Procs : pc'[q] \notin Held
      BY <2>3, <2>4 DEF Held, Allocating, Acting
    <2>9. Locked'
      BY <2>4, <2>8 DEF Write, Inv, Locked
    <2>10. Dated' /\ Fresh' /\ SingleUse'
      BY <2>2 DEF Write, Inv, Dated, Fresh, SingleUse, visuals, rounds, TypeOK
    <2>11. Opening' /\ Spending' /\ ClicksWanted'
      BY <2>8 DEF Opening, Spending, ClicksWanted, Held, Allocating, Acting
    <2>12. GateFollowsCycle'
      BY <2>2 DEF Write, GateFollowsCycle
    <2> QED BY <2>6, <2>7, <2>9, <2>10, <2>11, <2>12 DEF Inv
  <1> QED BY <1>1, <1>2 DEF Write

\* An attempt begins: what there is of the old one is none of its business.
LEMMA BeginKeeps ==
  ASSUME Inv, BeginAttempt
  PROVE  Inv'
  <1>1. \A q \in Procs : pc[q] \notin Held
    <2>1. NoProc \notin Procs
      BY CaptchaGateAssumption
    <2> QED BY <2>1 DEF BeginAttempt, Inv, Locked
  <1>2. TypeOK'
    <2>1. MaxCycles \in Nat /\ MaxGeneration \in Nat
      BY CaptchaGateAssumption
    <2>2. latest' \in 0..MaxGeneration /\ latest <= latest'
      BY <2>1 DEF BeginAttempt, Inv, TypeOK
    <2>3. cycle' \in 0..MaxCycles /\ clicks' \in Nat
      BY <2>1 DEF BeginAttempt
    <2>4. used' \subseteq 0..MaxCycles /\ torn' \in BOOLEAN
      BY Zenon DEF BeginAttempt
    <2> QED BY <2>2, <2>3, <2>4
       DEF BeginAttempt, Inv, TypeOK, gates, visuals, command, rounds
  <1>3. Polling' /\ Locked'
    BY DEF BeginAttempt, Inv, Polling, Locked, command
  <1>4. Dated' /\ Fresh' /\ GateFollowsCycle'
    BY CaptchaGateAssumption
      
         DEF BeginAttempt, Inv, TypeOK, GateStates, Authorizations, Dated, Fresh, GateFollowsCycle, visuals
  <1>5. SingleUse'
    BY FS_EmptySet, CaptchaGateAssumption DEF BeginAttempt, SingleUse
  <1>6. Opening' /\ Spending' /\ ClicksWanted'
    BY <1>1 DEF BeginAttempt, Opening, Spending, ClicksWanted, Held, Allocating, Acting
  <1> QED BY <1>2, <1>3, <1>4, <1>5, <1>6 DEF Inv

-----------------------------------------------------------------------------
(* capture and act, one of which holds the lock.                           *)

\* Whoever holds it is alone.
LEMMA HolderAlone ==
  ASSUME Inv, NEW p \in Procs, pc[p] \in Held
  PROVE  holder = p /\ \A q \in Procs \ {p} : pc[q] \notin Held
  BY DEF Inv, Locked

\* The parts about p while it has the lock, where it goes to stage s: the
\* others hold nothing.
LEMMA HolderKeeps ==
  ASSUME Inv, NEW p \in Procs, NEW s \in Held, Goto(p, s),
         \A q \in Procs \ {p} : pc[q] \notin Held,
         holder' = p, TypeOK', checks' = checks, Dated', Fresh', SingleUse',
         s \in Allocating => cycle' > 0 /\ cycle' \notin used',
         s \in {"applying", "unlinked"} =>
           visual'.status = "applying" /\ visual'.cycle \in (1..cycle') \ used',
         s \in {"applying", "unlinked", "clicked"} =>
           /\ visual'.marker = latest' /\ gate'.marker = latest'
           /\ gate'.status = "human_required"
           /\ gate'.page = visual'.page /\ page'[p] = visual'.page,
         s = "allocated" \/ gate'.cycle = cycle'
           \/ (gate' = gate /\ cycle' = cycle /\ latest' = latest /\ torn' = torn
                /\ pc[p] # "allocated")
  PROVE  Inv'
  <1>1. pc'[p] = s /\ \A q \in Procs \ {p} : pc'[q] = pc[q] /\ pc'[q] \notin Held
    BY GotoMoves DEF Inv
  <1>2. Polling'
    BY <1>1 DEF Inv, Polling, Held, Allocating, Acting
  <1>3. Locked'
    BY <1>1 DEF Locked
  <1>4. Opening' /\ Spending' /\ ClicksWanted'
    BY <1>1 DEF Opening, Spending, ClicksWanted, Held, Allocating, Acting
  <1>5. GateFollowsCycle'
    BY <1>1 DEF Inv, GateFollowsCycle
  <1> QED BY <1>2, <1>3, <1>4, <1>5 DEF Inv

\* It leaves: nobody holds the lock then.
LEMMA LeaveKeeps ==
  ASSUME Inv, NEW p \in Procs, pc[p] \in Held, Leave(p),
         TypeOK', Dated', Fresh', SingleUse',
         torn' \/ gate'.cycle = cycle'
           \/ (gate' = gate /\ cycle' = cycle /\ latest' = latest /\ torn' = torn
                /\ pc[p] # "allocated")
  PROVE  Inv'
  <1>1. pc'[p] = "idle" /\ \A q \in Procs \ {p} : pc'[q] = pc[q] /\ pc'[q] \notin Held
    BY GotoMoves, HolderAlone DEF Inv, Leave
  <1>2. Polling'
    BY <1>1, ForgetClears DEF Leave, Inv, Polling
  <1>3. Locked'
    BY <1>1, CaptchaGateAssumption DEF Locked, Leave, Held, Allocating, Acting
  <1>4. Opening' /\ Spending' /\ ClicksWanted'
    BY <1>1 DEF Opening, Spending, ClicksWanted, Held, Allocating, Acting
  <1>5. GateFollowsCycle'
    BY <1>1 DEF Inv, GateFollowsCycle
  <1> QED BY <1>2, <1>3, <1>4, <1>5 DEF Inv

LEMMA LeaveType ==
  ASSUME TypeOK, NEW p \in Procs, Leave(p)
  PROVE  /\ pc' \in [Procs -> Stages] /\ holder' = NoProc
         /\ mark' \in [Procs -> 0..MaxGeneration]
         /\ page' \in [Procs -> Pages \cup {NoPage}]
         /\ checks' \in [Procs -> 0..MaxPolls]
         /\ found' \in [Procs -> Statuses \cup {"none"}]
         /\ lost' \in [Procs -> Pages \cup {NoPage}]
  <1>1. pc' \in [Procs -> Stages]
    BY DEF TypeOK, Leave, Goto, Stages
  <1> QED BY <1>1, ForgetClears DEF Leave

LEMMA AllocateKeeps ==
  ASSUME Inv, NEW p \in Procs, Allocate(p)
  PROVE  Inv'
  <1>1. \A q \in Procs : pc[q] \notin Held
    <2>1. NoProc \notin Procs
      BY CaptchaGateAssumption
    <2> QED BY <2>1 DEF Allocate, Inv, Locked
  <1>2. cycle \in Nat /\ used \subseteq 1..cycle /\ MaxCycles \in Nat
    BY CaptchaGateAssumption DEF Inv, TypeOK, SingleUse
  <1>3. cycle' = cycle + 1 /\ cycle' \in 0..MaxCycles
    BY <1>2 DEF Allocate, MayCapture
  <1>4. TypeOK'
    BY <1>3 DEF Allocate, Inv, TypeOK, GateStates, Goto, Stages, visuals, rounds
  <1>5. Dated' /\ Fresh' /\ SingleUse'
    BY <1>2, <1>3 DEF Allocate, Inv, TypeOK, Dated, Fresh, SingleUse, visuals, rounds
  <1>6. cycle' > 0 /\ cycle' \notin used'
    BY <1>2, <1>3 DEF Allocate, rounds
  <1>7. Goto(p, "allocated") /\ "allocated" \in Held /\ holder' = p /\ checks' = checks
    BY DEF Allocate, Held, Allocating
  <1> QED BY <1>1, <1>4, <1>5, <1>6, <1>7, HolderKeeps

LEMMA BudgetKeeps ==
  ASSUME Inv, NEW p \in Procs, Budget(p)
  PROVE  Inv'
  <1>1. pc[p] = "allocated" /\ pc[p] \in Held
    BY DEF Budget, Held, Allocating
  <1>2. holder = p /\ \A q \in Procs \ {p} : pc[q] \notin Held
    BY <1>1, HolderAlone
  <1>3. UNCHANGED <<latest, cycle, visuals, rounds>>
    BY DEF Budget
  <1>4. CASE /\ WriteGate("human_required", page[p])
             /\ Goto(p, "budgeted")
             /\ UNCHANGED <<holder, command, lost>>
    <2>1. page[p] \in Pages \cup {NoPage} /\ "human_required" \in Statuses
      BY DEF Inv, TypeOK, Statuses, Pending
    <2>2. /\ gate' \in GateStates
          /\ gate'.marker = latest /\ gate'.cycle = cycle /\ torn' = FALSE
      BY <1>4, <2>1, GateWritten DEF Inv
    <2>3. TypeOK'
      BY <1>3, <1>4, <2>2 DEF Inv, TypeOK, Goto, Stages, visuals, rounds, command
    <2>4. Dated' /\ Fresh' /\ SingleUse'
      BY <1>3, <2>2 DEF Inv, TypeOK, Dated, Fresh, SingleUse, visuals, rounds
    <2>5. cycle' > 0 /\ cycle' \notin used'
      BY <1>1, <1>3 DEF Inv, Opening, Allocating, rounds
    <2>6. gate'.cycle = cycle' /\ checks' = checks /\ holder' = p
      BY <1>2, <1>3, <1>4, <2>2 DEF command
    <2> QED BY <1>2, <1>4, <2>3, <2>4, <2>5, <2>6, HolderKeeps DEF Held, Allocating
  <1>5. CASE Leave(p) /\ torn' = TRUE /\ UNCHANGED gate
    <2>1. TypeOK'
      BY <1>3, <1>5, LeaveType DEF Inv, TypeOK, visuals, rounds
    <2>2. Dated' /\ Fresh' /\ SingleUse'
      BY <1>3, <1>5 DEF Inv, Dated, Fresh, SingleUse, visuals, rounds
    <2> QED BY <1>1, <1>5, <2>1, <2>2, LeaveKeeps
  <1> QED BY <1>4, <1>5 DEF Budget

LEMMA PhotographKeeps ==
  ASSUME Inv, NEW p \in Procs, Photograph(p)
  PROVE  Inv'
  <1>1. pc[p] = "budgeted" /\ pc[p] \in Held
    BY DEF Photograph, Held, Allocating
  <1>2. holder = p /\ \A q \in Procs \ {p} : pc[q] \notin Held
    BY <1>1, HolderAlone
  <1>3. UNCHANGED <<gates, visual, torn, rounds>>
    BY DEF Photograph
  <1>4. Dated' /\ Fresh' /\ SingleUse'
    BY <1>3 DEF Inv, Dated, Fresh, SingleUse, gates, rounds
  <1>5. gate' = gate /\ cycle' = cycle /\ latest' = latest /\ torn' = torn
    BY <1>3 DEF gates
  <1>6. CASE /\ \E l \in Looks : shot' = l
             /\ Goto(p, "photographed")
             /\ UNCHANGED <<holder, command, lost>>
    <2>1. TypeOK'
      BY <1>3, <1>6 DEF Inv, TypeOK, Goto, Stages, gates, rounds, command
    <2>2. cycle' > 0 /\ cycle' \notin used'
      BY <1>1, <1>3 DEF Inv, Opening, Allocating, gates, rounds
    <2>3. checks' = checks /\ holder' = p
      BY <1>2, <1>6 DEF command
    <2> QED BY <1>1, <1>2, <1>4, <1>5, <1>6, <2>1, <2>2, <2>3, HolderKeeps
        DEF Held, Allocating
  <1>7. CASE Leave(p) /\ UNCHANGED shot
    <2>1. TypeOK'
      BY <1>3, <1>7, LeaveType DEF Inv, TypeOK, gates, rounds
    <2> QED BY <1>1, <1>4, <1>5, <1>7, <2>1, LeaveKeeps
  <1> QED BY <1>6, <1>7 DEF Photograph

LEMMA AuthorizeKeeps ==
  ASSUME Inv, NEW p \in Procs, Authorize(p)
  PROVE  Inv'
  <1>1. pc[p] = "photographed" /\ pc[p] \in Held
    BY DEF Authorize, Held, Allocating
  <1>2. Leave(p) /\ UNCHANGED <<gates, shot, torn, rounds>>
    BY DEF Authorize
  <1>3. /\ visual' \in Authorizations
        /\ visual'.marker = latest /\ visual'.cycle = cycle
    BY DEF Authorize, Inv, TypeOK, Authorizations
  <1>4. TypeOK'
    BY <1>2, <1>3, LeaveType DEF Inv, TypeOK, gates, rounds
  <1>5. cycle > 0 /\ cycle \notin used
    BY <1>1 DEF Inv, Opening, Allocating
  <1>6. Dated' /\ Fresh' /\ SingleUse'
    BY <1>2, <1>3, <1>5 DEF Inv, TypeOK, Dated, Fresh, SingleUse, gates, rounds
  <1> QED BY <1>1, <1>2, <1>4, <1>6, LeaveKeeps DEF gates

LEMMA ApplyKeeps ==
  ASSUME Inv, NEW p \in Procs, Apply(p)
  PROVE  Inv'
  <1>1. \A q \in Procs : pc[q] \notin Held
    <2>1. NoProc \notin Procs
      BY CaptchaGateAssumption
    <2> QED BY <2>1 DEF Apply, Inv, Locked
  <1>2. Actable /\ holder' = p /\ checks' = checks /\ Goto(p, "applying")
        /\ page' = [page EXCEPT ![p] = visual.page] /\ MarkVisual("applying")
        /\ UNCHANGED <<gates, shot, mark, checks, found, lost, torn, rounds>>
    BY DEF Apply, MarkVisual
  <1>3. /\ visual' \in Authorizations
        /\ visual'.status = "applying" /\ visual'.page = visual.page
        /\ visual'.marker = visual.marker /\ visual'.cycle = visual.cycle
    BY <1>2, VisualMarked DEF Inv
  <1>4. TypeOK'
    BY <1>2, <1>3 DEF Inv, TypeOK, Authorizations, Goto, Stages, gates, rounds
  <1>5. Dated' /\ Fresh' /\ SingleUse'
    BY <1>2, <1>3 DEF Inv, Dated, Fresh, SingleUse, gates, rounds
  <1>6. visual'.status = "applying" /\ visual'.cycle \in (1..cycle') \ used'
    BY <1>2, <1>3 DEF Inv, Fresh, Actable, gates, rounds
  <1>7. /\ visual'.marker = latest' /\ gate'.marker = latest'
        /\ gate'.status = "human_required"
        /\ gate'.page = visual'.page /\ page'[p] = visual'.page
        /\ gate'.cycle = cycle'
    BY <1>2, <1>3 DEF Inv, TypeOK, Actable, GateValid, gates
  <1> QED BY <1>1, <1>2, <1>4, <1>5, <1>6, <1>7, HolderKeeps
      DEF Held, Allocating, Acting

LEMMA ConsumeKeeps ==
  ASSUME Inv, NEW p \in Procs, Consume(p)
  PROVE  Inv'
  <1>1. pc[p] = "applying" /\ pc[p] \in Held
    BY DEF Consume, Held, Acting
  <1>2. holder = p /\ \A q \in Procs \ {p} : pc[q] \notin Held
    BY <1>1, HolderAlone
  <1>3. UNCHANGED <<gates, visual, torn, rounds>>
    BY DEF Consume
  <1>4. Dated' /\ Fresh' /\ SingleUse'
    BY <1>3 DEF Inv, Dated, Fresh, SingleUse, gates, rounds
  <1>5. gate' = gate /\ cycle' = cycle /\ latest' = latest /\ torn' = torn
    BY <1>3 DEF gates
  <1>6. CASE shot' = NoLook /\ Goto(p, "unlinked") /\ UNCHANGED <<holder, command, lost>>
    <2>1. TypeOK'
      BY <1>3, <1>6 DEF Inv, TypeOK, Goto, Stages, gates, rounds, command
    <2>2. visual'.status = "applying" /\ visual'.cycle \in (1..cycle') \ used'
      BY <1>1, <1>3 DEF Inv, Spending, gates, rounds
    <2>3. /\ visual'.marker = latest' /\ gate'.marker = latest'
          /\ gate'.status = "human_required"
          /\ gate'.page = visual'.page /\ page'[p] = visual'.page
      BY <1>1, <1>3, <1>6 DEF Inv, ClicksWanted, gates, command
    <2>4. checks' = checks /\ holder' = p
      BY <1>2, <1>6 DEF command
    <2> QED BY <1>1, <1>2, <1>4, <1>5, <1>6, <2>1, <2>2, <2>3, <2>4, HolderKeeps
        DEF Held, Allocating, Acting
  <1>7. CASE Leave(p) /\ UNCHANGED shot
    <2>1. TypeOK'
      BY <1>3, <1>7, LeaveType DEF Inv, TypeOK, gates, rounds
    <2> QED BY <1>1, <1>4, <1>5, <1>7, <2>1, LeaveKeeps
  <1> QED BY <1>6, <1>7 DEF Consume

\* The end of an authorization that may or may not have been used.
LEMMA UncertainKeeps ==
  ASSUME Inv, NEW p \in Procs, pc[p] \in Acting, Uncertain(p), SingleUse',
         used' \subseteq 0..MaxCycles, clicks' \in Nat, UNCHANGED <<gates, shot, torn>>
  PROVE  Inv'
  <1>1. Leave(p) /\ MarkVisual("uncertain")
    BY DEF Uncertain, MarkVisual
  <1>2. /\ visual' \in Authorizations
        /\ visual'.status = "uncertain" /\ visual'.marker = visual.marker
    BY <1>1, VisualMarked DEF Inv
  <1>3. TypeOK'
    BY <1>1, <1>2, LeaveType DEF Inv, TypeOK, gates
  <1>4. Dated' /\ Fresh'
    BY <1>2 DEF Inv, Dated, Fresh, gates
  <1>5. pc[p] \in Held /\ pc[p] # "allocated"
    BY DEF Held, Acting
  <1>6. gate' = gate /\ cycle' = cycle /\ latest' = latest /\ torn' = torn
    BY DEF gates
  <1> QED BY <1>1, <1>3, <1>4, <1>5, <1>6, LeaveKeeps

LEMMA ClickKeeps ==
  ASSUME Inv, NEW p \in Procs, Click(p)
  PROVE  Inv'
  <1>1. pc[p] = "unlinked" /\ pc[p] \in Held /\ pc[p] \in Acting
    BY DEF Click, Held, Acting
  <1>2. holder = p /\ \A q \in Procs \ {p} : pc[q] \notin Held
    BY <1>1, HolderAlone
  <1>3. clicks' = clicks + 1 /\ used' = used \cup {visual.cycle}
        /\ UNCHANGED <<gates, shot, torn>>
    BY DEF Click
  <1>4. visual.status = "applying" /\ visual.cycle \in (1..cycle) \ used
    BY <1>1 DEF Inv, Spending
  <1>5. SingleUse'
    <2>1. cycle \in Nat /\ used \subseteq 1..cycle /\ cycle <= MaxCycles
          /\ clicks = Cardinality(used)
      BY DEF Inv, TypeOK, SingleUse
    <2>2. IsFiniteSet(used)
      <3>1. IsFiniteSet(1..cycle)
        BY <2>1, FS_Interval
      <3> QED BY <2>1, <3>1, FS_Subset
    <2>3. Cardinality(used') = clicks + 1
      BY <1>3, <1>4, <2>1, <2>2, FS_AddElement
    <2> QED BY <1>3, <1>4, <2>1, <2>3 DEF SingleUse, gates
  <1>6. used' \subseteq 0..MaxCycles /\ clicks' \in Nat
    <2>1. visual.cycle \in 0..MaxCycles /\ used \subseteq 0..MaxCycles /\ clicks \in Nat
      BY DEF Inv, TypeOK, Authorizations
    <2>2. used' \subseteq 0..MaxCycles
      BY <1>3, <2>1, Zenon
    <2>3. clicks' \in Nat
      BY <1>3, <2>1
    <2> QED BY <2>2, <2>3
  <1>7. CASE Goto(p, "clicked") /\ UNCHANGED <<visual, holder, command, lost>>
    <2>1. TypeOK'
      BY <1>3, <1>6, <1>7 DEF Inv, TypeOK, Goto, Stages, gates, command
    <2>2. Dated' /\ Fresh'
      BY <1>3, <1>4, <1>7 DEF Inv, Dated, Fresh, gates
    <2>3. /\ visual'.marker = latest' /\ gate'.marker = latest'
          /\ gate'.status = "human_required"
          /\ gate'.page = visual'.page /\ page'[p] = visual'.page
      BY <1>1, <1>3, <1>7 DEF Inv, ClicksWanted, gates, command
    <2>4. checks' = checks /\ holder' = p
      BY <1>2, <1>7 DEF command
    <2>5. gate' = gate /\ cycle' = cycle /\ latest' = latest /\ torn' = torn
      BY <1>3 DEF gates
    <2> QED BY <1>1, <1>2, <1>5, <1>7, <2>1, <2>2, <2>3, <2>4, <2>5, HolderKeeps
        DEF Held, Allocating, Acting
  <1>8. CASE Uncertain(p)
    BY <1>1, <1>3, <1>5, <1>6, <1>8, UncertainKeeps
  <1> QED BY <1>7, <1>8 DEF Click

LEMMA ClickRefusedKeeps ==
  ASSUME Inv, NEW p \in Procs, ClickRefused(p)
  PROVE  Inv'
  <1>1. pc[p] \in Acting /\ Uncertain(p) /\ UNCHANGED <<gates, shot, torn, rounds>>
    BY DEF ClickRefused, Acting
  <1>2. SingleUse' /\ used' \subseteq 0..MaxCycles /\ clicks' \in Nat
    BY <1>1 DEF Inv, TypeOK, SingleUse, gates, rounds
  <1> QED BY <1>1, <1>2, UncertainKeeps

LEMMA ReinspectKeeps ==
  ASSUME Inv, NEW p \in Procs, Reinspect(p)
  PROVE  Inv'
  <1>1. pc[p] = "clicked" /\ pc[p] \in Held /\ pc[p] \in Acting
    BY DEF Reinspect, Held, Acting
  <1>2. holder = p /\ \A q \in Procs \ {p} : pc[q] \notin Held
    BY <1>1, HolderAlone
  <1>3. UNCHANGED <<latest, cycle, shot, rounds>>
    BY DEF Reinspect
  <1>4. SingleUse' /\ used' \subseteq 0..MaxCycles /\ clicks' \in Nat
    BY <1>3 DEF Inv, TypeOK, SingleUse, rounds
  <1>5. CASE /\ \E s \in Faces : WriteGate(IF s = "clear" THEN "cleared" ELSE s, page[p])
             /\ Goto(p, "recorded")
             /\ UNCHANGED <<visual, holder, command, lost>>
    <2>1. PICK s \in Statuses : WriteGate(s, page[p])
      BY <1>5 DEF Statuses, Faces
    <2>2. page[p] \in Pages \cup {NoPage}
      BY DEF Inv, TypeOK
    <2>3. /\ gate' \in GateStates
          /\ gate'.marker = latest /\ gate'.cycle = cycle /\ torn' = FALSE
      BY <2>1, <2>2, GateWritten DEF Inv
    <2>4. TypeOK'
      BY <1>3, <1>5, <2>3 DEF Inv, TypeOK, Goto, Stages, rounds, command
    <2>5. Dated' /\ Fresh'
      BY <1>3, <1>5, <2>3 DEF Inv, TypeOK, Dated, Fresh, rounds
    <2>6. gate'.cycle = cycle' /\ checks' = checks /\ holder' = p
      BY <1>2, <1>3, <1>5, <2>3 DEF command
    <2> QED BY <1>2, <1>4, <1>5, <2>4, <2>5, <2>6, HolderKeeps
        DEF Held, Allocating, Acting
  <1>6. CASE Uncertain(p) /\ UNCHANGED <<gate, torn>>
    BY <1>1, <1>3, <1>4, <1>6, UncertainKeeps DEF gates
  <1> QED BY <1>5, <1>6 DEF Reinspect

LEMMA FinishKeeps ==
  ASSUME Inv, NEW p \in Procs, Finish(p)
  PROVE  Inv'
  <1>1. pc[p] = "recorded" /\ pc[p] \in Held
    BY DEF Finish, Held, Acting
  <1>2. Leave(p) /\ MarkVisual("consumed") /\ UNCHANGED <<gates, shot, torn, rounds>>
    BY DEF Finish, MarkVisual
  <1>3. /\ visual' \in Authorizations
        /\ visual'.status = "consumed" /\ visual'.marker = visual.marker
    BY <1>2, VisualMarked DEF Inv
  <1>4. TypeOK'
    BY <1>2, <1>3, LeaveType DEF Inv, TypeOK, gates, rounds
  <1>5. Dated' /\ Fresh' /\ SingleUse'
    BY <1>2, <1>3 DEF Inv, Dated, Fresh, SingleUse, gates, rounds
  <1> QED BY <1>1, <1>2, <1>4, <1>5, LeaveKeeps DEF gates

-----------------------------------------------------------------------------
\* A command dies anywhere.
LEMMA CrashKeeps ==
  ASSUME Inv, NEW p \in Procs, Crash(p)
  PROVE  Inv'
  <1>1. UNCHANGED <<gates, visuals, rounds>> /\ Goto(p, "idle") /\ Forget(p)
        /\ torn' = (torn \/ pc[p] = "allocated")
        /\ holder' = IF holder = p THEN NoProc ELSE holder
    BY DEF Crash
  <1>2. pc'[p] = "idle" /\ \A q \in Procs \ {p} : pc'[q] = pc[q]
    BY <1>1, GotoMoves DEF Inv
  <1>3. TypeOK'
    <2>1. pc' \in [Procs -> Stages] /\ torn' \in BOOLEAN
          /\ holder' \in Procs \cup {NoProc}
      BY <1>1 DEF Inv, TypeOK, Goto, Stages
    <2> QED BY <1>1, <2>1, ForgetClears DEF Inv, TypeOK, gates, visuals, rounds
  <1>4. Polling'
    BY <1>1, <1>2, ForgetClears DEF Inv, Polling
  <1>5. Locked'
    <2>1. NoProc \notin Procs
      BY CaptchaGateAssumption
    <2> QED BY <1>1, <1>2, <2>1 DEF Inv, Locked, Held, Allocating, Acting
  <1>6. Dated' /\ Fresh' /\ SingleUse'
    BY <1>1 DEF Inv, Dated, Fresh, SingleUse, gates, visuals, rounds
  <1>7. Opening' /\ Spending'
    BY <1>1, <1>2 DEF Inv, Opening, Spending, Allocating, gates, visuals, rounds
  <1>8. ClicksWanted'
    BY <1>1, <1>2, ForgetClears DEF Inv, ClicksWanted, gates, visuals
  <1>9. GateFollowsCycle'
    BY <1>1, <1>2 DEF Inv, GateFollowsCycle, gates
  <1> QED BY <1>3, <1>4, <1>5, <1>6, <1>7, <1>8, <1>9 DEF Inv

LEMMA InvInit == Init => Inv
  <1> SUFFICES ASSUME Init PROVE Inv
    OBVIOUS
  <1>1. TypeOK
    <2>1. MaxCycles \in Nat /\ MaxGeneration \in Nat /\ MaxPolls \in Nat
      BY CaptchaGateAssumption
    <2>2. used \subseteq 0..MaxCycles
      BY Zenon DEF Init
    <2>3. /\ gate \in GateStates
          /\ visual \in Authorizations
      BY <2>1 DEF GateStates, Authorizations, Statuses, Init
    <2>4. latest \in 0..MaxGeneration /\ cycle \in 0..MaxCycles /\ clicks \in Nat
      BY <2>1 DEF Init
    <2>5. /\ mark \in [Procs -> 0..MaxGeneration] /\ checks \in [Procs -> 0..MaxPolls]
          /\ pc \in [Procs -> Stages] /\ page \in [Procs -> Pages \cup {NoPage}]
          /\ found \in [Procs -> Statuses \cup {"none"}]
          /\ lost \in [Procs -> Pages \cup {NoPage}]
      BY <2>1 DEF Init, Stages
    <2>6. shot \in Looks \cup {NoLook} /\ holder \in Procs \cup {NoProc} /\ torn \in BOOLEAN
      BY DEF Init
    <2> QED BY <2>2, <2>3, <2>4, <2>5, <2>6 DEF TypeOK
  <1>2. Polling /\ Dated /\ Opening /\ Fresh /\ Spending
    BY CaptchaGateAssumption
       DEF Init, Polling, Dated, Opening, Fresh, Spending, Allocating
  <1>3. Locked
    BY CaptchaGateAssumption DEF Init, Locked, Held, Allocating, Acting
  <1>4. SingleUse
    BY FS_EmptySet, CaptchaGateAssumption DEF Init, SingleUse
  <1>5. ClicksWanted /\ GateFollowsCycle
    BY DEF Init, ClicksWanted, GateFollowsCycle
  <1> QED BY <1>1, <1>2, <1>3, <1>4, <1>5 DEF Inv

LEMMA InvNext == Inv /\ [Next]_vars => Inv'
  <1> SUFFICES ASSUME Inv, [Next]_vars PROVE Inv'
    OBVIOUS
  <1>1. CASE BeginAttempt
    BY <1>1, BeginKeeps
  <1>2. ASSUME NEW p \in Procs,
               Inspect(p) \/ Wait(p) \/ Allocate(p) \/ Apply(p) \/ Crash(p)
        PROVE  Inv'
    BY <1>2, InspectKeeps, WaitKeeps, AllocateKeeps, ApplyKeeps, CrashKeeps
  <1>3. ASSUME NEW p \in Procs, Advance(p)
        PROVE  Inv'
    BY <1>3, LookKeeps, LookFailsKeeps, WriteKeeps, BudgetKeeps, PhotographKeeps,
       AuthorizeKeeps, ConsumeKeeps, ClickKeeps, ClickRefusedKeeps, ReinspectKeeps,
       FinishKeeps DEF Advance
  <1>4. CASE UNCHANGED vars
    BY <1>4 DEF Inv, TypeOK, Polling, Locked, Dated, Opening, Fresh, Spending, SingleUse,
       ClicksWanted, GateFollowsCycle, vars, gates, visuals, command, rounds
  <1> QED BY <1>1, <1>2, <1>3, <1>4 DEF Next

LEMMA InvAlways == Spec => []Inv
  BY InvInit, InvNext, PTL DEF Spec

-----------------------------------------------------------------------------
\* Every variable of the gate has its type.
THEOREM TypeCorrect == Spec => []TypeOK
  <1>1. Inv => TypeOK
    BY DEF Inv
  <1> QED BY <1>1, InvAlways, PTL

\* A round of clicks has a cycle of its own, of which an attempt has at most
\* MaxCycles, whatever crashes and fails (captcha_visual.py:51-76, 188-211,
\* 555-581).
THEOREM UsedOnce == Spec => []SingleUse
  <1>1. Inv => SingleUse
    BY DEF Inv
  <1> QED BY <1>1, InvAlways, PTL

\* Who clicks does so for the attempt and the page that the gate is about
\* (captcha_visual.py:533-552).
THEOREM ClicksAreWanted == Spec => []ClicksWanted
  <1>1. Inv => ClicksWanted
    BY DEF Inv
  <1> QED BY <1>1, InvAlways, PTL

\* The gate is valid for the count of cycles, unless capture was torn
\* (captcha_visual.py:188-211).
THEOREM GateKeepsPace == Spec => []GateFollowsCycle
  <1>1. Inv => GateFollowsCycle
    BY DEF Inv
  <1> QED BY <1>1, InvAlways, PTL

-----------------------------------------------------------------------------
(***************************************************************************)
(* CaptchaGate implements OneTimeTicket.  A command that is about to issue *)
(* an authorization has a newer cycle than the one on disk (Numbered), and *)
(* from its marking to its end act finds the authorization marked          *)
(* (Marked); the rest is in Inv.                                           *)
(***************************************************************************)
Numbered ==
  visual.marker = latest =>
    /\ visual.cycle <= cycle
    /\ \A p \in Procs : pc[p] \in Allocating => visual.cycle < cycle

\* Cycles only go up, and an authorization has the cycle of its capture.
LEMMA NumberedNext ==
  ASSUME Inv, Numbered, [Next]_vars
  PROVE  Numbered'
  <1> USE DEF Numbered, Allocating, Goto, gates, visuals, command, rounds
  <1>0. /\ cycle \in Nat /\ latest \in Nat /\ visual \in Authorizations
        /\ visual.cycle \in Nat /\ visual.marker <= latest
        /\ pc \in [Procs -> Stages]
    BY CaptchaGateAssumption DEF Inv, TypeOK, Dated, Authorizations
  <1>1. CASE BeginAttempt
    BY <1>0, <1>1 DEF BeginAttempt
  <1>2. ASSUME NEW p \in Procs, Inspect(p) \/ Wait(p) \/ Look(p) \/ LookFails(p) \/ Write(p)
        PROVE  Numbered'
    BY <1>0, <1>2 DEF Inspect, Wait, Look, Poll, LookFails, Write
  <1>3. ASSUME NEW p \in Procs, Allocate(p)
        PROVE  Numbered'
    BY <1>0, <1>3 DEF Allocate
  <1>4. ASSUME NEW p \in Procs, Budget(p) \/ Photograph(p)
        PROVE  Numbered'
    BY <1>0, <1>4 DEF Budget, Photograph, Leave
  <1>5. ASSUME NEW p \in Procs, Authorize(p)
        PROVE  Numbered'
    <2>1. \A q \in Procs : pc'[q] \notin Allocating
      BY <1>0, <1>5, HolderAlone DEF Authorize, Leave, Held
    <2> QED BY <1>0, <1>5, <2>1 DEF Authorize
  <1>6. ASSUME NEW p \in Procs, Apply(p)
        PROVE  Numbered'
    BY <1>0, <1>6, VisualMarked DEF Apply, MarkVisual, Inv
  <1>7. ASSUME NEW p \in Procs, Consume(p) \/ Click(p) \/ ClickRefused(p) \/ Reinspect(p)
               \/ Finish(p)
        PROVE  Numbered'
    <2>1. \/ UNCHANGED visual
          \/ MarkVisual("uncertain") \/ MarkVisual("consumed")
      BY <1>7 DEF Consume, Click, ClickRefused, Reinspect, Finish, Uncertain, MarkVisual
    <2>2. visual'.cycle = visual.cycle /\ visual'.marker = visual.marker
      BY <2>1, VisualMarked DEF Inv
    <2>3. /\ UNCHANGED <<latest, cycle>>
          /\ \E s \in {"unlinked", "idle", "clicked", "recorded"} : pc' = [pc EXCEPT ![p] = s]
      BY <1>7 DEF Consume, Click, ClickRefused, Reinspect, Finish, Uncertain, Leave
    <2> QED BY <1>0, <2>2, <2>3
  <1>8. ASSUME NEW p \in Procs, Crash(p)
        PROVE  Numbered'
    BY <1>0, <1>8 DEF Crash
  <1>9. CASE UNCHANGED vars
    BY <1>9 DEF vars
  <1> HIDE DEF Numbered
  <1> QED
    BY <1>1, <1>2, <1>3, <1>4, <1>5, <1>6, <1>7, <1>8, <1>9 DEF Next, Advance

Marked == \A p \in Procs : pc[p] \in Acting => visual.status = "applying"

\* Nobody else writes the authorization while act has the lock.
LEMMA MarkedNext ==
  ASSUME Inv, Marked, [Next]_vars
  PROVE  Marked'
  <1> USE DEF Marked, Acting, Goto, gates, visuals, command, rounds
  <1>0. pc \in [Procs -> Stages] /\ NoProc \notin Procs
    BY CaptchaGateAssumption DEF Inv, TypeOK
  <1>1. ASSUME BeginAttempt
        PROVE  Marked'
    BY <1>1 DEF BeginAttempt
  <1>2. ASSUME NEW p \in Procs,
               Inspect(p) \/ Wait(p) \/ Look(p) \/ LookFails(p) \/ Write(p)
        PROVE  Marked'
    BY <1>0, <1>2 DEF Inspect, Wait, Look, Poll, LookFails, Write
  <1>3. ASSUME NEW p \in Procs, Allocate(p) \/ Budget(p) \/ Photograph(p) \/ Crash(p)
        PROVE  Marked'
    BY <1>0, <1>3 DEF Allocate, Budget, Photograph, Crash, Leave
  <1>4. ASSUME NEW p \in Procs,
               pc[p] \in Held \/ holder = NoProc,
               NEW s \in Stages \ Acting, Goto(p, s)
        PROVE  Marked'
    <2>1. \A q \in Procs \ {p} : pc[q] \notin Acting
      BY <1>0, <1>4, HolderAlone DEF Inv, Locked, Held
    <2> QED BY <1>0, <1>4, <2>1
  <1>5. ASSUME NEW p \in Procs, Authorize(p) \/ Finish(p)
        PROVE  Marked'
    BY <1>4, <1>5 DEF Authorize, Finish, Leave, Held, Allocating, Stages
  <1>6. ASSUME NEW p \in Procs, Apply(p)
        PROVE  Marked'
    <2>1. visual'.status = "applying"
      BY <1>6, VisualMarked DEF Inv, Apply, MarkVisual
    <2> QED BY <2>1
  <1>7. ASSUME NEW p \in Procs,
               Consume(p) \/ Click(p) \/ ClickRefused(p) \/ Reinspect(p)
        PROVE  Marked'
    <2>1. CASE UNCHANGED visual
      BY <1>0, <1>7, <2>1 DEF Consume, Click, ClickRefused, Reinspect, Uncertain, Leave
    <2>2. CASE Uncertain(p)
      BY <1>4, <1>7, <2>2
      DEF Consume, Click, ClickRefused, Reinspect, Uncertain, Leave, Held, Stages
    <2> QED
      BY <1>7, <2>1, <2>2 DEF Consume, Click, ClickRefused, Reinspect
  <1>8. CASE UNCHANGED vars
    BY <1>8 DEF vars
  <1> HIDE DEF Marked
  <1> QED
    BY <1>1, <1>2, <1>3, <1>5, <1>6, <1>7, <1>8 DEF Next, Advance

Using == {"applying", "unlinked"}

\* Where nothing is written that a ticket is made of, and nobody takes it or
\* gives it up, it stays.
LEMMA TicketStays ==
  ASSUME UNCHANGED <<latest, cycle, visual, clicks>>,
         (\E p \in Procs : pc[p] \in Using) <=> (\E p \in Procs : pc'[p] \in Using)
  PROVE  UNCHANGED Ticket!tvars
  BY DEF Ticket!tvars, TicketState, Using

\* The steps of a command that has taken a ticket.
LEMMA TakenSteps ==
  ASSUME Inv, NEW p \in Procs, pc[p] \in Using,
         UNCHANGED <<latest, cycle>>,
         visual' = visual \/ MarkVisual("uncertain"),
         NEW s \in {"idle", "clicked"}, Goto(p, s),
         clicks' \in {clicks, clicks + 1}
  PROVE  Ticket!Use \/ Ticket!Lose
  <1>1. visual.status = "applying"
    BY DEF Inv, Spending, Using
  <1>2. /\ visual'.status # "ready" /\ visual'.cycle = visual.cycle
        /\ visual'.marker = visual.marker
    BY <1>1, VisualMarked DEF Inv
  <1>3. TicketState = "taken"
    BY <1>1 DEF TicketState, Using
  <1>4. \A q \in Procs : pc'[q] \notin Using
    BY HolderAlone, GotoMoves DEF Inv, Held, Acting, Using
  <1>5. TicketState' = "gone"
    BY <1>2, <1>4 DEF TicketState, Using
  <1> QED BY <1>2, <1>3, <1>5 DEF Ticket!Use, Ticket!Lose

\* Every step is one of the tickets' or leaves them as they are.
LEMMA TicketStep ==
  ASSUME Inv, Numbered, Marked, [Next]_vars
  PROVE  [Ticket!Next]_Ticket!tvars
  <1> DEFINE Shown == [Ticket!Next]_Ticket!tvars
  <1> USE DEF gates, visuals, command, rounds
  <1>0. /\ cycle \in Nat /\ latest \in Nat /\ visual.marker <= latest
        /\ pc \in [Procs -> Stages] /\ TypeOK
    BY CaptchaGateAssumption DEF Inv, TypeOK, Dated
  <1>1. ASSUME holder = NoProc
        PROVE  \A q \in Procs : pc[q] \notin Held
    BY <1>1, CaptchaGateAssumption DEF Inv, Locked
  <1>2. ASSUME BeginAttempt
        PROVE  Shown
    <2>1. \A q \in Procs : pc[q] \notin Using
      BY <1>1, <1>2 DEF BeginAttempt, Held, Acting, Using
    <2>2. TicketState # "taken" /\ TicketState' = "gone"
      BY <1>0, <1>2, <2>1 DEF BeginAttempt, TicketState, Using
    <2>3. Ticket!Open
      BY <1>0, <1>2, <2>2 DEF BeginAttempt, Ticket!Open
    <2> QED BY <2>3 DEF Ticket!Next
  <1>3. ASSUME NEW p \in Procs, Inspect(p) \/ Wait(p) \/ Look(p) \/ LookFails(p) \/ Write(p)
        PROVE  Shown
    <2>1. pc[p] \notin Using /\ UNCHANGED <<latest, cycle, visual, clicks>>
      BY <1>3 DEF Inspect, Wait, Look, LookFails, Write, Using
    <2>2. \E s \in Free : pc' = [pc EXCEPT ![p] = s]
      BY <1>0, <1>3 DEF Inspect, Wait, Look, Poll, LookFails, Write, Goto, Free
    <2> QED BY <1>0, <2>1, <2>2, TicketStays DEF Using, Free
  <1>4. ASSUME NEW p \in Procs, Allocate(p)
        PROVE  Shown
    <2>1. \A q \in Procs : pc[q] \notin Using /\ pc'[q] \notin Using
      BY <1>0, <1>1, <1>4, GotoMoves DEF Allocate, Held, Acting, Using
    <2>2. TicketState # "taken" /\ UNCHANGED TicketState
      BY <1>4, <2>1 DEF Allocate, TicketState, Using
    <2>3. Ticket!Allot
      BY <1>4, <2>2 DEF Allocate, MayCapture, Ticket!Allot
    <2> QED BY <2>3 DEF Ticket!Next
  <1>5. ASSUME NEW p \in Procs, Budget(p) \/ Photograph(p)
        PROVE  Shown
    <2>1. pc[p] \notin Using /\ UNCHANGED <<latest, cycle, visual, clicks>>
      BY <1>5 DEF Budget, Photograph, Using
    <2>2. \E s \in {"idle", "budgeted", "photographed"} : pc' = [pc EXCEPT ![p] = s]
      BY <1>5 DEF Budget, Photograph, Goto, Leave
    <2> QED BY <1>0, <2>1, <2>2, TicketStays DEF Using
  <1>6. ASSUME NEW p \in Procs, Authorize(p)
        PROVE  Shown
    <2>1. pc[p] = "photographed" /\ Goto(p, "idle") /\ UNCHANGED <<latest, cycle, clicks>>
      BY <1>6 DEF Authorize, Leave
    <2>2. \A q \in Procs : pc[q] \notin Using /\ pc'[q] \notin Using
      BY <1>0, <2>1, HolderAlone, GotoMoves DEF Held, Allocating, Acting, Using
    <2>3. visual'.status = "ready" /\ visual'.marker = latest /\ visual'.cycle = cycle
      BY <1>6 DEF Authorize
    <2>4. TicketState # "taken" /\ TicketState' = "ready"
      BY <2>1, <2>2, <2>3 DEF TicketState, Using
    <2>5. (IF visual.marker = latest THEN visual.cycle ELSE 0) < cycle
      BY <1>0, <2>1 DEF Numbered, Inv, Opening, Allocating
    <2>6. Ticket!Issue
      BY <2>1, <2>3, <2>4, <2>5 DEF Ticket!Issue
    <2> QED BY <2>6 DEF Ticket!Next
  <1>7. ASSUME NEW p \in Procs, Apply(p)
        PROVE  Shown
    <2>1. TicketState = "ready" /\ UNCHANGED <<latest, cycle, clicks>>
      BY <1>7 DEF Apply, Actable, TicketState
    <2>2. visual'.status = "applying" /\ visual'.marker = visual.marker
          /\ visual'.cycle = visual.cycle
      BY <1>0, <1>7, VisualMarked DEF Apply, MarkVisual
    <2>3. pc'[p] \in Using
      BY <1>0, <1>7, GotoMoves DEF Apply, Using
    <2>4. TicketState' = "taken"
      BY <2>2, <2>3 DEF TicketState, Using
    <2>5. Ticket!Take
      BY <2>1, <2>2, <2>4 DEF Ticket!Take
    <2> QED BY <2>5 DEF Ticket!Next
  <1>8. ASSUME NEW p \in Procs, Consume(p)
        PROVE  Shown
    <2>1. UNCHANGED <<latest, cycle, visual, clicks>> /\ pc[p] = "applying"
      BY <1>8 DEF Consume
    <2>2. CASE Goto(p, "unlinked")
      BY <1>0, <2>1, <2>2, GotoMoves, TicketStays DEF Using
    <2>3. CASE Goto(p, "idle")
      BY <2>1, <2>3, TakenSteps DEF Using, Ticket!Next
    <2> QED BY <1>8, <2>2, <2>3 DEF Consume, Leave
  <1>9. ASSUME NEW p \in Procs, Click(p) \/ ClickRefused(p)
        PROVE  Shown
    <2>1. /\ pc[p] \in Using /\ UNCHANGED <<latest, cycle>>
          /\ clicks' \in {clicks, clicks + 1}
          /\ visual' = visual \/ MarkVisual("uncertain")
          /\ Goto(p, "idle") \/ Goto(p, "clicked")
      BY <1>9 DEF Click, ClickRefused, Uncertain, Leave, MarkVisual, Using
    <2> QED BY <2>1, TakenSteps DEF Ticket!Next
  <1>10. ASSUME NEW p \in Procs, Reinspect(p) \/ Finish(p)
         PROVE  Shown
    <2>1. /\ pc[p] \in {"clicked", "recorded"} /\ UNCHANGED <<latest, cycle, clicks>>
          /\ visual' = visual \/ MarkVisual("uncertain") \/ MarkVisual("consumed")
          /\ Goto(p, "idle") \/ Goto(p, "recorded")
      BY <1>10 DEF Reinspect, Finish, Uncertain, Leave, MarkVisual
    <2>2. \A q \in Procs : pc[q] \notin Using /\ pc'[q] \notin Using
      BY <1>0, <2>1, HolderAlone, GotoMoves DEF Held, Acting, Using
    <2>3. visual.status # "ready"
      BY <2>1 DEF Marked, Acting
    <2> QED BY <1>0, <2>1, <2>2, <2>3, VisualMarked DEF Ticket!tvars, TicketState, Using
  <1>11. ASSUME NEW p \in Procs, Crash(p)
         PROVE  Shown
    <2>1. Goto(p, "idle") /\ UNCHANGED <<latest, cycle, visual, clicks>>
      BY <1>11 DEF Crash
    <2>2. CASE pc[p] \in Using
      BY <2>1, <2>2, TakenSteps DEF Ticket!Next
    <2>3. CASE pc[p] \notin Using
      BY <1>0, <2>1, <2>3, GotoMoves, TicketStays DEF Using
    <2> QED BY <2>2, <2>3
  <1>12. ASSUME UNCHANGED vars
         PROVE  Shown
    BY <1>12, TicketStays DEF vars
  <1> HIDE DEF Shown
  <1>13. Shown
    BY <1>2, <1>3, <1>4, <1>5, <1>6, <1>7, <1>8, <1>9, <1>10, <1>11, <1>12
    DEF Next, Advance
  <1> QED BY <1>13 DEF Shown

\* The authorizations are one-time tickets, for any commands, crashes and
\* attempts in between (captcha_visual.py:188-211, 445-496, 519-581).
THEOREM TicketImplemented == Spec => ImplementsTicket
  <1>1. Init => Numbered /\ Marked /\ Ticket!Init
    BY DEF Init, Numbered, Marked, Ticket!Init, TicketState, Allocating, Acting
  <1> QED
    BY <1>1, NumberedNext, MarkedNext, TicketStep, InvAlways, PTL
    DEF Spec, ImplementsTicket, Ticket!Spec

-----------------------------------------------------------------------------
(***************************************************************************)
(* capture and act take and free the execution lock as Mutex says, so that *)
(* RunLock provides what CaptchaGate takes for granted.                    *)
(***************************************************************************)
Lock == INSTANCE Mutex

LEMMA LockStep ==
  ASSUME Inv, [Next]_vars
  PROVE  [Lock!Next]_holder
  <1> DEFINE Shown == [Lock!Next]_holder
  <1> USE DEF Lock!Next, Lock!Acquire, Lock!Release
  <1>1. ASSUME NEW p \in Procs, Inspect(p) \/ Wait(p) \/ Look(p) \/ LookFails(p) \/ Write(p)
        PROVE  Shown
    BY <1>1 DEF Inspect, Wait, Look, LookFails, Write
  <1>2. ASSUME NEW p \in Procs, Allocate(p) \/ Apply(p)
        PROVE  Shown
    BY <1>2 DEF Allocate, Apply
  <1>3. ASSUME NEW p \in Procs, pc[p] \in Held, Leave(p)
        PROVE  Shown
    BY <1>3, HolderAlone DEF Leave
  <1>4. ASSUME NEW p \in Procs, Budget(p) \/ Photograph(p) \/ Authorize(p)
        PROVE  Shown
    BY <1>3, <1>4 DEF Budget, Photograph, Authorize, Held, Allocating
  <1>5. ASSUME NEW p \in Procs,
               Consume(p) \/ Click(p) \/ ClickRefused(p) \/ Reinspect(p) \/ Finish(p)
        PROVE  Shown
    BY <1>3, <1>5
    DEF Consume, Click, ClickRefused, Reinspect, Finish, Uncertain, Held, Acting
  <1>6. ASSUME NEW p \in Procs, Crash(p)
        PROVE  Shown
    BY <1>6 DEF Crash
  <1>7. ASSUME BeginAttempt
        PROVE  Shown
    BY <1>7 DEF BeginAttempt
  <1>8. ASSUME UNCHANGED vars
        PROVE  Shown
    BY <1>8 DEF vars
  <1> HIDE DEF Shown
  <1>9. Shown
    BY <1>1, <1>2, <1>4, <1>5, <1>6, <1>7, <1>8 DEF Next, Advance
  <1> QED BY <1>9 DEF Shown

\* The execution lock is used as RunLock allows (captcha_visual.py:425,
\* 508).
THEOREM LockUsed == Spec => Lock!Spec
  <1>1. Init => Lock!Init
    BY DEF Init, Lock!Init
  <1> QED BY <1>1, LockStep, InvAlways, PTL DEF Spec, Lock!Spec
=============================================================================
