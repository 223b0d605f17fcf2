---------------------------- MODULE CaptchaGate ----------------------------
(***************************************************************************)
(* `task captcha` (captcha.py, captcha_visual.py): what the run remembers  *)
(* of a challenge on a page of the browser, and the clicks it allows.      *)
(*                                                                         *)
(*   captcha-state.json   the gate: what a page showed when last looked at *)
(*   captcha-visual.json  one authorization to click, for one screenshot   *)
(*   captcha-visual.png   that screenshot                                  *)
(*   manifest.json        how many screenshots the attempt has asked for   *)
(*                                                                         *)
(* All of them are bound to an execution attempt.  inspect and wait look   *)
(* at the page without a lock and write the gate under the execution lock; *)
(* capture and act hold it throughout, and RunLock shows that it excludes  *)
(* on Linux.  What is done under the lock without a look at the browser    *)
(* is one step, except where a crash would show between two writes.  A     *)
(* page may change at any time: a look at it finds anything.               *)
(***************************************************************************)
EXTENDS Naturals, FiniteSets

CONSTANTS Procs, NoProc,
          Pages, NoPage,    \* Chromium targets
          Looks, NoLook,    \* the challenge region: its image and document
          MaxGeneration,    \* bound on the attempts
          MaxCycles,        \* MAX_VISUAL_CYCLES
          MaxPolls,         \* looks of one wait: its timeout over its interval
          MaxChecks         \* 1000, the largest count the gate may hold

ASSUME CaptchaGateAssumption ==
  /\ NoProc \notin Procs
  /\ NoPage \notin Pages
  /\ NoLook \notin Looks
  /\ MaxGeneration \in Nat
  /\ {MaxCycles, MaxPolls, MaxChecks} \subseteq Nat \ {0}

VARIABLES
  latest,    \* the generation of the latest attempt
  cycle,     \* its captcha_visual_cycle
  gate,      \* captcha-state.json
  visual,    \* captcha-visual.json
  shot,      \* captcha-visual.png, or NoLook
  holder,    \* of the execution lock, while capture or act has it
  pc,        \* where each command is
  mark,      \* the attempt each command started in
  page,      \* the page each command follows, or NoPage before its first look
  checks,    \* how often a wait has looked
  found      \* the status each command is about to write

\* History: nothing in the code reads these.
VARIABLES
  lost,      \* the page of the pending gate that a wait failed to take over
  torn,      \* a capture ended between its two writes of the cycle
  clicks,    \* rounds of clicks in the latest attempt
  used       \* the cycles whose authorization they had

gates == <<latest, cycle, gate>>
visuals == <<visual, shot>>
command == <<mark, page, checks, found>>
rounds == <<clicks, used>>
vars == <<gates, visuals, holder, pc, command, lost, torn, rounds>>

Faces == {"clear", "managed_wait", "human_required"}  \* classify_captcha_probe
Pending == {"managed_wait", "human_required", "timed_out"}
Statuses == Faces \cup Pending \cup {"cleared"}
Stages == {"idle", "waiting", "write", "allocated", "budgeted", "photographed",
           "applying", "unlinked", "clicked", "looked", "recorded"}

GateStates ==
  [status : Statuses \cup {"none"}, page : Pages \cup {NoPage},
   marker : 0..MaxGeneration, cycle : 0..MaxCycles]

Authorizations ==
  [status : {"none", "ready", "applying", "consumed", "uncertain"},
   page : Pages \cup {NoPage}, look : Looks \cup {NoLook},
   marker : 0..MaxGeneration, cycle : 0..MaxCycles]

TypeOK ==
  /\ latest \in 0..MaxGeneration
  /\ cycle \in 0..MaxCycles
  /\ gate \in GateStates
  /\ visual \in Authorizations
  /\ shot \in Looks \cup {NoLook}
  /\ holder \in Procs \cup {NoProc}
  /\ pc \in [Procs -> Stages]
  /\ mark \in [Procs -> 0..MaxGeneration]
  /\ page \in [Procs -> Pages \cup {NoPage}]
  /\ checks \in [Procs -> 0..MaxPolls]
  /\ found \in [Procs -> Statuses \cup {"none"}]
  /\ lost \in [Procs -> Pages \cup {NoPage}]
  /\ torn \in BOOLEAN
  /\ clicks \in Nat
  /\ used \subseteq 0..MaxCycles

Init ==
  /\ latest = 0
  /\ cycle = 0
  /\ gate = [status |-> "none", page |-> NoPage, marker |-> 0, cycle |-> 0]
  /\ visual = [status |-> "none", page |-> NoPage, look |-> NoLook, marker |-> 0,
               cycle |-> 0]
  /\ shot = NoLook
  /\ holder = NoProc
  /\ pc = [p \in Procs |-> "idle"]
  /\ mark = [p \in Procs |-> 0]
  /\ page = [p \in Procs |-> NoPage]
  /\ checks = [p \in Procs |-> 0]
  /\ found = [p \in Procs |-> "none"]
  /\ lost = [p \in Procs |-> NoPage]
  /\ torn = FALSE
  /\ clicks = 0
  /\ used = {}

-----------------------------------------------------------------------------
Goto(p, stage) == pc' = [pc EXCEPT ![p] = stage]

\* What a command knew is gone with it.
Forget(p) ==
  /\ mark' = [mark EXCEPT ![p] = 0]
  /\ page' = [page EXCEPT ![p] = NoPage]
  /\ checks' = [checks EXCEPT ![p] = 0]
  /\ found' = [found EXCEPT ![p] = "none"]
  /\ lost' = [lost EXCEPT ![p] = NoPage]

\* capture or act returns or raises: the lock is released.
Leave(p) ==
  /\ Goto(p, "idle")
  /\ Forget(p)
  /\ holder' = NoProc

\* load_captcha_state: a state of another attempt is stale, one whose cycle
\* is not the manifest's is malformed.
GateValid == gate.status # "none" /\ gate.marker = latest /\ gate.cycle = cycle

\* _write_captcha_state_locked.
WriteGate(status, target) ==
  /\ gate' = [status |-> status, page |-> target, marker |-> latest,
              cycle |-> cycle]
  /\ torn' = FALSE

\* begin_execution_attempt, called under the execution lock.
BeginAttempt ==
  /\ holder = NoProc
  /\ latest < MaxGeneration
  /\ latest' = latest + 1
  /\ cycle' = 0
  /\ clicks' = 0
  /\ used' = {}
  /\ torn' = FALSE
  /\ UNCHANGED <<gate, visuals, holder, pc, command, lost>>

-----------------------------------------------------------------------------
(* inspect and wait.                                                       *)

\* inspect_captcha_gate: the marker, then the page that the user chose or the
\* last one, then the write under the lock.
Inspect(p) ==
  /\ pc[p] = "idle"
  /\ Goto(p, "write")
  /\ mark' = [mark EXCEPT ![p] = latest]
  /\ \E t \in Pages, s \in Faces :
       /\ page' = [page EXCEPT ![p] = t]
       /\ found' = [found EXCEPT ![p] = s]
  /\ UNCHANGED <<gates, visuals, holder, checks, lost, torn, rounds>>

\* The target that wait and resume take over from the gate.
Pin == IF GateValid /\ gate.status \in Pending THEN gate.page ELSE NoPage

\* wait_for_captcha_clearance begins, with --page-index or without.
Wait(p) ==
  /\ pc[p] = "idle"
  /\ Goto(p, "waiting")
  /\ mark' = [mark EXCEPT ![p] = latest]
  /\ \/ UNCHANGED <<page, lost>>
     \/ /\ page' = [page EXCEPT ![p] = Pin]
        /\ lost' = [lost EXCEPT ![p] =
                      IF gate.marker = latest /\ gate.status \in Pending /\ Pin = NoPage
                        THEN gate.page ELSE NoPage]
  /\ UNCHANGED <<gates, visuals, holder, checks, found, torn, rounds>>

\* One turn of the loop that found page t in state s: it is clear; the time
\* is over (a Cloudflare page with a visible widget needs a human, too); or
\* wait sleeps.
Poll(p, t, s) ==
  /\ page' = [page EXCEPT ![p] = t]
  /\ checks' = [checks EXCEPT ![p] = @ + 1]
  /\ \/ /\ s = "clear"
        /\ Goto(p, "write")
        /\ found' = [found EXCEPT ![p] = "cleared"]
     \/ /\ s # "clear"
        /\ Goto(p, "write")
        /\ \E r \in {"human_required", "timed_out"} :
             /\ s = "human_required" => r = "human_required"
             /\ found' = [found EXCEPT ![p] = r]
     \/ /\ s # "clear"
        /\ checks[p] + 1 < MaxPolls
        /\ UNCHANGED <<pc, found>>

\* The pinned target, or for the first look the last page (or the chosen
\* one).  _target_changed, _unavailable and all else ends wait by an error.
Look(p) ==
  /\ pc[p] = "waiting"
  /\ mark[p] = latest
  /\ \E t \in Pages, s \in Faces :
       /\ page[p] \in {t, NoPage}
       /\ Poll(p, t, s)
  /\ UNCHANGED <<gates, visuals, holder, mark, lost, torn, rounds>>

LookFails(p) ==
  /\ pc[p] = "waiting"
  /\ Goto(p, "idle")
  /\ Forget(p)
  /\ UNCHANGED <<gates, visuals, holder, torn, rounds>>

\* write_captcha_state of inspect or wait, under the lock: refused in another
\* attempt and when the count of looks is out of range.
Write(p) ==
  /\ pc[p] = "write"
  /\ holder = NoProc
  /\ IF mark[p] = latest /\ checks[p] <= MaxChecks
       THEN WriteGate(found[p], page[p])
       ELSE UNCHANGED <<gate, torn>>
  /\ Goto(p, "idle")
  /\ Forget(p)
  /\ UNCHANGED <<latest, cycle, visuals, holder, rounds>>

-----------------------------------------------------------------------------
(* capture.                                                                *)

MayCapture == cycle < MaxCycles

\* The gate must ask for a human; _allocate_visual_cycle counts in the
\* manifest before anything is written.
Allocate(p) ==
  /\ pc[p] = "idle"
  /\ holder = NoProc
  /\ GateValid /\ gate.status = "human_required"
  /\ MayCapture
  /\ holder' = p
  /\ cycle' = cycle + 1
  /\ page' = [page EXCEPT ![p] = gate.page]
  /\ Goto(p, "allocated")
  /\ UNCHANGED <<latest, gate, visuals, mark, checks, found, lost, torn, rounds>>

\* Mutant: the gate is not written with the new cycle.
BudgetUnwritten(p) ==
  /\ pc[p] = "allocated"
  /\ Goto(p, "budgeted")
  /\ UNCHANGED <<gates, visuals, holder, command, lost, torn, rounds>>

\* The gate follows the cycle, so that it stays valid.  An earlier visual
\* that cannot be read ends the command before that.
Budget(p) ==
  /\ pc[p] = "allocated"
  /\ \/ /\ WriteGate("human_required", page[p])
        /\ Goto(p, "budgeted")
        /\ UNCHANGED <<holder, command, lost>>
     \/ /\ Leave(p)
        /\ torn' = TRUE
        /\ UNCHANGED gate
  /\ UNCHANGED <<latest, cycle, visuals, rounds>>

\* The screenshot is taken and written, or the target is gone.
Photograph(p) ==
  /\ pc[p] = "budgeted"
  /\ \/ /\ \E l \in Looks : shot' = l
        /\ Goto(p, "photographed")
        /\ UNCHANGED <<holder, command, lost>>
     \/ /\ Leave(p)
        /\ UNCHANGED shot
  /\ UNCHANGED <<gates, visual, torn, rounds>>

\* The authorization is ready.
Authorize(p) ==
  /\ pc[p] = "photographed"
  /\ visual' = [status |-> "ready", page |-> page[p], look |-> shot,
                marker |-> latest, cycle |-> cycle]
  /\ Leave(p)
  /\ UNCHANGED <<gates, shot, torn, rounds>>

-----------------------------------------------------------------------------
(* act.                                                                    *)

\* Mutant: an authorization of any attempt, used or not, is good.
ActableAgain ==
  /\ visual.status # "none"
  /\ GateValid /\ gate.status = "human_required" /\ gate.page = visual.page

\* Mutant: the attempt of the authorization is not compared.
ActableAnyAttempt ==
  /\ visual.status = "ready"
  /\ shot # NoLook /\ shot = visual.look
  /\ GateValid /\ gate.status = "human_required" /\ gate.page = visual.page

\* The authorization is ready and of this attempt, the screenshot is the one
\* it is for, and the gate still asks for a human on that page.
Actable ==
  /\ visual.status = "ready"
  /\ shot # NoLook /\ shot = visual.look
  /\ visual.marker = latest
  /\ GateValid /\ gate.status = "human_required" /\ gate.page = visual.page

\* Mutant: the authorization is not marked before the clicks, only after.
ApplyUnmarked(p) ==
  /\ pc[p] = "idle"
  /\ holder = NoProc
  /\ Actable
  /\ holder' = p
  /\ page' = [page EXCEPT ![p] = visual.page]
  /\ Goto(p, "applying")
  /\ UNCHANGED <<gates, visuals, mark, checks, found, lost, torn, rounds>>

\* "applying" is on disk before anything else happens.
Apply(p) ==
  /\ pc[p] = "idle"
  /\ holder = NoProc
  /\ Actable
  /\ holder' = p
  /\ visual' = [visual EXCEPT !.status = "applying"]
  /\ page' = [page EXCEPT ![p] = visual.page]
  /\ Goto(p, "applying")
  /\ UNCHANGED <<gates, shot, mark, checks, found, lost, torn, rounds>>

\* The screenshot is unlinked, or the command ends: outside of the try.
Consume(p) ==
  /\ pc[p] = "applying"
  /\ \/ /\ shot' = NoLook
        /\ Goto(p, "unlinked")
        /\ UNCHANGED <<holder, command, lost>>
     \/ /\ Leave(p)
        /\ UNCHANGED shot
  /\ UNCHANGED <<gates, visual, torn, rounds>>

\* The handler of an exception in the try.
Uncertain(p) ==
  /\ visual' = [visual EXCEPT !.status = "uncertain"]
  /\ Leave(p)

\* The page, its document and the image are compared once more, then come the
\* clicks, all or some.
Click(p) ==
  /\ pc[p] = "unlinked"
  /\ clicks' = clicks + 1
  /\ used' = used \cup {visual.cycle}
  /\ \/ Goto(p, "clicked") /\ UNCHANGED <<visual, holder, command, lost>>
     \/ Uncertain(p)
  /\ UNCHANGED <<gates, shot, torn>>

\* The comparison or the browser fails before the first click.
ClickRefused(p) ==
  /\ pc[p] = "unlinked"
  /\ Uncertain(p)
  /\ UNCHANGED <<gates, shot, torn, rounds>>

\* The page is looked at again, and the gate written.
Reinspect(p) ==
  /\ pc[p] = "clicked"
  /\ \/ /\ \E s \in Faces : WriteGate(IF s = "clear" THEN "cleared" ELSE s, page[p])
        /\ Goto(p, "recorded")
        /\ UNCHANGED <<visual, holder, command, lost>>
     \/ /\ Uncertain(p)
        /\ UNCHANGED <<gate, torn>>
  /\ UNCHANGED <<latest, cycle, shot, rounds>>

Finish(p) ==
  /\ pc[p] = "recorded"
  /\ visual' = [visual EXCEPT !.status = "consumed"]
  /\ Leave(p)
  /\ UNCHANGED <<gates, shot, torn, rounds>>

\* The command is killed; the kernel frees the lock.
Crash(p) ==
  /\ pc[p] # "idle"
  /\ Goto(p, "idle")
  /\ Forget(p)
  /\ holder' = IF holder = p THEN NoProc ELSE holder
  /\ torn' = (torn \/ pc[p] = "allocated")
  /\ UNCHANGED <<gates, visuals, rounds>>

-----------------------------------------------------------------------------
\* What a command does by itself once it started.
Advance(p) ==
  \/ Look(p) \/ LookFails(p) \/ Write(p)
  \/ Budget(p) \/ Photograph(p) \/ Authorize(p)
  \/ Consume(p) \/ Click(p) \/ ClickRefused(p) \/ Reinspect(p) \/ Finish(p)

Next ==
  \/ \E p \in Procs :
       Inspect(p) \/ Wait(p) \/ Allocate(p) \/ Apply(p) \/ Advance(p) \/ Crash(p)
  \/ BeginAttempt

Spec == Init /\ [][Next]_vars

-----------------------------------------------------------------------------
\* "Every `act` authorization is single-use, even if the click fails", and
\* "Stop after three capture/act cycles" (references/captcha-workflow.md:
\* 70): every round of clicks has a cycle of its own, and an attempt has no
\* more of them than it allocated cycles, through crashes, failed captures
\* and left-over authorizations (captcha_visual.py:51-76, 188-211, 555-581).
SingleUse ==
  /\ clicks = Cardinality(used)
  /\ used \subseteq 1..cycle
  /\ cycle <= MaxCycles

\* Clicks are made for the attempt and the page that the gate is about: no
\* authorization survives a new attempt or a gate that moved on to another
\* page (captcha_visual.py:533-552).
ClicksWanted ==
  \A p \in Procs : pc[p] \in {"applying", "unlinked", "clicked"} =>
    /\ visual.marker = latest /\ gate.marker = latest
    /\ gate.status = "human_required"
    /\ gate.page = visual.page /\ page[p] = visual.page

\* The gate that a valid state shows belongs to the cycle count of the
\* manifest, so that capture can go on: only a torn capture breaks the pair.
GateFollowsCycle ==
  gate.status # "none" /\ gate.marker = latest /\ ~torn
    => gate.cycle = cycle \/ \E p \in Procs : pc[p] = "allocated"

\* The authorization as a ticket: taken while act has it and has not clicked.
TicketState ==
  IF visual.status = "ready" /\ visual.marker = latest THEN "ready"
  ELSE IF \E p \in Procs : pc[p] \in {"applying", "unlinked"} THEN "taken" ELSE "gone"

Ticket == INSTANCE OneTimeTicket
            WITH attempt <- latest,
                 allotted <- cycle,
                 issued <- IF visual.marker = latest THEN visual.cycle ELSE 0,
                 state <- TicketState,
                 rounds <- clicks

\* Captures that are torn, commands that die, authorizations that are left
\* over and attempts that begin in between leave the tickets what OneTimeTicket
\* says they are (captcha_visual.py:51-76, 188-211, 445-496, 519-581).
ImplementsTicket == Ticket!Spec

-----------------------------------------------------------------------------
(* What the documentation says, and the code does not do.                  *)

\* "`wait` ... pins the original Chromium target across `inspect`/`resume`, so a
\* new tab cannot cause false clearance" (README.md:248): a wait that started
\* from a pending gate of its attempt clears only the page of that gate.
PinnedClearance ==
  \A p \in Procs :
    pc[p] = "write" /\ found[p] = "cleared" => lost[p] \in {NoPage, page[p]}
=============================================================================
