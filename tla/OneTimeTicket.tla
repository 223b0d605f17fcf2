--------------------------- MODULE OneTimeTicket ---------------------------
(***************************************************************************)
(* What `task captcha capture` and `act` promise of their authorizations   *)
(* to click: tickets, numbered within an attempt by the cycle they were    *)
(* allotted.  A ticket is issued once and taken by one command before it   *)
(* is used; the command that took it uses it for one round of clicks, or   *)
(* fails or dies with it, and in either case it is gone for good.  A newer *)
(* ticket takes the place of an older one, and a new attempt has none.     *)
(*                                                                         *)
(* CaptchaGate implements this module.                                     *)
(***************************************************************************)
EXTENDS Naturals

CONSTANTS MaxGeneration,   \* bound on the attempts
          MaxCycles        \* the tickets of one attempt

VARIABLES attempt,    \* the latest attempt
          allotted,   \* the cycles that were allotted in it
          issued,     \* the number of its latest ticket, 0 before any
          state,      \* of that ticket: "ready", "taken" or "gone"
          rounds      \* the rounds of clicks of the attempt

tvars == <<attempt, allotted, issued, state, rounds>>

Init ==
  /\ attempt = 0 /\ allotted = 0 /\ issued = 0 /\ rounds = 0
  /\ state = "gone"

\* Attempts, allotments and tickets wait until a ticket in use is gone.
Open ==
  /\ state # "taken"
  /\ attempt < MaxGeneration
  /\ attempt' = attempt + 1
  /\ allotted' = 0 /\ issued' = 0 /\ rounds' = 0
  /\ state' = "gone"

\* A cycle is spent on a ticket that may never be issued.
Allot ==
  /\ state # "taken"
  /\ allotted < MaxCycles
  /\ allotted' = allotted + 1
  /\ UNCHANGED <<attempt, issued, state, rounds>>

Issue ==
  /\ state # "taken"
  /\ issued < allotted
  /\ issued' = allotted
  /\ state' = "ready"
  /\ UNCHANGED <<attempt, allotted, rounds>>

Take ==
  /\ state = "ready"
  /\ state' = "taken"
  /\ UNCHANGED <<attempt, allotted, issued, rounds>>

Use ==
  /\ state = "taken"
  /\ state' = "gone"
  /\ rounds' = rounds + 1
  /\ UNCHANGED <<attempt, allotted, issued>>

Lose ==
  /\ state = "taken"
  /\ state' = "gone"
  /\ UNCHANGED <<attempt, allotted, issued, rounds>>

Next == Open \/ Allot \/ Issue \/ Take \/ Use \/ Lose

Spec == Init /\ [][Next]_tvars
=============================================================================
