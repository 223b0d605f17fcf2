-------------------------- MODULE ProxyAuthProofs --------------------------
(***************************************************************************)
(* Proofs about ProxyAuth, for any pages, requests and limits.             *)
(***************************************************************************)
EXTENDS ProxyAuth, FiniteSetTheorems, SequenceTheorems, TLAPS

PageKinds == {"attached", "enabled", "refused"}
RequestKinds == {"paused", "proxy", "origin"}

Enabling == {"check", "add", "enable"}
PageSteps == Enabling \cup {"attached", "resume", "release"}
RequestSteps == {"continue", "provide", "refuse"}

(***************************************************************************)
(* The inductive invariant.  The two threads share `_sessions` without a   *)
(* lock, and each tests it before it adds.  They stay within the limit     *)
(* because the reader gets the announcement of a session of the main       *)
(* thread beside the answer for which the main thread waits (Paired, Met): *)
(* when both are about to add, it is the same session.  The rest is about  *)
(* hands: a page that waits (Alone, Held) and a request that the browser   *)
(* asks about (Asked, Held) is in exactly one message, or with the reader. *)
(***************************************************************************)
\* What a message or a job is about.
Sorted ==
  /\ \A i \in DOMAIN inbox :
       /\ inbox[i].kind \in PageKinds => inbox[i].on \in Sessions
       /\ inbox[i].kind \in RequestKinds => inbox[i].on \in Requests
       /\ inbox[i].kind = "answer" => inbox[i].on = None
  /\ \A t \in Threads :
       /\ job[t].step = "none" => job[t] = NoJob
       /\ job[t].step \in PageSteps => job[t].on \in Sessions
       /\ job[t].step \in RequestSteps => job[t].on \in Requests

\* Where each thread is when it works.
Placed ==
  /\ job["main"].waiting = FALSE
  /\ job["main"].step \in Enabling \cup {"none", "attached"}
  /\ job["main"].step \in Enabling => main = "next"
  /\ job["main"].step = "attached" => main = "attach"
  /\ job["reader"].step # "attached"
  /\ job["reader"] # NoJob => reader = "alive"
  /\ open => ws
  /\ main \in {"idle", "join", "done"} => ~ws
  /\ main = "idle" => ~answered /\ reader = "none" /\ provided = {}

\* A reply is to the request that the main thread waits for.
Paired ==
  /\ main \in {"auto", "attach"} =>
       \A i, j \in DOMAIN inbox :
         inbox[i].kind = "answer" => ~answered /\ (inbox[j].kind = "answer" => i = j)
  /\ main = "next" => ~answered /\ \A i \in DOMAIN inbox : inbox[i].kind # "answer"

\* There is no place left for s, or the reader adds it before another one.
Known(s) ==
  \/ s \in sessions \/ AtLimit
  \/ job["reader"].on = s /\ job["reader"].step \in {"check", "add"}

NextIn(s) ==
  /\ job["reader"] = NoJob /\ inbox # <<>>
  /\ inbox[1].kind = "attached" /\ inbox[1].on = s

\* The reader meets the session beside the answer.
Beside(i, s) ==
  \/ i < Len(inbox) /\ inbox[i + 1].kind = "attached" /\ inbox[i + 1].on = s
  \/ i > 1 /\ inbox[i - 1].kind = "attached" /\ inbox[i - 1].on = s

Met ==
  reader = "alive" =>
    /\ job["main"].step \in {"check", "add"} \/ (job["main"].step = "attached" /\ answered)
         => Known(job["main"].on) \/ NextIn(job["main"].on)
    /\ job["main"].step = "attached" =>
         \A i \in DOMAIN inbox :
           inbox[i].kind = "answer" => Known(job["main"].on) \/ Beside(i, job["main"].on)

Room ==
  /\ IsFiniteSet(sessions) /\ IsFiniteSet(seen)
  /\ \A t \in Threads :
       job[t].step = "add" /\ job[t].on \notin sessions => Cardinality(sessions) < MaxSessions

\* The browser asks about a request once at a time.
Asked ==
  open =>
    /\ \A i \in DOMAIN inbox : inbox[i].kind \in RequestKinds =>
         /\ request[inbox[i].on] = inbox[i].kind
         /\ job["reader"].on # inbox[i].on
    /\ \A i, j \in DOMAIN inbox :
         inbox[i].on = inbox[j].on /\ inbox[i].on \in Requests => i = j
    /\ job["reader"].step \in RequestSteps => request[job["reader"].on] \in RequestKinds
    /\ job["reader"].step = "provide" => request[job["reader"].on] = "proxy"

\* Whom the credentials were given is in _auth_seen.
Given ==
  ws => /\ provided \subseteq seen
        /\ job["reader"].step = "provide" => job["reader"].on \in seen \ provided

\* Nobody knows a page that there is not.
Fresh ==
  /\ \A s \in Sessions : page[s] = "none" =>
       /\ s \notin sessions
       /\ \A t \in Threads : job[t].on # s
       /\ \A i \in DOMAIN inbox : inbox[i].on # s
  /\ \A s \in todo : page[s] = "none"

Intercepted(s) == s \in fetching \/ main = "close"

\* A page that waits is in one message or with the reader.
Alone ==
  \A s \in Sessions : page[s] = "waiting" =>
    /\ job["main"].on # s
    /\ \A i, j \in DOMAIN inbox : inbox[i].on = s /\ inbox[j].on = s => i = j
    /\ \A i \in DOMAIN inbox : inbox[i].on = s =>
         /\ job["reader"].on # s
         /\ inbox[i].kind = "attached" => s \notin sessions
         /\ inbox[i].kind = "enabled" => Intercepted(s)
    /\ job["reader"].on = s =>
         /\ job["reader"].step \in {"check", "add"} => s \notin sessions
         /\ job["reader"].step = "resume" => s \notin sessions /\ error
         /\ job["reader"].step = "release" => Intercepted(s)

\* A page waits for a message or a job that knows that it waits.
Held ==
  /\ ~open => Waiting = {}
  /\ open /\ reader = "alive" /\ ~error /\ ~stopping =>
       /\ \A s \in Sessions : page[s] = "waiting" =>
            \/ \E i \in DOMAIN inbox : inbox[i].on = s /\ inbox[i].waiting
                                       /\ inbox[i].kind \in PageKinds
            \/ job["reader"].on = s /\ job["reader"].waiting
       /\ \A r \in Requests : request[r] \in RequestKinds =>
            \/ \E i \in DOMAIN inbox : inbox[i].on = r /\ inbox[i].kind \in RequestKinds
            \/ job["reader"].on = r /\ job["reader"].step \in RequestSteps

Inv == /\ TypeOK
       /\ Sorted
       /\ Placed
       /\ Paired
       /\ Met
       /\ Room
       /\ Asked
       /\ Given
       /\ Fresh
       /\ Alone
       /\ Held
-----------------------------------------------------------------------------
(* Messages and jobs.                                                      *)

Subjects == Sessions \cup Requests \cup {None}
Messages ==
  [kind : PageKinds \cup RequestKinds \cup {"answer"}, on : Subjects, waiting : BOOLEAN]
Jobs == [step : PageSteps \cup RequestSteps \cup {"none"}, on : Subjects, waiting : BOOLEAN]

LEMMA Typed ==
  ASSUME TypeOK
  PROVE  /\ inbox \in Seq(Messages)
         /\ job \in [Threads -> Jobs]
         /\ {answered, ws, stopping, ready, error, credentials, open} \subseteq BOOLEAN
  <1>1. inbox \in Seq(Messages)
    BY DEF TypeOK, Messages, Subjects, PageKinds, RequestKinds
  <1>2. job \in [Threads -> Jobs]
    BY DEF TypeOK, Jobs, Subjects, PageSteps, Enabling, RequestSteps
  <1> QED BY <1>1, <1>2 DEF TypeOK

LEMMA TypedNext ==
  ASSUME /\ main' \in {"idle", "auto", "next", "attach", "ready", "body", "disable",
                       "close", "join", "done"}
         /\ todo' \subseteq Sessions
         /\ reader' \in {"none", "alive", "ended"}
         /\ job' \in [Threads -> Jobs]
         /\ answered' \in BOOLEAN /\ ws' \in BOOLEAN /\ stopping' \in BOOLEAN
         /\ ready' \in BOOLEAN /\ error' \in BOOLEAN /\ credentials' \in BOOLEAN
         /\ open' \in BOOLEAN
         /\ sessions' \subseteq Sessions /\ Cardinality(sessions') <= MaxSessions
         /\ seen' \subseteq Requests /\ Cardinality(seen') <= MaxAuthRequests
         /\ inbox' \in Seq(Messages)
         /\ page' \in [Sessions -> {"none", "waiting", "free"}]
         /\ fetching' \subseteq Sessions
         /\ request' \in [Requests -> {"new", "paused", "sent", "proxy", "origin", "done"}]
         /\ provided' \subseteq Requests
         /\ outcome' \in {"none", "ok", "failed"}
  PROVE  TypeOK'
  <1>1. inbox' \in Seq([kind : {"attached", "enabled", "refused", "answer", "paused",
                            "proxy", "origin"},
                    on : Sessions \cup Requests \cup {None},
                    waiting : BOOLEAN])
    BY DEF Messages, Subjects, PageKinds, RequestKinds
  <1>2. job' \in [Threads -> [step : {"none", "attached", "check", "add", "enable",
                                  "resume", "release", "continue", "provide",
                                  "refuse"},
                          on : Sessions \cup Requests \cup {None},
                          waiting : BOOLEAN]]
    BY DEF Jobs, Subjects, PageSteps, Enabling, RequestSteps
  <1> QED BY <1>1, <1>2 DEF TypeOK

\* A message joins the others.
LEMMA Pushed ==
  ASSUME TypeOK, NEW m \in Messages, inbox' = Append(inbox, m)
  PROVE  /\ inbox' \in Seq(Messages)
         /\ Len(inbox) \in Nat /\ Len(inbox') = Len(inbox) + 1
         /\ DOMAIN inbox = 1..Len(inbox) /\ DOMAIN inbox' = 1..(Len(inbox) + 1)
         /\ inbox'[Len(inbox) + 1] = m
         /\ \A i \in DOMAIN inbox : inbox'[i] = inbox[i]
  BY Typed

\* Two messages join the others.
LEMMA PushedBoth ==
  ASSUME TypeOK, NEW a \in Messages, NEW b \in Messages, inbox' = inbox \o <<a, b>>
  PROVE  /\ inbox' \in Seq(Messages)
         /\ Len(inbox) \in Nat /\ Len(inbox') = Len(inbox) + 2
         /\ DOMAIN inbox = 1..Len(inbox) /\ DOMAIN inbox' = 1..(Len(inbox) + 2)
         /\ inbox'[Len(inbox) + 1] = a /\ inbox'[Len(inbox) + 2] = b
         /\ \A i \in DOMAIN inbox : inbox'[i] = inbox[i]
  <1> DEFINE p == <<a, b>>
  <1>1. inbox \in Seq(Messages)
    BY Typed
  <1>2. p \in Seq(Messages) /\ Len(p) = 2 /\ p[1] = a /\ p[2] = b
    OBVIOUS
  <1> HIDE DEF p
  <1>3. /\ inbox \o p \in Seq(Messages)
        /\ Len(inbox \o p) = Len(inbox) + Len(p)
        /\ \A i \in 1..Len(inbox) + Len(p) :
             (inbox \o p)[i] = IF i <= Len(inbox) THEN inbox[i] ELSE p[i - Len(inbox)]
    BY <1>1, <1>2, ConcatProperties, Zenon
  <1>4. inbox' = inbox \o p
    BY DEF p
  <1> QED BY <1>1, <1>2, <1>3, <1>4

\* The oldest message leaves.
LEMMA Popped ==
  ASSUME TypeOK, inbox # <<>>, inbox' = Tail(inbox)
  PROVE  /\ inbox' \in Seq(Messages)
         /\ Len(inbox) \in Nat /\ Len(inbox') = Len(inbox) - 1 /\ Len(inbox) > 0
         /\ DOMAIN inbox = 1..Len(inbox) /\ DOMAIN inbox' = 1..(Len(inbox) - 1)
         /\ Head(inbox) = inbox[1] /\ inbox[1] \in Messages
         /\ \A i \in DOMAIN inbox' : inbox'[i] = inbox[i + 1]
  BY Typed

\* What a step does to a job.
LEMMA Worked ==
  ASSUME TypeOK, NEW t \in Threads
  PROVE  /\ \A step \in PageSteps \cup RequestSteps : Do(t, step) =>
              /\ job' \in [Threads -> Jobs]
              /\ job'[t].step = step /\ job'[t].on = job[t].on
              /\ job'[t].waiting = job[t].waiting
              /\ \A u \in Threads \ {t} : job'[u] = job[u]
         /\ Done(t) =>
              /\ job' \in [Threads -> Jobs]
              /\ job'[t] = NoJob
              /\ \A u \in Threads \ {t} : job'[u] = job[u]
  <1>1. job \in [Threads -> Jobs]
    BY Typed
  <1>2. NoJob \in Jobs
    BY DEF Jobs, NoJob, Subjects
  <1> QED BY <1>1, <1>2 DEF Do, Done, Jobs

-----------------------------------------------------------------------------
(* Steps that many actions share.                                          *)

\* The main thread stops waiting and working.
LEMMA MainLeaves ==
  ASSUME Inv, TypeOK',
         main' \in {"ready", "body", "disable", "close"},
         main \notin {"idle", "close", "join", "done"},
         job'["main"] = NoJob, job'["reader"] = job["reader"],
         fetching' = fetching \/ main' = "close",
         UNCHANGED <<todo, answered, reader, ws, stopping, sessions, error, seen, open, inbox,
                     page, request, provided>>
  PROVE  Inv'
  <1>1. Sorted' /\ Placed'
    BY DEF Inv, Sorted, Placed, Threads, NoJob, Enabling, PageSteps, RequestSteps
  <1>2. Paired'
    BY DEF Inv, Paired
  <1>3. Met' /\ Room'
    BY DEF Inv, Met, Room, NoJob, Threads
  <1>4. Asked' /\ Given'
    BY DEF Inv, Asked, Given
  <1>5. Fresh'
    BY ProxyAuthAssumption DEF Inv, Fresh, Threads, NoJob
  <1>6. Alone'
    BY ProxyAuthAssumption DEF Inv, Alone, Intercepted, NoJob
  <1>7. Held'
    BY DEF Inv, Held, Waiting
  <1> QED BY <1>1, <1>2, <1>3, <1>4, <1>5, <1>6, <1>7 DEF Inv

\* The reader ends.
LEMMA ReaderStops ==
  ASSUME Inv, TypeOK', reader' = "ended", main # "idle",
         job'["reader"] = NoJob, job'["main"] = job["main"],
         error => error',
         UNCHANGED <<main, todo, answered, ws, stopping, sessions, seen, open, inbox,
                     page, fetching, request, provided>>
  PROVE  Inv'
  <1>1. Sorted' /\ Placed'
    BY DEF Inv, Sorted, Placed, Threads, NoJob, Enabling, PageSteps, RequestSteps
  <1>2. Paired'
    BY DEF Inv, Paired
  <1>3. Met' /\ Room'
    BY DEF Inv, Met, Room, NoJob, Threads
  <1>4. Asked' /\ Given'
    BY ProxyAuthAssumption DEF Inv, Sorted, Asked, Given, NoJob, RequestKinds, RequestSteps
  <1>5. Fresh'
    BY ProxyAuthAssumption DEF Inv, Fresh, Threads, NoJob
  <1>6. Alone'
    BY ProxyAuthAssumption DEF Inv, Alone, Intercepted, NoJob
  <1>7. Held'
    BY DEF Inv, Held, Waiting
  <1> QED BY <1>1, <1>2, <1>3, <1>4, <1>5, <1>6, <1>7 DEF Inv

\* An exception of either thread.
LEMMA RaiseKeeps ==
  ASSUME Inv, NEW t \in Threads, Raise(t), job[t].step # "none", job[t].step # "attached",
         UNCHANGED <<todo, answered, ws, stopping, sessions, credentials, seen, browser,
                     provided>>
  PROVE  Inv'
  <1>1. /\ job' \in [Threads -> Jobs]
        /\ job'[t] = NoJob
        /\ \A u \in Threads \ {t} : job'[u] = job[u]
    BY Worked DEF Inv, Raise
  <1>2. inbox' \in Seq(Messages)
    BY Typed DEF Inv, browser
  <1>3. TypeOK'
    BY <1>1, <1>2, TypedNext, Typed DEF Inv, TypeOK, Raise, browser
  <1>4. CASE t = "reader"
    <2>1. main # "idle"
      BY <1>4 DEF Inv, Placed, NoJob
    <2> QED BY <1>1, <1>3, <1>4, <2>1, ReaderStops DEF Raise, browser, Threads
  <1>5. CASE t = "main"
    <2>1. main = "next"
      BY <1>5 DEF Inv, Placed
    <2> QED BY <1>1, <1>3, <1>5, <2>1, MainLeaves DEF Raise, browser, Threads
  <1> QED BY <1>4, <1>5 DEF Threads

-----------------------------------------------------------------------------
(* The main thread.                                                        *)

LEMMA ConnectKeeps ==
  ASSUME Inv, Connect
  PROVE  Inv'
  <1>1. /\ inbox' \in Seq(Messages)
        /\ Len(inbox') = 1 /\ DOMAIN inbox' = {1} /\ inbox'[1] = Answer
    BY DEF Connect, Messages, Answer, Subjects
  <1>2. job["reader"] = NoJob /\ job["main"] = NoJob
    BY DEF Inv, Sorted, Placed, Connect, Threads, Enabling
  <1>3. TypeOK'
    BY <1>1, TypedNext, Typed DEF Inv, TypeOK, Connect, Goto
  <1>4. Sorted' /\ Placed'
    BY <1>1, <1>2 DEF Inv, Sorted, Placed, Connect, Goto, Answer, PageKinds, RequestKinds,
       Enabling, NoJob, Threads
  <1>5. Paired' /\ Met' /\ Room'
    BY <1>1, <1>2 DEF Inv, Placed, Paired, Met, Room, Connect, Goto, NoJob, Threads
  <1>6. Asked' /\ Given'
    BY <1>1, <1>2, ProxyAuthAssumption
    DEF Inv, Placed, Asked, Given, Connect, Answer, NoJob, RequestKinds, RequestSteps
  <1>7. Fresh'
    BY <1>1, <1>2, ProxyAuthAssumption DEF Inv, Fresh, Connect, Answer
  <1>8. Alone' /\ Held'
    BY <1>1 DEF Inv, Alone, Held, Waiting, Placed, Connect, RequestKinds
  <1> QED BY <1>3, <1>4, <1>5, <1>6, <1>7, <1>8 DEF Inv

LEMMA ConnectFailsKeeps ==
  ASSUME Inv, ConnectFails
  PROVE  Inv'
  <1> USE DEF Inv, ConnectFails, Goto, shared, browser
  <1>1. TypeOK' /\ Sorted' /\ Placed'
    BY DEF TypeOK, Sorted, Placed, Enabling, Threads
  <1>2. Paired' /\ Met' /\ Room' /\ Asked' /\ Given' /\ Fresh'
    BY DEF Paired, Met, Known, NextIn, Beside, AtLimit, Room, Asked, Given, Fresh
  <1>3. Alone' /\ Held'
    BY DEF Alone, Intercepted, Held, Waiting
  <1> QED BY <1>1, <1>2, <1>3

LEMMA ListTargetsKeeps ==
  ASSUME Inv, ListTargets
  PROVE  Inv'
  <1> USE DEF Inv, ListTargets, Goto, shared, browser
  <1>1. TypeOK'
    BY DEF TypeOK
  <1>2. job["main"] = NoJob
    BY DEF Sorted, Placed, Enabling, Threads
  <1>3. Sorted' /\ Placed' /\ Paired'
    BY <1>2 DEF Sorted, Placed, Paired, Enabling, NoJob
  <1>4. Met' /\ Room' /\ Asked' /\ Given'
    BY <1>2 DEF Met, Room, Asked, Given, NoJob
  <1>5. Fresh'
    BY DEF Fresh
  <1>6. Alone' /\ Held'
    BY DEF Alone, Intercepted, Held, Waiting
  <1> QED BY <1>1, <1>3, <1>4, <1>5, <1>6

\* The two orders in which the browser tells of the session.
LEMMA AttachKeeps ==
  ASSUME Inv, Attach
  PROVE  Inv'
  <1>1. PICK s \in todo :
          /\ todo' = todo \ {s}
          /\ job' = [job EXCEPT !["main"] =
                       [step |-> "attached", on |-> s, waiting |-> FALSE]]
          /\ page' = [page EXCEPT ![s] = "free"]
          /\ \/ inbox' = inbox \o <<Attached(s, FALSE), Answer>>
             \/ inbox' = inbox \o <<Answer, Attached(s, FALSE)>>
    BY DEF Attach
  <1> DEFINE n == Len(inbox)
  <1>2. s \in Sessions /\ page[s] = "none" /\ s # None /\ s \notin Requests
    BY <1>1, ProxyAuthAssumption DEF Inv, TypeOK, Fresh
  <1>3. /\ n \in Nat /\ DOMAIN inbox = 1..n
        /\ inbox' \in Seq(Messages)
        /\ Len(inbox') = n + 2 /\ DOMAIN inbox' = 1..(n + 2)
        /\ \A i \in 1..n : inbox'[i] = inbox[i]
        /\ \/ inbox'[n + 1] = Attached(s, FALSE) /\ inbox'[n + 2] = Answer
           \/ inbox'[n + 1] = Answer /\ inbox'[n + 2] = Attached(s, FALSE)
    <2>1. Attached(s, FALSE) \in Messages /\ Answer \in Messages
      BY <1>2 DEF Attached, Answer, Messages, Subjects, PageKinds
    <2>2. CASE inbox' = inbox \o <<Attached(s, FALSE), Answer>>
      BY <2>1, <2>2, PushedBoth DEF Inv
    <2>3. CASE inbox' = inbox \o <<Answer, Attached(s, FALSE)>>
      BY <2>1, <2>3, PushedBoth DEF Inv
    <2> QED BY <1>1, <2>2, <2>3
  <1>4. /\ job' \in [Threads -> Jobs]
        /\ job'["main"] = [step |-> "attached", on |-> s, waiting |-> FALSE]
        /\ job'["reader"] = job["reader"]
    <2>1. job \in [Threads -> Jobs]
      BY Typed DEF Inv
    <2> QED BY <1>1, <1>2, <2>1 DEF Threads, Jobs, Subjects, PageSteps
  <1>5. main = "next" /\ main' = "attach" /\ ~answered /\ ~answered'
        /\ \A i \in 1..n : inbox[i].kind # "answer"
    BY <1>3 DEF Inv, Paired, Attach, Goto
  <1>6. UNCHANGED <<answered, reader, ws, stopping, sessions, ready, error, credentials,
                    seen, open, fetching, request, provided, outcome>>
    BY DEF Attach, shared
  <1>7. TypeOK'
    <2>1. todo' \subseteq Sessions /\ page' \in [Sessions -> {"none", "waiting", "free"}]
      BY <1>1 DEF Inv, TypeOK
    <2> QED BY <1>3, <1>4, <1>5, <1>6, <2>1, TypedNext, Typed DEF Inv, TypeOK
  <1>8. Sorted'
    <2>1. \A i \in DOMAIN inbox' :
            /\ inbox'[i].kind \in PageKinds => inbox'[i].on \in Sessions
            /\ inbox'[i].kind \in RequestKinds => inbox'[i].on \in Requests
            /\ inbox'[i].kind = "answer" => inbox'[i].on = None
      BY <1>2, <1>3 DEF Inv, Sorted, Attached, Answer, PageKinds, RequestKinds
    <2> QED BY <1>2, <1>4, <2>1 DEF Inv, Sorted, Threads, PageSteps, RequestSteps, Enabling
  <1>9. Placed'
    BY <1>4, <1>5, <1>6 DEF Inv, Placed, Enabling
  <1>10. Paired'
    BY <1>3, <1>5 DEF Paired, Attached, Answer
  <1>11. Met'
    BY <1>3, <1>4, <1>5 DEF Met, Beside, Attached, Answer
  <1>12. Room'
    BY <1>4, <1>6 DEF Inv, Room, Threads
  <1>13. Asked'
    <2>1. \A i \in DOMAIN inbox' : inbox'[i].kind \in RequestKinds \/ inbox'[i].on \in Requests
            => i \in 1..n
      BY <1>2, <1>3, ProxyAuthAssumption DEF Attached, Answer, RequestKinds
    <2> QED BY <1>3, <1>4, <1>6, <2>1 DEF Inv, Asked
  <1>14. Given'
    BY <1>4, <1>6 DEF Inv, Given
  <1>15. Fresh'
    <2>1. \A x \in Sessions : page'[x] = "none" => page[x] = "none" /\ x # s
      BY <1>1, <1>2 DEF Inv, TypeOK
    <2>2. \A x \in Sessions \ {s}, i \in DOMAIN inbox' : inbox'[i].on = x => i \in 1..n
      BY <1>3, ProxyAuthAssumption DEF Attached, Answer
    <2> QED BY <1>1, <1>2, <1>3, <1>4, <1>6, <2>1, <2>2 DEF Inv, TypeOK, Fresh, Threads
  <1>16. \A x \in Sessions : page'[x] = "waiting" =>
           /\ x # s /\ page[x] = "waiting"
           /\ \A i \in DOMAIN inbox' : inbox'[i].on = x => i \in 1..n
    BY <1>1, <1>2, <1>3, ProxyAuthAssumption DEF Inv, TypeOK, Attached, Answer
  <1>17. Alone'
    BY <1>3, <1>4, <1>5, <1>6, <1>16 DEF Inv, Alone, Intercepted
  <1>18. Held'
    <2>1. \A x \in Sessions : page'[x] = "waiting" => page[x] = "waiting"
      BY <1>16
    <2>2. \A x \in DOMAIN inbox : x \in DOMAIN inbox' /\ inbox'[x] = inbox[x]
      BY <1>3
    <2>3. ~open => Waiting' = {}
      BY <1>6, <2>1 DEF Inv, Held, Waiting
    <2> QED BY <1>4, <1>6, <2>1, <2>2, <2>3 DEF Inv, Held
  <1> QED BY <1>7, <1>8, <1>9, <1>10, <1>11, <1>12, <1>13, <1>14, <1>15, <1>17, <1>18
          DEF Inv

LEMMA AttachAnsweredKeeps ==
  ASSUME Inv, AttachAnswered
  PROVE  Inv'
  <1> USE DEF Inv, AttachAnswered, Goto, shared, browser
  <1>1. /\ job' \in [Threads -> Jobs]
        /\ job'["main"].step = "check" /\ job'["main"].on = job["main"].on
        /\ job'["main"].waiting = job["main"].waiting
        /\ job'["reader"] = job["reader"]
    BY Worked DEF Threads, PageSteps, Enabling
  <1>2. inbox \in Seq(Messages)
    BY Typed
  <1>3. TypeOK'
    BY <1>1, <1>2, TypedNext, Typed DEF TypeOK
  <1>4. Sorted' /\ Placed'
    BY <1>1 DEF Sorted, Placed, Threads, Enabling, PageSteps, RequestSteps
  <1>5. Paired'
    BY DEF Paired
  <1>6. Met'
    BY <1>1 DEF Met, Known, NextIn, AtLimit
  <1>7. Room' /\ Asked' /\ Given'
    BY <1>1 DEF Room, Asked, Given, Threads
  <1>8. Fresh'
    BY <1>1 DEF Fresh, Threads
  <1>9. Alone' /\ Held'
    BY <1>1 DEF Alone, Intercepted, Held, Waiting
  <1> QED BY <1>3, <1>4, <1>5, <1>6, <1>7, <1>8, <1>9

\* The main thread gives up, or goes on without a session in hand.
LEMMA RequestFailsKeeps ==
  ASSUME Inv, RequestFails
  PROVE  Inv'
  <1>1. TypeOK' /\ job'["main"] = NoJob /\ job'["reader"] = job["reader"]
    <2>1. job' \in [Threads -> Jobs] /\ job'["main"] = NoJob /\ job'["reader"] = job["reader"]
      BY Worked DEF Inv, RequestFails, Threads
    <2>2. inbox' \in Seq(Messages)
      BY Typed DEF Inv, RequestFails, browser
    <2> QED BY <2>1, <2>2, TypedNext, Typed DEF Inv, TypeOK, RequestFails, Goto, shared, browser
  <1> QED BY <1>1, MainLeaves DEF RequestFails, Goto, shared, browser

LEMMA WaitsKeep ==
  ASSUME Inv, AllAttached \/ AwaitReady \/ BodyEnds \/ Disable
  PROVE  Inv'
  <1>1. TypeOK'
    BY DEF Inv, TypeOK, AllAttached, AwaitReady, BodyEnds, Disable, Goto, shared, browser
  <1>2. job["main"] = NoJob
    BY DEF Inv, Sorted, Placed, AllAttached, AwaitReady, BodyEnds, Disable, Enabling, Threads
  <1>3. CASE AllAttached
    BY <1>1, <1>2, <1>3, MainLeaves DEF AllAttached, Goto, shared, browser
  <1>4. CASE AwaitReady
    BY <1>1, <1>2, <1>4, MainLeaves DEF AwaitReady, Goto, shared, browser
  <1>5. CASE BodyEnds
    BY <1>1, <1>2, <1>5, MainLeaves DEF BodyEnds, Goto, shared, browser
  <1>6. CASE Disable
    BY <1>1, <1>2, <1>6, MainLeaves DEF Disable, Goto, shared, browser
  <1> QED BY <1>3, <1>4, <1>5, <1>6

\* Nothing waits for a browser that is gone.
LEMMA DisconnectReleases ==
  ASSUME TypeOK, Disconnect
  PROVE  Waiting' = {} /\ \A s \in Sessions : page'[s] = "none" <=> page[s] = "none"
  BY DEF TypeOK, Disconnect, Waiting

LEMMA CloseKeeps ==
  ASSUME Inv, Close
  PROVE  Inv'
  <1> USE DEF Inv, Close, Goto, shared
  <1>1. /\ Waiting' = {} /\ ~open' /\ fetching' = {}
        /\ \A s \in Sessions : page'[s] = "none" <=> page[s] = "none"
    BY DisconnectReleases DEF Disconnect
  <1>2. TypeOK'
    <2>1. inbox' \in Seq(Messages) /\ job' \in [Threads -> Jobs]
      BY Typed
    <2> QED BY <2>1, TypedNext, Typed DEF TypeOK, Disconnect
  <1>3. Sorted' /\ Placed' /\ Paired'
    BY <1>1 DEF Sorted, Placed, Paired, Enabling
  <1>4. Met' /\ Room' /\ Asked' /\ Given'
    BY <1>1 DEF Placed, Met, Room, Asked, Given, Enabling
  <1>5. Fresh' /\ Alone' /\ Held'
    BY <1>1 DEF Fresh, Alone, Held, Waiting, TypeOK
  <1> QED BY <1>2, <1>3, <1>4, <1>5

LEMMA JoinKeeps ==
  ASSUME Inv, Join
  PROVE  Inv'
  <1> USE DEF Inv, Join, Goto, browser
  <1>1. Cardinality({}) = 0 /\ IsFiniteSet({})
    BY FS_EmptySet
  <1>2. TypeOK'
    <2>1. inbox' \in Seq(Messages) /\ job' \in [Threads -> Jobs]
      BY Typed
    <2>2. Cardinality(sessions') <= MaxSessions /\ Cardinality(seen') <= MaxAuthRequests
      BY <1>1, ProxyAuthAssumption
    <2> QED BY <2>1, <2>2, TypedNext, Typed DEF TypeOK
  <1>3. Sorted' /\ Placed' /\ Paired'
    BY DEF Sorted, Placed, Paired, Enabling
  <1>4. Met' /\ Room'
    BY <1>1, ProxyAuthAssumption DEF Placed, Met, Room, Enabling, Threads
  <1>5. Asked' /\ Given'
    BY DEF Placed, Asked, Given
  <1>6. Fresh' /\ Alone' /\ Held'
    BY DEF Placed, Fresh, Alone, Intercepted, Held, Waiting
  <1> QED BY <1>2, <1>3, <1>4, <1>5, <1>6

-----------------------------------------------------------------------------
(* The browser.                                                            *)

LEMMA BrowserDiesKeeps ==
  ASSUME Inv, BrowserDies
  PROVE  Inv'
  <1> USE DEF Inv, BrowserDies, threads, shared
  <1>1. /\ Waiting' = {} /\ ~open' /\ fetching' = {}
        /\ \A s \in Sessions : page'[s] = "none" <=> page[s] = "none"
    BY DisconnectReleases DEF Disconnect
  <1>2. TypeOK'
    <2>1. inbox' \in Seq(Messages) /\ job' \in [Threads -> Jobs]
      BY Typed
    <2> QED BY <2>1, TypedNext, Typed DEF TypeOK, Disconnect
  <1>3. Sorted' /\ Placed' /\ Paired'
    BY <1>1 DEF Sorted, Placed, Paired
  <1>4. Met' /\ Room' /\ Asked' /\ Given'
    BY <1>1 DEF Met, Known, NextIn, Beside, AtLimit, Room, Asked, Given
  <1>5. Fresh' /\ Alone' /\ Held'
    BY <1>1 DEF Fresh, Alone, Held, Waiting, TypeOK
  <1> QED BY <1>2, <1>3, <1>4, <1>5

\* A message of the browser disturbs nobody who waits for an answer.
LEMMA EventKeepsPace ==
  ASSUME Inv, NEW m \in Messages, inbox' = Append(inbox, m), m.kind # "answer",
         UNCHANGED <<threads, sessions>>
  PROVE  Paired' /\ Met'
  <1> DEFINE n == Len(inbox)
  <1>1. /\ n \in Nat /\ Len(inbox') = n + 1
        /\ DOMAIN inbox = 1..n /\ DOMAIN inbox' = 1..(n + 1)
        /\ inbox'[n + 1] = m
        /\ \A i \in 1..n : inbox'[i] = inbox[i]
    BY Pushed DEF Inv
  <1>2. \A i \in DOMAIN inbox' : inbox'[i].kind = "answer" => i \in 1..n
    BY <1>1
  <1>3. Paired'
    BY <1>1, <1>2 DEF Inv, Paired, threads
  <1>4. \A s : /\ Known(s) => Known(s)'
               /\ NextIn(s) => NextIn(s)'
               /\ \A i \in 1..n : Beside(i, s) => Beside(i, s)'
    <2> TAKE s
    <2>1. Known(s) => Known(s)'
      BY DEF Known, AtLimit, threads
    <2>2. NextIn(s) => NextIn(s)'
      <3> HAVE NextIn(s)
      <3>1. n # 0
        BY Typed DEF Inv, NextIn
      <3>2. inbox' # <<>> /\ inbox'[1] = inbox[1]
        BY <1>1, <3>1
      <3> QED BY <3>2 DEF NextIn, threads
    <2>3. ASSUME NEW i \in 1..n, Beside(i, s)
          PROVE  Beside(i, s)'
      BY <1>1, <2>3 DEF Beside
    <2> QED BY <2>1, <2>2, <2>3
  <1>5. Met'
    BY <1>1, <1>2, <1>4 DEF Inv, Met, threads
  <1> QED BY <1>3, <1>5

LEMMA OpenPageKeeps ==
  ASSUME Inv, OpenPage
  PROVE  Inv'
  <1> USE DEF Inv, OpenPage, threads, shared
  <1>1. PICK s \in Sessions \ todo, w \in BOOLEAN :
          /\ page[s] = "none"
          /\ page' = [page EXCEPT ![s] = IF w THEN "waiting" ELSE "free"]
          /\ inbox' = Append(inbox, Attached(s, w))
    OBVIOUS
  <1> DEFINE n == Len(inbox)
  <1>2. Attached(s, w) \in Messages
    BY DEF Attached, Messages, Subjects, PageKinds
  <1>3. /\ inbox' \in Seq(Messages) /\ n \in Nat
        /\ DOMAIN inbox = 1..n /\ DOMAIN inbox' = 1..(n + 1)
        /\ inbox'[n + 1] = Attached(s, w)
        /\ \A i \in 1..n : inbox'[i] = inbox[i]
    BY <1>1, <1>2, Pushed
  <1>4. TypeOK'
    BY <1>1, <1>3, TypedNext, Typed DEF TypeOK
  <1>5. Sorted' /\ Placed'
    BY <1>3 DEF Sorted, Placed, Attached, PageKinds, RequestKinds
  <1>6. Paired' /\ Met'
    BY <1>1, <1>2, EventKeepsPace DEF Attached
  <1>7. Room' /\ Given'
    BY DEF Room, Given
  <1>8. Asked'
    BY <1>3, ProxyAuthAssumption DEF Asked, Attached, RequestKinds
  <1>9. Fresh'
    BY <1>1, <1>3 DEF TypeOK, Fresh, Attached
  <1>10. Alone'
    BY <1>1, <1>3 DEF TypeOK, Fresh, Alone, Intercepted, Attached, Threads
  <1>11. Held'
    <2>1. \A x \in Sessions \ {s} : page'[x] = page[x]
      BY <1>1 DEF TypeOK
    <2>2. page'[s] = "waiting" => w
      BY <1>1 DEF TypeOK
    <2>3. \A i \in DOMAIN inbox : i \in DOMAIN inbox' /\ inbox'[i] = inbox[i]
      BY <1>3
    <2>4. page'[s] = "waiting" =>
            n + 1 \in DOMAIN inbox' /\ inbox'[n + 1].on = s /\ inbox'[n + 1].waiting
            /\ inbox'[n + 1].kind \in PageKinds
      BY <1>3, <2>2 DEF Attached, PageKinds
    <2> QED BY <2>1, <2>3, <2>4 DEF Held
  <1> QED BY <1>4, <1>5, <1>6, <1>7, <1>8, <1>9, <1>10, <1>11

\* A request that nobody is busy with is paused, or challenged.
LEMMA AsksKeeps ==
  ASSUME Inv, open, NEW r \in Requests, NEW k \in RequestKinds,
         request[r] \notin RequestKinds,
         request' = [request EXCEPT ![r] = k],
         inbox' = Append(inbox, [kind |-> k, on |-> r, waiting |-> FALSE]),
         UNCHANGED <<threads, shared, open, page, fetching, provided, outcome>>
  PROVE  Inv'
  <1> USE DEF Inv, threads, shared
  <1> DEFINE n == Len(inbox)
             m == [kind |-> k, on |-> r, waiting |-> FALSE]
  <1>1. m \in Messages
    BY DEF Messages, Subjects
  <1>2. /\ inbox' \in Seq(Messages) /\ n \in Nat
        /\ DOMAIN inbox = 1..n /\ DOMAIN inbox' = 1..(n + 1)
        /\ inbox'[n + 1] = m
        /\ \A i \in 1..n : inbox'[i] = inbox[i]
    BY <1>1, Pushed
  <1>3. /\ request' \in [Requests -> {"new", "paused", "sent", "proxy", "origin", "done"}]
        /\ request'[r] = k
        /\ \A x \in Requests \ {r} : request'[x] = request[x]
    BY DEF TypeOK, RequestKinds
  <1>4. TypeOK'
    BY <1>2, <1>3, TypedNext, Typed DEF TypeOK
  <1>5. Sorted' /\ Placed'
    BY <1>2 DEF Sorted, Placed, PageKinds, RequestKinds
  <1>6. Paired' /\ Met'
    BY <1>1, EventKeepsPace DEF RequestKinds
  <1>7. Room' /\ Given'
    BY DEF Room, Given
  <1>8. Asked'
    <2>1. job["reader"].on # r
      BY ProxyAuthAssumption DEF Asked, Sorted, Threads, TypeOK, PageSteps, RequestSteps,
         Enabling, NoJob
    <2>2. \A i \in 1..n : inbox[i].on # r
      <3> SUFFICES ASSUME NEW i \in 1..n, inbox[i].on = r PROVE FALSE
        OBVIOUS
      <3>1. inbox[i] \in Messages
        BY <1>2, Typed
      <3> QED BY <1>2, <3>1, ProxyAuthAssumption DEF Asked, Sorted, Messages, PageKinds
    <2> QED BY <1>2, <1>3, <2>1, <2>2 DEF Asked, Sorted, Threads
  <1>9. Fresh' /\ Alone'
    BY <1>2, ProxyAuthAssumption DEF Fresh, Alone, Intercepted
  <1>10. Held'
    <2>1. \A i \in DOMAIN inbox : i \in DOMAIN inbox' /\ inbox'[i] = inbox[i]
      BY <1>2
    <2>2. n + 1 \in DOMAIN inbox' /\ inbox'[n + 1].on = r /\ inbox'[n + 1].kind \in RequestKinds
      BY <1>2
    <2> QED BY <1>3, <2>1, <2>2 DEF Held
  <1> QED BY <1>4, <1>5, <1>6, <1>7, <1>8, <1>9, <1>10

LEMMA PauseRequestKeeps ==
  ASSUME Inv, PauseRequest
  PROVE  Inv'
  BY AsksKeeps DEF PauseRequest, Paused, RequestKinds

LEMMA ChallengeRequestKeeps ==
  ASSUME Inv, ChallengeRequest
  PROVE  Inv'
  <1>1. PICK r \in Requests, proxy \in BOOLEAN :
          /\ request[r] = "sent"
          /\ request' = [request EXCEPT ![r] = Challenge(r, proxy).kind]
          /\ inbox' = Append(inbox, Challenge(r, proxy))
    BY DEF ChallengeRequest
  <1> DEFINE k == IF proxy THEN "proxy" ELSE "origin"
  <1>2. Challenge(r, proxy) = [kind |-> k, on |-> r, waiting |-> FALSE]
        /\ Challenge(r, proxy).kind = k /\ k \in RequestKinds
    BY DEF Challenge, RequestKinds
  <1> QED BY <1>1, <1>2, AsksKeeps DEF ChallengeRequest, RequestKinds

-----------------------------------------------------------------------------
(* What both threads do.                                                   *)

\* A step of the job that leaves messages and the browser alone.
LEMMA CheckKeeps ==
  ASSUME Inv, NEW t \in Threads, Check(t)
  PROVE  Inv'
  <1> USE DEF Inv, Check, Fixed, browser
  <1> DEFINE s == job[t].on
  <1>1. s \in Sessions /\ s # None
    BY ProxyAuthAssumption DEF Sorted, PageSteps, Enabling
  <1>2. t = "main" => job[t].waiting = FALSE
    BY DEF Placed
  <1>3. /\ job' \in [Threads -> Jobs]
        /\ \A u \in Threads \ {t} : job'[u] = job[u]
        /\ \/ s \in sessions \/ AtLimit
           \/ job'[t].step = "add"
        /\ \/ job'[t] = NoJob /\ ~job[t].waiting /\ (s \in sessions \/ AtLimit)
           \/ /\ job'[t].on = s /\ job'[t].waiting = job[t].waiting
              /\ \/ job'[t].step = "add" /\ s \notin sessions /\ ~AtLimit
                 \/ job'[t].step = "resume" /\ job[t].waiting /\ (s \in sessions \/ error')
    BY Worked DEF PageSteps, Enabling
  <1>4. error => error'
    OBVIOUS
  <1>5. TypeOK'
    <2>1. inbox' \in Seq(Messages) /\ error' \in BOOLEAN
      BY Typed
    <2> QED BY <1>3, <2>1, TypedNext, Typed DEF TypeOK
  <1>6. Sorted'
    BY <1>1, <1>3 DEF Sorted, PageSteps, RequestSteps, Enabling, NoJob
  <1>7. Placed'
    BY <1>1, <1>2, <1>3 DEF Placed, Enabling, NoJob, Threads
  <1>8. Paired'
    BY DEF Paired
  <1>9. \A x : Known(x) => Known(x)'
    BY <1>3 DEF Known, AtLimit, Threads
  <1>10. Met'
    <2>1. \A x : NextIn(x) => NextIn(x)' \/ t = "reader"
      BY <1>3 DEF NextIn, Threads
    <2>2. \A x : ~(t = "reader" /\ NextIn(x))
      BY DEF NextIn, NoJob
    <2>3. CASE t = "reader"
      BY <1>3, <1>9, <2>2, <2>3 DEF Met, Beside, Threads
    <2>4. CASE t = "main"
      BY <1>3, <1>9, <2>1, <2>4 DEF Met, Beside, Threads, NoJob
    <2> QED BY <2>3, <2>4 DEF Threads
  <1>11. Room'
    <2>1. Cardinality(sessions) \in Nat /\ MaxSessions \in Nat
      BY FS_CardinalityType, ProxyAuthAssumption DEF Room
    <2> QED BY <1>3, <2>1 DEF Room, AtLimit, NoJob
  <1>12. Asked' /\ Given'
    BY <1>1, <1>3, ProxyAuthAssumption
    DEF Asked, Given, Sorted, PageSteps, RequestSteps, RequestKinds, Enabling, NoJob, Threads
  <1>13. Fresh'
    BY <1>1, <1>3, ProxyAuthAssumption DEF Fresh, NoJob
  <1>14. Alone'
    BY <1>1, <1>3, <1>4, ProxyAuthAssumption DEF Alone, Intercepted, NoJob, Threads
  <1>15. Held'
    BY <1>1, <1>3, <1>4, ProxyAuthAssumption DEF Held, Waiting, Threads, RequestSteps
  <1> QED BY <1>5, <1>6, <1>7, <1>8, <1>10, <1>11, <1>12, <1>13, <1>14, <1>15

\* Both threads add only when there is room for both: the reader has added the
\* session of the main thread before, or adds the same.
LEMMA AddKeeps ==
  ASSUME Inv, NEW t \in Threads, Add(t)
  PROVE  Inv'
  <1> USE DEF Inv, Add, Fixed, browser
  <1> DEFINE s == job[t].on
  <1>1. s \in Sessions /\ s # None
    BY ProxyAuthAssumption DEF Sorted, PageSteps, Enabling
  <1>2. /\ job' \in [Threads -> Jobs]
        /\ job'[t].step = "enable" /\ job'[t].on = s /\ job'[t].waiting = job[t].waiting
        /\ \A u \in Threads \ {t} : job'[u] = job[u]
    BY Worked DEF PageSteps, Enabling
  <1>3. /\ IsFiniteSet(sessions') /\ Cardinality(sessions) \in Nat
        /\ s \notin sessions => Cardinality(sessions') = Cardinality(sessions) + 1
        /\ s \in sessions => sessions' = sessions
    BY FS_AddElement, FS_CardinalityType DEF Room
  <1>4. MaxSessions \in Nat
    BY ProxyAuthAssumption
  <1>5. /\ Cardinality(sessions') <= MaxSessions
        /\ Cardinality(sessions) <= Cardinality(sessions')
    <2>1. CASE s \in sessions
      <3>1. sessions' = sessions /\ Cardinality(sessions) <= MaxSessions
        BY <1>3, <2>1 DEF TypeOK
      <3> HIDE DEF Add
      <3> QED BY <1>3, <3>1
    <2>2. CASE s \notin sessions
      <3>1. Cardinality(sessions) < MaxSessions
        BY <2>2 DEF Room
      <3>2. Cardinality(sessions') = Cardinality(sessions) + 1
        BY <1>3, <2>2
      <3> HIDE DEF Add
      <3> QED BY <1>3, <1>4, <3>1, <3>2
    <2> QED BY <2>1, <2>2
  <1>6. TypeOK'
    <2>1. inbox' \in Seq(Messages)
      BY Typed
    <2> QED BY <1>1, <1>2, <1>5, <2>1, TypedNext, Typed DEF TypeOK
  <1>7. Sorted' /\ Placed' /\ Paired'
    BY <1>1, <1>2 DEF Sorted, Placed, Paired, PageSteps, RequestSteps, Enabling, NoJob, Threads
  <1>8. AtLimit => AtLimit'
    <2>1. Cardinality(sessions') \in Nat
      BY <1>3, FS_CardinalityType
    <2> HIDE DEF Add
    <2> QED BY <1>3, <1>4, <1>5, <2>1 DEF AtLimit
  <1>9. \A x : Known(x) => Known(x)'
    BY <1>2, <1>8 DEF Known, Threads
  <1>10. Met'
    <2>1. CASE t = "reader"
      BY <1>2, <1>9, <2>1 DEF Met, NextIn, Beside, Threads, NoJob
    <2>2. CASE t = "main"
      BY <1>2, <1>9, <2>2 DEF Met, NextIn, Beside, Threads
    <2> QED BY <2>1, <2>2 DEF Threads
  <1>11. Room'
    <2> SUFFICES ASSUME NEW u \in Threads, job'[u].step = "add", job'[u].on \notin sessions'
                 PROVE  Cardinality(sessions') < MaxSessions
      BY <1>3, <1>5 DEF Room
    <2>1. u # t /\ job'[u] = job[u] /\ job[u].on # s /\ job[u].on \notin sessions
      BY <1>2
    <2>2. Cardinality(sessions) < MaxSessions
      BY <2>1 DEF Room
    <2>3. ~AtLimit
      BY <1>3, <1>4, <2>2 DEF AtLimit
    <2>4. job["reader"] # NoJob /\ reader = "alive"
      BY <2>1 DEF Threads, NoJob, Placed
    <2>5. Known(job["main"].on)
      BY <2>1, <2>4 DEF Met, NextIn, Threads
    <2>6. s \in sessions
      BY <2>1, <2>3, <2>5 DEF Known, Threads
    <2> QED BY <1>3, <2>2, <2>6
  <1>12. Asked' /\ Given'
    BY <1>2 DEF Asked, Given, RequestSteps, Threads
  <1>13. Fresh'
    BY <1>2 DEF Fresh
  <1>14. Alone'
    BY <1>1, <1>2 DEF Alone, Intercepted, Threads
  <1>15. Held'
    BY <1>1, <1>2, ProxyAuthAssumption DEF Held, Waiting, Threads, RequestSteps
  <1> QED BY <1>6, <1>7, <1>10, <1>11, <1>12, <1>13, <1>14, <1>15

\* The browser's answer to Fetch.enable joins the messages.
LEMMA EnableKeeps ==
  ASSUME Inv, NEW t \in Threads, Enable(t)
  PROVE  Inv'
  <1> DEFINE s == job[t].on
             w == job[t].waiting
             n == Len(inbox)
  <1>1. s \in Sessions /\ s # None /\ s \notin Requests /\ w \in BOOLEAN
    BY Typed, ProxyAuthAssumption DEF Inv, Enable, Sorted, PageSteps, Enabling, Jobs
  <1>2. CASE ~Connected
    <2>1. Raise(t)
      BY <1>2 DEF Enable
    <2> QED BY <1>2, <2>1, RaiseKeeps DEF Enable, Fixed, browser
  <1>3. CASE Connected
    <2>1. /\ Done(t)
          /\ UNCHANGED <<main, todo, answered, reader, ws, stopping, shared, open, page,
                         request, provided, outcome>>
      BY <1>3 DEF Enable, Fixed, shared
    <2>2. /\ job' \in [Threads -> Jobs]
          /\ job'[t] = NoJob
          /\ \A u \in Threads \ {t} : job'[u] = job[u]
      BY <2>1, Worked DEF Inv
    <2>3. PICK m \in {Enabled(s, w), Refused(s, w)} :
            /\ inbox' = Append(inbox, m)
            /\ m.kind = "enabled" => fetching' = fetching \cup {s}
            /\ m.kind = "refused" => fetching' = fetching
      BY <1>3 DEF Enable, Enabled, Refused
    <2>4. m.on = s /\ m.waiting = w /\ m.kind \in {"enabled", "refused"} /\ m \in Messages
      BY <1>1 DEF Enabled, Refused, Messages, Subjects, PageKinds
    <2>5. /\ inbox' \in Seq(Messages) /\ n \in Nat /\ Len(inbox') = n + 1
          /\ DOMAIN inbox = 1..n /\ DOMAIN inbox' = 1..(n + 1)
          /\ inbox'[n + 1] = m
          /\ \A i \in 1..n : inbox'[i] = inbox[i]
      BY <2>3, <2>4, Pushed DEF Inv
    <2>6. fetching \subseteq fetching' /\ fetching' \subseteq Sessions
          /\ (m.kind = "enabled" => s \in fetching')
      BY <1>1, <2>3, <2>4 DEF Inv, TypeOK
    <2>7. TypeOK'
      BY <2>1, <2>2, <2>5, <2>6, TypedNext, Typed DEF Inv, TypeOK, shared
    <2>8. Sorted'
      BY <1>1, <2>2, <2>4, <2>5 DEF Inv, Sorted, PageKinds, RequestKinds, NoJob, PageSteps,
         RequestSteps, Enabling
    <2>9. Placed'
      BY <2>1, <2>2 DEF Inv, Placed, NoJob, Enabling, Threads
    <2>10. Paired'
      BY <2>1, <2>4, <2>5 DEF Inv, Paired
    <2>11. Met'
      <3>1. \A x : Known(x) => Known(x)'
        BY <2>1, <2>2 DEF Enable, Known, AtLimit, Threads, shared
      <3>2. \A i \in DOMAIN inbox' : inbox'[i].kind = "answer" => i \in 1..n
        BY <2>4, <2>5
      <3>3. \A x : \A i \in 1..n : Beside(i, x) => Beside(i, x)'
        BY <2>5 DEF Beside
      <3>4. \A x : NextIn(x) => NextIn(x)'
        <4> TAKE x
        <4> HAVE NextIn(x)
        <4>1. t = "main" /\ n # 0
          BY Typed DEF Inv, NextIn, Enable, Threads, NoJob
        <4>2. inbox' # <<>> /\ inbox'[1] = inbox[1] /\ job'["reader"] = job["reader"]
          BY <2>2, <2>5, <4>1 DEF Threads
        <4> QED BY <4>2 DEF NextIn
      <3>5. CASE t = "main"
        BY <2>2, <3>5 DEF Met, NoJob
      <3>6. CASE t = "reader"
        <4>1. job'["main"] = job["main"] /\ job["reader"] # NoJob
          BY <2>2, <3>6 DEF Enable, NoJob, Threads
        <4>2. \A x : ~NextIn(x)
          BY <4>1 DEF NextIn
        <4>3. \A i \in DOMAIN inbox' : inbox'[i].kind = "answer" =>
                i \in DOMAIN inbox /\ inbox[i].kind = "answer"
          BY <2>5, <3>2
        <4> SUFFICES ASSUME reader = "alive"
                     PROVE  Met!2'
          BY <2>1 DEF Met
        <4> PICK x : x = job["main"].on
          OBVIOUS
        <4>4. job["main"].step \in {"check", "add"} \/ (job["main"].step = "attached" /\ answered)
                => Known(x)'
          BY <3>1, <4>2 DEF Inv, Met
        <4>5. ASSUME job["main"].step = "attached", NEW i \in DOMAIN inbox',
                     inbox'[i].kind = "answer"
              PROVE  Known(x)' \/ Beside(i, x)'
          <5>1. i \in DOMAIN inbox /\ i \in 1..n /\ inbox[i].kind = "answer"
            BY <2>5, <4>3, <4>5
          <5>2. Known(x) \/ Beside(i, x)
            BY <4>5, <5>1 DEF Inv, Met
          <5> QED BY <3>1, <3>3, <5>1, <5>2
        <4> QED BY <2>1, <4>1, <4>4, <4>5 DEF Known, Beside
      <3> QED BY <3>5, <3>6 DEF Threads
    <2>12. Room'
      BY <2>1, <2>2 DEF Inv, Room, NoJob, shared
    <2>13. Asked'
      <3>1. \A i \in DOMAIN inbox' :
              inbox'[i].kind \in RequestKinds \/ inbox'[i].on \in Requests => i \in 1..n
        BY <1>1, <2>4, <2>5 DEF RequestKinds
      <3>2. \/ job'["reader"] = job["reader"]
            \/ job'["reader"].on = None /\ job'["reader"].step = "none"
        BY <2>2 DEF NoJob, Threads
      <3>3. \A i \in DOMAIN inbox : inbox[i].kind \in RequestKinds => inbox[i].on # None
        BY ProxyAuthAssumption DEF Inv, Sorted
      <3> QED BY <2>1, <2>5, <3>1, <3>2, <3>3 DEF Inv, Asked, RequestSteps
    <2>14. Given'
      BY <2>1, <2>2 DEF Inv, Given, NoJob, Threads, shared
    <2>15. Fresh'
      BY <1>1, <2>1, <2>2, <2>4, <2>5, ProxyAuthAssumption DEF Inv, Fresh, NoJob, shared
    <2>16. Alone'
      <3> SUFFICES ASSUME NEW x \in Sessions, page[x] = "waiting"
                   PROVE  Alone!(x)'
        BY <2>1 DEF Alone
      <3>1. \/ x # s
            \/ t = "reader" /\ \A i \in 1..n : inbox[i].on # s
        BY <2>5 DEF Inv, Alone, Threads
      <3>2. \A u \in Threads : job'[u] = job[u] \/ job'[u].on = None
        BY <2>2 DEF NoJob
      <3>3. CASE x = s
        BY <1>1, <2>1, <2>2, <2>4, <2>5, <2>6, <3>1, <3>2, <3>3, ProxyAuthAssumption
        DEF Inv, Alone, Intercepted, NoJob, Threads, shared
      <3>4. CASE x # s
        <4>1. \A i \in DOMAIN inbox' : inbox'[i].on = x =>
                i \in DOMAIN inbox /\ inbox'[i] = inbox[i]
          BY <2>4, <2>5, <3>4
        <4>2. x # None /\ \A i \in DOMAIN inbox : inbox[i].on = x => inbox[i].on # None
          BY ProxyAuthAssumption
        <4>3. Intercepted(x) => Intercepted(x)'
          BY <2>1, <2>6 DEF Intercepted
        <4>4. \A u \in Threads : job'[u].on = x => job'[u] = job[u]
          BY <3>2, <4>2
        <4> QED BY <2>1, <4>1, <4>3, <4>4 DEF Inv, Alone, Threads, shared
      <3> QED BY <3>3, <3>4
    <2>17. Held'
      <3>1. \A i \in DOMAIN inbox : i \in DOMAIN inbox' /\ inbox'[i] = inbox[i]
        BY <2>5
      <3>2. n + 1 \in DOMAIN inbox' /\ inbox'[n + 1].on = s /\ inbox'[n + 1].waiting = w
            /\ inbox'[n + 1].kind \in PageKinds
        BY <2>4, <2>5 DEF PageKinds
      <3>3. t = "reader" => job["reader"].on = s /\ job["reader"].waiting = w
        OBVIOUS
      <3>4. t = "main" => job'["reader"] = job["reader"]
        BY <2>2 DEF Threads
      <3> QED BY <1>1, <2>1, <2>2, <3>1, <3>2, <3>3, <3>4
              DEF Inv, Held, Waiting, Threads, shared
    <2> QED BY <2>7, <2>8, <2>9, <2>10, <2>11, <2>12, <2>13, <2>14, <2>15, <2>16, <2>17
            DEF Inv
  <1> QED BY <1>2, <1>3

\* Only the reader resumes pages.
LEMMA ResumeKeeps ==
  ASSUME Inv, NEW t \in Threads, Resume(t)
  PROVE  Inv'
  <1> DEFINE s == job[t].on
  <1>1. s \in Sessions /\ s # None /\ s \notin Requests /\ t = "reader"
    BY ProxyAuthAssumption DEF Inv, Resume, Sorted, Placed, PageSteps, Enabling, Threads
  <1>2. CASE ~Connected
    <2>1. Raise(t)
      BY <1>2 DEF Resume
    <2> QED BY <1>2, <2>1, RaiseKeeps DEF Resume, Fixed, browser
  <1>3. CASE Connected
    <2>1. /\ job' \in [Threads -> Jobs]
          /\ job'["reader"] = NoJob /\ job'["main"] = job["main"]
      BY <1>1, <1>3, Worked DEF Inv, Resume, Threads
    <2>2. /\ page' = [page EXCEPT ![s] = "free"]
          /\ ready' \in BOOLEAN
          /\ UNCHANGED <<main, todo, answered, reader, ws, stopping, sessions, error, credentials,
                         seen, open, inbox, fetching, request, provided, outcome>>
      BY <1>3, Typed DEF Inv, Resume, Fixed
    <2>3. /\ page' \in [Sessions -> {"none", "waiting", "free"}] /\ page'[s] = "free"
          /\ \A x \in Sessions \ {s} : page'[x] = page[x]
      BY <1>1, <2>2 DEF Inv, TypeOK
    <2>4. TypeOK'
      <3>1. inbox' \in Seq(Messages)
        BY <2>2, Typed DEF Inv
      <3> QED BY <2>1, <2>2, <2>3, <3>1, TypedNext, Typed DEF Inv, TypeOK
    <2>5. Sorted' /\ Placed' /\ Paired'
      BY <2>1, <2>2 DEF Inv, Sorted, Placed, Paired, NoJob, Threads, PageSteps, RequestSteps,
         Enabling
    <2>6. Met'
      BY <1>1, <2>1, <2>2 DEF Inv, Met, Known, NextIn, Beside, AtLimit, Resume, NoJob
    <2>7. Room' /\ Asked' /\ Given'
      BY <2>1, <2>2, ProxyAuthAssumption
      DEF Inv, Sorted, Room, Asked, Given, NoJob, Threads, RequestSteps
    <2>8. Fresh'
      BY <1>1, <2>1, <2>2, <2>3, ProxyAuthAssumption
      DEF Inv, TypeOK, Fresh, NoJob, Threads, Sorted
    <2>9. Alone'
      BY <2>1, <2>2, <2>3, ProxyAuthAssumption DEF Inv, Alone, Intercepted, NoJob
    <2>10. Held'
      BY <1>1, <2>1, <2>2, <2>3, ProxyAuthAssumption DEF Inv, Held, Waiting
    <2> QED BY <2>4, <2>5, <2>6, <2>7, <2>8, <2>9, <2>10 DEF Inv
  <1> QED BY <1>2, <1>3

LEMMA EnableSessionKeeps ==
  ASSUME Inv, NEW t \in Threads, EnableSession(t)
  PROVE  Inv'
  BY CheckKeeps, AddKeeps, EnableKeeps, ResumeKeeps DEF EnableSession

-----------------------------------------------------------------------------
(* The reader.                                                             *)

\* The oldest message is gone, and the reader has it in hand, or is free.
LEMMA ReceiveKeeps ==
  ASSUME Inv, Receive
  PROVE  Inv'
  <1> DEFINE m == inbox[1]
             n == Len(inbox)
             Take(step) == [step |-> step, on |-> m.on, waiting |-> m.waiting]
  <1>1. /\ inbox' \in Seq(Messages) /\ n \in Nat /\ n > 0 /\ Len(inbox') = n - 1
        /\ DOMAIN inbox = 1..n /\ DOMAIN inbox' = 1..(n - 1)
        /\ Head(inbox) = m /\ m \in Messages
        /\ \A i \in DOMAIN inbox' : i + 1 \in 1..n /\ inbox'[i] = inbox[i + 1]
    BY Popped DEF Inv, Receive
  <1>2. /\ reader = "alive" /\ job["reader"] = NoJob
        /\ UNCHANGED <<main, todo, reader, ws, stopping, sessions, credentials, open, page,
                       fetching, request, provided, outcome>>
    BY DEF Receive, Receiving
  <1>3. /\ m.kind \in PageKinds => m.on \in Sessions
        /\ m.kind \in RequestKinds => m.on \in Requests
    BY <1>1 DEF Inv, Sorted
  \* What came of the message.
  <1>4. /\ job' \in [Threads -> Jobs] /\ job'["main"] = job["main"]
        /\ \/ job'["reader"] = NoJob
           \/ /\ job'["reader"].on = m.on /\ job'["reader"].waiting = m.waiting
              /\ job'["reader"].step \in {"check", "release", "continue", "provide", "refuse"}
        /\ job'["reader"] = NoJob =>
             \/ m.kind = "answer"
             \/ m.kind = "enabled" /\ ~m.waiting
             \/ m.kind = "refused" /\ error'
        /\ job'["reader"].step = "check" <=> m.kind = "attached"
        /\ job'["reader"].step = "release" => m.kind = "enabled"
        /\ job'["reader"].step = "continue" => m.kind = "paused"
        /\ job'["reader"].step = "provide" => m.kind = "proxy" /\ m.on \in seen' \ seen
        /\ job'["reader"].step = "refuse" => m.kind \in {"proxy", "origin"}
    <2>1. job \in [Threads -> Jobs]
      BY Typed DEF Inv
    <2>2. ASSUME NEW step \in {"check", "release", "continue", "provide", "refuse"}, Start(step)
          PROVE  /\ job' \in [Threads -> Jobs] /\ job'["main"] = job["main"]
                 /\ job'["reader"].on = m.on /\ job'["reader"].waiting = m.waiting
                 /\ job'["reader"].step = step /\ job'["reader"] # NoJob
      <3>1. Take(step) \in Jobs
        BY <1>1 DEF Messages, Jobs, PageSteps, RequestSteps, Enabling
      <3>2. job' = [job EXCEPT !["reader"] = Take(step)]
        BY <1>1, <2>2 DEF Start
      <3> QED BY <2>1, <3>1, <3>2 DEF Threads, NoJob
    <2>3. CASE m.kind \in RequestKinds \ {"paused"}
      <3>1. HandleChallenge(m.on) /\ m.kind \in {"proxy", "origin"}
        BY <1>1, <2>3 DEF Receive, RequestKinds
      <3>2. Cardinality(seen) \in Nat /\ MaxAuthRequests \in Nat
        BY FS_CardinalityType, ProxyAuthAssumption DEF Inv, Room
      <3>3. CASE m.kind = "proxy" /\ FirstChallenge(m.on) /\ credentials
        <4>1. Start("provide") /\ m.on \in seen' \ seen
          BY <1>1, <3>1, <3>2, <3>3 DEF HandleChallenge, FirstChallenge
        <4> QED BY <2>2, <3>3, <4>1
      <3>4. CASE ~(m.kind = "proxy" /\ FirstChallenge(m.on) /\ credentials)
        <4>1. Start("refuse")
          BY <1>1, <3>1, <3>4 DEF HandleChallenge
        <4> QED BY <2>2, <3>1, <4>1
      <3> QED BY <3>3, <3>4
    <2>4. CASE m.kind = "paused"
      BY <1>1, <2>2, <2>4 DEF Receive, HandleMessage
    <2>5. CASE m.kind = "attached"
      BY <1>1, <2>2, <2>5 DEF Receive, HandleMessage
    <2>6. CASE m.kind = "enabled" /\ m.waiting
      BY <1>1, <2>2, <2>6 DEF Receive, HandleMessage
    <2>7. CASE m.kind \in {"answer", "refused"} \/ (m.kind = "enabled" /\ ~m.waiting)
      <3>1. HandleMessage
        BY <1>1, <2>7 DEF Receive
      <3>2. job' = job
        BY <1>1, <2>7, <3>1 DEF HandleMessage
      <3>3. m.kind = "refused" => error'
        BY <1>1, <3>1 DEF HandleMessage, Refusal
      <3> QED BY <1>2, <2>1, <2>7, <3>2, <3>3 DEF NoJob
    <2> QED BY <1>1, <2>3, <2>4, <2>5, <2>6, <2>7 DEF Messages, PageKinds, RequestKinds
  <1>5. /\ answered' \in BOOLEAN /\ ready' \in BOOLEAN /\ error' \in BOOLEAN
        /\ error => error'
        /\ m.kind # "answer" => answered' = answered
        /\ m.kind = "answer" => answered' = (main \in {"auto", "attach"})
    <2>1. CASE m.kind \in {"proxy", "origin"}
      BY <1>1, <2>1, Typed DEF Inv, Receive, HandleChallenge
    <2>2. CASE m.kind \notin {"proxy", "origin"}
      <3>1. HandleMessage
        BY <1>1, <2>2 DEF Receive
      <3>2. /\ answered \in BOOLEAN /\ ready \in BOOLEAN /\ error \in BOOLEAN
            /\ (main \in {"auto", "attach"}) \in BOOLEAN
        BY Typed DEF Inv
      <3>3. CASE m.kind \in {"answer", "attached", "paused"}
        BY <1>1, <3>1, <3>2, <3>3 DEF HandleMessage
      <3>4. CASE m.kind = "enabled"
        BY <1>1, <3>1, <3>2, <3>4 DEF HandleMessage
      <3>5. CASE m.kind = "refused"
        BY <1>1, <3>1, <3>2, <3>5 DEF HandleMessage, Refusal
      <3> QED BY <1>1, <2>2, <3>3, <3>4, <3>5 DEF Messages, PageKinds, RequestKinds
    <2> QED BY <2>1, <2>2
  <1>6. /\ seen \subseteq seen' /\ seen' \subseteq Requests
        /\ IsFiniteSet(seen') /\ Cardinality(seen') <= MaxAuthRequests
    <2>1. CASE seen' = seen
      BY <2>1 DEF Inv, TypeOK, Room
    <2>2. CASE seen' # seen
      <3>1. /\ m.kind \in {"proxy", "origin"} /\ seen' = seen \cup {m.on} /\ m.on \notin seen
            /\ ~(Cardinality(seen) >= MaxAuthRequests)
        BY <1>1, <2>2 DEF Receive, HandleChallenge
      <3>2. IsFiniteSet(seen') /\ Cardinality(seen') = Cardinality(seen) + 1
        BY <3>1, FS_AddElement DEF Inv, Room
      <3>3. Cardinality(seen) \in Nat /\ MaxAuthRequests \in Nat
        BY FS_CardinalityType, ProxyAuthAssumption DEF Inv, Room
      <3> QED BY <1>3, <3>1, <3>2, <3>3 DEF Inv, TypeOK, RequestKinds
    <2> QED BY <2>1, <2>2
  <1>7. TypeOK'
    BY <1>1, <1>2, <1>4, <1>5, <1>6, TypedNext, Typed DEF Inv, TypeOK
  <1>8. Sorted'
    <2>1. \A i \in DOMAIN inbox' : inbox'[i] = inbox[i + 1] /\ i + 1 \in DOMAIN inbox
      BY <1>1
    <2>2. /\ job'["reader"].step = "none" => job'["reader"] = NoJob
          /\ job'["reader"].step \in PageSteps => job'["reader"].on \in Sessions
          /\ job'["reader"].step \in RequestSteps => job'["reader"].on \in Requests
      BY <1>3, <1>4 DEF NoJob, PageSteps, RequestSteps, Enabling, PageKinds, RequestKinds
    <2> QED BY <1>4, <2>1, <2>2 DEF Inv, Sorted, Threads
  <1>9. Placed'
    BY <1>2, <1>4, <1>5 DEF Inv, Placed, NoJob
  <1>10. Paired'
    BY <1>1, <1>2, <1>5 DEF Inv, Paired
  <1>11. Met'
    <2> PICK s : s = job["main"].on
      OBVIOUS
    <2>1. \A x : Known(x) => Known(x)'
      BY <1>2, <1>4 DEF Known, AtLimit, NoJob
    <2>2. ASSUME NEW x, m.kind = "attached", x = m.on
          PROVE  Known(x)'
      BY <1>4, <2>2 DEF Known, NoJob
    <2>3. NextIn(s) => Known(s)'
      BY <1>1, <2>2 DEF NextIn
    <2>4. ASSUME NEW i \in DOMAIN inbox', Beside(i + 1, s)
          PROVE  Known(s)' \/ Beside(i, s)'
      BY <1>1, <1>4, <2>2, <2>4 DEF Beside
    <2>5. ASSUME m.kind = "answer", Beside(1, s)
          PROVE  NextIn(s)'
      BY <1>1, <1>2, <1>4, <2>5, Typed DEF Beside, NextIn
    <2> QED BY <1>1, <1>2, <1>4, <1>5, <2>1, <2>3, <2>4, <2>5 DEF Inv, Met, Paired
  <1>12. Room'
    BY <1>2, <1>4, <1>6 DEF Inv, Room, Threads
  <1>13. Asked'
    <2>1. ASSUME open, NEW i \in DOMAIN inbox', inbox'[i].kind \in RequestKinds
          PROVE  /\ request[inbox'[i].on] = inbox'[i].kind
                 /\ job'["reader"].on # inbox'[i].on
      <3>1. inbox'[i] = inbox[i + 1] /\ i + 1 \in DOMAIN inbox /\ i + 1 # 1 /\ 1 \in DOMAIN inbox
            /\ inbox'[i].on \in Requests
        BY <1>1, <2>1 DEF Inv, Sorted
      <3>2. inbox'[i].on # m.on /\ inbox'[i].on # None
        BY <2>1, <3>1, ProxyAuthAssumption DEF Inv, Asked
      <3> QED BY <1>4, <2>1, <3>1, <3>2 DEF Inv, Asked, NoJob
    <2>2. open => \A i, j \in DOMAIN inbox' :
                    inbox'[i].on = inbox'[j].on /\ inbox'[i].on \in Requests => i = j
      BY <1>1 DEF Inv, Asked
    <2>3. open /\ job'["reader"].step \in RequestSteps =>
            /\ request[job'["reader"].on] \in RequestKinds
            /\ job'["reader"].step = "provide" => request[job'["reader"].on] = "proxy"
      BY <1>1, <1>4 DEF Inv, Asked, RequestSteps, RequestKinds, NoJob
    <2> QED BY <1>2, <2>1, <2>2, <2>3 DEF Asked, RequestSteps
  <1>14. Given'
    BY <1>2, <1>4, <1>6 DEF Inv, Given, NoJob
  <1>15. Fresh'
    <2>1. \A x \in Sessions : page[x] = "none" => m.on # x /\ x # None
      BY <1>1, ProxyAuthAssumption DEF Inv, Fresh
    <2> QED BY <1>1, <1>2, <1>4, <2>1 DEF Inv, Fresh, Threads, NoJob
  <1>16. Alone'
    <2> SUFFICES ASSUME NEW x \in Sessions, page[x] = "waiting"
                 PROVE  Alone!(x)'
      BY <1>2 DEF Alone
    <2>1. \A i \in DOMAIN inbox' :
            inbox'[i] = inbox[i + 1] /\ i + 1 \in DOMAIN inbox /\ i + 1 # 1
      BY <1>1
    <2>2. CASE m.on = x
      <3>1. \A i \in DOMAIN inbox' : inbox'[i].on # x
        BY <1>1, <2>1, <2>2 DEF Inv, Alone
      <3> QED BY <1>1, <1>2, <1>4, <1>5, <2>2, <3>1 DEF Inv, Alone, Intercepted, NoJob
    <2>3. CASE m.on # x
      <3>1. job'["reader"].on # x
        BY <1>4, <2>3, ProxyAuthAssumption DEF NoJob
      <3>2. \A i, j \in DOMAIN inbox' : inbox'[i].on = x /\ inbox'[j].on = x => i = j
        BY <1>1, <2>1 DEF Inv, Alone
      <3>3. Intercepted(x) => Intercepted(x)'
        BY <1>2 DEF Intercepted
      <3> QED BY <1>2, <1>4, <2>1, <3>1, <3>2, <3>3 DEF Inv, Alone
    <2> QED BY <2>2, <2>3
  <1>17. Held'
    <2>1. \A i \in DOMAIN inbox : i = 1 \/ (i - 1 \in DOMAIN inbox' /\ inbox'[i - 1] = inbox[i])
      BY <1>1
    <2>2. job["reader"].on = None
      BY <1>2 DEF NoJob
    <2>3. ASSUME NEW x \in Sessions, page[x] = "waiting", open, ~error', ~stopping
          PROVE  \/ \E i \in DOMAIN inbox' : inbox'[i].on = x /\ inbox'[i].waiting
                                              /\ inbox'[i].kind \in PageKinds
                 \/ job'["reader"].on = x /\ job'["reader"].waiting
      <3>1. PICK i \in DOMAIN inbox : inbox[i].on = x /\ inbox[i].waiting
                                       /\ inbox[i].kind \in PageKinds
        BY <1>2, <1>5, <2>2, <2>3, ProxyAuthAssumption DEF Inv, Held
      <3>2. CASE i = 1
        BY <1>4, <2>3, <3>1, <3>2 DEF PageKinds, NoJob
      <3>3. CASE i # 1
        BY <2>1, <3>1, <3>3
      <3> QED BY <3>2, <3>3
    <2>4. ASSUME NEW r \in Requests, request[r] \in RequestKinds, open, ~error', ~stopping
          PROVE  \/ \E i \in DOMAIN inbox' : inbox'[i].on = r /\ inbox'[i].kind \in RequestKinds
                 \/ job'["reader"].on = r /\ job'["reader"].step \in RequestSteps
      <3>1. PICK i \in DOMAIN inbox : inbox[i].on = r /\ inbox[i].kind \in RequestKinds
        BY <1>2, <1>5, <2>2, <2>4, ProxyAuthAssumption DEF Inv, Held
      <3>2. CASE i = 1
        BY <1>4, <2>4, <3>1, <3>2 DEF RequestKinds, RequestSteps, NoJob
      <3>3. CASE i # 1
        BY <2>1, <3>1, <3>3
      <3> QED BY <3>2, <3>3
    <2> QED BY <1>2, <2>3, <2>4 DEF Inv, Held, Waiting
  <1> QED BY <1>7, <1>8, <1>9, <1>10, <1>11, <1>12, <1>13, <1>14, <1>15, <1>16, <1>17 DEF Inv

LEMMA ReplyKeeps ==
  ASSUME Inv, Reply
  PROVE  Inv'
  <1> DEFINE r == job["reader"].on
  <1>1. r \in Requests /\ r \notin Sessions /\ r # None
    BY ProxyAuthAssumption DEF Inv, Reply, Sorted, Threads, RequestSteps
  <1>2. CASE ~Connected
    <2>1. Raise("reader") /\ UNCHANGED <<request, provided>>
      BY <1>2 DEF Reply
    <2> QED BY <1>2, <2>1, RaiseKeeps DEF Reply, browser, Threads
  <1>3. CASE Connected
    <2>1. /\ job' \in [Threads -> Jobs]
          /\ job'["reader"] = NoJob /\ job'["main"] = job["main"]
      BY <1>3, Worked DEF Inv, Reply, Threads
    <2>2. /\ request' = [request EXCEPT ![r] =
                           IF job["reader"].step = "refuse" THEN "done" ELSE "sent"]
          /\ provided' = IF job["reader"].step = "provide" THEN provided \cup {r}
                                                           ELSE provided
          /\ UNCHANGED <<main, todo, answered, reader, ws, stopping, sessions, ready, error,
                         credentials, seen, open, inbox, page, fetching, outcome>>
      BY <1>3 DEF Reply
    <2>3. /\ request' \in [Requests -> {"new", "paused", "sent", "proxy", "origin", "done"}]
          /\ request'[r] \in {"sent", "done"}
          /\ \A x \in Requests \ {r} : request'[x] = request[x]
      BY <1>1, <2>2 DEF Inv, TypeOK
    <2>4. TypeOK'
      <3>1. inbox' \in Seq(Messages)
        BY <2>2, Typed DEF Inv
      <3>2. provided' \subseteq Requests
        BY <1>1, <2>2 DEF Inv, TypeOK
      <3> QED BY <2>1, <2>2, <2>3, <3>1, <3>2, TypedNext, Typed DEF Inv, TypeOK
    <2>5. Sorted' /\ Placed' /\ Paired'
      BY <2>1, <2>2 DEF Inv, Sorted, Placed, Paired, NoJob, Threads, PageSteps, RequestSteps,
         Enabling, Reply
    <2>6. Met' /\ Room'
      BY <1>1, <2>1, <2>2
      DEF Inv, Met, Room, Known, NextIn, Beside, AtLimit, Reply, NoJob, Threads
    <2>7. Asked'
      <3>1. \A i \in DOMAIN inbox : inbox[i].kind \in RequestKinds =>
              inbox[i].on \in Requests /\ inbox[i].on # None
        BY ProxyAuthAssumption DEF Inv, Sorted
      <3> QED BY <2>1, <2>2, <2>3, <3>1 DEF Inv, Asked, NoJob, RequestSteps
    <2>8. Given'
      BY <2>1, <2>2 DEF Inv, Given, NoJob
    <2>9. Fresh' /\ Alone'
      BY <2>1, <2>2, ProxyAuthAssumption
      DEF Inv, Fresh, Alone, Intercepted, NoJob, Threads
    <2>10. Held'
      BY <1>1, <1>3, <2>1, <2>2, <2>3 DEF Inv, Held, Waiting, Connected, RequestKinds
    <2> QED BY <2>4, <2>5, <2>6, <2>7, <2>8, <2>9, <2>10 DEF Inv
  <1> QED BY <1>2, <1>3

LEMMA ReaderEndsKeeps ==
  ASSUME Inv, ReaderEnds
  PROVE  Inv'
  <1>1. TypeOK'
    BY DEF Inv, TypeOK, ReaderEnds, Receiving, browser
  <1>2. main # "idle"
    BY DEF Inv, Placed, ReaderEnds, Receiving
  <1>3. error => error'
    BY DEF ReaderEnds
  <1>4. /\ reader' = "ended" /\ job["reader"] = NoJob
        /\ UNCHANGED <<main, todo, answered, job, ws, stopping, sessions, credentials, seen,
                       browser, provided, outcome>>
    BY DEF ReaderEnds, Receiving
  <1> QED BY <1>1, <1>2, <1>3, <1>4, ReaderStops DEF browser

-----------------------------------------------------------------------------
LEMMA InvInit == Init => Inv
  <1> SUFFICES ASSUME Init PROVE Inv
    OBVIOUS
  <1>1. Cardinality({}) = 0 /\ IsFiniteSet({})
    BY FS_EmptySet
  <1>2. DOMAIN inbox = {} /\ inbox \in Seq(Messages)
    BY DEF Init
  <1>3. TypeOK
    <2>1. MaxSessions >= 0 /\ MaxAuthRequests >= 0
      BY ProxyAuthAssumption
    <2>2. job \in [Threads -> Jobs]
      BY DEF Init, NoJob, Threads, Jobs, Subjects
    <2>3. /\ job \in [Threads -> [step : {"none", "attached", "check", "add", "enable",
                                         "resume", "release", "continue", "provide",
                                         "refuse"},
                                 on : Sessions \cup Requests \cup {None},
                                 waiting : BOOLEAN]]
          /\ inbox \in Seq([kind : {"attached", "enabled", "refused", "answer", "paused",
                                    "proxy", "origin"},
                            on : Sessions \cup Requests \cup {None},
                            waiting : BOOLEAN])
      BY <1>2, <2>2 DEF Jobs, Messages, Subjects, PageSteps, RequestSteps, Enabling, PageKinds,
         RequestKinds
    <2> QED BY <1>1, <2>1, <2>3 DEF Init, TypeOK
  <1>4. Sorted /\ Placed /\ Paired
    BY <1>2 DEF Init, Sorted, Placed, Paired, NoJob, Threads, PageSteps, RequestSteps, Enabling
  <1>5. Met /\ Room
    BY <1>1, <1>2 DEF Init, Met, Room, NoJob, Threads
  <1>6. Asked /\ Given /\ Fresh
    BY <1>2, ProxyAuthAssumption DEF Init, Asked, Given, Fresh, NoJob, Threads
  <1>7. Alone /\ Held
    BY <1>2 DEF Init, Alone, Held, Waiting
  <1> QED BY <1>3, <1>4, <1>5, <1>6, <1>7 DEF Inv

LEMMA InvNext == Inv /\ [Next]_vars => Inv'
  <1> SUFFICES ASSUME Inv, [Next]_vars PROVE Inv'
    OBVIOUS
  <1>1. CASE Main
    BY <1>1, ConnectKeeps, ConnectFailsKeeps, ListTargetsKeeps, AttachKeeps,
       AttachAnsweredKeeps, RequestFailsKeeps, EnableSessionKeeps, WaitsKeep, CloseKeeps,
       JoinKeeps DEF Main, Threads
  <1>2. CASE Reader
    BY <1>2, ReceiveKeeps, EnableSessionKeeps, ReplyKeeps, ReaderEndsKeeps
    DEF Reader, Threads
  <1>3. CASE Browser
    BY <1>3, OpenPageKeeps, PauseRequestKeeps, ChallengeRequestKeeps, BrowserDiesKeeps
    DEF Browser
  <1>4. CASE UNCHANGED vars
    <2> USE <1>4 DEF Inv, vars, threads, shared, browser
    <2>1. TypeOK' /\ Sorted' /\ Placed' /\ Paired'
      BY DEF TypeOK, Sorted, Placed, Paired
    <2>2. Met' /\ Room' /\ Asked' /\ Given'
      BY DEF Met, Known, NextIn, Beside, AtLimit, Room, Asked, Given
    <2>3. Fresh' /\ Alone' /\ Held'
      BY DEF Fresh, Alone, Intercepted, Held, Waiting
    <2> QED BY <2>1, <2>2, <2>3
  <1> QED BY <1>1, <1>2, <1>3, <1>4 DEF Next

LEMMA InvAlways == Spec => []Inv
  BY InvInit, InvNext, PTL DEF Spec

-----------------------------------------------------------------------------
\* Every variable has its type, and the sessions and the requests stay within
\* their limits though two threads add sessions without a lock
\* (proxy_auth.py:282-310, 389-413).
THEOREM TypeCorrect == Spec => []TypeOK
  <1>1. Inv => TypeOK
    BY DEF Inv
  <1> QED BY <1>1, InvAlways, PTL

\* No page and no request that waits for the bridge is forgotten
\* (proxy_auth.py:282-310, 343-413).
THEOREM NobodyForgotten == Spec => []WaitersAttended
  <1>1. Inv => WaitersAttended
    <2> SUFFICES ASSUME Inv, open, reader = "alive", ~error, ~stopping, NEW x \in Waiting
                 PROVE  Attended(x)
      BY DEF WaitersAttended
    <2>1. CASE x \in Sessions
      BY <2>1, ProxyAuthAssumption
      DEF Inv, Held, Waiting, Attended, Unread, Working, Threads, PageKinds
    <2>2. CASE x \in Requests
      BY <2>2, ProxyAuthAssumption
      DEF Inv, Held, Waiting, Attended, Unread, Working, Threads, RequestKinds
    <2> QED BY <2>1, <2>2 DEF Waiting
  <1> QED BY <1>1, InvAlways, PTL

\* A request gets the credentials once, for a challenge of the proxy
\* (proxy_auth.py:389-413).
THEOREM ProvidedOnce == Spec => CredentialsOnce
  <1> DEFINE r == job["reader"].on
             A == job["reader"].step = "provide" /\ request' # request /\ open'
                    => r \notin provided /\ request[r] = "proxy"
  <1>1. Inv /\ [Next]_vars => [A]_vars
    <2> SUFFICES ASSUME Inv, Next, job["reader"].step = "provide", request' # request, open'
                 PROVE  r \notin provided /\ request[r] = "proxy"
      OBVIOUS
    <2>1. job["reader"] # NoJob /\ main # "idle"
      BY DEF Inv, Placed, NoJob
    <2>2. open
      <3>1. CASE Main
        BY <2>1, <3>1 DEF Main, Connect, ConnectFails, ListTargets, Attach, AttachAnswered,
           RequestFails, EnableSession, Check, Add, Enable, Resume, AllAttached, AwaitReady,
           BodyEnds, Disable, Close, Disconnect, Join, Fixed, browser
      <3>2. CASE Reader
        BY <3>2 DEF Reader, Receive, EnableSession, Check, Add, Enable, Resume, Reply,
           ReaderEnds, Fixed, browser
      <3>3. CASE Browser
        BY <3>3 DEF Browser, OpenPage, PauseRequest, ChallengeRequest, BrowserDies, Disconnect
      <3> QED BY <3>1, <3>2, <3>3 DEF Next
    <2> QED BY <2>2 DEF Inv, Placed, Asked, Given, RequestSteps
  <1> QED BY <1>1, InvAlways, PTL DEF Spec, CredentialsOnce

\* A new page is intercepted before it runs, unless there are too many sessions,
\* or the bridge is being stopped (proxy_auth.py:282-310).
THEOREM ResumedIsHandled == Spec => ResumedHandled
  <1> DEFINE A == \A s \in Sessions :
                    page[s] = "waiting" /\ page'[s] = "free" /\ open'
                      => \/ s \in fetching
                         \/ (s \notin sessions /\ error)
                         \/ main = "close"
  <1>1. Inv /\ [Next]_vars => [A]_vars
    <2> SUFFICES ASSUME Inv, Next, NEW s \in Sessions,
                        page[s] = "waiting", page'[s] = "free", open'
                 PROVE  \/ s \in fetching
                        \/ (s \notin sessions /\ error)
                        \/ main = "close"
      OBVIOUS
    <2>1. page' # page
      OBVIOUS
    <2>2. CASE \E t \in Threads : Resume(t)
      <3>1. PICK t \in Threads : Resume(t)
        BY <2>2
      <3>2. t = "reader"
        BY <3>1 DEF Inv, Resume, Placed, Enabling, Threads
      <3>3. job["reader"].on = s
        BY <2>1, <3>1, <3>2 DEF Inv, TypeOK, Resume
      <3> QED BY <3>1, <3>2, <3>3 DEF Inv, Resume, Alone, Intercepted
    <2>3. CASE Attach
      BY <2>3 DEF Inv, TypeOK, Fresh, Attach
    <2>4. CASE OpenPage
      BY <2>4 DEF Inv, TypeOK, OpenPage
    <2>5. CASE Connect \/ Close \/ BrowserDies
      BY <2>1, <2>5 DEF Connect, Close, BrowserDies, Disconnect
    <2>6. CASE Main /\ ~Attach /\ ~Connect /\ ~Close /\ ~\E t \in Threads : Resume(t)
      BY <2>1, <2>6 DEF Main, ConnectFails, ListTargets, AttachAnswered, RequestFails,
         EnableSession, Check, Add, Enable, AllAttached, AwaitReady, BodyEnds, Disable, Join,
         Fixed, browser, Threads
    <2>7. CASE Reader /\ ~\E t \in Threads : Resume(t)
      BY <2>1, <2>7 DEF Reader, Receive, EnableSession, Check, Add, Enable, Reply,
         ReaderEnds, Fixed, browser, Threads
    <2>8. CASE PauseRequest \/ ChallengeRequest
      BY <2>1, <2>8 DEF PauseRequest, ChallengeRequest
    <2> QED BY <2>2, <2>3, <2>4, <2>5, <2>6, <2>7, <2>8 DEF Next, Browser
  <1> QED BY <1>1, InvAlways, PTL DEF Spec, ResumedHandled
=============================================================================
