----------------------------- MODULE ProxyAuth -----------------------------
(***************************************************************************)
(* The bridge that answers a proxy's challenges while final.py runs        *)
(* (proxy_auth.py).  The main thread connects to the browser, attaches     *)
(* itself to its pages, runs the body and stops; a reader thread handles   *)
(* the browser's messages in their order.  Both intercept the requests of  *)
(* a session (_enable_session), and share `_sessions`, `_reader_error` and *)
(* `_ready` without a lock.                                                *)
(*                                                                         *)
(* The browser is external: it attaches the bridge to every page, to a new *)
(* one before it runs (waitForDebuggerOnStart), and a request of an        *)
(* intercepted session is paused or challenged until it is answered.  A    *)
(* command takes effect when it is sent, and the answer joins the messages *)
(* the reader has not read; that it comes late is the reader's delay.      *)
(***************************************************************************)
EXTENDS Naturals, FiniteSets, Sequences

CONSTANTS Sessions, Requests, None,
          MaxSessions,       \* _MAX_SESSIONS
          MaxAuthRequests,   \* _MAX_AUTH_REQUESTS
          MaxMessages        \* bound: the browser adds no event beyond it

ASSUME ProxyAuthAssumption ==
  /\ None \notin Sessions \cup Requests
  /\ Sessions \cap Requests = {}
  /\ {MaxSessions, MaxAuthRequests, MaxMessages} \subseteq Nat \ {0}

\* The controller.
VARIABLES
  main,         \* where the main thread is
  todo,         \* the targets that start has still to attach to
  answered,     \* the reply to the main thread's request has come
  reader,       \* the reader thread
  job,          \* what each thread is doing, and on which session or request
  ws,           \* there is a _ws
  stopping,     \* _stop
  sessions, ready, error, credentials,
  seen          \* the requests in _auth_seen

\* The browser.
VARIABLES
  open,         \* the connection
  inbox,        \* messages the reader has not received
  page,         \* a session's page: waiting for the debugger, or free to run
  fetching,     \* the sessions whose requests are intercepted
  request       \* the state of each request

\* History: nothing in the code reads these.
VARIABLES
  provided,     \* the requests that were given the credentials
  outcome       \* of proxy_auth_session

threads == <<main, todo, answered, reader, job, ws, stopping>>
shared == <<sessions, ready, error, credentials, seen>>
browser == <<open, inbox, page, fetching, request>>
vars == <<threads, shared, browser, provided, outcome>>

Threads == {"main", "reader"}
NoJob == [step |-> "none", on |-> None, waiting |-> FALSE]

Attached(s, w) == [kind |-> "attached", on |-> s, waiting |-> w]
Enabled(s, w) == [kind |-> "enabled", on |-> s, waiting |-> w]
Refused(s, w) == [kind |-> "refused", on |-> s, waiting |-> w]
Answer == [kind |-> "answer", on |-> None, waiting |-> FALSE]
Paused(r) == [kind |-> "paused", on |-> r, waiting |-> FALSE]
\* A challenge of the configured proxy, or of anything else.
Challenge(r, proxy) ==
  [kind |-> IF proxy THEN "proxy" ELSE "origin", on |-> r, waiting |-> FALSE]

\* The sessions stay within their limit, though each thread tests it first and
\* adds then: the two meet only on the same session.
TypeOK ==
  /\ main \in {"idle", "auto", "next", "attach", "ready", "body", "disable",
               "close", "join", "done"}
  /\ todo \subseteq Sessions
  /\ reader \in {"none", "alive", "ended"}
  /\ job \in [Threads -> [step : {"none", "attached", "check", "add", "enable",
                                  "resume", "release", "continue", "provide",
                                  "refuse"},
                          on : Sessions \cup Requests \cup {None},
                          waiting : BOOLEAN]]
  /\ {answered, ws, stopping, ready, error, credentials, open} \subseteq BOOLEAN
  /\ sessions \subseteq Sessions /\ Cardinality(sessions) <= MaxSessions
  /\ seen \subseteq Requests /\ Cardinality(seen) <= MaxAuthRequests
  /\ inbox \in Seq([kind : {"attached", "enabled", "refused", "answer", "paused",
                            "proxy", "origin"},
                    on : Sessions \cup Requests \cup {None},
                    waiting : BOOLEAN])
  /\ page \in [Sessions -> {"none", "waiting", "free"}]
  /\ fetching \subseteq Sessions
  /\ request \in [Requests -> {"new", "paused", "sent", "proxy", "origin", "done"}]
  /\ provided \subseteq Requests
  /\ outcome \in {"none", "ok", "failed"}

Init ==
  /\ main = "idle" /\ todo = {} /\ answered = FALSE
  /\ reader = "none" /\ job = [t \in Threads |-> NoJob]
  /\ ws = FALSE /\ stopping = FALSE
  /\ sessions = {} /\ ready = FALSE /\ error = FALSE /\ credentials = FALSE
  /\ seen = {}
  /\ open = FALSE /\ inbox = <<>> /\ page = [s \in Sessions |-> "none"]
  /\ fetching = {} /\ request = [r \in Requests |-> "new"]
  /\ provided = {} /\ outcome = "none"

-----------------------------------------------------------------------------
(* What both threads do.                                                   *)

Do(t, step) == job' = [job EXCEPT ![t].step = step]
Done(t) == job' = [job EXCEPT ![t] = NoJob]

\* _send raises when there is no socket or it is closed.
Connected == ws /\ open

\* An exception ends the reader ("cdp_handler" unless it is being stopped),
\* and makes start stop the bridge.
Raise(t) ==
  /\ Done(t)
  /\ IF t = "reader"
       THEN /\ reader' = "ended"
            /\ ready' = TRUE
            /\ error' = (error \/ ~stopping)
            /\ UNCHANGED <<main, outcome>>
       ELSE /\ main' = "disable"
            /\ outcome' = "failed"
            /\ UNCHANGED <<reader, ready, error>>

\* The rest of the state that a step of _enable_session leaves alone.
Fixed == UNCHANGED <<todo, answered, ws, stopping, credentials, seen, provided>>

\* Mutant: the limit lets one session more in.
AtLimitLate == Cardinality(sessions) > MaxSessions

AtLimit == Cardinality(sessions) >= MaxSessions

\* A session that is known, or beyond the limit, is at most resumed.
Check(t) ==
  /\ job[t].step = "check"
  /\ IF job[t].on \in sessions \/ AtLimit
       THEN /\ error' = (error \/ job[t].on \notin sessions)
            /\ IF job[t].waiting THEN Do(t, "resume") ELSE Done(t)
       ELSE /\ Do(t, "add")
            /\ UNCHANGED error
  /\ Fixed
  /\ UNCHANGED <<main, reader, sessions, ready, browser, outcome>>

Add(t) ==
  /\ job[t].step = "add"
  /\ sessions' = sessions \cup {job[t].on}
  /\ Do(t, "enable")
  /\ Fixed
  /\ UNCHANGED <<main, reader, ready, error, browser, outcome>>

\* Mutant: the page is resumed after the command, not after its answer.
EnableHasty(t) ==
  /\ job[t].step = "enable"
  /\ Connected
  /\ inbox' = Append(inbox, Refused(job[t].on, FALSE))
  /\ IF job[t].waiting THEN Do(t, "resume") ELSE Done(t)
  /\ Fixed
  /\ UNCHANGED <<main, reader, sessions, ready, error, open, page, fetching, request,
                 outcome>>

\* Fetch.enable: the browser takes it or answers with an error.
Enable(t) ==
  /\ job[t].step = "enable"
  /\ \/ /\ Connected
        /\ \/ /\ fetching' = fetching \cup {job[t].on}
              /\ inbox' = Append(inbox, Enabled(job[t].on, job[t].waiting))
           \/ /\ inbox' = Append(inbox, Refused(job[t].on, job[t].waiting))
              /\ UNCHANGED fetching
        /\ Done(t)
        /\ UNCHANGED <<main, reader, ready, error, outcome>>
     \/ /\ ~Connected
        /\ Raise(t)
        /\ UNCHANGED <<fetching, inbox>>
  /\ Fixed
  /\ UNCHANGED <<sessions, open, page, request>>

\* Runtime.runIfWaitingForDebugger; in the callback of Fetch.enable
\* ("release") the bridge is ready then.
Resume(t) ==
  /\ job[t].step \in {"resume", "release"}
  /\ \/ /\ Connected
        /\ page' = [page EXCEPT ![job[t].on] = "free"]
        /\ ready' = (ready \/ job[t].step = "release")
        /\ Done(t)
        /\ UNCHANGED <<main, reader, error, outcome>>
     \/ /\ ~Connected
        /\ Raise(t)
        /\ UNCHANGED page
  /\ Fixed
  /\ UNCHANGED <<sessions, open, inbox, fetching, request>>

EnableSession(t) == Check(t) \/ Add(t) \/ Enable(t) \/ Resume(t)

-----------------------------------------------------------------------------
(* The reader thread.                                                      *)

Receiving == reader = "alive" /\ job["reader"] = NoJob

Start(step) ==
  job' = [job EXCEPT !["reader"] =
            [step |-> step, on |-> Head(inbox).on, waiting |-> Head(inbox).waiting]]

\* Mutant: the callback of Fetch.enable only returns when it has an error.
RefusalIgnored == UNCHANGED error

\* "fetch_enable"; the page is not resumed.
Refusal == error' = TRUE

\* A reply wakes the main thread if it still waits; a session is intercepted;
\* the callback of Fetch.enable resumes its page; a paused request continues.
HandleMessage ==
  CASE Head(inbox).kind = "answer" ->
         /\ answered' = (main \in {"auto", "attach"})
         /\ UNCHANGED <<job, ready, error>>
    [] Head(inbox).kind = "attached" ->
         /\ Start("check")
         /\ UNCHANGED <<answered, ready, error>>
    [] Head(inbox).kind = "enabled" /\ Head(inbox).waiting ->
         /\ Start("release")
         /\ UNCHANGED <<answered, ready, error>>
    [] Head(inbox).kind = "enabled" /\ ~Head(inbox).waiting ->
         /\ ready' = TRUE
         /\ UNCHANGED <<answered, job, error>>
    [] Head(inbox).kind = "refused" ->
         /\ Refusal
         /\ UNCHANGED <<answered, job, ready>>
    [] Head(inbox).kind = "paused" ->
         /\ Start("continue")
         /\ UNCHANGED <<answered, ready, error>>

\* Mutant: a challenge that comes back is answered like the first.
FirstChallengeAlways(r) == TRUE

\* The count is 1: the request is new, and there is room for it.
FirstChallenge(r) == r \notin seen /\ Cardinality(seen) < MaxAuthRequests

\* _handle_auth_required up to its answer.
HandleChallenge(r) ==
  /\ IF r \notin seen /\ Cardinality(seen) >= MaxAuthRequests
       THEN error' = TRUE /\ UNCHANGED seen
       ELSE seen' = seen \cup {r} /\ UNCHANGED error
  /\ IF Head(inbox).kind = "proxy" /\ FirstChallenge(r) /\ credentials
       THEN Start("provide")
       ELSE Start("refuse")
  /\ UNCHANGED <<answered, ready>>

Receive ==
  /\ Receiving /\ ws /\ ~stopping
  /\ inbox # <<>>
  /\ inbox' = Tail(inbox)
  /\ \/ /\ Head(inbox).kind \in {"proxy", "origin"}
        /\ HandleChallenge(Head(inbox).on)
     \/ /\ Head(inbox).kind \notin {"proxy", "origin"}
        /\ HandleMessage
        /\ UNCHANGED seen
  /\ UNCHANGED <<main, todo, reader, ws, stopping, sessions, credentials, open, page,
                 fetching, request, provided, outcome>>

\* Fetch.continueRequest and Fetch.continueWithAuth.
Reply ==
  /\ job["reader"].step \in {"continue", "provide", "refuse"}
  /\ LET r == job["reader"].on IN
       \/ /\ Connected
          /\ request' = [request EXCEPT ![r] =
                           IF job["reader"].step = "refuse" THEN "done" ELSE "sent"]
          /\ provided' = IF job["reader"].step = "provide" THEN provided \cup {r}
                                                           ELSE provided
          /\ Done("reader")
          /\ UNCHANGED <<main, reader, ready, error, outcome>>
       \/ /\ ~Connected
          /\ Raise("reader")
          /\ UNCHANGED <<request, provided>>
  /\ UNCHANGED <<todo, answered, ws, stopping, sessions, credentials, seen, open,
                 inbox, page, fetching>>

\* The loop ends, or recv fails, or a message cannot be parsed.
ReaderEnds ==
  /\ Receiving
  /\ \/ (stopping \/ ~ws) /\ UNCHANGED error
     \/ error' = (error \/ ~stopping)
  /\ reader' = "ended"
  /\ ready' = TRUE
  /\ UNCHANGED <<main, todo, answered, job, ws, stopping, sessions, credentials, seen,
                 browser, provided, outcome>>

-----------------------------------------------------------------------------
(* The main thread.                                                        *)

Goto(stage) == main' = stage

\* start: the credentials, the socket, the reader, and the request that
\* attaches the bridge to all pages.
Connect ==
  /\ main = "idle"
  /\ Goto("auto")
  /\ credentials' = TRUE
  /\ ws' = TRUE
  /\ open' = TRUE
  /\ reader' = "alive"
  /\ inbox' = <<Answer>>
  /\ UNCHANGED <<todo, answered, job, stopping, sessions, ready, error, seen, page,
                 fetching, request, provided, outcome>>

\* The secret file cannot be read, or the browser not found: no stop is due.
ConnectFails ==
  /\ main = "idle"
  /\ Goto("done")
  /\ outcome' = "failed"
  /\ UNCHANGED <<todo, answered, reader, job, ws, stopping, shared, browser, provided>>

\* Target.getTargets lists pages to which the bridge attaches by itself.
ListTargets ==
  /\ main = "auto"
  /\ answered
  /\ answered' = FALSE
  /\ todo' \in SUBSET {s \in Sessions : page[s] = "none"}
  /\ Goto("next")
  /\ UNCHANGED <<reader, job, ws, stopping, shared, browser, provided, outcome>>

\* Target.attachToTarget: the browser tells the reader, too, before it answers
\* or after; the code relies on neither.
Attach ==
  /\ main = "next" /\ job["main"] = NoJob
  /\ Connected
  /\ \E s \in todo :
       /\ todo' = todo \ {s}
       /\ job' = [job EXCEPT !["main"] =
                    [step |-> "attached", on |-> s, waiting |-> FALSE]]
       /\ page' = [page EXCEPT ![s] = "free"]
       /\ inbox' \in {inbox \o <<Attached(s, FALSE), Answer>>,
                     inbox \o <<Answer, Attached(s, FALSE)>>}
  /\ Goto("attach")
  /\ UNCHANGED <<answered, reader, ws, stopping, shared, open, fetching, request,
                 provided, outcome>>

AttachAnswered ==
  /\ main = "attach" /\ job["main"].step = "attached"
  /\ answered
  /\ answered' = FALSE
  /\ Do("main", "check")
  /\ Goto("next")
  /\ UNCHANGED <<todo, reader, ws, stopping, shared, browser, provided, outcome>>

\* Mutant: start raises without stop.
RequestFailsOpen ==
  /\ main \in {"auto", "attach"}
  /\ Done("main")
  /\ Goto("done")
  /\ outcome' = "failed"
  /\ UNCHANGED <<todo, answered, reader, ws, stopping, shared, browser, provided>>

\* A timeout or an error: start stops the bridge and raises.
RequestFails ==
  /\ \/ main \in {"auto", "attach"}
     \/ main = "next" /\ todo # {} /\ ~Connected
  /\ job["main"].step \in {"none", "attached"}
  /\ Done("main")
  /\ Goto("disable")
  /\ outcome' = "failed"
  /\ UNCHANGED <<todo, answered, reader, ws, stopping, shared, browser, provided>>

AllAttached ==
  /\ main = "next" /\ job["main"] = NoJob /\ todo = {}
  /\ Goto("ready")
  /\ UNCHANGED <<todo, answered, reader, job, ws, stopping, shared, browser, provided,
                 outcome>>

\* _ready.wait: there is an intercepted session, the reader ended, or 5 s are
\* over.
AwaitReady ==
  /\ main = "ready"
  /\ \/ /\ ready /\ ~error
        /\ Goto("body")
        /\ UNCHANGED outcome
     \/ /\ ~ready \/ error
        /\ Goto("disable")
        /\ outcome' = "failed"
  /\ UNCHANGED <<todo, answered, reader, job, ws, stopping, shared, browser, provided>>

\* raise_if_failed.
Failed == error \/ (ws /\ reader = "ended")

\* The body returns, or raises (final.py has a timeout).
BodyEnds ==
  /\ main = "body"
  /\ Goto("disable")
  /\ outcome' \in IF Failed THEN {"failed"} ELSE {"ok", "failed"}
  /\ UNCHANGED <<todo, answered, reader, job, ws, stopping, shared, browser, provided>>

\* stop: Fetch.disable for the sessions there are.
Disable ==
  /\ main = "disable"
  /\ fetching' = IF Connected THEN fetching \ sessions ELSE fetching
  /\ Goto("close")
  /\ UNCHANGED <<todo, answered, reader, job, ws, stopping, shared, open, inbox, page,
                 request, provided, outcome>>

\* The browser drops what it did for the connection.
Disconnect ==
  /\ open' = FALSE
  /\ fetching' = {}
  /\ page' = [s \in Sessions |-> IF page[s] = "waiting" THEN "free" ELSE page[s]]
  /\ request' = [r \in Requests |-> IF request[r] = "new" THEN "new" ELSE "done"]

Close ==
  /\ main = "close"
  /\ stopping' = TRUE
  /\ ws' = FALSE
  /\ Disconnect
  /\ inbox' = <<>>
  /\ Goto("join")
  /\ UNCHANGED <<todo, answered, reader, job, shared, provided, outcome>>

\* The reader has ended, or 2 s are over.
Join ==
  /\ main = "join"
  /\ credentials' = FALSE
  /\ sessions' = {}
  /\ seen' = {}
  /\ Goto("done")
  /\ UNCHANGED <<todo, answered, reader, job, ws, stopping, ready, error, browser,
                 provided, outcome>>

-----------------------------------------------------------------------------
(* The browser.                                                            *)

\* A page there was, or a new one, which waits.
OpenPage ==
  /\ open /\ Len(inbox) < MaxMessages
  /\ \E s \in Sessions \ todo, w \in BOOLEAN :
       /\ page[s] = "none"
       /\ page' = [page EXCEPT ![s] = IF w THEN "waiting" ELSE "free"]
       /\ inbox' = Append(inbox, Attached(s, w))
  /\ UNCHANGED <<threads, shared, open, fetching, request, provided, outcome>>

PauseRequest ==
  /\ open /\ fetching # {} /\ Len(inbox) < MaxMessages
  /\ \E r \in Requests :
       /\ request[r] = "new"
       /\ request' = [request EXCEPT ![r] = "paused"]
       /\ inbox' = Append(inbox, Paused(r))
  /\ UNCHANGED <<threads, shared, open, page, fetching, provided, outcome>>

ChallengeRequest ==
  /\ open /\ fetching # {} /\ Len(inbox) < MaxMessages
  /\ \E r \in Requests, proxy \in BOOLEAN :
       /\ request[r] = "sent"
       /\ request' = [request EXCEPT ![r] = Challenge(r, proxy).kind]
       /\ inbox' = Append(inbox, Challenge(r, proxy))
  /\ UNCHANGED <<threads, shared, open, page, fetching, provided, outcome>>

\* The browser dies; the reader may still read what it sent.
BrowserDies ==
  /\ open
  /\ Disconnect
  /\ UNCHANGED <<threads, shared, inbox, provided, outcome>>

-----------------------------------------------------------------------------
Main ==
  \/ Connect \/ ConnectFails \/ ListTargets \/ Attach \/ AttachAnswered \/ RequestFails
  \/ EnableSession("main") \/ AllAttached \/ AwaitReady \/ BodyEnds
  \/ Disable \/ Close \/ Join

Reader == Receive \/ EnableSession("reader") \/ Reply \/ ReaderEnds

Browser == OpenPage \/ PauseRequest \/ ChallengeRequest \/ BrowserDies

Next == Main \/ Reader \/ Browser

Spec == Init /\ [][Next]_vars

\* Threads run, every wait of theirs has a timeout, and final.py has one.
FairSpec == Spec /\ WF_vars(Main) /\ WF_vars(Reader)

-----------------------------------------------------------------------------
\* A request gets the credentials once, for a challenge of the proxy itself: a
\* proxy that asks again has refused them, and is not asked for ever
\* (proxy_auth.py:389-413).
CredentialsOnce ==
  [][LET r == job["reader"].on IN
     job["reader"].step = "provide" /\ request' # request /\ open'
       => r \notin provided /\ request[r] = "proxy"]_vars

\* A new page does not run before its requests are intercepted, unless there
\* are too many sessions, which is an error, or the bridge is being stopped
\* (proxy_auth.py:282-310, both threads).
ResumedHandled ==
  [][\A s \in Sessions :
       page[s] = "waiting" /\ page'[s] = "free" /\ open'
         => \/ s \in fetching
            \/ (s \notin sessions /\ error)
            \/ main = "close"]_vars

Working(x) == \E t \in Threads : job[t].on = x
Unread(x) == \E i \in DOMAIN inbox : inbox[i].on = x /\ inbox[i].kind # "answer"

\* Somebody will get to the page or the request.
Attended(x) == Unread(x) \/ Working(x)

Waiting ==
  {s \in Sessions : page[s] = "waiting"} \cup
  {r \in Requests : request[r] \in {"paused", "proxy", "origin"}}

\* As long as no error is recorded and the reader lives, no page and no request
\* that waits for the bridge is forgotten: not by a session that both threads
\* meet, and not between the command and its callback (proxy_auth.py:282-310,
\* 343-413).
WaitersAttended ==
  open /\ reader = "alive" /\ ~error /\ ~stopping =>
    \A x \in Waiting : Attended(x)

\* No page waits for the debugger for ever, whatever fails: in the end the
\* bridge resumes it or lets go of the browser (proxy_auth.py:222-227,
\* 415-438).
WaitingResumed ==
  \A s \in Sessions : page[s] = "waiting" ~> page[s] # "waiting"
=============================================================================
