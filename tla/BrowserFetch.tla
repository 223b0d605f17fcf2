---------------------------- MODULE BrowserFetch ----------------------------
(***************************************************************************)
(* browser_native_fetch (browser_fetch.py): a GET leaves its body in a     *)
(* private file of the run, and a record with the file's opaque handle in  *)
(* the manifest's list of artifacts.  The two writes are not one step; the *)
(* function undoes the first when the second fails.  The list has a second *)
(* writer, task verify, which replaces it by an index of the run's files   *)
(* (verifier.py); both write under the manifest lock.                      *)
(*                                                                         *)
(* _FETCH_LOCK admits one call of a process at a time and refuses a second *)
(* without any effect, so that a process stands for the call it is in.     *)
(***************************************************************************)
EXTENDS Naturals, FiniteSets

CONSTANTS Procs,
          Handles,      \* secrets.token_hex(16), never drawn twice
          NoHandle,
          MaxRecords,   \* _MAX_BROWSER_FETCH_RECORDS
          MaxEntries    \* bound: files of the run that the index lists

ASSUME BrowserFetchAssumption ==
  /\ NoHandle \notin Handles
  /\ MaxRecords \in Nat
  /\ MaxEntries \in Nat

VARIABLES artifacts,   \* manifest["artifacts"]: the fetch records with and
                       \* without a body, and the entries of the index
          bodies,      \* the files under artifacts/private/browser-fetch
          pc, handle   \* where each call is, and the handle it holds

\* History: nothing in the code reads these.
VARIABLES drawn,       \* handles that were drawn
          returned,    \* handles that a caller was given
          doubtful,    \* handles whose record was written by a failing update
          dropped,     \* handles whose record the index replaced
          abandoned    \* handles whose call died or failed to clean up

history == <<drawn, returned, doubtful, dropped, abandoned>>
vars == <<artifacts, bodies, pc, handle, history>>

Stages == {"idle", "evaluate", "record", "undo"}

TypeOK ==
  /\ artifacts \in [handles : SUBSET Handles, heads : 0..MaxRecords,
                    entries : 0..MaxEntries]
  /\ bodies \subseteq Handles
  /\ pc \in [Procs -> Stages]
  /\ handle \in [Procs -> Handles \cup {NoHandle}]
  /\ drawn \subseteq Handles
  /\ returned \subseteq Handles
  /\ doubtful \subseteq Handles
  /\ dropped \subseteq Handles
  /\ abandoned \subseteq Handles

Init ==
  /\ artifacts = [handles |-> {}, heads |-> 0, entries |-> 0]
  /\ bodies = {}
  /\ pc = [p \in Procs |-> "idle"]
  /\ handle = [p \in Procs |-> NoHandle]
  /\ drawn = {}
  /\ returned = {}
  /\ doubtful = {}
  /\ dropped = {}
  /\ abandoned = {}

-----------------------------------------------------------------------------
Goto(p, stage) == pc' = [pc EXCEPT ![p] = stage]

\* The call ends, in whichever way, and _FETCH_LOCK is released.
End(p) ==
  /\ Goto(p, "idle")
  /\ handle' = [handle EXCEPT ![p] = NoHandle]

Records == Cardinality(artifacts.handles) + artifacts.heads

\* len(artifacts)
Length == Records + artifacts.entries

Fetch(p) ==
  /\ pc[p] = "idle"
  /\ Goto(p, "evaluate")
  /\ UNCHANGED <<artifacts, bodies, handle, history>>

\* page.evaluate fails, the answer is not valid, or the body cannot be
\* written (the partial file is unlinked again).
FetchFails(p) ==
  /\ pc[p] = "evaluate"
  /\ End(p)
  /\ UNCHANGED <<artifacts, bodies, history>>

\* A valid answer to GET: write_private_body_artifact.
WriteBody(p) ==
  /\ pc[p] = "evaluate"
  /\ \E h \in Handles \ drawn :
       /\ bodies' = bodies \cup {h}
       /\ handle' = [handle EXCEPT ![p] = h]
       /\ drawn' = drawn \cup {h}
  /\ Goto(p, "record")
  /\ UNCHANGED <<artifacts, returned, doubtful, dropped, abandoned>>

\* A valid answer to HEAD has no body.
AnswerHead(p) ==
  /\ pc[p] = "evaluate"
  /\ Goto(p, "record")
  /\ UNCHANGED <<artifacts, bodies, handle, history>>

\* Mutant: the bound lets one record too many in.
HasRoomForOneMore == Length <= MaxRecords

\* The bound counts the entries of the index too.
HasRoom == Length < MaxRecords

\* What append adds.
WithRecord(h) ==
  IF h = NoHandle THEN [artifacts EXCEPT !.heads = @ + 1]
                  ELSE [artifacts EXCEPT !.handles = @ \cup {h}]

\* record_browser_fetch_artifact succeeds, and the caller gets the metadata.
Record(p) ==
  /\ pc[p] = "record"
  /\ HasRoom
  /\ artifacts' = WithRecord(handle[p])
  /\ returned' = returned \cup ({handle[p]} \ {NoHandle})
  /\ End(p)
  /\ UNCHANGED <<bodies, drawn, doubtful, dropped, abandoned>>

\* Mutant: the handler of the exception only raises.
RecordFailsNoUndo(p) ==
  /\ pc[p] = "record"
  /\ End(p)
  /\ UNCHANGED <<artifacts, bodies, history>>

\* It fails: no room, an unreadable manifest, or an error of the write before
\* the rename; or an error of fsync(dir_fd) after it, in which case the record
\* is there.
RecordFails(p) ==
  /\ pc[p] = "record"
  /\ IF handle[p] = NoHandle THEN End(p) ELSE Goto(p, "undo") /\ UNCHANGED handle
  /\ \/ UNCHANGED <<artifacts, doubtful>>
     \/ /\ HasRoom
        /\ artifacts' = WithRecord(handle[p])
        /\ doubtful' = doubtful \cup ({handle[p]} \ {NoHandle})
  /\ UNCHANGED <<bodies, drawn, returned, dropped, abandoned>>

\* Mutant: whatever private body there is goes, not only the call's own.
UndoAll(p) ==
  /\ pc[p] = "undo"
  /\ bodies' = {}
  /\ End(p)
  /\ UNCHANGED <<artifacts, history>>

\* remove_private_body_artifact, which may fail itself.
Undo(p) ==
  /\ pc[p] = "undo"
  /\ \/ /\ bodies' = bodies \ {handle[p]}
        /\ UNCHANGED abandoned
     \/ /\ abandoned' = abandoned \cup {handle[p]}
        /\ UNCHANGED bodies
  /\ End(p)
  /\ UNCHANGED <<artifacts, drawn, returned, doubtful, dropped>>

\* The process dies.
Crash(p) ==
  /\ pc[p] # "idle"
  /\ abandoned' = abandoned \cup ({handle[p]} \ {NoHandle})
  /\ End(p)
  /\ UNCHANGED <<artifacts, bodies, drawn, returned, doubtful, dropped>>

\* Mutant: the index is appended to the list instead of replacing it, with no
\* regard to the records' bound.
IndexAppended(n) ==
  /\ artifacts' = [artifacts EXCEPT !.entries = @ + n]
  /\ UNCHANGED <<bodies, pc, handle, history>>

\* task verify: authoritative["artifacts"] = artifact_index(run_dir).  The
\* private bodies are under none of the directories it lists.
Index(n) ==
  /\ artifacts' = [handles |-> {}, heads |-> 0, entries |-> n]
  /\ dropped' = dropped \cup artifacts.handles
  /\ UNCHANGED <<bodies, pc, handle, drawn, returned, doubtful, abandoned>>

Next ==
  \/ \E p \in Procs :
       \/ Fetch(p) \/ FetchFails(p) \/ WriteBody(p) \/ AnswerHead(p) \/ Record(p)
       \/ RecordFails(p) \/ Undo(p) \/ Crash(p)
  \/ \E n \in 0..MaxEntries : Index(n)

Spec == Init /\ [][Next]_vars

-----------------------------------------------------------------------------
\* A handle that the manifest lists or that a caller was given leads to a
\* body: no clean-up of one call takes away what another recorded.  The one
\* exception is a record whose update reported an error after the rename
\* (workspace.py:411-412, browser_fetch.py:216-221).
NoDanglingHandle ==
  (artifacts.handles \ doubtful) \cup returned \subseteq bodies

\* No error path leaves a private body that nothing refers to: an unlisted
\* body belongs to a call in progress, to a call that died or could not clean
\* up, or to a record that the index replaced (browser_fetch.py:201-224).
NothingLeaked ==
  bodies \subseteq artifacts.handles \cup dropped \cup abandoned
                     \cup {handle[p] : p \in Procs}

\* The bound on the records holds for all processes together
\* (artifacts.py:27-31): it is tested under the lock it is enforced under.
RecordsBounded == Records <= MaxRecords

-----------------------------------------------------------------------------
(* What the documentation says, and the code does not do.                  *)

\* "Manifests and generic artifact indexes contain only bounded metadata and
\* an opaque `body-...` handle" (README.md:324) of the bodies that were
\* fetched: the manifest still has the handle that the caller was given.
RecordedFetchKept == returned \subseteq artifacts.handles
=============================================================================
