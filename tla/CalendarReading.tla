--------------------------- MODULE CalendarReading ---------------------------
(***************************************************************************)
(* get_calendar_workspace of backend/app/services/calendar_workspace.py    *)
(* beside the revision lifecycle.  The request holds no lock: it reads the *)
(* revisions, then the teaching rows, then the exam rows, and reads the    *)
(* revisions again before it answers, while planners change all of them.   *)
(* The current publication is read from its snapshot, which comes with the *)
(* revisions.                                                              *)
(***************************************************************************)
EXTENDS ScheduleLifecycle

VARIABLES
  workspace,  (* the request, or what it was answered with                  *)
  readOf      (* history variable: the revisions worked on while it read    *)

calendar == <<workspace, readOf>>

Closed == [phase |-> "closed"]

(* initial_context_signature: id, state and row_version of every revision  *)
Signature == [r \in Revisions |-> [state |-> rows[r].state, version |-> rows[r].version]]

(* revision_id names the working revision or the publication (otherwise it *)
(* is refused with 422, or 404); without it the working one comes first.   *)
Default == IF Working # {} THEN Working ELSE Published

Opened(r, phase, content) ==
  [phase |-> phase, revision |-> r, signature |-> Signature, content |-> content]

OpenWorking(r) ==
  /\ workspace.phase = "closed"
  /\ r \in Working
  /\ workspace' = Opened(r, "opened", NoSnapshot)
  /\ readOf' = {}

(* _published_content                                                      *)
OpenPublished(r) ==
  /\ workspace.phase = "closed"
  /\ r \in Published
  /\ workspace' = Opened(r, "read", rows[r].snapshot.content)
  /\ readOf' = {}

(* _no_revision_response                                                   *)
OpenNothing ==
  /\ workspace.phase = "closed"
  /\ Default = {}
  /\ workspace' = [phase |-> "no_revision"]
  /\ readOf' = {}

(* _working_content: the drafts with their sessions, at the end the exams. *)
ReadTeaching ==
  /\ workspace.phase = "opened"
  /\ workspace' = [workspace EXCEPT !.phase = "teaching_read", !.content = live.teaching]
  /\ readOf' = readOf \cup Working

ReadExams ==
  /\ workspace.phase = "teaching_read"
  /\ workspace' = [workspace EXCEPT
       !.phase = "read", !.content = [teaching |-> workspace.content, exams |-> live.exams]]
  /\ readOf' = readOf \cup Working

(* Mutant of ContextUnchanged: the rows of the session are compared with   *)
(* what they were read as, and have not been read again.                   *)
ContextUnrefreshed == workspace.signature = workspace.signature

ContextUnchanged == workspace.signature = Signature

(* 409 when a revision has changed since the request began.                *)
Answer ==
  /\ workspace.phase = "read"
  /\ workspace' = IF ContextUnchanged THEN [workspace EXCEPT !.phase = "shown"]
                  ELSE [phase |-> "conflict"]
  /\ UNCHANGED readOf

Close ==
  /\ workspace.phase \in {"shown", "conflict", "no_revision"}
  /\ workspace' = Closed
  /\ readOf' = {}

CalendarStep ==
  \/ \E r \in Revisions : OpenWorking(r) \/ OpenPublished(r)
  \/ OpenNothing \/ ReadTeaching \/ ReadExams \/ Answer \/ Close

CalendarInit == workspace = Closed /\ readOf = {}
-----------------------------------------------------------------------------
(* An answered calendar shows one revision that is still current: all rows *)
(* of a working calendar were read while that revision, and no other, was  *)
(* worked on, and the calendar of the publication is its frozen content    *)
(* (014 spec FR-022).                                                      *)
WorkspaceOfOneRevision ==
  [][workspace'.phase = "shown" /\ workspace.phase # "shown" =>
       LET r == workspace'.revision
       IN  IF r \in Working THEN readOf = {r}
           ELSE /\ r \in Published /\ readOf = {}
                /\ workspace'.content = rows[r].snapshot.content]_<<vars, calendar>>
=============================================================================
