--------------------------- MODULE RevisionStates ---------------------------
(***************************************************************************)
(* What the publication lifecycle of one semester promises, without saying *)
(* how: every revision has one state, at most one revision is being worked *)
(* on, at most one is the current publication, and the content a revision  *)
(* was frozen with (at publication or abandonment) is kept.  Publishing    *)
(* replaces the current publication in a single step.                      *)
(*                                                                         *)
(* ScheduleLifecycle implements this specification; LecturerReview is      *)
(* built on its states.                                                    *)
(***************************************************************************)
CONSTANTS
  Revisions,  (* identities of the revisions of the semester          *)
  Contents,   (* contents a schedule can be frozen with               *)
  NoContent   (* "nothing is frozen": the revision is being worked on *)

VARIABLES
  state,   (* [Revisions -> State] *)
  frozen   (* [Revisions -> Contents \cup {NoContent}] *)

vars == <<state, frozen>>

WORKING_STATES == {"draft", "ready_for_review"}
State == WORKING_STATES \cup {"absent", "published", "superseded", "abandoned"}

Working == {r \in Revisions : state[r] \in WORKING_STATES}
Published == {r \in Revisions : state[r] = "published"}

Init ==
  /\ state = [r \in Revisions |-> "absent"]
  /\ frozen = [r \in Revisions |-> NoContent]

Start(r) ==
  /\ state[r] = "absent"
  /\ Working = {}
  /\ state' = [state EXCEPT ![r] = "draft"]
  /\ UNCHANGED frozen

MarkReady(r) ==
  /\ state[r] = "draft"
  /\ state' = [state EXCEPT ![r] = "ready_for_review"]
  /\ UNCHANGED frozen

ReturnToDraft(r) ==
  /\ state[r] = "ready_for_review"
  /\ state' = [state EXCEPT ![r] = "draft"]
  /\ UNCHANGED frozen

Abandon(r, c) ==
  /\ state[r] \in WORKING_STATES
  /\ state' = [state EXCEPT ![r] = "abandoned"]
  /\ frozen' = [frozen EXCEPT ![r] = c]

Restore(r) ==
  /\ state[r] = "abandoned"
  /\ Working = {}
  /\ state' = [state EXCEPT ![r] = "draft"]
  /\ frozen' = [frozen EXCEPT ![r] = NoContent]

(* The former publication is superseded in the step that publishes r. *)
Publish(r, c) ==
  /\ state[r] \in WORKING_STATES
  /\ state' = [q \in Revisions |->
                 IF q = r THEN "published"
                 ELSE IF state[q] = "published" THEN "superseded"
                 ELSE state[q]]
  /\ frozen' = [frozen EXCEPT ![r] = c]

Step(r) ==
  \/ Start(r) \/ MarkReady(r) \/ ReturnToDraft(r) \/ Restore(r)
  \/ \E c \in Contents : Abandon(r, c) \/ Publish(r, c)

Next == \E r \in Revisions : Step(r)

Spec == Init /\ [][Next]_vars
-----------------------------------------------------------------------------
TypeOK ==
  /\ state \in [Revisions -> State]
  /\ frozen \in [Revisions -> Contents \cup {NoContent}]

(* At most one revision is Draft or Ready for review, and at most one is   *)
(* the current publication (013 spec FR-003, FR-010).                      *)
SingleWorkingSinglePublished ==
  /\ \A q, r \in Working : q = r
  /\ \A q, r \in Published : q = r
=============================================================================
