------------------------- MODULE SemesterWorkspace -------------------------
(***************************************************************************)
(* The revisions of a semester with what is read beside them: the requests *)
(* for its calendar.                                                       *)
(***************************************************************************)
EXTENDS CalendarReading

WorkspaceInit == Init /\ CalendarInit

WorkspaceNext ==
  \/ Next /\ UNCHANGED calendar
  \/ CalendarStep /\ UNCHANGED vars

WorkspaceSpec == WorkspaceInit /\ [][WorkspaceNext]_<<vars, calendar>>
=============================================================================
