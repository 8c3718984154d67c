------------------------------- MODULE Pages -------------------------------
(***************************************************************************)
(* Which page of the dashboard a visit is to, or which part of the frame   *)
(* around the pages.  Leaving a page unmounts its components and their     *)
(* state with them, so a visit begins with fresh ones and the modules of   *)
(* the pages take no steps during each other's visits.  The parts of the   *)
(* frame stay, and share no state with the pages or each other.            *)
(***************************************************************************)
VARIABLE page

PlannerPages == {"projects", "calendar", "audit"}
FrameParts == {"commandBar", "aiSearch", "panels"}
AllPages == PlannerPages \cup FrameParts \cup {"kanban", "wiki", "files", "members", "inbox", "chats"}
=============================================================================
