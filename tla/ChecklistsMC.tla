---------------------------- MODULE ChecklistsMC ----------------------------
(* Instances of Checklists for model checking. *)
EXTENDS Checklists
=============================================================================
