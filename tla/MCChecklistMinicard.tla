------------------------- MODULE MCChecklistMinicard -------------------------
(* A small instance of ChecklistMinicard: two checklists are enough for an *)
(* update that fails between them.                                         *)
EXTENDS ChecklistMinicard
=============================================================================
