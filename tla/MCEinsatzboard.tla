--------------------------- MODULE MCEinsatzboard ---------------------------
(* One vehicle and one task on the board of an incident. *)
EXTENDS Einsatzboard

CONSTANTS v1, t1

EinAusschnitt ==
  {[karten |-> {v1, t1}, spalten |-> {"section", "tasks"}, alt |-> {}]}

EineFolge == <<v1, t1>>
=============================================================================
