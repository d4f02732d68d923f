---------------------------- MODULE MCAtemschutz ----------------------------
(* One time step is a third of the planned duration: a report can lie in the *)
(* first, second or last third, before or after the entry that counts.       *)
EXTENDS Atemschutz
=============================================================================
