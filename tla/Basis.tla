------------------------------- MODULE Basis -------------------------------
(***************************************************************************)
(* What the modules of the single services have in common: the worker      *)
(* processes of app/main.py (gunicorn -w 2) and the NULL of the database.  *)
(*                                                                         *)
(* Where a module takes requests apart into reading and commit, a worker   *)
(* stands for a place where one transaction is open. A request's snapshot  *)
(* is fixed by a dependency that runs before its handler                   *)
(* (core/dependencies.py:61-123), so a second place may be the other       *)
(* process or another request of the same one. A premise that only one     *)
(* worker is in operation then says that no two transactions overlap. In   *)
(* the modules of loops, sockets and other state in memory a worker is a   *)
(* process.                                                                *)
(***************************************************************************)
CONSTANTS
  Workers,   \* worker processes, or places where a transaction is open
  None       \* the database NULL

\* A deployment runs some of them.
Betriebe == {W \in SUBSET Workers : W # {}}
=============================================================================
