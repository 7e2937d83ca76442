---------------------------- MODULE MCExecution ----------------------------
(***************************************************************************)
(* Instances of Execution for TLC.                                         *)
(***************************************************************************)
EXTENDS Execution

CONSTANTS c1, c2

\* Calls of c1 may nest once.
MCUsers == {<<c1, 1>>, <<c1, 2>>, <<c2, 1>>}

MCUsersOfOne == {<<c1, 1>>, <<c1, 2>>}

=============================================================================
