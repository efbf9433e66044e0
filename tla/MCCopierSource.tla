---------------------------- MODULE MCCopierSource ----------------------------
(***************************************************************************)
(* Instances of CopierSource for TLC.                                      *)
(***************************************************************************)
EXTENDS CopierSource

OneStop == {1}

\* Everything but the faults under which the README shows the properties to fail.
Expected ==
  FaultKinds \ {"unsaved_open", "torn", "unreadable", "late_open", "misread", "rush"}
===============================================================================
