---------------------------- MODULE MCSignalBridge ----------------------------
(***************************************************************************)
(* Instances of SignalBridge and its caller for TLC.                       *)
(***************************************************************************)
EXTENDS FileBridge

CONSTANTS c1, c2

TwoIds == {c1, c2}

\* Faults under which every answer still reaches results.jsonl.
AnswersKept == {"cursor", "torn"}

==============================================================================
