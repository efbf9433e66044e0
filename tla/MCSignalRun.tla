----------------------------- MODULE MCSignalRun -----------------------------
(***************************************************************************)
(* Instances of SignalRun for TLC: a BUY with its stop at 1 and its first  *)
(* take-profit at 5, every leg filled at 3, stops moved to 2 by the        *)
(* provider while the market is at 9.                                      *)
(***************************************************************************)
EXTENDS SignalRun

Fill3 == [l \in Legs |-> 3]
Move2 == {2}
Quote9 == {9}

AllActions == ActionKinds
OnlyBe == {"break_even"}
MoveBe == {"move_sl", "break_even"}
StopsAndClose == {"move_sl", "break_even", "close_all"}
NoActions == {}

NoFaults == {}
LostOrDied == {"lost", "crash"}
ByHandNoFill == {"by_hand", "nofill"}
AnyButLost == {"reject", "unsent", "nofill", "by_hand"}
LiveFaults == {"reject", "unsent", "by_hand", "lost", "late"}
==============================================================================
