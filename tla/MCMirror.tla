------------------------------- MODULE MCMirror -------------------------------
(***************************************************************************)
(* Instances of Mirror for TLC: three steps of the source are two of the   *)
(* destination, so that one partial close moves it and one does not.       *)
(***************************************************************************)
EXTENDS Mirror, Sizing

OnePosition == {1}
TwoOfThree == <<1, 1, 2>>
OneStop == {1}

\* Everything but a frozen terminal.
Anything == FaultKinds \ {"stale"}
Cut == {"cut"}

(***************************************************************************)
(* The sizing rules, with volumes in hundredths of a lot.                  *)
(***************************************************************************)
Symbol == [volume_step |-> 1, volume_min |-> 1, volume_max |-> 5000, bid |-> 400000, ask |-> 400020, digits |-> 2, point |-> 1]
Ratio(num, den) == [mode |-> "balance_ratio", num |-> num, den |-> den, max_lots |-> 10000]

\* A destination with two thirds of the source's balance.
ASSUME TwoOfThreeIsSized ==
  TwoOfThree = [v \in 1..3 |-> MirrorLots(Ratio(1, 1), v, 3, 2, Symbol)]

\* tests/test_mirror.py:244-261, tests/test_sizing.py
ASSUME SizingExamples ==
  /\ MirrorLots(Ratio(1, 1), 33, 100000, 50000, Symbol) = 17
  /\ MirrorLots(Ratio(2, 1), 33, 100000, 50000, Symbol) = 33
  /\ MirrorLots(Ratio(1, 1), 1, 100000, 10000, Symbol) = 1
  /\ MirrorLots([Ratio(1, 1) EXCEPT !.max_lots = 25], 100, 10000, 50000, Symbol) = 25
  /\ MirrorLots(Ratio(1, 1), 3000, 10000, 50000, Symbol) = 5000
  /\ MirrorLots([Ratio(1, 1) EXCEPT !.max_lots = 0], 100, 1, 1, Symbol) = NoVolume
  /\ MirrorLots(Ratio(1, 1), 100, 0, 50000, Symbol) = NoVolume
  /\ MirrorLots([Ratio(1, 2) EXCEPT !.mode = "source_lots"], 37, 0, 0, Symbol) = 19
  /\ MirrorLots([Ratio(20, 1) EXCEPT !.mode = "fixed_lots"], 300, 0, 0, Symbol) = 20
  /\ LegVolume(100, 6, Symbol, 0) = 16 /\ LegVolume(1, 6, Symbol, 0) = 1
  /\ LegVolume(1, 6, Symbol, 2) = 2 /\ LegVolume(100, 6, Symbol, 2) = 16
  /\ LegVolume(100000, 1, Symbol, 0) = 5000 /\ LegVolume(100, 0, Symbol, 0) = NoVolume

\* The volume by risk is the largest number of steps whose loss is within it, and rounding to a step is
\* to the nearest.
ASSUME StepsAreNearest ==
  \A risk \in 0..20, loss \in 1..4, step \in 1..3 :
    LET v == FloorToStep(risk, loss, step)
        n == RoundToStep(risk, loss, step)
        off(volume) == IF volume * loss > risk THEN volume * loss - risk ELSE risk - volume * loss
    IN \A k \in 0..20 : /\ k * step * loss <= risk => k * step <= v
                        /\ off(n) <= off(k * step)

\* tests/test_mirror.py:270-282, for gold with a configured pip of 0.1.
ASSUME StopExamples ==
  LET copy == [mode |-> "copy"]
      pips(n) == [mode |-> "pips", pips |-> n]
      asked == [sl |-> 399000, tp |-> 402000]
      none == [sl |-> NoStop, tp |-> NoStop]
  IN /\ MirrorStops([sl |-> copy, tp |-> copy], "BUY", asked, UnknownPip, Symbol) = <<399000, 402000>>
     /\ MirrorStops([sl |-> copy, tp |-> copy], "BUY", none, UnknownPip, Symbol) = <<NoStop, NoStop>>
     /\ PipSize(UnknownPip, Symbol) = UnknownPip
     /\ MirrorStops([sl |-> pips(50), tp |-> copy], "BUY", asked, UnknownPip, Symbol) = << >>
     /\ MirrorStops([sl |-> pips(50), tp |-> copy], "SELL", none, PipSize(10, Symbol), Symbol) = <<400500, NoStop>>
     /\ PipSize(UnknownPip, [Symbol EXCEPT !.digits = 5]) = 10
=============================================================================
