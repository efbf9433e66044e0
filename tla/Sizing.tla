-------------------------------- MODULE Sizing --------------------------------
(***************************************************************************)
(* How many lots are traded (sizing.py, mirror.py:127-184).  Volumes and   *)
(* prices are whole numbers of units fine enough for the broker's steps; a *)
(* ratio is its numerator and denominator, so nothing is lost to floating  *)
(* point, whose tolerance of 1e-9 the code adds for that.                  *)
(***************************************************************************)
EXTENDS Integers

\* The largest multiple of step up to num/den, the smallest from it, and the nearest, halves up.
FloorToStep(num, den, step) == (num \div (den * step)) * step
CeilToStep(num, den, step) == ((num + den * step - 1) \div (den * step)) * step
RoundToStep(num, den, step) == ((2 * num + den * step) \div (2 * (den * step))) * step

Larger(a, b) == IF a > b THEN a ELSE b
Smaller(a, b) == IF a < b THEN a ELSE b

\* None, or the error a caller gets in its place.
NoVolume == 0

(***************************************************************************)
(* leg_volume: risk is risk_pct of the balance, loss what one unit of      *)
(* volume loses at the stop.  Zero loss is a ValueError.                   *)
(***************************************************************************)
ByRisk(risk, loss, spec) == FloorToStep(risk, loss, spec.volume_step)

LegVolume(risk, loss, spec, least) ==
  IF loss = 0 THEN NoVolume
  ELSE Smaller(Larger(ByRisk(risk, loss, spec),
                      Larger(spec.volume_min, CeilToStep(least, 1, spec.volume_step))),
               spec.volume_max)

(***************************************************************************)
(* mirror_volume                                                           *)
(***************************************************************************)
\* A mirror's sizing: its mode, lots or multiplier as a ratio, and max_lots.
Raw(sizing, source_volume, source_balance, dest_balance) ==
  CASE sizing.mode = "fixed_lots"    -> [num |-> sizing.num, den |-> sizing.den]
    [] sizing.mode = "source_lots"   -> [num |-> source_volume * sizing.num, den |-> sizing.den]
    [] sizing.mode = "balance_ratio" -> [num |-> (source_volume * dest_balance) * sizing.num,
                                         den |-> source_balance * sizing.den]

Cap(sizing, spec) == Smaller(FloorToStep(sizing.max_lots, 1, spec.volume_step), spec.volume_max)

Placed(raw, sizing, spec) ==
  Smaller(Larger(RoundToStep(raw.num, raw.den, spec.volume_step), spec.volume_min), Cap(sizing, spec))

MirrorLots(sizing, source_volume, source_balance, dest_balance, spec) ==
  IF \/ sizing.mode = "balance_ratio" /\ (source_balance = 0 \/ dest_balance = 0)
     \/ Cap(sizing, spec) < spec.volume_min
  THEN NoVolume
  ELSE Placed(Raw(sizing, source_volume, source_balance, dest_balance), sizing, spec)

(***************************************************************************)
(* mirror_stops: a stop is copied, left out, or set so many pips from the  *)
(* price the copy is opened at.                                            *)
(***************************************************************************)
NoStop == 0
UnknownPip == 0

\* pip_size; configured is UnknownPip for a symbol the mirror's settings do not name.
PipSize(configured, spec) ==
  IF configured # UnknownPip THEN configured
  ELSE IF spec.digits \in {3, 5} THEN 10 * spec.point
  ELSE UnknownPip

\* away is 1 above the opening price and -1 below it.
StopAt(rule, source_stop, ref, away, pip) ==
  CASE rule.mode = "copy" -> source_stop
    [] rule.mode = "none" -> NoStop
    [] rule.mode = "pips" -> ref + away * (rule.pips * pip)

\* The empty sequence when the size of a pip is not known.
MirrorStops(rules, side, written, pip, spec) ==
  LET ref == IF side = "BUY" THEN spec.ask ELSE spec.bid
      up == IF side = "BUY" THEN 1 ELSE -1
  IN IF pip = UnknownPip /\ (rules.sl.mode = "pips" \/ rules.tp.mode = "pips") THEN << >>
     ELSE << StopAt(rules.sl, written.sl, ref, -up, pip), StopAt(rules.tp, written.tp, ref, up, pip) >>
===============================================================================
