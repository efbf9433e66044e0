----------------------------- MODULE SizingProofs -----------------------------
(***************************************************************************)
(* What the sizing rules promise for every account, symbol and setting.    *)
(***************************************************************************)
EXTENDS Sizing, TLAPS

Positive == Nat \ {0}

MultipleOf(volume, step) == \E k \in Nat : volume = k * step

\* What SymbolSpec says of volumes, in whole steps of the broker.
Spec(spec) ==
  /\ spec.volume_step \in Positive /\ spec.volume_min \in Positive /\ spec.volume_max \in Positive
  /\ spec.volume_min <= spec.volume_max
  /\ MultipleOf(spec.volume_min, spec.volume_step) /\ MultipleOf(spec.volume_max, spec.volume_step)

\* What MirrorConfig allows.
Sizes(sizing) ==
  /\ sizing.mode \in {"fixed_lots", "source_lots", "balance_ratio"}
  /\ sizing.num \in Nat /\ sizing.den \in Positive /\ sizing.max_lots \in Nat

(***************************************************************************)
(* Steps                                                                   *)
(***************************************************************************)
LEMMA Quotient ==
  ASSUME NEW n \in Nat, NEW d \in Positive
  PROVE  /\ n \div d \in Nat
         /\ d * (n \div d) <= n
         /\ n < d * (n \div d) + d
BY Z3 DEF Positive

LEMMA QuotientGrows ==
  ASSUME NEW n \in Nat, NEW m \in Nat, n <= m, NEW d \in Positive
  PROVE  n \div d <= m \div d
<1> DEFINE a == n \div d
           b == m \div d
<1>1. a \in Nat /\ b \in Nat /\ d * a <= n /\ m < d * b + d
  BY Quotient
<1> HIDE DEF a, b
<1>2. SUFFICES ASSUME a >= b + 1 PROVE FALSE
  BY <1>1 DEF a, b
<1>3. d * a >= d * (b + 1)
  BY <1>1, <1>2, Z3 DEF Positive
<1> QED
  BY <1>1, <1>3 DEF Positive

LEMMA ProductGrows ==
  ASSUME NEW a \in Nat, NEW b \in Nat, a <= b, NEW c \in Nat
  PROVE  a * c <= b * c /\ a * c \in Nat
BY Z3

LEMMA PositiveProduct ==
  ASSUME NEW a \in Positive, NEW b \in Positive
  PROVE  a * b \in Positive
BY Z3 DEF Positive

\* Rounding down to the step never exceeds the ratio.
LEMMA FloorIsBelow ==
  ASSUME NEW num \in Nat, NEW den \in Positive, NEW step \in Positive
  PROVE  /\ FloorToStep(num, den, step) \in Nat
         /\ FloorToStep(num, den, step) * den <= num
         /\ MultipleOf(FloorToStep(num, den, step), step)
<1> DEFINE q == num \div (den * step)
<1>1. q \in Nat /\ (den * step) * q <= num
  BY Quotient, PositiveProduct
<1>2. FloorToStep(num, den, step) = q * step
  BY DEF FloorToStep
<1> HIDE DEF q
<1>3. q * step \in Nat /\ (q * step) * den = (den * step) * q
  BY <1>1, Z3 DEF Positive
<1> QED
  BY <1>1, <1>2, <1>3 DEF MultipleOf

LEMMA CeilIsAbove ==
  ASSUME NEW num \in Nat, NEW step \in Positive
  PROVE  /\ CeilToStep(num, 1, step) \in Nat
         /\ CeilToStep(num, 1, step) >= num
         /\ CeilToStep(num, 1, step) < num + step
         /\ MultipleOf(CeilToStep(num, 1, step), step)
<1> DEFINE q == (num + step - 1) \div step
<1>1. num + step - 1 \in Nat /\ 1 * step = step
  BY DEF Positive
<1>2. q \in Nat /\ step * q <= num + step - 1 /\ num + step - 1 < step * q + step
  BY <1>1, Quotient
<1>3. CeilToStep(num, 1, step) = q * step
  BY <1>1 DEF CeilToStep
<1> HIDE DEF q
<1>4. q * step \in Nat /\ q * step = step * q
  BY <1>2, Z3 DEF Positive
<1> QED
  BY <1>2, <1>3, <1>4 DEF MultipleOf, Positive

LEMMA RoundIsMultiple ==
  ASSUME NEW num \in Nat, NEW den \in Positive, NEW step \in Positive
  PROVE  /\ RoundToStep(num, den, step) \in Nat
         /\ MultipleOf(RoundToStep(num, den, step), step)
<1> DEFINE q == (2 * num + den * step) \div (2 * (den * step))
<1>1. den * step \in Positive
  BY PositiveProduct
<1>2. 2 * (den * step) \in Positive /\ 2 * num + den * step \in Nat
  BY <1>1 DEF Positive
<1>3. q \in Nat
  BY <1>2, Quotient
<1>4. RoundToStep(num, den, step) = q * step
  BY DEF RoundToStep
<1> HIDE DEF q
<1>5. q * step \in Nat
  BY <1>3, Z3 DEF Positive
<1> QED
  BY <1>3, <1>4, <1>5 DEF MultipleOf

\* Rounding keeps the order of what is rounded.
LEMMA RoundGrows ==
  ASSUME NEW a \in Nat, NEW b \in Nat, a <= b, NEW den \in Positive, NEW step \in Positive
  PROVE  RoundToStep(a, den, step) <= RoundToStep(b, den, step)
<1> DEFINE q(num) == (2 * num + den * step) \div (2 * (den * step))
<1>1. den * step \in Positive
  BY PositiveProduct
<1>2. 2 * (den * step) \in Positive /\ 2 * a + den * step \in Nat /\ 2 * b + den * step \in Nat
  BY <1>1 DEF Positive
<1>3. 2 * a + den * step <= 2 * b + den * step
  BY <1>1 DEF Positive
<1>4. q(a) \in Nat /\ q(b) \in Nat /\ q(a) <= q(b)
  BY <1>2, <1>3, Quotient, QuotientGrows
<1>5. q(a) * step <= q(b) * step
  BY <1>4, ProductGrows DEF Positive
<1> QED
  BY <1>5 DEF RoundToStep

LEMMA Clamped ==
  ASSUME NEW r \in Nat, NEW low \in Nat, NEW f \in Nat, NEW top \in Nat, low <= top
  PROVE  LET v == Smaller(Larger(r, Larger(low, f)), top)
         IN /\ v \in {r, low, f, top}
            /\ low <= v /\ v <= top
            /\ f <= v \/ v = top
            /\ v <= r \/ v = low \/ v <= f
BY DEF Larger, Smaller

(***************************************************************************)
(* Legs                                                                    *)
(***************************************************************************)
(* A leg loses at most the configured share at its stop, unless the        *)
(* broker's minimum or min_volume raised it, and then by less than a step; *)
(* it is never above the broker's maximum nor below its minimum, and a     *)
(* whole number of steps (sizing.py:17-31).                                *)
THEOREM LegVolumeKeepsTheRisk ==
  ASSUME NEW spec, Spec(spec), NEW risk \in Nat, NEW loss \in Positive, NEW least \in Nat
  PROVE  LET v == LegVolume(risk, loss, spec, least)
         IN /\ v * loss <= risk \/ v = spec.volume_min \/ v < least + spec.volume_step
            /\ v >= least \/ v = spec.volume_max
            /\ spec.volume_min <= v /\ v <= spec.volume_max
            /\ MultipleOf(v, spec.volume_step)
<1> DEFINE step == spec.volume_step
           r == ByRisk(risk, loss, spec)
           f == CeilToStep(least, 1, step)
           top == spec.volume_max
           low == spec.volume_min
           v == LegVolume(risk, loss, spec, least)
<1>1. step \in Positive /\ low \in Positive /\ top \in Positive /\ low <= top
      /\ MultipleOf(low, step) /\ MultipleOf(top, step)
  BY DEF Spec
<1>2. r \in Nat /\ r * loss <= risk /\ MultipleOf(r, step)
  BY <1>1, FloorIsBelow DEF ByRisk
<1>3. f \in Nat /\ f >= least /\ f < least + step /\ MultipleOf(f, step)
  BY <1>1, CeilIsAbove
<1>4. v = Smaller(Larger(r, Larger(low, f)), top)
  BY DEF LegVolume, Positive
<1>type. step \in Nat /\ low \in Nat /\ top \in Nat /\ low <= top
  BY <1>1 DEF Positive
<1> HIDE DEF step, r, f, top, low, v
<1>5. /\ v \in {r, low, f, top}
      /\ low <= v /\ v <= top
      /\ f <= v \/ v = top
      /\ v <= r \/ v = low \/ v <= f
  BY <1>type, <1>2, <1>3, <1>4, Clamped
<1>6. MultipleOf(v, step)
  BY <1>1, <1>2, <1>3, <1>5
<1>7. v \in Nat /\ loss \in Nat
  BY <1>1, <1>2, <1>3, <1>5 DEF Positive
<1>8. v <= r => v * loss <= risk
  <2>1. HAVE v <= r
  <2>2. v * loss <= r * loss /\ v * loss \in Nat /\ r * loss \in Nat
    BY <1>2, <1>7, <2>1, ProductGrows
  <2> QED
    BY <1>2, <2>2
<1>9. v * loss <= risk \/ v = low \/ v < least + step
  <2>1. v <= f => v < least + step
    BY <1>type, <1>3, <1>7
  <2> QED
    BY <1>5, <1>8, <2>1
<1>10. v >= least \/ v = top
  BY <1>3, <1>5, <1>7
<1> QED
  BY <1>5, <1>6, <1>9, <1>10 DEF v, low, top, step

(***************************************************************************)
(* Mirrors                                                                 *)
(***************************************************************************)
LEMMA CapType ==
  ASSUME NEW spec, Spec(spec), NEW sizing, Sizes(sizing)
  PROVE  /\ Cap(sizing, spec) \in Nat
         /\ Cap(sizing, spec) <= sizing.max_lots /\ Cap(sizing, spec) <= spec.volume_max
         /\ MultipleOf(Cap(sizing, spec), spec.volume_step)
<1> DEFINE f == FloorToStep(sizing.max_lots, 1, spec.volume_step)
<1>1. f \in Nat /\ f * 1 <= sizing.max_lots /\ MultipleOf(f, spec.volume_step)
  BY FloorIsBelow DEF Spec, Sizes, Positive
<1>2. f <= sizing.max_lots
  BY <1>1
<1>3. Cap(sizing, spec) = Smaller(f, spec.volume_max)
  BY DEF Cap
<1> HIDE DEF f
<1> QED
  BY <1>1, <1>2, <1>3 DEF Smaller, Spec, Sizes, Positive

LEMMA RawType ==
  ASSUME NEW sizing, Sizes(sizing), NEW volume \in Nat, NEW source_balance \in Nat, NEW dest_balance \in Nat,
         sizing.mode = "balance_ratio" => source_balance # 0
  PROVE  LET raw == Raw(sizing, volume, source_balance, dest_balance)
         IN raw.num \in Nat /\ raw.den \in Positive
<1>1. sizing.num \in Nat /\ sizing.den \in Positive
  BY DEF Sizes
<1>2. volume * sizing.num \in Nat /\ (volume * dest_balance) * sizing.num \in Nat
  <2>1. volume * dest_balance \in Nat
    BY Z3
  <2> QED
    BY <1>1, <2>1, ProductGrows
<1>3. source_balance # 0 => source_balance * sizing.den \in Positive
  BY <1>1, PositiveProduct DEF Positive
<1>4. CASE sizing.mode = "fixed_lots"
  BY <1>1, <1>4 DEF Raw
<1>5. CASE sizing.mode = "source_lots"
  BY <1>1, <1>2, <1>5 DEF Raw
<1>6. CASE sizing.mode = "balance_ratio"
  BY <1>2, <1>3, <1>6 DEF Raw
<1> QED
  BY <1>4, <1>5, <1>6 DEF Sizes

(* What a mirror opens is never above max_lots or the broker's maximum, nor*)
(* below its minimum, and a whole number of steps; otherwise it opens      *)
(* nothing (mirror.py:138-158).                                            *)
THEOREM MirrorLotsWithinLimits ==
  ASSUME NEW spec, Spec(spec), NEW sizing, Sizes(sizing),
         NEW volume \in Nat, NEW source_balance \in Nat, NEW dest_balance \in Nat
  PROVE  LET v == MirrorLots(sizing, volume, source_balance, dest_balance, spec)
         IN \/ v = NoVolume
            \/ /\ spec.volume_min <= v /\ v <= spec.volume_max /\ v <= sizing.max_lots
               /\ v \in Nat /\ MultipleOf(v, spec.volume_step)
<1> DEFINE v == MirrorLots(sizing, volume, source_balance, dest_balance, spec)
           raw == Raw(sizing, volume, source_balance, dest_balance)
           n == RoundToStep(raw.num, raw.den, spec.volume_step)
           cap == Cap(sizing, spec)
<1>1. SUFFICES ASSUME ~(sizing.mode = "balance_ratio" /\ (source_balance = 0 \/ dest_balance = 0)),
                      ~(cap < spec.volume_min)
               PROVE  /\ spec.volume_min <= v /\ v <= spec.volume_max /\ v <= sizing.max_lots
                      /\ v \in Nat /\ MultipleOf(v, spec.volume_step)
  BY DEF MirrorLots
<1>2. v = Smaller(Larger(n, spec.volume_min), cap)
  BY <1>1 DEF MirrorLots, Placed
<1>3. raw.num \in Nat /\ raw.den \in Positive
  BY <1>1, RawType
<1>4. n \in Nat /\ MultipleOf(n, spec.volume_step)
  BY <1>3, RoundIsMultiple DEF Spec
<1>5. cap \in Nat /\ cap <= sizing.max_lots /\ cap <= spec.volume_max /\ MultipleOf(cap, spec.volume_step)
  BY CapType
<1>6. spec.volume_min \in Nat /\ spec.volume_max \in Nat /\ sizing.max_lots \in Nat
      /\ MultipleOf(spec.volume_min, spec.volume_step)
  BY DEF Spec, Sizes, Positive
<1> HIDE DEF v, raw, n, cap
<1>7. v \in {n, spec.volume_min, cap}
  BY <1>2 DEF Smaller, Larger
<1> QED
  BY <1>1, <1>2, <1>4, <1>5, <1>6, <1>7 DEF Smaller, Larger

(* A larger position of the source is never copied smaller, unless nothing *)
(* is opened for either (mirror.py:138-158).                               *)
THEOREM MirrorLotsGrow ==
  ASSUME NEW spec, Spec(spec), NEW sizing, Sizes(sizing),
         NEW a \in Nat, NEW b \in Nat, a <= b, NEW source_balance \in Nat, NEW dest_balance \in Nat
  PROVE  MirrorLots(sizing, a, source_balance, dest_balance, spec)
           <= MirrorLots(sizing, b, source_balance, dest_balance, spec)
<1> DEFINE lots(x) == MirrorLots(sizing, x, source_balance, dest_balance, spec)
           raw(x) == Raw(sizing, x, source_balance, dest_balance)
           n(x) == RoundToStep(raw(x).num, raw(x).den, spec.volume_step)
           cap == Cap(sizing, spec)
<1>1. CASE \/ sizing.mode = "balance_ratio" /\ (source_balance = 0 \/ dest_balance = 0)
           \/ cap < spec.volume_min
  BY <1>1 DEF MirrorLots, NoVolume
<1>2. CASE /\ ~(sizing.mode = "balance_ratio" /\ (source_balance = 0 \/ dest_balance = 0))
           /\ ~(cap < spec.volume_min)
  <2>1. \A x \in Nat : lots(x) = Smaller(Larger(n(x), spec.volume_min), cap)
    BY <1>2 DEF MirrorLots, Placed
  <2>2. raw(a).num \in Nat /\ raw(b).num \in Nat /\ raw(a).den \in Positive
    BY <1>2, RawType
  <2>3. raw(a).den = raw(b).den
    BY DEF Raw, Sizes
  <2>4. raw(a).num <= raw(b).num
    <3>1. sizing.num \in Nat
      BY DEF Sizes
    <3>2. a * sizing.num <= b * sizing.num
      BY <3>1, ProductGrows
    <3>3. a * dest_balance <= b * dest_balance /\ a * dest_balance \in Nat /\ b * dest_balance \in Nat
      BY ProductGrows
    <3>4. (a * dest_balance) * sizing.num <= (b * dest_balance) * sizing.num
      BY <3>1, <3>3, ProductGrows
    <3>5. CASE sizing.mode = "fixed_lots"
      BY <3>1, <3>5 DEF Raw
    <3>6. CASE sizing.mode = "source_lots"
      BY <3>2, <3>6 DEF Raw
    <3>7. CASE sizing.mode = "balance_ratio"
      BY <3>4, <3>7 DEF Raw
    <3> QED
      BY <3>5, <3>6, <3>7 DEF Sizes
  <2>5. spec.volume_step \in Positive /\ spec.volume_min \in Nat /\ cap \in Nat
    BY CapType DEF Spec, Positive
  <2>6. n(a) \in Nat /\ n(b) \in Nat /\ n(a) <= n(b)
    BY <2>2, <2>3, <2>4, <2>5, RoundGrows, RoundIsMultiple
  <2> HIDE DEF n, cap
  <2>7. Smaller(Larger(n(a), spec.volume_min), cap) <= Smaller(Larger(n(b), spec.volume_min), cap)
    BY <2>5, <2>6 DEF Smaller, Larger
  <2> QED
    BY <2>1, <2>7
<1> QED
  BY <1>1, <1>2

(* Stops set in pips lie on their sides of the price the copy is opened at,*)
(* so a copy is never opened with its stop on the winning side             *)
(* (mirror.py:168-184).                                                    *)
THEOREM PipStopsOnTheirSides ==
  ASSUME NEW rules, rules.sl.mode = "pips", rules.tp.mode = "pips",
         rules.sl.pips \in Positive, rules.tp.pips \in Positive,
         NEW spec, spec.ask \in Nat, spec.bid \in Nat, NEW written, NEW pip \in Positive
  PROVE  /\ LET s == MirrorStops(rules, "BUY", written, pip, spec) IN s[1] < spec.ask /\ spec.ask < s[2]
         /\ LET s == MirrorStops(rules, "SELL", written, pip, spec) IN s[2] < spec.bid /\ spec.bid < s[1]
<1> DEFINE d1 == rules.sl.pips * pip
           d2 == rules.tp.pips * pip
<1>1. d1 \in Positive /\ d2 \in Positive
  BY PositiveProduct
<1>2. MirrorStops(rules, "BUY", written, pip, spec) = <<spec.ask + (-1) * d1, spec.ask + 1 * d2>>
  BY DEF MirrorStops, StopAt, Positive, UnknownPip
<1>3. MirrorStops(rules, "SELL", written, pip, spec) = <<spec.bid + (-(-1)) * d1, spec.bid + (-1) * d2>>
  BY DEF MirrorStops, StopAt, Positive, UnknownPip
<1> HIDE DEF d1, d2
<1> QED
  BY <1>1, <1>2, <1>3 DEF Positive
===============================================================================
