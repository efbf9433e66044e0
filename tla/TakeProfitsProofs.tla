--------------------------- MODULE TakeProfitsProofs ---------------------------
(***************************************************************************)
(* What the rules for ladders promise for every ladder, price and note.    *)
(***************************************************************************)
EXTENDS Parsers, TLAPS

Sides == {"BUY", "SELL"}

\* Written prices are positive.
Ladder(tps) == \E n \in {3, 4} : tps \in [1..n -> Nat]

LEMMA LadderLength ==
  ASSUME NEW tps, NEW n \in {3, 4}, tps \in [1..n -> Nat]
  PROVE  Len(tps) = n /\ DOMAIN tps = 1..n
<1>1. tps \in Seq(Nat)
  OBVIOUS
<1> QED
  BY <1>1

\* Each TP beyond the one before, all beyond the reference price.
Climbs(tps, side, ref) ==
  /\ \A i \in 1..Len(tps) : ref # NoPrice => Beyond(side, tps[i], ref)
  /\ \A i, j \in 1..Len(tps) : i < j => Beyond(side, tps[j], tps[i])

(* A TP4 left open continues the ladder: what was in order before it is    *)
(* completed climbs from the first TP to the last after (models.py:57-68). *)
THEOREM CompletedClimbs ==
  ASSUME NEW side \in Sides, NEW ref \in Nat, NEW tps, Ladder(tps), InOrder(tps, side, ref),
         CompleteTps(tps) # NoTps
  PROVE  /\ CompleteTps(tps) \in [1..Len(tps) -> Int] /\ Len(CompleteTps(tps)) = Len(tps)
         /\ Climbs(CompleteTps(tps), side, ref)
<1>1. PICK n \in {3, 4} : tps \in [1..n -> Nat]
  BY DEF Ladder
<1>2. Len(tps) = n /\ DOMAIN tps = 1..n
  BY <1>1, LadderLength
<1>3. \A i \in 1..3 : tps[i] # NoPrice
  BY DEF CompleteTps
<1> DEFINE full == [i \in 1..n |-> IF tps[i] = NoPrice THEN tps[3] + (tps[3] - tps[2]) ELSE tps[i]]
<1>4. CompleteTps(tps) = full
  BY <1>2, <1>3 DEF CompleteTps
<1>5. full \in [1..n -> Int] /\ Len(full) = n
  <2>1. full \in [1..n -> Int]
    BY <1>1
  <2>2. full \in Seq(Int)
    BY <2>1
  <2> QED
    BY <2>1, <2>2
<1>6. /\ \A i \in 1..n : (tps[i] # 0 /\ ref # 0) => Beyond(side, tps[i], ref)
      /\ \A i, j \in 1..n : (i < j /\ tps[i] # 0 /\ tps[j] # 0) => Beyond(side, tps[j], tps[i])
  BY <1>2 DEF InOrder, NoPrice
<1>7. /\ \A i \in 1..3 : full[i] = tps[i] /\ tps[i] # 0 /\ tps[i] \in Nat
      /\ 3 \in 1..n /\ 2 \in 1..n /\ 1 \in 1..n
  BY <1>1, <1>3 DEF NoPrice
<1>8. Beyond(side, tps[3], tps[2]) /\ Beyond(side, tps[2], tps[1]) /\ Beyond(side, tps[3], tps[1])
  BY <1>6, <1>7
<1>9. \A i \in 1..n : full[i] = IF tps[i] = 0 THEN tps[3] + (tps[3] - tps[2]) ELSE tps[i]
  BY DEF NoPrice
<1>10. \A i \in 1..n : i \in {1, 2, 3, 4} /\ (i # 4 => tps[i] # 0)
  BY <1>7
<1> HIDE DEF full
<1>11. ASSUME NEW i \in 1..n, ref # 0
       PROVE  Beyond(side, full[i], ref)
  <2>1. CASE tps[i] # 0
    BY <1>6, <1>9, <1>11, <2>1
  <2>2. CASE tps[i] = 0
    <3>1. Beyond(side, tps[3], ref) /\ full[i] = tps[3] + (tps[3] - tps[2])
      BY <1>6, <1>7, <1>9, <1>11, <2>2
    <3> QED
      BY <1>7, <1>8, <3>1 DEF Beyond, Sides
  <2> QED
    BY <2>1, <2>2
<1>12. ASSUME NEW i \in 1..n, NEW j \in 1..n, i < j
       PROVE  Beyond(side, full[j], full[i])
  <2>1. i \in {1, 2, 3} /\ tps[i] # 0 /\ full[i] = tps[i]
    BY <1>1, <1>7, <1>10, <1>12
  <2>2. CASE tps[j] # 0
    BY <1>6, <1>9, <1>12, <2>1, <2>2
  <2>3. CASE tps[j] = 0
    <3>1. full[j] = tps[3] + (tps[3] - tps[2])
      BY <1>9, <2>3
    <3> QED
      BY <1>7, <1>8, <2>1, <3>1 DEF Beyond, Sides
  <2> QED
    BY <2>2, <2>3
<1> QED
  BY <1>2, <1>4, <1>5, <1>11, <1>12 DEF Climbs, NoPrice

\* A repair replaces one TP by its note.
LEMMA FixedOne ==
  ASSUME NEW side \in Sides, NEW near \in Nat, NEW tps, Ladder(tps), NEW notes,
         FixTpTypo(tps, side, near, notes) # tps
  PROVE  \E i \in 1..Len(tps) :
           /\ i \in DOMAIN notes
           /\ FixTpTypo(tps, side, near, notes) = [tps EXCEPT ![i] = Noted(side, near, notes[i])]
           /\ InOrder([tps EXCEPT ![i] = Noted(side, near, notes[i])], side, near)
           /\ tps[i] # NoPrice
<1>1. PICK n \in {3, 4} : tps \in [1..n -> Nat]
  BY DEF Ladder
<1>2. Len(tps) = n /\ DOMAIN tps = 1..n
  BY <1>1, LadderLength
<1> DEFINE R == Repairs(tps, side, near, notes)
<1>3. FixTpTypo(tps, side, near, notes)
        = [i \in 1..n |-> IF i \in R THEN Noted(side, near, notes[i]) ELSE tps[i]]
  BY <1>2 DEF FixTpTypo
<1>4. ASSUME R = {} PROVE FALSE
  BY <1>1, <1>3, <1>4
<1>5. PICK i : i \in R
  BY <1>4
<1>6. /\ i \in 1..n /\ tps[i] # NoPrice /\ i \in DOMAIN notes
      /\ R = {i}
      /\ InOrder([tps EXCEPT ![i] = Noted(side, near, notes[i])], side, near)
  BY <1>2, <1>5 DEF Repairs
<1> HIDE DEF R
<1>7. FixTpTypo(tps, side, near, notes) = [tps EXCEPT ![i] = Noted(side, near, notes[i])]
  BY <1>1, <1>2, <1>3, <1>6
<1> QED
  BY <1>2, <1>6, <1>7

(* A repaired entry is never turned down for the order of its TPs, nor for *)
(* their side unless its price was reached meanwhile: the repair and the   *)
(* validation agree (wolves.py:65-86, validation.py:27-37).                *)
THEOREM RepairedIsAccepted ==
  ASSUME NEW side \in Sides, NEW near \in Nat \ {0}, NEW tps, Ladder(tps),
         NEW places, NEW notes \in [places -> Nat], \A k \in places : Noted(side, near, notes[k]) \in Nat,
         FixTpTypo(tps, side, near, notes) # tps,
         NEW head, head.side = side, NEW type, NEW sl, NEW cfg, NEW quote, NEW aged,
         Build(head, type, near, sl, tps, notes).reason = "none"
  PROVE  LET fails == ValidateSignal(Build(head, type, near, sl, tps, notes).signal, cfg, quote, aged)
         IN /\ "tp_not_monotonic" \notin fails
            /\ "tp_wrong_side" \in fails
                 => type = "STOP" /\ ~Beyond(side, near, IF side = "BUY" THEN quote.ask ELSE quote.bid)
<1> DEFINE fixed == FixTpTypo(tps, side, near, notes)
           full == CompleteTps(fixed)
           sig == Build(head, type, near, sl, tps, notes).signal
<1>1. PICK n \in {3, 4} : tps \in [1..n -> Nat]
  BY DEF Ladder
<1>2. Len(tps) = n
  BY <1>1, LadderLength
<1>3. PICK i \in 1..n : /\ i \in DOMAIN notes
                        /\ fixed = [tps EXCEPT ![i] = Noted(side, near, notes[i])]
                        /\ InOrder(fixed, side, near)
  <2>1. near \in Nat
    OBVIOUS
  <2>2. \E i \in 1..Len(tps) :
          /\ i \in DOMAIN notes
          /\ FixTpTypo(tps, side, near, notes) = [tps EXCEPT ![i] = Noted(side, near, notes[i])]
          /\ InOrder([tps EXCEPT ![i] = Noted(side, near, notes[i])], side, near)
    BY <2>1, FixedOne, Zenon
  <2> QED
    BY <1>2, <2>2, Zenon
<1>4. fixed \in [1..n -> Nat]
  BY <1>1, <1>3
<1>5. Ladder(fixed) /\ Len(fixed) = n
  BY <1>4, LadderLength DEF Ladder
<1>6. near # NoPrice
  BY DEF NoPrice
<1>7. DOMAIN notes # {}
  BY <1>3
<1>8. /\ full # NoTps
      /\ sig.side = side /\ sig.zone = near /\ sig.type = type /\ sig.tps = full
  BY <1>6, <1>7 DEF Build, Rejected
<1> HIDE DEF sig, fixed
<1>9. /\ full \in [1..n -> Int] /\ Len(full) = n
      /\ \A k \in 1..n : Beyond(side, full[k], near)
      /\ \A j, k \in 1..n : j < k => Beyond(side, full[k], full[j])
  BY <1>3, <1>5, <1>6, <1>8, CompletedClimbs DEF Climbs
<1> HIDE DEF full
<1>10. \A k \in 2..n : Beyond(side, full[k], full[k - 1])
  <2>1. \A k \in 2..n : k \in 1..n /\ k - 1 \in 1..n /\ k - 1 < k
    OBVIOUS
  <2> QED
    BY <1>9, <2>1
<1>11. \A k \in 1..n : Beyond(side, 2 * full[k], 2 * near)
  BY <1>9 DEF Beyond, Sides
<1>12. DOMAIN full = 1..n
  BY <1>9
<1>13. "tp_not_monotonic" \notin ValidateSignal(sig, cfg, quote, aged)
  BY <1>8, <1>9, <1>10 DEF ValidateSignal
<1>14. "tp_wrong_side" \in ValidateSignal(sig, cfg, quote, aged)
         => type = "STOP" /\ ~Beyond(side, near, IF side = "BUY" THEN quote.ask ELSE quote.bid)
  BY <1>6, <1>8, <1>11, <1>12 DEF ValidateSignal
<1> QED
  BY <1>13, <1>14 DEF sig
===============================================================================
