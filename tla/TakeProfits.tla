------------------------------ MODULE TakeProfits ------------------------------
(***************************************************************************)
(* Ladders of take-profits: how one is completed, repaired from the pips   *)
(* notes beside it, and guessed for a person to look at (models.py,        *)
(* parsers/wolves.py, suggest.py).                                         *)
(*                                                                         *)
(* A price is a whole number of half pips, so the mean of two is one where *)
(* the written prices are whole pips.  NoPrice in the fourth place is a    *)
(* TP4 written as "Open".  Notes are a function from the place of a TP to  *)
(* the pips written beside it.                                             *)
(***************************************************************************)
EXTENDS Validation, FiniteSets

Pip == 2            \* PIP, PIP_SIZE
One == 10 * Pip     \* a price of 1.0

\* The error of complete_tps, and of a suggestion: none.
NoTps == << >>

\* A TP4 left open is as far from TP3 as TP3 is from TP2.
CompleteTps(tps) ==
  IF Len(tps) \notin {3, 4} \/ \E i \in 1..3 : tps[i] = NoPrice THEN NoTps
  ELSE [i \in 1..Len(tps) |-> IF tps[i] = NoPrice THEN tps[3] + (tps[3] - tps[2]) ELSE tps[i]]

\* Without a reference price only the order counts.
InOrder(tps, side, ref) ==
  /\ \A i \in 1..Len(tps) : (tps[i] # NoPrice /\ ref # NoPrice) => Beyond(side, tps[i], ref)
  /\ \A i, j \in 1..Len(tps) : (i < j /\ tps[i] # NoPrice /\ tps[j] # NoPrice) => Beyond(side, tps[j], tps[i])

\* Where a note puts a TP.
Noted(side, near, pips) == IF side = "BUY" THEN near + pips * Pip ELSE near - pips * Pip

\* The one TP that disagrees with its note, when at least two agree and the ladder is in order with it
\* repaired.
Repairs(tps, side, near, notes) ==
  LET noted == {i \in 1..Len(tps) : i \in DOMAIN notes /\ tps[i] # NoPrice}
      off == {i \in noted : tps[i] # Noted(side, near, notes[i])}
      fixed(i) == [tps EXCEPT ![i] = Noted(side, near, notes[i])]
  IN {i \in off : off = {i} /\ Cardinality(noted \ off) >= 2 /\ InOrder(fixed(i), side, near)}

FixTpTypo(tps, side, near, notes) ==
  IF InOrder(tps, side, near) THEN tps
  ELSE [i \in 1..Len(tps) |-> IF i \in Repairs(tps, side, near, notes) THEN Noted(side, near, notes[i]) ELSE tps[i]]

(***************************************************************************)
(* suggest_tps                                                             *)
(***************************************************************************)
\* As they are written: as many decimals, and all digits but one in common.
OneDigitApart(a, b) ==
  /\ a # b /\ a % Pip = 0 /\ b % Pip = 0 /\ (a % One = 0 <=> b % One = 0)
  /\ \E k \in 0..5 : LET p == Pip * 10 ^ k
                     IN a % p = b % p /\ a \div (10 * p) = b \div (10 * p) /\ (a < p <=> b < p)

\* A TP as far from its neighbours as they are from theirs.
Spaced(tps, i) ==
  LET n == Len(tps)
  IN IF i = 1 THEN 2 * tps[2] - tps[3]
     ELSE IF i = n THEN 2 * tps[n - 1] - tps[n - 2]
     ELSE (tps[i - 1] + tps[i + 1]) \div 2

\* One-digit slips first, then the smaller change, then the earlier TP.
Likelier(tps, i, j) ==
  LET slip(k) == OneDigitApart(tps[k], Spaced(tps, k))
      change(k) == Distance(tps[k], Spaced(tps, k))
  IN \/ slip(i) /\ ~slip(j)
     \/ /\ slip(i) <=> slip(j)
        /\ change(i) < change(j) \/ (change(i) = change(j) /\ i <= j)

SuggestTps(side, tps, ref, notes) ==
  LET noted == [i \in 1..Len(tps) |-> IF i \in DOMAIN notes THEN Noted(side, ref, notes[i]) ELSE tps[i]]
      spaced(i) == [tps EXCEPT ![i] = Spaced(tps, i)]
      guesses == {i \in 1..Len(tps) : Len(tps) >= 3 /\ InOrder(spaced(i), side, ref)}
      likeliest == CHOOSE i \in guesses : \A j \in guesses : Likelier(tps, i, j)
  IN IF InOrder(tps, side, ref) THEN NoTps
     ELSE IF ref # NoPrice /\ DOMAIN notes # {} /\ DOMAIN notes \subseteq 1..Len(tps) /\ InOrder(noted, side, ref)
     THEN noted
     ELSE IF guesses = {} THEN NoTps
     ELSE spaced(likeliest)
===============================================================================
