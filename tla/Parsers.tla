-------------------------------- MODULE Parsers --------------------------------
(***************************************************************************)
(* The two providers' parsers.  A message is what their patterns find in   *)
(* it: its stop, a header with side, symbol, type and near entry price, the*)
(* numbered TPs with the pips beside them, and the TPs without a number.   *)
(* Which words the patterns accept is left out; a symbol is canonical, or  *)
(* NoSymbol.                                                               *)
(***************************************************************************)
EXTENDS TakeProfits

NoSymbol == "unknown"
NoPips == -1

\* A TP as written; glued: its price runs straight into its pips.
Level(price, pips) == [price |-> price, pips |-> pips, glued |-> FALSE]
Glued(number) == [price |-> number, pips |-> NoPips, glued |-> TRUE]

NoSignal == [side |-> "none"]
NotAnEntry == [reason |-> "none", signal |-> NoSignal]
Rejected(why) == [reason |-> why, signal |-> NoSignal]

Digits(n) == CHOOSE d \in 1..9 : 10 ^ (d - 1) <= n /\ n < 10 ^ d

\* _unglue_pips: split where the stop's digits end, unless the rest is no pips figure.
UngluePips(level, sl) ==
  LET n == level.price \div One
      cut == 10 ^ (Digits(n) - Digits(sl \div One))
  IN IF level.glued /\ Digits(n) > Digits(sl \div One) /\ 10 * (n % cut) >= cut
     THEN Level((n \div cut) * One, n % cut)
     ELSE level

Unglued(levels, sl) == [i \in DOMAIN levels |-> UngluePips(levels[i], sl)]

NumberedTps(levels) ==
  IF ~(1..3 \subseteq DOMAIN levels) THEN NoTps
  ELSE [i \in (IF 4 \in DOMAIN levels THEN 1..4 ELSE 1..3) |-> levels[i].price]

PlainTps(plain) ==
  IF Len(plain) < 3 THEN NoTps ELSE SubSeq(plain, 1, IF Len(plain) > 3 THEN 4 ELSE 3)

\* _pips
Notes(levels) ==
  [i \in {k \in DOMAIN levels : levels[k].pips # NoPips} |-> levels[i].pips]

NoNotes == [i \in {} |-> 0]

\* _build.  written is the ladder the model's reading is compared with: tps but for what was repaired.
Build(head, type, zone, sl, tps, notes) ==
  LET fixed == IF zone # NoPrice /\ DOMAIN notes # {} THEN FixTpTypo(tps, head.side, zone, notes) ELSE tps
      full == CompleteTps(fixed)
  IN IF head.symbol = NoSymbol THEN Rejected("unknown_symbol")
     ELSE IF full = NoTps THEN Rejected("need_three_tps")
     ELSE [ reason |-> "none",
            signal |-> [ symbol |-> head.symbol, side |-> head.side, type |-> type, zone |-> zone, sl |-> sl,
                         tps |-> full,
                         written |-> [i \in 1..Len(full) |-> IF fixed[i] # tps[i] THEN tps[i] ELSE full[i]] ] ]

\* A market order is judged by the quote, so its entry price is dropped.
Zone(head) == IF head.type = "MARKET" THEN NoPrice ELSE head.entry

WolvesParse(msg) ==
  LET levels == Unglued(msg.levels, msg.sl)
      tps == NumberedTps(levels)
      plain == PlainTps(msg.plain)
      now == IF plain # NoTps THEN plain ELSE tps
  IN CASE msg.sl = NoPrice -> NotAnEntry
       [] msg.sl # NoPrice /\ msg.form \in {"at", "block"} ->
            IF tps = NoTps THEN Rejected("need_three_tps")
            ELSE Build(msg.head, msg.head.type, Zone(msg.head), msg.sl, tps, Notes(levels))
       [] msg.sl # NoPrice /\ msg.form = "now" ->
            IF now = NoTps THEN Rejected("need_three_tps")
            ELSE Build(msg.head, "MARKET", NoPrice, msg.sl, now, NoNotes)
       [] msg.sl # NoPrice /\ msg.form = "none" -> Rejected("no_header")

\* prev is what the inbox has before the message: a header alone, posted within SPLIT_WINDOW, or not.
LewisParse(msg, prev) ==
  LET tps == NumberedTps(msg.levels)
      build(head, type, zone) == Build(head, type, zone, msg.sl, tps, NoNotes)
  IN IF msg.sl = NoPrice \/ tps = NoTps THEN NotAnEntry
     ELSE CASE msg.form \in {"setup", "now"} -> build(msg.head, "MARKET", NoPrice)
            [] msg.form = "limit" -> IF msg.head.entry = NoPrice THEN Rejected("no_zone")
                                     ELSE build(msg.head, "LIMIT", msg.head.entry)
            [] msg.form = "body" /\ prev.form = "now" /\ prev.recent -> build(prev.head, "MARKET", NoPrice)
            [] msg.form = "none" \/ (msg.form = "body" /\ ~(prev.form = "now" /\ prev.recent)) -> Rejected("no_header")
===============================================================================
