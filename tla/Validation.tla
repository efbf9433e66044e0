------------------------------ MODULE Validation ------------------------------
(***************************************************************************)
(* The rules a parsed signal must pass before it is traded (validation.py) *)
(* and what makes a second reading of it differ (trader.py:288-314).       *)
(* Prices are positive integers and percentages whole numbers; a mid price *)
(* is compared at twice its size.                                          *)
(***************************************************************************)
EXTENDS Integers, Sequences

NoPrice == 0
NoQuote == [bid |-> NoPrice, ask |-> NoPrice]

Mid2(quote) == quote.bid + quote.ask

Distance(a, b) == IF a > b THEN a - b ELSE b - a
TooFar(a, b, pct) == Distance(a, b) * 100 > pct * b

\* The side of b on which the trade earns.
Beyond(side, a, b) == IF side = "BUY" THEN a > b ELSE a < b

\* sig.zone is the near price of the entry zone, NoPrice when the message names none.
ValidateSignal(sig, cfg, quote, aged) ==
  LET side == sig.side
      zoned == sig.zone # NoPrice
      quoted == quote # NoQuote
      ref == IF zoned THEN 2 * sig.zone ELSE Mid2(quote)
      market == IF side = "BUY" THEN quote.ask ELSE quote.bid
      triggered == sig.type = "STOP" /\ zoned /\ quoted /\ ~Beyond(side, sig.zone, market)
      off(pct) == zoned /\ quoted /\ TooFar(2 * sig.zone, Mid2(quote), pct)
      fails ==
        [ symbol_unmapped  |-> ~cfg.mapped,
          sl_wrong_side    |-> ref # NoPrice /\ ~Beyond(side, ref, 2 * sig.sl),
          tp_wrong_side    |-> \/ ref # NoPrice /\ \E i \in DOMAIN sig.tps : ~Beyond(side, 2 * sig.tps[i], ref)
                               \/ triggered /\ ~Beyond(side, sig.tps[1], market),
          sl_distance      |-> ref # NoPrice /\ Distance(ref, 2 * sig.sl) \notin (2 * cfg.sl_min)..(2 * cfg.sl_max),
          tp_not_monotonic |-> \E i \in 2..Len(sig.tps) : ~Beyond(side, sig.tps[i], sig.tps[i - 1]),
          stale            |-> aged,
          no_quote         |-> ~quoted,
          market_too_far   |-> \/ sig.type = "MARKET" /\ off(cfg.market_tolerance)
                               \/ triggered /\ TooFar(market, sig.zone, cfg.market_tolerance),
          limit_too_far    |-> sig.type = "LIMIT" /\ off(cfg.limit_max),
          stop_too_far     |-> sig.type = "STOP" /\ ~triggered /\ off(cfg.limit_max) ]
  IN {r \in DOMAIN fails : fails[r]}

(* _compare: where the model's reading of an entry differs.  Slots without *)
(* a number are passed over, and only three TPs are compared, with those   *)
(* written in the message.                                                 *)
Compare(sig, ex) ==
  LET known == SelectSeq(ex.tps, LAMBDA t : t # NoPrice)
      bad ==
        [ confidence |-> ~ex.sure,
          symbol     |-> ex.symbol # sig.symbol,
          side       |-> ex.side # sig.side,
          entry_type |-> ex.type # sig.type,
          sl         |-> ex.sl # sig.sl,
          tps        |-> Len(known) < 3 \/ \E i \in 1..3 : known[i] # sig.written[i],
          entry_zone |-> sig.zone # NoPrice /\ ex.zone # NoPrice /\ ex.zone # sig.zone ]
  IN {r \in DOMAIN bad : bad[r]}

PriceReasons ==
  {"sl_wrong_side", "tp_wrong_side", "sl_distance", "market_too_far", "limit_too_far", "stop_too_far"}
===============================================================================
