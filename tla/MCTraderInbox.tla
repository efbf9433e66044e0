----------------------------- MODULE MCTraderInbox -----------------------------
(***************************************************************************)
(* Instances of TraderInbox for TLC: a BUY at market with its stop at 2    *)
(* and targets at 6, 7 and 9, while the price is 4 or, past the first      *)
(* target, 8.                                                              *)
(***************************************************************************)
EXTENDS TraderInbox, Parsers

Entry == [kind |-> "entry", reply_to |-> NoMsg]
EntryLike == [kind |-> "entry_like", reply_to |-> NoMsg]
Other(reply_to) == [kind |-> "other", reply_to |-> reply_to]

ThreeMessages ==
  { <<Entry, Other(NoMsg), Entry>>, <<EntryLike, Entry, Other(1)>> }

OneEntry == { <<Entry>> }

BuyNow ==
  [ symbol |-> "XAUUSD", side |-> "BUY", type |-> "MARKET", zone |-> NoPrice, sl |-> 2,
    tps |-> <<6, 7, 9>>, written |-> <<6, 7, 9>> ]

\* "XAUUSD BUY NOW", a stop and three TPs.
ASSUME BuyNowIsParsed ==
  BuyNow = WolvesParse([ sl |-> 2, form |-> "now", levels |-> NoNotes, plain |-> <<6, 7, 9>>,
                         head |-> [side |-> "BUY", symbol |-> "XAUUSD", type |-> "MARKET", entry |-> NoPrice] ]).signal

\* The model agrees, with a slot for a TP left open; or reads another stop; or is not sure.
Reads(sl, sure) ==
  [ symbol |-> "XAUUSD", side |-> "BUY", type |-> "MARKET", zone |-> NoPrice, sl |-> sl,
    tps |-> <<NoPrice, 6, 7, 9>>, sure |-> sure ]
SomeReadings == {NoReading, Reads(2, TRUE), Reads(3, TRUE), Reads(2, FALSE)}

Settings == [mapped |-> TRUE, sl_min |-> 1, sl_max |-> 5, market_tolerance |-> 5, limit_max |-> 50]
Quote4 == [bid |-> 4, ask |-> 4]
Quote8 == [bid |-> 8, ask |-> 8]
Moving == {Quote4, Quote8}

(***************************************************************************)
(* The ladders of the tests, and the rules against what they stand for.    *)
(***************************************************************************)
Gold(p) == p * One
Sell4280 == [side |-> "SELL", symbol |-> "XAUUSD", type |-> "LIMIT", entry |-> Gold(4280)]
Sells(levels) ==
  WolvesParse([sl |-> Gold(4288), form |-> "block", head |-> Sell4280, levels |-> levels, plain |-> << >>])

\* tests/test_parser_wolves.py: a mistyped TP2 is repaired, with and without a TP4 left open; a TP
\* glued to its note is split; what cannot be repaired is left for validation to turn down.
ASSUME ParserExamples ==
  LET first == Level(Gold(4275), 50)
      third == Level(Gold(4265), 150)
  IN /\ Sells(<<first, Level(Gold(4260), 100), third>>).signal.tps = <<Gold(4275), Gold(4270), Gold(4265)>>
     /\ Sells(<<first, Level(Gold(4260), 100), third, Level(NoPrice, NoPips)>>).signal.tps
          = <<Gold(4275), Gold(4270), Gold(4265), Gold(4260)>>
     /\ Sells(<<first, Glued(Gold(4270100)), third>>).signal.tps = <<Gold(4275), Gold(4270), Gold(4265)>>
     /\ Sells(<<first, Level(Gold(4260), NoPips), third>>).signal.tps = <<Gold(4275), Gold(4260), Gold(4265)>>
     /\ Sells(<<first, third>>) = Rejected("need_three_tps")

\* Gluing is undone for every price with as many digits as the stop, and every note.
ASSUME UnglueUndoesGluing ==
  \A price \in {1000, 4133, 9999}, pips \in 1..200 :
    UngluePips(Glued(Gold(price * 10 ^ Digits(pips) + pips)), Gold(4156)) = Level(Gold(price), pips)

\* tests/test_suggest.py
ASSUME SuggestionExamples ==
  LET sells == <<Gold(4275), Gold(4260), Gold(4265)>>
      fixed == <<Gold(4275), Gold(4270), Gold(4265)>>
  IN /\ SuggestTps("SELL", sells, Gold(4280), <<50, 100, 150>>) = fixed
     /\ SuggestTps("SELL", sells, Gold(4280), NoNotes) = fixed
     /\ SuggestTps("BUY", <<Gold(4209), Gold(4214), Gold(4219), Gold(2424)>>, Gold(4204), NoNotes)
          = <<Gold(4209), Gold(4214), Gold(4219), Gold(4224)>>
     /\ SuggestTps("SELL", fixed, Gold(4280), NoNotes) = NoTps
     /\ SuggestTps("SELL", <<Gold(4290), Gold(4295), Gold(4300)>>, Gold(4280), NoNotes) = NoTps

\* A suggestion is in order; it changes one TP, or follows the notes.
ASSUME SuggestionsInOrder ==
  \A side \in {"BUY", "SELL"}, tps \in [1..3 -> {2, 4, 6, 8, 10}], ref \in {NoPrice, 6} :
    LET guess == SuggestTps(side, tps, ref, NoNotes)
    IN guess # NoTps => /\ InOrder(guess, side, ref) /\ ~InOrder(tps, side, ref)
                        /\ Cardinality({i \in 1..3 : guess[i] # tps[i]}) = 1
===============================================================================
