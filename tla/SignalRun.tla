------------------------------ MODULE SignalRun ------------------------------
(***************************************************************************)
(* One signal's run: the trader's SignalRun state machine (ladder.py,      *)
(* models.py and the handlers of trader.py that call it) against the       *)
(* SignalBridge EA and the broker.                                         *)
(*                                                                         *)
(* A handler of the trader loads the run, computes, writes command lines   *)
(* and saves the run at its end.  It is one action: the EA and the broker  *)
(* only meet it through the lines it wrote.  The process may die after any *)
(* of those lines, before the save.  The EA answers commands in file order *)
(* and each cmd_id once (AnswerLog); state.json lags what it did.          *)
(*                                                                         *)
(* Time is the three deadlines of a leg, each off, running (on) or passed  *)
(* (due).  Prices are levels, positive integers.                           *)
(***************************************************************************)
EXTENDS Integers, Sequences, FiniteSets

CONSTANTS
  NumLegs,      \* one leg per take-profit
  Side,         \* "BUY" or "SELL"
  EntryType,    \* "MARKET", "LIMIT" or "STOP"
  SignalSl,     \* the signal's stop
  Tp1,          \* its first take-profit
  FillPrice,    \* where each leg fills
  MovePrices,   \* stops the provider may ask for
  Quotes,       \* market prices when a message is handled
  Actions,      \* management_actions of the configuration
  Crosscheck,   \* market_crosscheck_after: a model checks the entry after placement
  Faults,       \* what may go wrong outside the trader
  MaxMessages,  \* bound: management messages
  MaxFaults,    \* bound: faults
  MaxSeq        \* bound: commands after which nothing is retried

Legs == 1..NumLegs
Opening == {"open_market", "open_pending"}
Kinds == Opening \union {"modify_sl", "close", "cancel"}
Closed == {"CLOSED_TP", "CLOSED_SL", "CLOSED_MANUAL"}
Finished == Closed \union {"CANCELLED"}
LegStates == Finished \union {"PLACING", "PENDING_ORDER", "OPEN"}
Live == {"PLACING", "ACTIVE"}
ActionKinds == {"close_all", "cancel_pending", "break_even", "move_sl"}
Timers == {"off", "on", "due"}

FaultKinds ==
  { "reject",   \* the broker refuses a command
    "lost",     \* a result line is never written
    "stale",    \* state.json is not rewritten for MISSING_GRACE_SEC
    "late",     \* a command is not answered for INFLIGHT_TIMEOUT_SEC
    "crash",    \* the trader dies
    "unsent",   \* commands.jsonl cannot be written
    "nofill",   \* a market order's result does not say its price
    "by_hand" } \* somebody closes a position or deletes an order at the terminal

NoCmd == 0
NoPrice == 0
Prices == {SignalSl, Tp1} \union MovePrices \union {FillPrice[l] : l \in Legs}

ASSUME RunAssumption ==
  /\ NumLegs \in Nat \ {0}
  /\ Side \in {"BUY", "SELL"}
  /\ EntryType \in {"MARKET", "LIMIT", "STOP"}
  /\ FillPrice \in [Legs -> Nat \ {0}]
  /\ SignalSl \in Nat \ {0} /\ Tp1 \in Nat \ {0}
  /\ MovePrices \subseteq Nat \ {0}
  /\ Quotes \subseteq Nat
  /\ Actions \subseteq ActionKinds
  /\ Crosscheck \in BOOLEAN
  /\ Faults \subseteq FaultKinds
  /\ MaxMessages \in Nat /\ MaxFaults \in Nat /\ MaxSeq \in Nat

VARIABLES
  run,        \* the saved SignalRun
  handled,    \* the signal's inbox message is 'processed'
  checking,   \* a post-placement crosscheck is outstanding (memory only)
  up,         \* the trader is running
  commands,   \* command lines the EA has not reached
  answered,   \* cmd_ids the EA knows and the trader may still reuse
  results,    \* result lines the trader has not read
  broker,     \* each leg's order or position at the broker, and its stop
  state,      \* state.json: each leg's entry when it was last written
  expired,    \* the pending orders' time to live has passed
  messages,   \* management messages so far
  faults      \* faults so far

trader == <<run, handled, checking, up>>
bridge == <<commands, answered, results>>
env == <<expired, messages, faults>>
vars == <<run, handled, checking, up, commands, answered, results, broker, state,
          expired, messages, faults>>

Fault(kind) == kind \in Faults /\ faults < MaxFaults /\ faults' = faults + 1
NoFault == UNCHANGED faults

(***************************************************************************)
(* Prices                                                                  *)
(***************************************************************************)
SlImproves(new, current) ==
  current <= 0 \/ IF Side = "BUY" THEN new > current ELSE new < current

SlValidVsMarket(new, quote) == IF Side = "BUY" THEN new < quote ELSE new > quote

(***************************************************************************)
(* The run                                                                 *)
(***************************************************************************)
NewLeg ==
  [ state |-> "PLACING", sl_current |-> SignalSl, entry_price |-> NoPrice,
    inflight_cmd |-> NoCmd, inflight_kind |-> "none", inflight_sl |-> NoPrice,
    inflight_since |-> "off", missing_since |-> "off", retry_after |-> "off" ]

NewRun ==
  [ state |-> "NEW", legs |-> [l \in Legs |-> NewLeg], seq |-> 0,
    be_applied |-> FALSE, tp1_applied |-> FALSE,
    pendings_cancelled |-> FALSE, close_requested |-> FALSE ]

In(r, states) == {l \in Legs : r.legs[l].state \in states}
Idle(r) == {l \in Legs : r.legs[l].inflight_cmd = NoCmd}
MayRetry(r) == {l \in Idle(r) : r.legs[l].retry_after # "on"}

\* Mutant: a cancelled leg does not count as finished.
RecomputeClosedOnly(r) ==
  [r EXCEPT !.state =
     IF @ = "REJECTED" THEN @
     ELSE IF In(r, Closed) = Legs THEN "DONE"
     ELSE "ACTIVE"]

Recompute(r) ==
  [r EXCEPT !.state =
     IF @ = "REJECTED" THEN @
     ELSE IF In(r, Finished) = Legs THEN "DONE"
     ELSE IF In(r, {"PLACING"}) # {} /\ In(r, {"OPEN", "PENDING_ORDER"}) = {} THEN "PLACING"
     ELSE "ACTIVE"]

\* Mutant: the kind of the command is not reset.
NoInflightKeepsKind(leg) ==
  [leg EXCEPT !.inflight_cmd = NoCmd, !.inflight_sl = NoPrice, !.inflight_since = "off"]

NoInflight(leg) ==
  [leg EXCEPT !.inflight_cmd = NoCmd, !.inflight_kind = "none",
              !.inflight_sl = NoPrice, !.inflight_since = "off"]

(***************************************************************************)
(* A handler at work: the run in memory, the lines written so far, and the *)
(* numbers of the commands commands.jsonl does not take.                   *)
(***************************************************************************)
Begin(r, unwritable) == [run |-> r, out |-> << >>, unwritable |-> unwritable]

\* A handler sends a leg two commands only when another leg has ended, so it sends no more than these.
Most == IF NumLegs = 1 THEN 1 ELSE 2 * (NumLegs - 1)

Unwritable(seq) ==
  IF "unsent" \in Faults /\ faults < MaxFaults THEN SUBSET ((seq + 1)..(seq + Most)) ELSE {{}}

\* Mutant: the stop asked for is not remembered.
WaitingForgetsSl(leg, n, what) ==
  [leg EXCEPT !.inflight_cmd = n, !.inflight_kind = what.kind, !.inflight_sl = NoPrice,
              !.inflight_since = "off"]

\* Mutant: the stop of a command still in flight is kept.
WaitingKeepsSl(leg, n, what) ==
  [leg EXCEPT !.inflight_cmd = n, !.inflight_kind = what.kind, !.inflight_since = "off",
              !.inflight_sl = IF @ = NoPrice THEN what.sl ELSE @]

\* What a leg remembers of the command it now waits for.
Waiting(leg, n, what) ==
  [leg EXCEPT !.inflight_cmd = n, !.inflight_kind = what.kind, !.inflight_sl = what.sl,
              !.inflight_since = "off"]

\* _send, for the legs in DOMAIN what and in leg order; each line is tried.
Send(h, what) ==
  LET S == DOMAIN what
      number(l) == h.run.seq + Cardinality({k \in S : k <= l})
      W == {l \in S : number(l) \notin h.unwritable}
      sent(l) == Waiting(h.run.legs[l], number(l), what[l])
      unsent(l) == [NoInflight(h.run.legs[l]) EXCEPT
                      !.state = IF what[l].kind \in Opening THEN "CANCELLED" ELSE @]
      line(i) == LET l == CHOOSE k \in W : Cardinality({j \in W : j <= k}) = i
                 IN [leg |-> l, n |-> number(l), kind |-> what[l].kind, sl |-> what[l].sl]
  IN [ h EXCEPT
         !.run.seq = @ + Cardinality(S),
         !.run.legs = [l \in Legs |-> IF l \in W THEN sent(l)
                                      ELSE IF l \in S THEN unsent(l) ELSE @[l]],
         !.out = @ \o [i \in 1..Cardinality(W) |-> line(i)] ]

To(S, kind) == [l \in S |-> [kind |-> kind, sl |-> NoPrice]]

\* _modify: only a stop that locks in more than the leg's current one is sent.
Modify(h, S, sl) ==
  Send(h, [l \in {k \in S : SlImproves(sl[k], h.run.legs[k].sl_current)} |->
             [kind |-> "modify_sl", sl |-> sl[l]]])

(***************************************************************************)
(* place_run                                                               *)
(***************************************************************************)
\* A passed entry with the price past the stop too, or a leg that cannot be sized.
PlaceNothing(h) ==
  LET nothing == [h.run EXCEPT !.legs = [l \in Legs |-> [@[l] EXCEPT !.state = "CANCELLED"]]]
  IN [h EXCEPT !.run = Recompute(nothing)]

PlaceRun(h, kind) ==
  LET sent == Send(h, To(Legs, kind)).run
      placing == [sent EXCEPT !.state = "PLACING"]
  IN [ Send(h, To(Legs, kind)) EXCEPT
         !.run = IF In(sent, {"PLACING"}) = {} THEN Recompute(placing) ELSE placing ]

(***************************************************************************)
(* apply_results: a result concerns the leg that still waits for its       *)
(* cmd_id, and is read as the answer to the kind of command the leg        *)
(* remembers.                                                              *)
(***************************************************************************)
\* Mutant: the leg keeps waiting for the command that failed.
FailedKeepsWaiting(leg) == [leg EXCEPT !.retry_after = "on"]

Failed(leg) ==
  IF leg.inflight_kind \in Opening
  THEN [NoInflight(leg) EXCEPT !.state = "CANCELLED"]
  ELSE [NoInflight(leg) EXCEPT !.retry_after = "on"]

Succeeded(leg, fill_price) ==
  LET done == [NoInflight(leg) EXCEPT !.retry_after = "off"]
  IN CASE leg.inflight_kind = "open_market"  -> [done EXCEPT !.state = "OPEN", !.entry_price = fill_price]
       [] leg.inflight_kind = "open_pending" -> [done EXCEPT !.state = "PENDING_ORDER"]
       [] leg.inflight_kind = "modify_sl"    -> [done EXCEPT !.sl_current = leg.inflight_sl]
       [] leg.inflight_kind = "close"        -> [done EXCEPT !.state = "CLOSED_MANUAL"]
       [] leg.inflight_kind = "cancel"       -> [done EXCEPT !.state = "CANCELLED"]

ApplyResults(r, rs) ==
  LET mine(l) == {x \in rs : x.leg = l /\ x.n = r.legs[l].inflight_cmd}
      applied(leg, x) == IF x.ok THEN Succeeded(leg, x.fill_price) ELSE Failed(leg)
      leg(l) == IF mine(l) = {} THEN r.legs[l] ELSE applied(r.legs[l], CHOOSE x \in mine(l) : TRUE)
  IN Recompute([r EXCEPT !.legs = [l \in Legs |-> leg(l)]])

(***************************************************************************)
(* sync_run                                                                *)
(***************************************************************************)
\* Mutant: an opening command is given up too.
ExpireInflightOpenings(leg) ==
  IF leg.inflight_cmd = NoCmd THEN leg
  ELSE IF leg.inflight_since = "off" THEN [leg EXCEPT !.inflight_since = "on"]
  ELSE IF leg.inflight_since = "on" THEN leg
  ELSE [NoInflight(leg) EXCEPT !.retry_after = "on",
          !.state = IF leg.inflight_kind \in Opening THEN "CANCELLED" ELSE @]

\* Mutant: the deadline is set anew on every tick.
ExpireInflightRestarts(leg) ==
  IF leg.inflight_cmd = NoCmd \/ leg.inflight_kind \in Opening THEN leg
  ELSE [leg EXCEPT !.inflight_since = "on"]

\* _expire_inflight
ExpireInflight(leg) ==
  IF leg.inflight_cmd = NoCmd \/ leg.inflight_kind \in Opening THEN leg
  ELSE IF leg.inflight_since = "off" THEN [leg EXCEPT !.inflight_since = "on"]
  ELSE IF leg.inflight_since = "on" THEN leg
  ELSE [NoInflight(leg) EXCEPT !.retry_after = "on"]

\* Mutant: no grace.
MissingAtOnce(leg, verdict) == [leg EXCEPT !.state = verdict]

\* A leg not found in state.json is given MISSING_GRACE_SEC before it is written off.  The timer of a
\* finished leg, which nothing reads, is off.
Missing(leg, verdict) ==
  CASE leg.missing_since = "off" -> [leg EXCEPT !.missing_since = "on"]
    [] leg.missing_since = "on"  -> leg
    [] leg.missing_since = "due" -> [leg EXCEPT !.state = verdict, !.missing_since = "off"]

\* _detect
Detect(leg, l, entry) ==
  IF leg.inflight_cmd # NoCmd THEN leg
  ELSE IF leg.state = "PENDING_ORDER" THEN
    CASE entry = "order"    -> [leg EXCEPT !.missing_since = "off"]
      [] entry = "position" -> [leg EXCEPT !.state = "OPEN", !.entry_price = FillPrice[l],
                                           !.missing_since = "off"]
      [] OTHER              -> Missing(leg, "CANCELLED")
  ELSE IF leg.state = "OPEN" THEN
    CASE entry = "position" -> [leg EXCEPT !.missing_since = "off",
                                           !.entry_price = IF @ = NoPrice THEN FillPrice[l] ELSE @]
      [] entry \in Closed   -> [leg EXCEPT !.state = entry, !.missing_since = "off"]
      [] OTHER              -> Missing(leg, "CLOSED_MANUAL")
  ELSE leg

\* _close_everything
CloseEverything(h) ==
  LET kind == [l \in In(h.run, {"OPEN", "PENDING_ORDER"}) \intersect MayRetry(h.run) |->
                 IF h.run.legs[l].state = "OPEN" THEN "close" ELSE "cancel"]
  IN Send(h, [l \in DOMAIN kind |-> [kind |-> kind[l], sl |-> NoPrice]])

\* Mutant: any close counts.
ReachedByAnyClose(r, l) == NumLegs >= l /\ l \in In(r, Closed)

Reached(r, l) == NumLegs >= l /\ l \in In(r, {"CLOSED_TP"})

\* The three rules of _ladder, in its order.
BreakEvenAfterTp2(h) ==
  IF Reached(h.run, 2) /\ ~h.run.be_applied
  THEN [Modify(h, {l \in In(h.run, {"OPEN"}) : l > 2 /\ h.run.legs[l].entry_price # NoPrice},
                  [l \in Legs |-> h.run.legs[l].entry_price]) EXCEPT !.run.be_applied = TRUE]
  ELSE h

SlToTp1AfterTp3(h) ==
  IF Reached(h.run, 3) /\ ~h.run.tp1_applied
  THEN [Modify(h, {l \in In(h.run, {"OPEN"}) : l > 3}, [l \in Legs |-> Tp1]) EXCEPT !.run.tp1_applied = TRUE]
  ELSE h

CancelAfterSl(h) ==
  IF /\ In(h.run, {"CLOSED_SL"}) # {}
     /\ In(h.run, {"PENDING_ORDER"}) # {}
     /\ ~h.run.pendings_cancelled
  THEN [Send(h, To(In(h.run, {"PENDING_ORDER"}), "cancel")) EXCEPT !.run.pendings_cancelled = TRUE]
  ELSE h

\* Mutant: the rules in another order.
LadderSwapped(h) == CancelAfterSl(BreakEvenAfterTp2(SlToTp1AfterTp3(h)))

Ladder(h) == CancelAfterSl(SlToTp1AfterTp3(BreakEvenAfterTp2(h)))

\* _expiry_backstop
ExpiryBackstop(h) ==
  IF EntryType # "MARKET" /\ expired
  THEN Send(h, To(In(h.run, {"PENDING_ORDER"}) \intersect MayRetry(h.run), "cancel"))
  ELSE h

\* Mutant: a position in the snapshot is an open leg, whatever is known of it.
ObserveTrusting(r, snapshot) ==
  [r EXCEPT !.legs = [l \in Legs |->
     [Detect(ExpireInflight(@[l]), l, snapshot[l]) EXCEPT
        !.state = IF snapshot[l] = "position" THEN "OPEN" ELSE @]]]

Observe(r, snapshot) ==
  [r EXCEPT !.legs = [l \in Legs |-> Detect(ExpireInflight(@[l]), l, snapshot[l])]]

\* Mutant: the legs are closed once and not again.
SyncRunClosesOnce(h, snapshot) ==
  LET seen == [h EXCEPT !.run = Observe(@, snapshot)]
  IN IF seen.run.close_requested
     THEN [CloseEverything(seen) EXCEPT !.run.close_requested = FALSE]
     ELSE Ladder(seen)

SyncRun(h, snapshot) ==
  LET seen == [h EXCEPT !.run = Observe(@, snapshot)]
      acted == IF seen.run.close_requested THEN CloseEverything(seen)
               ELSE ExpiryBackstop(Ladder(seen))
  IN [acted EXCEPT !.run = Recompute(@)]

(***************************************************************************)
(* apply_action                                                            *)
(***************************************************************************)
CloseAll(h) ==
  LET closing == Send(h, To(In(h.run, {"OPEN"}) \intersect Idle(h.run), "close"))
  IN [ Send(closing, To(In(h.run, {"PENDING_ORDER"}) \intersect Idle(h.run), "cancel"))
       EXCEPT !.run.pendings_cancelled = TRUE ]

CancelPending(h) ==
  [ Send(h, To(In(h.run, {"PENDING_ORDER"}) \intersect Idle(h.run), "cancel"))
    EXCEPT !.run.pendings_cancelled = TRUE ]

BreakEven(h) ==
  Modify(h, {l \in In(h.run, {"OPEN"}) : h.run.legs[l].entry_price # NoPrice},
            [l \in Legs |-> h.run.legs[l].entry_price])

\* A stop on the wrong side of the market, or better for no leg, is refused.
MoveSl(h, price, quote) ==
  IF /\ SlValidVsMarket(price, quote)
     /\ \E l \in In(h.run, {"OPEN"}) : SlImproves(price, h.run.legs[l].sl_current)
  THEN Modify(h, In(h.run, {"OPEN"}), [l \in Legs |-> price])
  ELSE h

ApplyAction(h, action, price, quote) ==
  CASE action = "close_all"      -> CloseAll(h)
    [] action = "cancel_pending" -> CancelPending(h)
    [] action = "break_even"     -> BreakEven(h)
    [] action = "move_sl"        -> MoveSl(h, price, quote)

(***************************************************************************)
(* startup_reconcile: legs are adopted by the comment of their order or    *)
(* position.                                                               *)
(***************************************************************************)
Adopt(leg, l, entry) ==
  IF leg.state \in {"PLACING", "PENDING_ORDER"} /\ entry = "position"
  THEN [leg EXCEPT !.state = "OPEN", !.entry_price = FillPrice[l],
                   !.inflight_cmd = NoCmd, !.inflight_kind = "none"]
  ELSE IF leg.state = "PLACING" /\ entry = "order"
  THEN [leg EXCEPT !.state = "PENDING_ORDER", !.inflight_cmd = NoCmd, !.inflight_kind = "none"]
  ELSE leg

Reconcile(r, snapshot) ==
  LET adopted == [r EXCEPT !.legs = [l \in Legs |-> Adopt(@[l], l, snapshot[l])]]
  IN IF r.state \notin Live \/ adopted = r THEN r ELSE Recompute(adopted)

(***************************************************************************)
(* Steps of the trader                                                     *)
(***************************************************************************)
Init ==
  /\ run = NewRun /\ handled = FALSE /\ checking = FALSE /\ up = TRUE
  /\ commands = << >> /\ answered = {} /\ results = {}
  /\ broker = [l \in Legs |-> [st |-> "none", sl |-> NoPrice]]
  /\ state = [l \in Legs |-> "none"]
  /\ expired = FALSE /\ messages = 0 /\ faults = 0

\* The handler h runs to its save.
Completes(h) ==
  /\ run' = h.run
  /\ commands' = commands \o h.out
  /\ IF h.unwritable = {} THEN NoFault ELSE Fault("unsent")
  /\ UNCHANGED up

\* The process dies in h: after some of its lines, the run in memory gone, or after the save and
\* before the message is marked 'processed' or the results are marked read.
DiesIn(h) ==
  /\ h.unwritable = {}
  /\ Fault("crash")
  /\ up' = FALSE
  /\ checking' = FALSE
  /\ \/ \E sent \in 0..Len(h.out) : commands' = commands \o SubSeq(h.out, 1, sent) /\ UNCHANGED run
     \/ commands' = commands \o h.out /\ run' = h.run

Rejected == [NewRun EXCEPT !.state = "REJECTED"]

\* _handle_signal once the message is neither deferred nor turned down.
Placements(unwritable) ==
  LET h == Begin(NewRun, unwritable)
  IN {PlaceNothing(h), PlaceRun(h, "open_market")}
     \union (IF EntryType = "MARKET" THEN {} ELSE {PlaceRun(h, "open_pending")})

Place ==
  /\ up /\ ~handled
  /\ \E unwritable \in Unwritable(0) : \E h \in Placements(unwritable) :
       \/ /\ Completes(h)
          /\ handled' = TRUE
          /\ checking' = (Crosscheck /\ EntryType = "MARKET")
       \/ DiesIn(h) /\ UNCHANGED handled
  /\ UNCHANGED <<answered, results, broker, state, expired, messages>>

\* Validation fails, or a guard that does not pass by itself.
Reject ==
  /\ up /\ ~handled
  /\ run' = Rejected
  /\ handled' = TRUE
  /\ UNCHANGED <<checking, up, bridge, broker, state, env>>

\* _handle_management.  A message whose handling died is one of the messages to come.
Manage(action) ==
  /\ up /\ run.state \in Live
  /\ messages < MaxMessages /\ run.seq < MaxSeq
  /\ messages' = messages + 1
  /\ \E unwritable \in Unwritable(run.seq), price \in MovePrices, quote \in Quotes :
       LET h == ApplyAction(Begin(run, unwritable), action, price, quote)
       IN \/ Completes(h) /\ UNCHANGED checking
          \/ DiesIn(h)
  /\ UNCHANGED <<handled, answered, results, broker, state, expired>>

\* _finish_postchecks: no answer or agreement leaves the run alone.
FinishPostcheck ==
  /\ up /\ checking
  /\ checking' = FALSE
  /\ run' \in {run, [run EXCEPT !.close_requested = TRUE]}
  /\ UNCHANGED <<handled, up, bridge, broker, state, env>>

\* sync with a readable state.json of an armed terminal.
Sync ==
  /\ up /\ run.state \in Live
  /\ \E unwritable \in Unwritable(run.seq) :
       LET h == SyncRun(Begin(ApplyResults(run, results), unwritable), state)
       IN \/ Completes(h) /\ results' = {} /\ UNCHANGED checking
          \/ DiesIn(h) /\ UNCHANGED results
  /\ UNCHANGED <<handled, answered, broker, state, expired, messages>>

\* sync without one, or with no run in progress: results are read, and nothing is decided.
SyncBlind ==
  /\ up /\ results # {}
  /\ run' = IF run.state \in Live THEN ApplyResults(run, results) ELSE run
  /\ results' = {}
  /\ UNCHANGED <<handled, checking, up, commands, answered, broker, state, env>>

\* The process starts again, with or without a state.json to reconcile with.
Restart ==
  /\ ~up
  /\ up' = TRUE
  /\ run' \in {run, Reconcile(run, state)}
  /\ UNCHANGED <<handled, checking, bridge, broker, state, env>>

(***************************************************************************)
(* Steps of the EA                                                         *)
(***************************************************************************)
Id(c) == <<c.leg, c.n>>

\* Mutant: the EA forgets what it answered.
RepeatableNone(ids, lines) == {}

\* The others are in no line to come, and the saved run has counted past them.
Repeatable(ids, lines) ==
  {id \in ids : \/ ~handled \/ id[2] > run.seq
                \/ \E i \in 1..Len(lines) : id = Id(lines[i])}

CanDo(c) ==
  CASE c.kind \in Opening              -> TRUE
    [] c.kind \in {"modify_sl", "close"} -> broker[c.leg].st = "position"
    [] c.kind = "cancel"               -> broker[c.leg].st = "order"

Once(c, st) == IF broker[c.leg].st = "none" THEN st ELSE "twice"

Done(c) ==
  CASE c.kind = "open_market"  -> [st |-> Once(c, "position"), sl |-> SignalSl]
    [] c.kind = "open_pending" -> [st |-> Once(c, "order"), sl |-> SignalSl]
    [] c.kind = "modify_sl"    -> [broker[c.leg] EXCEPT !.sl = c.sl]
    [] c.kind = "close"        -> [st |-> "CLOSED_MANUAL", sl |-> NoPrice]
    [] c.kind = "cancel"       -> [st |-> "gone", sl |-> NoPrice]

Result(c, ok, fill_price) == [leg |-> c.leg, n |-> c.n, ok |-> ok, fill_price |-> fill_price]

Takes(c) ==
  /\ commands # << >>
  /\ c = Head(commands)
  /\ commands' = Tail(commands)
  /\ UNCHANGED <<run, handled, checking, up, state, expired, messages>>

\* A cmd_id that has a result already is skipped without another one.
SkipCommand(c) ==
  /\ Takes(c)
  /\ Id(c) \in answered
  /\ NoFault
  /\ UNCHANGED <<answered, results, broker>>

ExecuteCommand(c) ==
  /\ Takes(c)
  /\ Id(c) \notin answered /\ CanDo(c)
  /\ broker' = [broker EXCEPT ![c.leg] = Done(c)]
  /\ answered' = Repeatable(answered \union {Id(c)}, Tail(commands))
  /\ LET price == IF c.kind = "open_market" THEN FillPrice[c.leg] ELSE NoPrice
     IN \/ NoFault /\ results' = results \union {Result(c, TRUE, price)}
        \/ Fault("lost") /\ UNCHANGED results
        \/ /\ c.kind = "open_market" /\ Fault("nofill")
           /\ results' = results \union {Result(c, TRUE, NoPrice)}

\* Nothing to act on (any more), or the broker's no.
RefuseCommand(c) ==
  /\ Takes(c)
  /\ Id(c) \notin answered
  /\ IF CanDo(c) THEN Fault("reject") ELSE NoFault
  /\ answered' = Repeatable(answered \union {Id(c)}, Tail(commands))
  /\ results' = results \union {Result(c, FALSE, NoPrice)}
  /\ UNCHANGED broker

Answer == commands # << >> /\ LET c == Head(commands)
                              IN SkipCommand(c) \/ ExecuteCommand(c) \/ RefuseCommand(c)

Current == [l \in Legs |-> broker[l].st]

WriteState ==
  /\ state # Current
  /\ state' = Current
  /\ UNCHANGED <<trader, bridge, broker, env>>

(***************************************************************************)
(* The market and the people at the terminal                               *)
(***************************************************************************)
Becomes(l, st) ==
  /\ broker' = [broker EXCEPT ![l] = [st |-> st, sl |-> IF st = "position" THEN @.sl ELSE NoPrice]]
  /\ UNCHANGED <<trader, bridge, state, expired, messages>>

Fill(l) == broker[l].st = "order" /\ Becomes(l, "position") /\ NoFault

\* Take-profits are reached in their order.
HitTp(l) ==
  /\ broker[l].st = "position"
  /\ \A k \in 1..(l - 1) : broker[k].st # "position"
  /\ Becomes(l, "CLOSED_TP") /\ NoFault

\* The closest stop is reached first.
HitSl(l) ==
  /\ broker[l].st = "position"
  /\ \A k \in Legs : broker[k].st = "position" => ~(broker[k].sl # broker[l].sl /\ SlImproves(broker[k].sl, broker[l].sl))
  /\ Becomes(l, "CLOSED_SL") /\ NoFault

CloseByHand(l) == broker[l].st = "position" /\ Becomes(l, "CLOSED_MANUAL") /\ Fault("by_hand")

OrderGone(l) ==
  /\ broker[l].st = "order"
  /\ Becomes(l, "gone")
  /\ IF expired THEN NoFault ELSE Fault("by_hand")

(***************************************************************************)
(* Time.  A deadline is far longer than the EA's cycle: unless the         *)
(* terminal is down ("stale"), state.json has been rewritten and a command *)
(* answered before one passes.                                             *)
(***************************************************************************)
Passes(l, timer, from, to) ==
  /\ run.legs[l][timer] = from
  /\ run' = [run EXCEPT !.legs[l][timer] = to]
  /\ UNCHANGED <<handled, checking, up, bridge, broker, state, expired, messages>>

Unanswered(l) ==
  \/ \E i \in 1..Len(commands) : commands[i].leg = l
  \/ \E x \in results : x.leg = l

GraceOver(l) ==
  /\ Passes(l, "missing_since", "on", "due")
  /\ IF state[l] = broker[l].st THEN NoFault ELSE Fault("stale")

ResultOverdue(l) ==
  /\ Passes(l, "inflight_since", "on", "due")
  /\ IF Unanswered(l) THEN Fault("late") ELSE NoFault

BackoffOver(l) ==
  /\ run.seq < MaxSeq
  /\ Passes(l, "retry_after", "on", "off")
  /\ IF state[l] = broker[l].st THEN NoFault ELSE Fault("stale")

TtlPasses ==
  /\ EntryType # "MARKET" /\ ~expired
  /\ expired' = TRUE
  /\ UNCHANGED <<trader, bridge, broker, state, messages, faults>>

TimePasses(l) == GraceOver(l) \/ ResultOverdue(l) \/ BackoffOver(l)

Next ==
  \/ Place \/ Reject \/ Sync \/ SyncBlind \/ FinishPostcheck \/ Restart
  \/ \E action \in Actions : Manage(action)
  \/ Answer \/ WriteState \/ TtlPasses
  \/ \E l \in Legs :
       Fill(l) \/ HitTp(l) \/ HitSl(l) \/ CloseByHand(l) \/ OrderGone(l) \/ TimePasses(l)

Spec == Init /\ [][Next]_vars

\* A tick finds nothing to read, to record or to send.
Settled ==
  \/ ~up \/ run.state \notin Live
  \/ /\ results = {}
     /\ LET h == SyncRun(Begin(run, {}), state) IN h.run = run /\ h.out = << >>

\* The trader keeps ticking (weak fairness of Sync, except that a tick with nothing to do but fail
\* need not come), systemd restarts it, the EA's timer runs, and time passes.
Fairness ==
  /\ []<>Settled \/ []<><<Sync>>_vars
  /\ WF_vars(Restart)
  /\ WF_vars(Answer) /\ WF_vars(WriteState)
  /\ \A l \in Legs : WF_vars(TimePasses(l))

FairSpec == Spec /\ Fairness

(***************************************************************************)
(* Properties                                                              *)
(***************************************************************************)
LegType ==
  [ state : LegStates, sl_current : Prices, entry_price : Prices \union {NoPrice},
    inflight_cmd : Nat, inflight_kind : Kinds \union {"none"},
    inflight_sl : Prices \union {NoPrice},
    inflight_since : Timers, missing_since : Timers, retry_after : Timers ]

RunType ==
  [ state : {"NEW", "PLACING", "ACTIVE", "DONE", "REJECTED"},
    legs : [Legs -> LegType], seq : Nat,
    be_applied : BOOLEAN, tp1_applied : BOOLEAN,
    pendings_cancelled : BOOLEAN, close_requested : BOOLEAN ]

Entries == {"none", "order", "position", "gone", "twice"} \union Closed

CommandType == [leg : Legs, n : Nat \ {0}, kind : Kinds, sl : Prices \union {NoPrice}]

\* A leg waits for a number the run has used, and for a stop at a price.
WaitsTypes ==
  \A l \in Legs :
    /\ run.legs[l].inflight_cmd = NoCmd <=> run.legs[l].inflight_kind = "none"
    /\ run.legs[l].inflight_cmd <= run.seq
    /\ run.legs[l].inflight_kind = "modify_sl" => run.legs[l].inflight_sl # NoPrice

TypeOK ==
  /\ run \in RunType /\ WaitsTypes
  /\ handled \in BOOLEAN /\ checking \in BOOLEAN /\ up \in BOOLEAN
  /\ commands \in Seq(CommandType)
  /\ answered \in SUBSET (Legs \X Nat)
  /\ results \in SUBSET [leg : Legs, n : Nat \ {0}, ok : BOOLEAN, fill_price : Prices \union {NoPrice}]
  /\ broker \in [Legs -> [st : Entries, sl : Prices \union {NoPrice}]]
  /\ state \in [Legs -> Entries]
  /\ expired \in BOOLEAN
  /\ messages \in Nat /\ faults \in Nat

AtBroker(l) == broker[l].st \in {"order", "position", "twice"}
Opens(l) == \E i \in 1..Len(commands) : commands[i].leg = l /\ commands[i].kind \in Opening

(* A leg the trader has written off has nothing left at the broker and     *)
(* nothing on its way there: no order or position is left unmanaged        *)
(* (ladder.py:152-191, and the grace of 163-169).                          *)
NothingOrphaned ==
  \A l \in Legs : run.legs[l].state \in Finished => ~AtBroker(l) /\ ~Opens(l)

(* No leg is opened twice, whatever the trader wrote before it died and    *)
(* writes again after (models.py:141-143, trader.py:400-401).              *)
OpenedOnce == \A l \in Legs : broker[l].st # "twice"

(* A leg that waits, waits for something: its command is still to be       *)
(* answered, or its result is still to be read.                            *)
AnswerIsComing ==
  \A l \in Legs : LET waits == run.legs[l].inflight_cmd IN
    waits # NoCmd =>
      \/ \E i \in 1..Len(commands) : Id(commands[i]) = <<l, waits>>
      \/ \E x \in results : <<x.leg, x.n>> = <<l, waits>>

(* When nothing is under way for an open leg, the stop the trader believes *)
(* in is the stop at the broker (ladder.py:141-142, 194-197).              *)
StopIsKnown ==
  \A l \in Legs :
    (run.legs[l].state = "OPEN" /\ broker[l].st = "position" /\ ~Unanswered(l))
      => run.legs[l].sl_current = broker[l].sl

(* Every command in the file that a leg waits for is the command the leg   *)
(* remembers: a result is never read as the answer to another command      *)
(* (ladder.py:27-31, 117-147).                                             *)
WaitsForItsOwn ==
  \A i \in 1..Len(commands) : LET c == commands[i] IN
    run.legs[c.leg].inflight_cmd = c.n =>
      run.legs[c.leg].inflight_kind = c.kind /\ run.legs[c.leg].inflight_sl = c.sl

(* The ladder acts on what happened at the broker: break-even is marked    *)
(* done only after leg 2 took profit there, the move to TP1 after leg 3    *)
(* (ladder.py:180-184, 200-212).                                           *)
LadderHasCause ==
  /\ run.be_applied => broker[2].st = "CLOSED_TP"
  /\ run.tp1_applied => broker[3].st = "CLOSED_TP"

(* What a leg was finally recorded as never changes, and an open leg is    *)
(* never taken for a pending or unplaced one again.                        *)
LegsMoveForward ==
  [][\A l \in Legs :
       /\ run.legs[l].state \in Finished => run'.legs[l].state = run.legs[l].state
       /\ run.legs[l].state = "OPEN" => run'.legs[l].state \in {"OPEN"} \union Closed]_vars

(* README.md:34-35: "stops only ever move one way".                        *)
StopsMoveOneWay ==
  [][\A l \in Legs : broker[l].st = "position" /\ broker'[l].st = "position"
       => broker'[l].sl = broker[l].sl \/ SlImproves(broker'[l].sl, broker[l].sl)]_vars

(* Once leg 2 is known to have taken profit, the stop of every later leg   *)
(* gets to that leg's entry or better (ladder.py:203-207).                 *)
LadderDelivers ==
  Reached(run, 2) ~> \A l \in 3..NumLegs :
    broker[l].st = "position" => ~SlImproves(FillPrice[l], broker[l].sl)

(* Whatever happened to the commands sent meanwhile - overwritten in       *)
(* flight, refused, not written, answered too late, their results lost -   *)
(* an open leg that ends at the broker is recorded with the end it had: no *)
(* answer still missing keeps the trader from looking (ladder.py:152-191,  *)
(* 243-261).                                                               *)
EndsAreNoticed ==
  \A l \in Legs, end \in Closed :
    (handled /\ run.legs[l].state = "OPEN" /\ broker[l].st = end) ~> run.legs[l].state = end

\* Its answer was lost: the trader waits for it for ever.
NeverAnswered(l) == run.legs[l].inflight_kind \in Opening /\ ~Unanswered(l)

(* A run whose orders and positions are all over ends, and stops counting  *)
(* toward max_open_signals, unless it waits for the lost answer to an      *)
(* opening (ladder.py:243-261).                                            *)
OverAtBroker == \A l \in Legs : ~AtBroker(l) /\ ~Opens(l)
RunsEnd == (handled /\ OverAtBroker) ~> (run.state \notin Live \/ \E l \in Legs : NeverAnswered(l))

(* Once the crosscheck disagreed, every leg is closed or cancelled, those  *)
(* included whose fill arrives later (ladder.py:229-240, trader.py:412-443).*)
DisagreementCloses ==
  run.close_requested ~> \A l \in Legs :
    (run.legs[l].state \in Finished /\ ~AtBroker(l)) \/ NeverAnswered(l)
==============================================================================
