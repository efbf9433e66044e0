------------------------------ MODULE TraderInbox ------------------------------
(***************************************************************************)
(* The trader's loop over the inbox (trader.py: tick, process_inbox,       *)
(* _handle_signal, _handle_management) for one provider with several runs. *)
(* A run is how many of its legs are not over; SignalRun has the rest.     *)
(*                                                                         *)
(* The model is asked about an entry between two readings of state.json,   *)
(* which takes seconds: each reading gives whatever the terminal has left  *)
(* there.  The process may die between saving a run and marking its        *)
(* message, so these are separate actions; what the trader holds in memory *)
(* is lost then.  A tick works on the messages its query returned: what is *)
(* posted, stored or grows old meanwhile waits for its end.                *)
(***************************************************************************)
EXTENDS Inbox, Validation

CONSTANTS
  Signal,          \* what every entry says
  Config,          \* the provider's validation settings
  Quotes,          \* what state.json may say of the price
  EntryCrosscheck, \* the model confirms an entry before it is placed
  Readings,        \* what the model may read in an entry; NoReading when it does not answer in time
  MaxOpenSignals,
  MaxLegsOpen,
  MaxDeaths        \* bound: deaths of the trader

ASSUME TraderAssumption ==
  /\ EntryCrosscheck \in BOOLEAN
  /\ MaxOpenSignals \in Nat \ {0} /\ MaxLegsOpen \in Nat \ {0} /\ MaxDeaths \in Nat
  /\ Signal.tps \in Seq(Nat) /\ Len(Signal.tps) > 0
  /\ NoQuote \notin Quotes

NumLegs == Len(Signal.tps)

NoReading == [sure |-> FALSE]

VARIABLES
  aged,     \* messages up to this one are older than max_signal_age_sec
  runs,     \* the runs table
  pc,       \* where the trader is
  todo,     \* messages of this tick's query not handled yet
  quotes,   \* _signal_quote_cache
  checks,   \* _signal_crosscheck_cache
  deferred, \* _deferred_logged
  judged,   \* the run just turned down was, for its price or by the model (history)
  deaths    \* deaths of the trader so far

memory == <<pc, todo, quotes, checks, deferred, judged>>
vars == <<inboxVars, aged, runs, memory, deaths>>

\* What a reading of state.json may give: how old it is, and the symbol's quote.
NoState == [age |-> "none", quote |-> NoQuote]
States == {NoState} \union [age : {"fresh", "stale"}, quote : Quotes \union {NoQuote}]
Run(st, legs) == [st |-> st, legs |-> legs, told |-> {}]
NoRun == Run("none", 0)

Init ==
  /\ InboxInit
  /\ aged = 0
  /\ runs = [m \in Msgs |-> NoRun]
  /\ pc = "idle" /\ todo = {}
  /\ quotes = [m \in Msgs |-> NoQuote] /\ checks = [m \in Msgs |-> "none"] /\ deferred = {} /\ judged = FALSE
  /\ deaths = 0

LiveRuns == {m \in Msgs : runs[m].st = "LIVE"}
NewInbox == {m \in Msgs : inbox[m] = "new"}

\* Mutant: rows in any order, here the newest first.
NewestFirst == CHOOSE m \in todo : \A k \in todo : k <= m

Current == CHOOSE m \in todo : \A k \in todo : m <= k

At(where) == pc = where /\ todo # {}

Goes(where) == pc' = where /\ UNCHANGED todo

Forget(m) == quotes' = [quotes EXCEPT ![m] = NoQuote] /\ checks' = [checks EXCEPT ![m] = "none"]

(***************************************************************************)
(* tick                                                                    *)
(***************************************************************************)
\* How old the state is only matters at the second reading.
FirstReadings == {st \in States : st.age # "stale"}

Tick ==
  /\ pc = "idle"
  /\ pc' = "inbox" /\ todo' = NewInbox
  /\ UNCHANGED <<inboxVars, aged, runs, quotes, checks, deferred, judged, deaths>>

\* Mutant: a run whose legs are over stays in progress.
LegsOverLive(m, n) == [runs EXCEPT ![m].legs = n]

LegsOver(m, n) ==
  [runs EXCEPT ![m].legs = n, ![m].st = IF n = 0 THEN "DONE" ELSE "LIVE"]

\* sync: what became of the legs of a run.
Sync ==
  /\ pc = "inbox" /\ todo = {}
  /\ pc' = "idle" /\ UNCHANGED todo
  /\ runs' \in {runs} \union UNION {{LegsOver(m, n) : n \in 0..(runs[m].legs - 1)} : m \in LiveRuns}
  /\ UNCHANGED <<inboxVars, aged, quotes, checks, deferred, judged, deaths>>

(***************************************************************************)
(* _handle_signal                                                          *)
(***************************************************************************)
Transient == {"terminal_stale", "no_state"}

Defer(m) ==
  /\ deferred' = deferred \union {m}
  /\ todo' = todo \ {m} /\ pc' = "inbox"
  /\ UNCHANGED <<runs, judged>>

\* What is judged by the price or by the model.
Judgement == PriceReasons \union {"crosscheck"}

Reject(m, reasons) ==
  /\ runs' = [runs EXCEPT ![m] = Run("REJECTED", 0)]
  /\ judged' = (reasons \intersect Judgement # {})
  /\ Forget(m) /\ Goes("mark") /\ UNCHANGED deferred

\* Mutant: the price is looked up again.
LatestQuote(m, quote) == IF quote # NoQuote THEN quote ELSE quotes[m]

\* The first quote of this signal stays.
KeptQuote(m, quote) == IF quotes[m] = NoQuote THEN quote ELSE quotes[m]

\* _crosscheck: the entry stands when the model reads the same or does not answer.
Crosscheck(ex) == IF ex = NoReading \/ Compare(Signal, ex) = {} THEN "stands" ELSE "differs"

\* The model is asked once, and never about what it extracted itself.
Answers(m) ==
  IF ~EntryCrosscheck \/ channel[m].kind = "entry_like" THEN {"none"}
  ELSE IF checks[m] = "none" THEN {Crosscheck(ex) : ex \in Readings}
  ELSE {checks[m]}

\* Mutant: a missing state.json is waited for whatever the signal's age.
WaitsAnyAge(m, st) == st.age = "none"

WaitsForState(m, st) == st.age = "none" /\ m > aged

\* A run has the first of its signal's legs left.
OpenLegs == {leg \in LiveRuns \X (1..NumLegs) : leg[2] <= runs[leg[1]].legs}
Legs == Cardinality(OpenLegs)

\* Mutant: the limit on legs is passed before it is felt.
GuardsOneMore(state) ==
  IF state.age = "none" THEN {"no_state"}
  ELSE (IF state.age = "stale" THEN {"terminal_stale"} ELSE {})
         \union (IF Cardinality(LiveRuns) >= MaxOpenSignals THEN {"max_open_signals"} ELSE {})
         \union (IF Legs > MaxLegsOpen THEN {"max_legs_open"} ELSE {})

\* guard_reasons, but for the account's: its login, its margin level and the daily loss.
Guards(state) ==
  IF state.age = "none" THEN {"no_state"}
  ELSE (IF state.age = "stale" THEN {"terminal_stale"} ELSE {})
         \union (IF Cardinality(LiveRuns) >= MaxOpenSignals THEN {"max_open_signals"} ELSE {})
         \union (IF Legs >= MaxLegsOpen THEN {"max_legs_open"} ELSE {})

Dies ==
  /\ pc' = "idle" /\ todo' = {}
  /\ quotes' = [m \in Msgs |-> NoQuote] /\ checks' = [m \in Msgs |-> "none"] /\ deferred' = {}
  /\ judged' = FALSE

\* place_run and save_run: every leg is sent, or none can be sized.
PlaceRun(m) ==
  /\ \E n \in {0, NumLegs} :
       runs' = [runs EXCEPT ![m] = Run(IF n = 0 THEN "DONE" ELSE "LIVE", n)]
  /\ Forget(m) /\ Goes("mark") /\ UNCHANGED <<deferred, judged>>

\* place_run has no answer to a symbol that is gone from state.json, or to a pending entry without a price.
Unplaceable(quote) == quote = NoQuote \/ (Signal.type # "MARKET" /\ Signal.zone = NoPrice)

\* From the second reading.
Decide(m, quote, answer) ==
  \E state \in States :
    LET reasons == Guards(state)
    IN \/ reasons = {} /\ ~Unplaceable(state.quote) /\ PlaceRun(m)
       \/ reasons = {} /\ Unplaceable(state.quote) /\ Dies /\ UNCHANGED runs
       \/ /\ reasons # {} /\ reasons \subseteq Transient /\ Defer(m)
          /\ quotes' = [quotes EXCEPT ![m] = quote] /\ checks' = [checks EXCEPT ![m] = answer]
       \/ ~(reasons \subseteq Transient) /\ Reject(m, reasons)
       \/ state.age # "none" /\ Reject(m, {"account"})

\* The broker may have closed the symbol whatever else holds.
LookAt(m) ==
  \E st \in FirstReadings, answer \in Answers(m) :
    LET quote == KeptQuote(m, st.quote)
        reasons == ValidateSignal(Signal, Config, quote, m <= aged)
                     \union (IF st.age = "none" THEN {"no_state"} ELSE {})
                     \union (IF answer = "differs" THEN {"crosscheck"} ELSE {})
    IN \/ WaitsForState(m, st) /\ Defer(m) /\ UNCHANGED <<quotes, checks>>
       \/ ~WaitsForState(m, st) /\ reasons # {} /\ Reject(m, reasons)
       \/ st.quote # NoQuote /\ reasons = {} /\ Reject(m, {"trade_not_allowed"})
       \/ ~WaitsForState(m, st) /\ reasons = {} /\ Decide(m, quote, answer)

Look ==
  /\ At("inbox") /\ channel[Current].kind = "entry"
  /\ LookAt(Current)
  /\ UNCHANGED <<inboxVars, aged, deaths>>

\* _llm_entry: asked at every look, and an extraction goes on as a signal.
LookEntryLike ==
  /\ At("inbox") /\ channel[Current].kind = "entry_like"
  /\ \/ Goes("mark") /\ UNCHANGED <<runs, quotes, checks, deferred, judged>>
     \/ LookAt(Current)
  /\ UNCHANGED <<inboxVars, aged, deaths>>

(***************************************************************************)
(* _handle_management                                                      *)
(***************************************************************************)
\* resolve_reference
Resolve(m) ==
  IF channel[m].reply_to \in LiveRuns THEN {channel[m].reply_to}
  ELSE IF Cardinality(LiveRuns) = 1 THEN LiveRuns
  ELSE {}

\* The classifier may read anything into a message; nothing is sent without a state or to an account
\* that is not armed.
Manage ==
  /\ At("inbox") /\ channel[Current].kind = "other"
  /\ LET m == Current
     IN \/ runs' = runs
        \/ \E s \in Resolve(m) : runs' = [runs EXCEPT ![s].told = @ \union {m}]
  /\ Goes("mark")
  /\ UNCHANGED <<inboxVars, aged, quotes, checks, deferred, judged, deaths>>

\* set_inbox_status.  What is kept in deferred for a processed message is never read again.
Mark ==
  /\ At("mark")
  /\ inbox' = [inbox EXCEPT ![Current] = "processed"]
  /\ todo' = todo \ {Current} /\ pc' = "inbox"
  /\ deferred' = deferred \ {Current} /\ judged' = FALSE
  /\ UNCHANGED <<channel, since, restarts, late, aged, runs, quotes, checks, deaths>>

Trader == Tick \/ Look \/ LookEntryLike \/ Manage \/ Mark \/ Sync

\* A death and the restart that follows.
Restart ==
  /\ pc # "idle" /\ deaths < MaxDeaths
  /\ deaths' = deaths + 1
  /\ Dies
  /\ UNCHANGED <<inboxVars, aged, runs>>

(***************************************************************************)
(* The channel and time                                                    *)
(***************************************************************************)
BetweenTicks == pc = "idle" /\ UNCHANGED <<runs, memory, deaths>>

Arrive == BetweenTicks /\ (Post \/ Listener) /\ UNCHANGED aged

\* Age is looked at when a message is handled, so it may pass while one is new.
Age ==
  /\ BetweenTicks
  /\ \E m \in NewInbox : aged < m
  /\ aged' = aged + 1
  /\ UNCHANGED inboxVars

Next ==
  \/ Arrive \/ Age
  \/ Trader \/ Restart

Spec == Init /\ [][Next]_vars

\* The loop runs on and is restarted when it dies, the poll comes round, and messages grow old.  The
\* last two are strong because the model lets them happen between ticks only.
FairSpec ==
  /\ Spec
  /\ WF_vars(Trader) /\ SF_vars(Age)
  /\ SF_vars(BetweenTicks /\ Poll /\ UNCHANGED aged)

(***************************************************************************)
(* Properties                                                              *)
(***************************************************************************)
RunType ==
  [st : {"none", "REJECTED", "LIVE", "DONE"}, legs : 0..NumLegs, told : SUBSET Msgs]

TypeOK ==
  /\ InboxTypeOK
  /\ aged \in 0..Len(channel)
  /\ runs \in [Msgs -> RunType]
  /\ \A m \in Msgs : runs[m].st = "LIVE" <=> runs[m].legs > 0
  /\ pc \in {"idle", "inbox", "mark"}
  /\ todo \subseteq NewInbox
  /\ pc = "mark" => todo # {}
  /\ quotes \in [Msgs -> Quotes \union {NoQuote}]
  /\ checks \in [Msgs -> {"none", "stands"}]
  /\ deferred \subseteq Msgs /\ judged \in BOOLEAN

(* Never more runs in progress than max_open_signals (trader.py:251-252).  *)
SignalsWithinLimit == Cardinality(LiveRuns) <= MaxOpenSignals

LegsWithinLimit == Legs < MaxLegsOpen + NumLegs

(* The number of runs in progress stays within max_open_signals, and their *)
(* legs go beyond max_legs_open by less than one signal, whatever is       *)
(* deferred and placed later and whatever is handled again after a death   *)
(* (trader.py:251-255).                                                    *)
WithinLimits ==
  /\ SignalsWithinLimit
  /\ LegsWithinLimit

(* A message acts on a run of an earlier signal only: "close all" never    *)
(* reaches a trade entered after it was written, unless the message came   *)
(* late (trader.py:445-455, store.py:132).                                 *)
ActsOnEarlierRuns ==
  \A s \in Msgs : \A m \in runs[s].told : s < m \/ m \in late

(* A message is only overtaken while the terminal keeps it waiting, so the *)
(* provider's messages act in the order they were written in               *)
(* (trader.py:198, 209-210; store.py:40-42).                               *)
NothingOvertakes ==
  [][\A m \in Msgs : (inbox[m] = "new" /\ inbox'[m] = "processed")
       => \A k \in 1..(m - 1) : inbox[k] = "new" => k \in deferred]_vars

(* A signal that passed at the first look is not turned down at a later    *)
(* one for its price or by the model (trader.py:113-124, 337-354).         *)
NotJudgedAgain ==
  [][\A m \in Msgs : (quotes[m] # NoQuote /\ runs'[m] # runs[m]) => ~judged']_vars

(* The inbox is worked off again and again, so every message is handled,   *)
(* whatever the terminal does: the age of a signal ends its deferral       *)
(* (trader.py:20-27).                                                      *)
EveryMessageHandled == []<>(NewInbox = {})

(* A message that is pushed, polled and pushed again is handled once: while*)
(* the trader lives, no run in progress is placed or turned down again     *)
(* (store.py:31-34, trader.py:402-410).                                    *)
NotHandledAgain ==
  [][\A m \in Msgs : (runs[m].st = "LIVE" /\ deaths = 0) => runs'[m].st \in {"LIVE", "DONE"}
                                                            /\ runs'[m].legs <= runs[m].legs]_vars

(* A run that was placed is kept until its legs are over: docs/superpowers/*)
(* specs/2026-09-18-tg-signal-trader-design.md:125 says "Persisted to      *)
(* SQLite after every transition; a restart resumes".                      *)
RunsAreKept ==
  [][\A m \in Msgs : runs[m].st = "LIVE" => runs'[m].st \in {"LIVE", "DONE"}]_vars
================================================================================
