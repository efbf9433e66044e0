--------------------------- MODULE TraderInboxProofs ---------------------------
(***************************************************************************)
(* What the trader's loop over the inbox promises for every channel, every *)
(* signal and setting, and any number of restarts and deaths.              *)
(***************************************************************************)
EXTENDS TraderInbox, FiniteSetTheorems, WellFoundedInduction, TLAPS

LEMMA MsgsFacts == MaxMessages \in Nat /\ Msgs = 1..MaxMessages /\ Msgs \subseteq Nat /\ IsFiniteSet(Msgs)
<1>1. MaxMessages \in Nat /\ Msgs = 1..MaxMessages
  BY InboxAssumption DEF Msgs
<1>2. IsFiniteSet(1..MaxMessages)
  BY <1>1, FS_Interval
<1> QED
  BY <1>1, <1>2

\* A set of messages has a first one.
LEMMA FirstExists ==
  ASSUME NEW S \in SUBSET Msgs, S # {}
  PROVE  \E m \in S : \A k \in S : m <= k
<1>1. S \subseteq Nat
  BY MsgsFacts
<1>2. PICK m \in S : \A k \in S : <<k, m>> \notin OpToRel(<, Nat)
  BY <1>1, WFMin, NatLessThanWellFounded
<1>3. \A k \in S : <<k, m>> \notin OpToRel(<, Nat) => ~(k < m)
  BY <1>1 DEF OpToRel
<1>4. \A k \in S : ~(k < m)
  BY <1>2, <1>3, Zenon
<1>5. \A k \in S : m <= k
  BY <1>1, <1>4
<1> QED
  BY <1>5, Zenon

LEMMA CurrentIsFirst ==
  ASSUME todo \in SUBSET Msgs, todo # {}
  PROVE  Current \in todo /\ \A k \in todo : Current <= k
BY FirstExists DEF Current

(***************************************************************************)
(* The invariant                                                           *)
(***************************************************************************)
\* What is in the inbox was posted, and only signals have runs.
Stored ==
  /\ \A m \in Msgs : inbox[m] # "absent" => m \in 1..Len(channel)
  /\ \A m \in Msgs : runs[m].st # "none" => inbox[m] # "absent" /\ channel[m].kind # "other"

\* A new message the tick has passed was deferred, and is an entry.
InTick ==
  pc # "idle" => \A m \in NewInbox : m \in todo \/ (m \in deferred /\ channel[m].kind # "other")

\* A new message about trades that came before a signal which has a run already was stored late.
LateOnes ==
  \A s, m \in Msgs :
    (m < s /\ runs[s].st # "none" /\ inbox[m] = "new" /\ channel[m].kind = "other") => m \in late

Inv == TypeOK /\ Stored /\ InTick /\ LateOnes /\ WithinLimits /\ ActsOnEarlierRuns

(***************************************************************************)
(* What one look at an entry can come to                                   *)
(***************************************************************************)
NewRuns == {Run("REJECTED", 0), Run("DONE", 0), Run("LIVE", NumLegs)}

Deferred(m) ==
  /\ deferred' = deferred \union {m} /\ todo' = todo \ {m} /\ pc' = "inbox"
  /\ UNCHANGED <<runs, judged>>
  /\ quotes' \in [Msgs -> Quotes \union {NoQuote}] /\ checks' \in [Msgs -> {"none", "stands"}]

Room(r) == r.st = "LIVE" => Cardinality(LiveRuns) < MaxOpenSignals /\ Legs < MaxLegsOpen

Gets(m, r) == runs' = [runs EXCEPT ![m] = r]

Settled(m) ==
  /\ \E r \in NewRuns : Room(r) /\ Gets(m, r)
  /\ pc' = "mark" /\ UNCHANGED <<todo, deferred>>
  /\ judged' \in BOOLEAN
  /\ quotes' \in [Msgs -> Quotes \union {NoQuote}] /\ checks' \in [Msgs -> {"none", "stands"}]

LEMMA SignalFacts ==
  /\ NumLegs \in Nat \ {0} /\ MaxOpenSignals \in Nat \ {0} /\ MaxLegsOpen \in Nat \ {0}
BY TraderAssumption DEF NumLegs

LEMMA LiveRunsFinite == IsFiniteSet(LiveRuns) /\ Cardinality(LiveRuns) \in Nat
BY MsgsFacts, FS_Subset, FS_CardinalityType DEF LiveRuns

LEMMA OpenLegsFinite == IsFiniteSet(OpenLegs) /\ Legs \in Nat
<1>1. IsFiniteSet(1..NumLegs)
  BY SignalFacts, FS_Interval
<1>2. IsFiniteSet(LiveRuns \X (1..NumLegs))
  BY <1>1, LiveRunsFinite, FS_Product
<1>3. IsFiniteSet(OpenLegs)
  BY <1>2, FS_Subset DEF OpenLegs
<1> QED
  BY <1>3, FS_CardinalityType DEF Legs

LEMMA ForgetTypes ==
  ASSUME TypeOK, NEW m \in Msgs, Forget(m)
  PROVE  quotes' \in [Msgs -> Quotes \union {NoQuote}] /\ checks' \in [Msgs -> {"none", "stands"}]
BY DEF TypeOK, Forget

LEMMA LookOutcomes ==
  ASSUME TypeOK, NEW m \in Msgs, LookAt(m)
  PROVE  Deferred(m) \/ Settled(m) \/ (Dies /\ UNCHANGED runs)
<1>1. ASSUME NEW reasons, Reject(m, reasons)
      PROVE  Settled(m)
  <2>1. Run("REJECTED", 0).st # "LIVE"
    BY DEF Run
  <2> QED
    BY <1>1, <2>1, ForgetTypes DEF Reject, Goes, Settled, NewRuns, Room, Gets
<1>2. PICK st \in FirstReadings, answer \in Answers(m) :
        LET quote == KeptQuote(m, st.quote)
            reasons == ValidateSignal(Signal, Config, quote, m <= aged)
                         \union (IF st.age = "none" THEN {"no_state"} ELSE {})
                         \union (IF answer = "differs" THEN {"crosscheck"} ELSE {})
        IN \/ WaitsForState(m, st) /\ Defer(m) /\ UNCHANGED <<quotes, checks>>
           \/ ~WaitsForState(m, st) /\ reasons # {} /\ Reject(m, reasons)
           \/ st.quote # NoQuote /\ reasons = {} /\ Reject(m, {"trade_not_allowed"})
           \/ ~WaitsForState(m, st) /\ reasons = {} /\ Decide(m, quote, answer)
  BY DEF LookAt
<1> DEFINE quote == KeptQuote(m, st.quote)
<1>3. quote \in Quotes \union {NoQuote}
  BY DEF KeptQuote, FirstReadings, States, NoState, TypeOK
<1>4. answer # "differs" => answer \in {"none", "stands"}
  BY DEF Answers, Crosscheck, TypeOK
<1>5. CASE WaitsForState(m, st) /\ Defer(m) /\ UNCHANGED <<quotes, checks>>
  BY <1>5 DEF Defer, Deferred, TypeOK
<1>6. CASE \E reasons : Reject(m, reasons)
  BY <1>1, <1>6
<1>7. CASE answer # "differs" /\ Decide(m, quote, answer)
  <2>1. PICK state \in States :
          LET reasons == Guards(state)
          IN \/ reasons = {} /\ ~Unplaceable(state.quote) /\ PlaceRun(m)
             \/ reasons = {} /\ Unplaceable(state.quote) /\ Dies /\ UNCHANGED runs
             \/ /\ reasons # {} /\ reasons \subseteq Transient /\ Defer(m)
                /\ quotes' = [quotes EXCEPT ![m] = quote] /\ checks' = [checks EXCEPT ![m] = answer]
             \/ ~(reasons \subseteq Transient) /\ Reject(m, reasons)
             \/ state.age # "none" /\ Reject(m, {"account"})
    BY <1>7 DEF Decide
  <2> HIDE DEF quote
  <2>2. CASE Guards(state) = {} /\ PlaceRun(m)
    <3>1. ~(Cardinality(LiveRuns) >= MaxOpenSignals) /\ ~(Legs >= MaxLegsOpen)
      BY <2>2 DEF Guards
    <3>2. Cardinality(LiveRuns) \in Nat /\ Legs \in Nat
      BY LiveRunsFinite, OpenLegsFinite
    <3>3. Cardinality(LiveRuns) < MaxOpenSignals /\ Legs < MaxLegsOpen
      BY <3>1, <3>2, SignalFacts
    <3>4. PICK n \in {0, NumLegs} :
            runs' = [runs EXCEPT ![m] = Run(IF n = 0 THEN "DONE" ELSE "LIVE", n)]
      BY <2>2 DEF PlaceRun
    <3>5. Run(IF n = 0 THEN "DONE" ELSE "LIVE", n) \in NewRuns
      BY SignalFacts DEF NewRuns
    <3> QED
      BY <2>2, <3>3, <3>4, <3>5, ForgetTypes DEF PlaceRun, Goes, Settled, TypeOK, Room, Gets
  <2>3. CASE /\ Defer(m)
             /\ quotes' = [quotes EXCEPT ![m] = quote] /\ checks' = [checks EXCEPT ![m] = answer]
    BY <1>3, <1>4, <1>7, <2>3 DEF Defer, Deferred, TypeOK
  <2>4. CASE \E reasons : Reject(m, reasons)
    BY <1>1, <2>4
  <2> QED
    BY <2>1, <2>2, <2>3, <2>4
<1>8. answer = "differs" => ~(ValidateSignal(Signal, Config, quote, m <= aged)
                               \union (IF st.age = "none" THEN {"no_state"} ELSE {})
                               \union (IF answer = "differs" THEN {"crosscheck"} ELSE {}) = {})
  OBVIOUS
<1> QED
  BY <1>2, <1>5, <1>6, <1>7, <1>8

(***************************************************************************)
(* Each action keeps the invariant                                         *)
(***************************************************************************)
LEMMA NewRunTypes ==
  ASSUME NEW r \in NewRuns
  PROVE  r \in RunType /\ (r.st = "LIVE" <=> r.legs > 0) /\ r.st # "none" /\ r.told = {}
BY SignalFacts DEF NewRuns, Run, RunType

\* The sets of runs and of legs in progress are what the limits look at.
LEMMA FewerRuns ==
  ASSUME LiveRuns' \subseteq LiveRuns, SignalsWithinLimit
  PROVE  SignalsWithinLimit'
<1>1. Cardinality(LiveRuns') <= Cardinality(LiveRuns) /\ Cardinality(LiveRuns') \in Nat
  BY LiveRunsFinite, FS_Subset, FS_CardinalityType
<1> QED
  BY <1>1, LiveRunsFinite, SignalFacts DEF SignalsWithinLimit

LEMMA FewerLegs ==
  ASSUME OpenLegs' \subseteq OpenLegs, LegsWithinLimit
  PROVE  LegsWithinLimit'
<1>1. Legs' <= Legs /\ Legs' \in Nat
  BY OpenLegsFinite, FS_Subset, FS_CardinalityType DEF Legs
<1> QED
  BY <1>1, OpenLegsFinite, SignalFacts DEF LegsWithinLimit

LEMMA SameRuns ==
  ASSUME WithinLimits, runs' = runs
  PROVE  WithinLimits'
BY DEF WithinLimits, SignalsWithinLimit, LegsWithinLimit, Legs, OpenLegs, LiveRuns

\* A run adds its legs to those of the others.
LEMMA MoreLegs ==
  ASSUME NEW m, OpenLegs' \subseteq OpenLegs \union ({m} \X (1..NumLegs)), Legs < MaxLegsOpen
  PROVE  LegsWithinLimit'
<1>1. IsFiniteSet({m}) /\ Cardinality({m}) = 1
  BY FS_Singleton
<1>2. IsFiniteSet(1..NumLegs) /\ Cardinality(1..NumLegs) = NumLegs
  BY SignalFacts, FS_Interval
<1>3. IsFiniteSet({m} \X (1..NumLegs)) /\ Cardinality({m} \X (1..NumLegs)) = NumLegs
  BY <1>1, <1>2, SignalFacts, FS_Product
<1> DEFINE own == {m} \X (1..NumLegs)
<1>4. IsFiniteSet(own) /\ Cardinality(own) = NumLegs /\ OpenLegs' \subseteq OpenLegs \union own
  BY <1>3
<1> HIDE DEF own
<1>5. /\ IsFiniteSet(OpenLegs \union own)
      /\ Cardinality(OpenLegs \union own) = Cardinality(OpenLegs) + Cardinality(own) - Cardinality(OpenLegs \intersect own)
  BY <1>4, OpenLegsFinite, FS_Union
<1>6. Cardinality(OpenLegs \intersect own) \in Nat
  BY <1>4, FS_Intersection, FS_CardinalityType
<1>7. Cardinality(OpenLegs') <= Cardinality(OpenLegs \union own) /\ Cardinality(OpenLegs') \in Nat
  BY <1>4, <1>5, FS_Subset, FS_CardinalityType
<1>8. Cardinality(OpenLegs') < MaxLegsOpen + NumLegs
  BY <1>4, <1>5, <1>6, <1>7, OpenLegsFinite, SignalFacts DEF Legs
<1> QED
  BY <1>8 DEF LegsWithinLimit, Legs

LEMMA InitInv == Init => Inv
<1> SUFFICES ASSUME Init PROVE Inv
  OBVIOUS
<1>1. MaxMessages \in Nat /\ MaxRestarts \in Nat
  BY InboxAssumption
<1>2. TypeOK
  <2>1. InboxTypeOK
    BY <1>1 DEF Init, InboxInit, InboxTypeOK
  <2>2. runs \in [Msgs -> RunType] /\ \A m \in Msgs : runs[m].st = "LIVE" <=> runs[m].legs > 0
    BY SignalFacts DEF Init, RunType, NoRun, Run
  <2>3. quotes \in [Msgs -> Quotes \union {NoQuote}] /\ checks \in [Msgs -> {"none", "stands"}]
    BY DEF Init
  <2>4. /\ deferred \subseteq Msgs /\ judged \in BOOLEAN
        /\ pc \in {"idle", "inbox", "mark"} /\ pc # "mark" /\ todo \subseteq NewInbox
    BY DEF Init
  <2>5. aged \in 0..Len(channel)
    BY DEF Init, InboxInit
  <2> QED
    BY <2>1, <2>2, <2>3, <2>4, <2>5 DEF TypeOK
<1>3. LiveRuns = {}
  BY DEF Init, NoRun, Run, LiveRuns
<1>4. SignalsWithinLimit
  BY <1>3, FS_EmptySet, SignalFacts DEF SignalsWithinLimit
<1>5. OpenLegs = {}
  BY <1>3 DEF OpenLegs
<1>6. LegsWithinLimit
  BY <1>5, FS_EmptySet, SignalFacts DEF LegsWithinLimit, Legs
<1> QED
  BY <1>2, <1>4, <1>6 DEF Init, InboxInit, Inv, WithinLimits, Stored, InTick, LateOnes, ActsOnEarlierRuns, NoRun, Run

LEMMA SettledInv ==
  ASSUME Inv, todo # {}, pc = "inbox", NEW m, m = Current, channel[m].kind # "other", Settled(m),
         UNCHANGED <<inboxVars, aged, deaths>>
  PROVE  Inv'
<1>1. m \in todo /\ m \in Msgs /\ inbox[m] = "new" /\ \A k \in todo : m <= k
  BY CurrentIsFirst DEF Inv, TypeOK, NewInbox
<1> PICK r \in NewRuns : Room(r) /\ Gets(m, r)
  BY DEF Settled
<1>2. /\ runs' = [runs EXCEPT ![m] = r]
      /\ r.st = "LIVE" => Cardinality(LiveRuns) < MaxOpenSignals /\ Legs < MaxLegsOpen
  BY DEF Room, Gets
<1>3. r \in RunType /\ (r.st = "LIVE" <=> r.legs > 0) /\ r.st # "none" /\ r.told = {}
  BY NewRunTypes
<1>4. TypeOK'
  BY <1>1, <1>2, <1>3 DEF Inv, TypeOK, InboxTypeOK, Settled, inboxVars, NewInbox
<1>5. \A s \in Msgs : runs'[s] = IF s = m THEN r ELSE runs[s]
  BY <1>1, <1>2 DEF Inv, TypeOK
<1>6. Stored'
  BY <1>1, <1>3, <1>5 DEF Inv, Stored, inboxVars
<1>7. InTick'
  BY DEF Inv, InTick, Settled, inboxVars, NewInbox
<1>8. LateOnes'
  <2> SUFFICES ASSUME NEW s \in Msgs, NEW k \in Msgs, k < s, runs'[s].st # "none",
                      inbox[k] = "new", channel[k].kind = "other"
               PROVE  k \in late
    BY DEF LateOnes, inboxVars
  <2>1. CASE s = m
    <3>1. k \in todo
      BY DEF Inv, InTick, NewInbox
    <3> QED
      BY <1>1, <2>1, <3>1, MsgsFacts
  <2>2. CASE s # m
    BY <1>5, <2>2 DEF Inv, LateOnes
  <2> QED
    BY <2>1, <2>2
<1>9. ActsOnEarlierRuns'
  BY <1>3, <1>5 DEF Inv, ActsOnEarlierRuns, inboxVars
<1>10. SignalsWithinLimit'
  <2>1. CASE r.st = "LIVE"
    <3>1. LiveRuns' = LiveRuns \union {m}
      BY <1>1, <1>5, <2>1 DEF LiveRuns
    <3>2. Cardinality(LiveRuns') <= Cardinality(LiveRuns) + 1 /\ Cardinality(LiveRuns') \in Nat
      <4>1. IsFiniteSet(LiveRuns \union {m})
            /\ Cardinality(LiveRuns \union {m}) = IF m \in LiveRuns THEN Cardinality(LiveRuns) ELSE Cardinality(LiveRuns) + 1
        BY LiveRunsFinite, FS_AddElement
      <4> QED
        BY <3>1, <4>1, LiveRunsFinite
    <3> QED
      BY <1>2, <2>1, <3>2, LiveRunsFinite, SignalFacts DEF SignalsWithinLimit
  <2>2. CASE r.st # "LIVE"
    <3>1. LiveRuns' \subseteq LiveRuns
      BY <1>5, <2>2 DEF LiveRuns
    <3> QED
      BY <3>1, FewerRuns DEF Inv, WithinLimits
  <2> QED
    BY <2>1, <2>2
<1>11. LegsWithinLimit'
  <2>1. CASE r.st = "LIVE"
    <3>1. \A leg \in OpenLegs' : leg \in OpenLegs \/ leg \in {m} \X (1..NumLegs)
      BY <1>5 DEF OpenLegs, LiveRuns
    <3>2. OpenLegs' \subseteq OpenLegs \union ({m} \X (1..NumLegs))
      BY <3>1, Zenon
    <3> QED
      BY <1>2, <2>1, <3>2, MoreLegs, Zenon
  <2>2. CASE r.st # "LIVE"
    <3>1. OpenLegs' \subseteq OpenLegs
      BY <1>5, <2>2 DEF OpenLegs, LiveRuns
    <3> QED
      BY <3>1, FewerLegs DEF Inv, WithinLimits
  <2> QED
    BY <2>1, <2>2
<1> QED
  BY <1>4, <1>6, <1>7, <1>8, <1>9, <1>10, <1>11 DEF Inv, WithinLimits

LEMMA DeferredInv ==
  ASSUME Inv, pc = "inbox", NEW m, m \in todo, channel[m].kind # "other", Deferred(m),
         UNCHANGED <<inboxVars, aged, deaths>>
  PROVE  Inv'
<1>1. m \in Msgs
  BY DEF Inv, TypeOK, NewInbox
<1>2. TypeOK'
  BY <1>1 DEF Inv, TypeOK, InboxTypeOK, Deferred, inboxVars, NewInbox
<1>3. InTick'
  BY DEF Inv, InTick, Deferred, inboxVars, NewInbox
<1> QED
  BY <1>2, <1>3, SameRuns DEF Inv, Stored, LateOnes, ActsOnEarlierRuns, Deferred, inboxVars

LEMMA DiesInv ==
  ASSUME Inv, Dies, UNCHANGED <<inboxVars, aged, runs>>
  PROVE  Inv'
<1>1. quotes' \in [Msgs -> Quotes \union {NoQuote}] /\ checks' \in [Msgs -> {"none", "stands"}]
  BY DEF Dies
<1>2. TypeOK'
  BY <1>1 DEF Inv, TypeOK, InboxTypeOK, Dies, inboxVars, NewInbox
<1> QED
  BY <1>2, SameRuns DEF Inv, Stored, InTick, LateOnes, ActsOnEarlierRuns, Dies, inboxVars

LEMMA LookInv == ASSUME Inv, Look \/ LookEntryLike PROVE Inv'
<1> PICK m : m = Current
  OBVIOUS
<1>1. todo # {} /\ pc = "inbox" /\ channel[m].kind # "other" /\ UNCHANGED <<inboxVars, aged, deaths>>
  BY DEF Look, LookEntryLike, At
<1>2. m \in todo /\ m \in Msgs
  BY <1>1, CurrentIsFirst DEF Inv, TypeOK, NewInbox
<1>3. CASE LookAt(m)
  <2>1. Deferred(m) \/ Settled(m) \/ (Dies /\ UNCHANGED runs)
    BY <1>2, <1>3, LookOutcomes DEF Inv
  <2> QED
    BY <1>1, <1>2, <2>1, DeferredInv, SettledInv, DiesInv
<1>4. CASE Goes("mark") /\ UNCHANGED <<runs, quotes, checks, deferred, judged>>
  <2>1. TypeOK'
    BY <1>1, <1>4 DEF Inv, TypeOK, InboxTypeOK, Goes, inboxVars, NewInbox
  <2>2. InTick'
    BY <1>1, <1>4 DEF Inv, InTick, Goes, inboxVars, NewInbox
  <2> QED
    BY <1>1, <1>4, <2>1, <2>2, SameRuns
       DEF Inv, Stored, LateOnes, ActsOnEarlierRuns, inboxVars
<1> QED
  BY <1>3, <1>4 DEF Look, LookEntryLike

LEMMA TickInv == ASSUME Inv, Tick PROVE Inv'
<1>1. TypeOK'
  BY DEF Inv, Tick, TypeOK, InboxTypeOK, inboxVars, NewInbox
<1>2. InTick'
  BY DEF Tick, InTick, inboxVars, NewInbox
<1> QED
  BY <1>1, <1>2, SameRuns DEF Inv, Tick, Stored, LateOnes, ActsOnEarlierRuns, inboxVars

\* A run that made progress is the same run with fewer legs left.
LEMMA ProgressInv ==
  ASSUME Inv, NEW m \in LiveRuns, NEW n \in 0..(runs[m].legs - 1), runs' = LegsOver(m, n)
  PROVE  /\ runs' \in [Msgs -> RunType]
         /\ \A s \in Msgs : runs'[s].st = "LIVE" <=> runs'[s].legs > 0
         /\ \A s \in Msgs : runs'[s].told = runs[s].told /\ (runs'[s].st = "none" <=> runs[s].st = "none")
         /\ LiveRuns' \subseteq LiveRuns /\ OpenLegs' \subseteq OpenLegs
<1>1. m \in Msgs /\ runs[m] \in RunType /\ runs[m].st = "LIVE" /\ runs \in [Msgs -> RunType]
  BY DEF LiveRuns, Inv, TypeOK
<1>2. n \in 0..NumLegs
  BY <1>1, SignalFacts DEF RunType
<1>3. \A s \in Msgs : runs'[s] = IF s = m THEN [runs[m] EXCEPT !.legs = n, !.st = IF n = 0 THEN "DONE" ELSE "LIVE"]
                                            ELSE runs[s]
  BY <1>1 DEF LegsOver
<1>4. /\ runs'[m].st = (IF n = 0 THEN "DONE" ELSE "LIVE") /\ runs'[m].legs = n /\ runs'[m].told = runs[m].told
      /\ runs'[m] \in RunType
  BY <1>1, <1>2, <1>3 DEF RunType
<1>5. runs' \in [Msgs -> RunType]
  BY <1>1, <1>4 DEF LegsOver
<1>6. \A s \in Msgs : runs'[s].st = "LIVE" <=> runs'[s].legs > 0
  BY <1>2, <1>3, <1>4, SignalFacts DEF Inv, TypeOK
<1>7. LiveRuns' \subseteq LiveRuns
  BY <1>1, <1>3 DEF LiveRuns
<1>8. n <= runs[m].legs
  BY <1>1, SignalFacts DEF RunType
<1>9. OpenLegs' \subseteq OpenLegs
  <2> SUFFICES ASSUME NEW leg \in OpenLegs' PROVE leg \in OpenLegs
    OBVIOUS
  <2>1. leg \in LiveRuns' \X (1..NumLegs) /\ leg[2] <= runs'[leg[1]].legs
    BY DEF OpenLegs
  <2>2. leg \in LiveRuns \X (1..NumLegs) /\ leg[1] \in Msgs
    BY <1>7, <2>1 DEF LiveRuns
  <2>3. leg[2] <= runs[leg[1]].legs
    <3>1. CASE leg[1] = m
      <4>1. leg[2] <= n
        BY <1>4, <2>1, <3>1
      <4>2. leg[2] \in Nat /\ n \in Nat /\ runs[m].legs \in Nat
        BY <1>1, <1>2, <2>2, SignalFacts DEF RunType
      <4> QED
        BY <1>8, <3>1, <4>1, <4>2
    <3>2. CASE leg[1] # m
      BY <1>3, <2>1, <2>2, <3>2
    <3> QED
      BY <3>1, <3>2
  <2> QED
    BY <2>2, <2>3 DEF OpenLegs
<1> QED
  BY <1>1, <1>3, <1>4, <1>5, <1>6, <1>7, <1>9

LEMMA SyncInv == ASSUME Inv, Sync PROVE Inv'
<1>1. CASE runs' = runs
  BY <1>1, SameRuns DEF Inv, Sync, TypeOK, InboxTypeOK, Stored, InTick, LateOnes,
              ActsOnEarlierRuns, inboxVars, NewInbox
<1>2. ASSUME NEW m \in LiveRuns, NEW n \in 0..(runs[m].legs - 1), runs' = LegsOver(m, n)
      PROVE  Inv'
  <2>1. TypeOK'
    BY <1>2, ProgressInv DEF Inv, Sync, TypeOK, InboxTypeOK, inboxVars, NewInbox
  <2>2. WithinLimits'
    BY <1>2, ProgressInv, FewerRuns, FewerLegs DEF Inv, WithinLimits
  <2>3. InTick'
    BY DEF Sync, InTick
  <2>4. Stored' /\ LateOnes' /\ ActsOnEarlierRuns'
    BY <1>2, ProgressInv DEF Inv, Sync, Stored, LateOnes, ActsOnEarlierRuns, inboxVars
  <2> QED
    BY <2>1, <2>2, <2>3, <2>4 DEF Inv
<1> QED
  BY <1>1, <1>2 DEF Sync

LEMMA ManageInv == ASSUME Inv, Manage PROVE Inv'
<1> PICK m : m = Current
  OBVIOUS
<1>1. /\ todo # {} /\ pc = "inbox" /\ channel[m].kind = "other" /\ pc' = "mark"
      /\ UNCHANGED <<inboxVars, aged, todo, quotes, checks, deferred, judged, deaths>>
  BY DEF Manage, At, Goes
<1>2. m \in Msgs /\ inbox[m] = "new"
  BY <1>1, CurrentIsFirst DEF Inv, TypeOK, NewInbox
<1>3. InTick'
  BY <1>1 DEF Inv, InTick, NewInbox, inboxVars
<1>4. CASE runs' = runs
  BY <1>1, <1>3, <1>4, SameRuns DEF Inv, TypeOK, InboxTypeOK, Stored, LateOnes,
                          ActsOnEarlierRuns, inboxVars, NewInbox
<1>5. ASSUME NEW s \in Resolve(m), runs' = [runs EXCEPT ![s].told = @ \union {m}]
      PROVE  Inv'
  <2>1. s \in Msgs /\ runs[s].st = "LIVE" /\ runs \in [Msgs -> RunType]
    BY DEF Resolve, LiveRuns, Inv, TypeOK
  <2>2. \A k \in Msgs : /\ runs'[k].st = runs[k].st /\ runs'[k].legs = runs[k].legs
                         /\ runs'[k].told = IF k = s THEN runs[s].told \union {m} ELSE runs[k].told
    BY <1>5, <2>1 DEF RunType
  <2>3. runs' \in [Msgs -> RunType]
    BY <1>2, <1>5, <2>1 DEF RunType
  <2>4. TypeOK'
    BY <1>1, <2>2, <2>3 DEF Inv, TypeOK, InboxTypeOK, inboxVars, NewInbox
  <2>5. WithinLimits'
    BY <2>2 DEF Inv, WithinLimits, SignalsWithinLimit, LegsWithinLimit, Legs, OpenLegs, LiveRuns
  <2>6. Stored' /\ LateOnes'
    BY <1>1, <2>2 DEF Inv, Stored, LateOnes, inboxVars
  <2>7. s < m \/ m \in late
    <3>1. s # m
      BY <1>1, <2>1 DEF Inv, Stored
    <3>2. m < s => m \in late
      BY <1>1, <1>2, <2>1 DEF Inv, LateOnes
    <3> QED
      BY <1>2, <2>1, <3>1, <3>2, MsgsFacts
  <2>8. ActsOnEarlierRuns'
    BY <1>1, <2>2, <2>7 DEF Inv, ActsOnEarlierRuns, inboxVars
  <2> QED
    BY <1>3, <2>4, <2>5, <2>6, <2>8 DEF Inv
<1> QED
  BY <1>4, <1>5 DEF Manage

LEMMA MarkInv == ASSUME Inv, Mark PROVE Inv'
<1> PICK m : m = Current
  OBVIOUS
<1>1. /\ todo # {} /\ pc = "mark" /\ inbox' = [inbox EXCEPT ![m] = "processed"]
      /\ todo' = todo \ {m} /\ pc' = "inbox" /\ deferred' = deferred \ {m} /\ judged' = FALSE
      /\ UNCHANGED <<channel, since, restarts, late, aged, runs, quotes, checks, deaths>>
  BY DEF Mark, At
<1>2. m \in Msgs /\ m \in todo /\ inbox[m] = "new" /\ inbox \in [Msgs -> {"absent", "new", "processed"}]
  BY <1>1, CurrentIsFirst DEF Inv, TypeOK, InboxTypeOK, NewInbox
<1>3. \A k \in Msgs : inbox'[k] = IF k = m THEN "processed" ELSE inbox[k]
  BY <1>1, <1>2
<1>4. NewInbox' = NewInbox \ {m}
  BY <1>3 DEF NewInbox
<1>5. InboxTypeOK'
  BY <1>1, <1>2 DEF Inv, TypeOK, InboxTypeOK
<1>6. TypeOK'
  BY <1>1, <1>4, <1>5 DEF Inv, TypeOK
<1>7. Stored' /\ LateOnes'
  BY <1>1, <1>2, <1>3 DEF Inv, Stored, LateOnes
<1>8. InTick'
  BY <1>1, <1>4 DEF Inv, InTick
<1> QED
  BY <1>1, <1>6, <1>7, <1>8, SameRuns DEF Inv, ActsOnEarlierRuns

\* The listener puts rows into the inbox, none in place of another.
LEMMA AddInboxInv ==
  ASSUME Inv, NEW S \in SUBSET (1..Len(channel)), AddInbox(S), BetweenTicks,
         channel' = channel, since' \in 1..(MaxMessages + 1), restarts' \in 0..MaxRestarts, aged' = aged
  PROVE  Inv'
<1>1. /\ pc = "idle" /\ UNCHANGED <<runs, pc, todo, quotes, checks, deferred, judged, deaths>>
  BY DEF BetweenTicks, memory
<1>2. S \subseteq Msgs
  BY MsgsFacts DEF Inv, TypeOK, InboxTypeOK
<1>3. \A m \in Msgs : inbox'[m] = IF m \in S /\ inbox[m] = "absent" THEN "new" ELSE inbox[m]
  BY DEF AddInbox
<1>4. late' \subseteq Msgs /\ late \subseteq late'
  BY <1>2 DEF AddInbox, Inv, TypeOK, InboxTypeOK
<1>5. InboxTypeOK'
  BY <1>3, <1>4 DEF AddInbox, Inv, TypeOK, InboxTypeOK
<1>6. NewInbox \subseteq NewInbox'
  BY <1>3 DEF NewInbox
<1>7. TypeOK'
  BY <1>1, <1>5, <1>6 DEF Inv, TypeOK
<1>8. Stored'
  BY <1>1, <1>3 DEF Inv, Stored
<1>9. LateOnes'
  <2> SUFFICES ASSUME NEW s \in Msgs, NEW m \in Msgs, m < s, runs[s].st # "none",
                      inbox'[m] = "new", channel[m].kind = "other"
               PROVE  m \in late'
    BY <1>1 DEF LateOnes
  <2>1. CASE inbox[m] = "new"
    BY <1>4, <2>1 DEF Inv, LateOnes
  <2>2. CASE inbox[m] = "absent"
    <3>1. inbox[s] # "absent"
      BY DEF Inv, Stored
    <3>2. s \in (m + 1)..MaxMessages /\ m \in S
      BY <1>3, <2>2, MsgsFacts
    <3> QED
      BY <2>2, <3>1, <3>2 DEF AddInbox
  <2> QED
    BY <1>3, <2>1, <2>2
<1>10. ActsOnEarlierRuns'
  BY <1>1, <1>4 DEF Inv, ActsOnEarlierRuns
<1> QED
  BY <1>1, <1>7, <1>8, <1>9, <1>10, SameRuns DEF Inv, InTick

\* What is not about the inbox's rows or the trader only adds to the channel, or to how old it is.
LEMMA ArriveInv == ASSUME Inv, Arrive \/ Age PROVE Inv'
<1>1. /\ pc = "idle" /\ UNCHANGED <<runs, pc, todo, quotes, checks, deferred, judged, deaths>> /\ BetweenTicks
  BY DEF Arrive, Age, BetweenTicks, memory
<1>2. /\ channel \in Seq(Message) /\ Len(channel) \in 0..MaxMessages
      /\ since \in 1..(MaxMessages + 1) /\ restarts \in 0..MaxRestarts /\ aged \in 0..Len(channel)
      /\ MaxRestarts \in Nat /\ PollLimit \in Nat
  BY InboxAssumption, MsgsFacts DEF Inv, TypeOK, InboxTypeOK
<1>3. CASE Post /\ aged' = aged
  <2>1. PICK c \in Channels : /\ Len(channel) < Len(c) /\ channel = SubSeq(c, 1, Len(channel))
                              /\ channel' = Append(channel, c[Len(channel) + 1])
    BY <1>3 DEF Post
  <2>2. c \in Seq(Message) /\ Len(c) <= MaxMessages
    BY InboxAssumption
  <2>3. c[Len(channel) + 1] \in Message
    BY <1>2, <2>1, <2>2
  <2>4. /\ channel' \in Seq(Message) /\ Len(channel') = Len(channel) + 1 /\ Len(channel') <= MaxMessages
        /\ \A m \in 1..Len(channel) : channel'[m] = channel[m]
    BY <1>2, <2>1, <2>2, <2>3, MsgsFacts
  <2>5. UNCHANGED <<since, restarts, inbox, late>>
    BY <1>3 DEF Post
  <2>6. TypeOK'
    BY <1>1, <1>2, <1>3, <2>4, <2>5 DEF Inv, TypeOK, InboxTypeOK, NewInbox
  <2>7. Stored'
    BY <1>1, <1>2, <2>4, <2>5 DEF Inv, Stored
  <2>8. LateOnes'
    BY <1>1, <1>2, <2>4, <2>5 DEF Inv, LateOnes, Stored
  <2> QED
    BY <1>1, <2>5, <2>6, <2>7, <2>8, SameRuns DEF Inv, InTick, ActsOnEarlierRuns
<1>4. ASSUME NEW m \in Msgs, Push(m), aged' = aged PROVE Inv'
  <2>1. {m} \in SUBSET (1..Len(channel))
    BY <1>2, <1>4 DEF Push
  <2> QED
    BY <1>1, <1>2, <1>4, <2>1, AddInboxInv DEF Push
<1>5. CASE Poll /\ aged' = aged
  <2>1. {m \in Newest : m >= since} \in SUBSET (1..Len(channel))
    BY DEF Newest
  <2> QED
    BY <1>1, <1>2, <1>5, <2>1, AddInboxInv DEF Poll
<1>6. CASE RestartListener /\ aged' = aged
  <2>1. since' \in 1..(MaxMessages + 1) /\ restarts' \in 0..MaxRestarts /\ UNCHANGED <<channel, inbox, late>>
    BY <1>2, <1>6, MsgsFacts DEF RestartListener
  <2>2. TypeOK'
    BY <1>1, <1>6, <2>1 DEF Inv, TypeOK, InboxTypeOK, NewInbox
  <2> QED
    BY <1>1, <2>1, <2>2, SameRuns DEF Inv, Stored, InTick, LateOnes, ActsOnEarlierRuns
<1>7. CASE Age
  <2>1. PICK m \in NewInbox : aged < m
    BY <1>7 DEF Age
  <2>2. m \in 1..Len(channel)
    BY DEF NewInbox, Inv, Stored
  <2>3. aged' \in 0..Len(channel) /\ UNCHANGED inboxVars
    BY <1>2, <1>7, <2>1, <2>2 DEF Age
  <2>4. TypeOK'
    BY <1>1, <2>3 DEF Inv, TypeOK, InboxTypeOK, inboxVars, NewInbox
  <2> QED
    BY <1>1, <2>3, <2>4, SameRuns DEF Inv, Stored, InTick, LateOnes, ActsOnEarlierRuns, inboxVars
<1> QED
  BY <1>3, <1>4, <1>5, <1>6, <1>7 DEF Arrive, Listener

LEMMA NextInv == Inv /\ [Next]_vars => Inv'
<1> SUFFICES ASSUME Inv, [Next]_vars PROVE Inv'
  OBVIOUS
<1>1. CASE Restart
  BY <1>1, DiesInv DEF Restart
<1>2. CASE UNCHANGED vars
  BY <1>2, SameRuns DEF vars, inboxVars, memory, Inv, TypeOK, InboxTypeOK, Stored, InTick, LateOnes,
              NewInbox, ActsOnEarlierRuns
<1> QED
  BY <1>1, <1>2, ArriveInv, TickInv, LookInv, ManageInv, MarkInv, SyncInv DEF Next, Trader

THEOREM InboxInvariant == Spec => []Inv
<1>1. Init => Inv
  BY InitInv
<1>2. Inv /\ [Next]_vars => Inv'
  BY NextInv
<1> QED
  BY <1>1, <1>2, PTL DEF Spec

(***************************************************************************)
(* The theorems                                                            *)
(***************************************************************************)
(* The tables and what the trader holds in memory have the right types: a  *)
(* run in progress has legs left, and only what is still new waits for the *)
(* tick (trader.py:143-218).                                               *)
THEOREM InboxTypes == Spec => []TypeOK
<1>1. Inv => TypeOK
  BY DEF Inv
<1> QED
  BY <1>1, InboxInvariant, PTL

(* Never more runs in progress than max_open_signals, nor as many legs as  *)
(* max_legs_open and one signal, whatever is deferred, turned down or      *)
(* placed again after a death (trader.py:251-255).                         *)
THEOREM StaysWithinLimits == Spec => []WithinLimits
<1>1. Inv => WithinLimits
  BY DEF Inv
<1> QED
  BY <1>1, InboxInvariant, PTL

(* A message changes runs of earlier signals only, unless it was stored    *)
(* late: what came before a signal's run is handled or waits as an entry,  *)
(* and a run is never its own subject (trader.py:445-455, store.py:40-42). *)
THEOREM ActsOnEarlier == Spec => []ActsOnEarlierRuns
<1>1. Inv => ActsOnEarlierRuns
  BY DEF Inv
<1> QED
  BY <1>1, InboxInvariant, PTL

(* The provider's messages act in the order they were written in: one is   *)
(* overtaken only while it is deferred (trader.py:198, 209-210).           *)
THEOREM OvertakesNothing == Spec => NothingOvertakes
<1> DEFINE InOrder(m) ==
      (inbox[m] = "new" /\ inbox'[m] = "processed") => \A k \in 1..(m - 1) : inbox[k] = "new" => k \in deferred
<1>1. ASSUME Inv, [Next]_vars, NEW m \in Msgs, inbox[m] = "new", inbox'[m] = "processed"
      PROVE  Mark
  <2>1. \A S : AddInbox(S) => inbox'[m] = inbox[m]
    BY <1>1 DEF AddInbox
  <2>2. Arrive => inbox'[m] = inbox[m]
    BY <2>1 DEF Arrive, Post, Listener, Push, Poll, RestartListener
  <2> QED
    BY <1>1, <2>2 DEF Next, Trader, Tick, Sync, Look, LookEntryLike, Manage, Age, Restart, vars, inboxVars
<1>2. ASSUME Inv, [Next]_vars, NEW m \in Msgs PROVE InOrder(m)
  <2> SUFFICES ASSUME inbox[m] = "new", inbox'[m] = "processed", NEW k \in 1..(m - 1), inbox[k] = "new"
               PROVE  k \in deferred
    OBVIOUS
  <2>1. Mark
    BY <1>1, <1>2
  <2>2. /\ pc = "mark" /\ todo # {} /\ inbox' = [inbox EXCEPT ![Current] = "processed"]
    BY <2>1 DEF Mark, At
  <2>3. m = Current
    BY <1>2, <2>2 DEF Inv, TypeOK, InboxTypeOK
  <2>4. k \in Msgs /\ k < m
    BY MsgsFacts
  <2>5. k \notin todo
    BY <1>2, <2>2, <2>3, <2>4, CurrentIsFirst, MsgsFacts DEF Inv, TypeOK, NewInbox
  <2> QED
    BY <1>2, <2>2, <2>4, <2>5 DEF Inv, InTick, NewInbox
<1>3. Inv /\ [Next]_vars => [\A m \in Msgs : InOrder(m)]_vars
  BY <1>2
<1> QED
  BY <1>3, InboxInvariant, PTL DEF Spec, NothingOvertakes

(***************************************************************************)
(* A message is handled once                                               *)
(***************************************************************************)
\* While the trader has not died, a message with a run is processed, or about to be marked so.
HandledInv ==
  /\ deaths \in Nat
  /\ deaths = 0 => \A m \in Msgs : runs[m].st # "none" => inbox[m] = "processed" \/ (pc = "mark" /\ m = Current)

LEMMA SettledHandled ==
  ASSUME Inv, HandledInv, todo # {}, pc = "inbox", NEW m, m = Current, Settled(m), UNCHANGED <<inboxVars, deaths>>
  PROVE  HandledInv'
<1>1. m \in Msgs /\ Current' = Current /\ pc' = "mark" /\ inbox' = inbox
  BY CurrentIsFirst DEF Inv, TypeOK, NewInbox, Settled, Current, inboxVars
<1>2. PICK r \in NewRuns : runs' = [runs EXCEPT ![m] = r]
  BY DEF Settled, Gets
<1>3. \A s \in Msgs : s # m => runs'[s] = runs[s]
  BY <1>2 DEF Inv, TypeOK
<1> QED
  BY <1>1, <1>3 DEF HandledInv

LEMMA LookHandled == ASSUME Inv, HandledInv, Look \/ LookEntryLike PROVE HandledInv'
<1> PICK m : m = Current
  OBVIOUS
<1>1. todo # {} /\ pc = "inbox" /\ UNCHANGED <<inboxVars, aged, deaths>>
  BY DEF Look, LookEntryLike, At
<1>2. m \in todo /\ m \in Msgs
  BY <1>1, CurrentIsFirst DEF Inv, TypeOK, NewInbox
<1>3. CASE LookAt(m)
  <2>1. Deferred(m) \/ Settled(m) \/ (Dies /\ UNCHANGED runs)
    BY <1>2, <1>3, LookOutcomes DEF Inv
  <2>2. CASE Settled(m)
    BY <1>1, <2>2, SettledHandled
  <2>3. CASE UNCHANGED runs
    BY <1>1, <2>3 DEF HandledInv, inboxVars
  <2> QED
    BY <2>1, <2>2, <2>3 DEF Deferred
<1>4. CASE runs' = runs
  BY <1>1, <1>4 DEF HandledInv, inboxVars
<1> QED
  BY <1>3, <1>4 DEF Look, LookEntryLike

\* What happens to runs elsewhere happens to runs there are already.
LEMMA RunsElsewhere ==
  ASSUME Inv, Sync \/ Manage, NEW s \in Msgs
  PROVE  /\ runs'[s].st = "none" <=> runs[s].st = "none"
         /\ runs[s].st = "LIVE" => runs'[s].st \in {"LIVE", "DONE"} /\ runs'[s].legs <= runs[s].legs
<1>1. runs[s] \in RunType /\ runs \in [Msgs -> RunType] /\ runs[s].legs \in Nat
  BY SignalFacts DEF Inv, TypeOK, RunType
<1>2. CASE runs' = runs
  BY <1>1, <1>2
<1>3. ASSUME NEW m \in LiveRuns, NEW n \in 0..(runs[m].legs - 1), runs' = LegsOver(m, n)
      PROVE  /\ runs'[s].st = "none" <=> runs[s].st = "none"
             /\ runs[s].st = "LIVE" => runs'[s].st \in {"LIVE", "DONE"} /\ runs'[s].legs <= runs[s].legs
  <2>1. m \in Msgs /\ runs[m].st = "LIVE"
    BY DEF LiveRuns
  <2>2. CASE s = m
    <3>1. runs'[s].st = (IF n = 0 THEN "DONE" ELSE "LIVE") /\ runs'[s].legs = n
      BY <1>1, <1>3, <2>2 DEF LegsOver, RunType
    <3>2. n <= runs[s].legs
      BY <1>1, <2>2
    <3> QED
      BY <2>1, <2>2, <3>1, <3>2
  <2>3. CASE s # m
    BY <1>1, <1>3, <2>1, <2>3 DEF LegsOver
  <2> QED
    BY <2>2, <2>3
<1>4. ASSUME NEW k, NEW r \in Resolve(k), runs' = [runs EXCEPT ![r].told = @ \union {k}]
      PROVE  runs'[s].st = runs[s].st /\ runs'[s].legs = runs[s].legs
  BY <1>1, <1>4 DEF Resolve, LiveRuns, RunType
<1>5. CASE Manage
  BY <1>1, <1>2, <1>4, <1>5 DEF Manage
<1> QED
  BY <1>2, <1>3, <1>5 DEF Sync

LEMMA NextHandled == Inv /\ HandledInv /\ [Next]_vars => HandledInv'
<1> SUFFICES ASSUME Inv, HandledInv, [Next]_vars PROVE HandledInv'
  OBVIOUS
<1>1. CASE Look \/ LookEntryLike
  BY <1>1, LookHandled
<1>2. CASE Tick
  BY <1>2 DEF Tick, HandledInv, inboxVars
<1>3. CASE Manage
  BY <1>3, RunsElsewhere DEF Manage, At, Goes, HandledInv, inboxVars
<1>4. CASE Sync
  BY <1>4, RunsElsewhere DEF Sync, HandledInv, inboxVars
<1>5. CASE Mark
  <2>1. /\ todo # {} /\ inbox' = [inbox EXCEPT ![Current] = "processed"] /\ runs' = runs /\ deaths' = deaths
    BY <1>5 DEF Mark, At
  <2>2. \A s \in Msgs : inbox'[s] = IF s = Current THEN "processed" ELSE inbox[s]
    BY <2>1 DEF Inv, TypeOK, InboxTypeOK
  <2> QED
    BY <2>1, <2>2 DEF HandledInv
<1>6. CASE Restart
  BY <1>6 DEF Restart, HandledInv
<1>7. CASE Arrive \/ Age
  <2>1. pc = "idle" /\ UNCHANGED <<runs, deaths>>
    BY <1>7 DEF Arrive, Age, BetweenTicks
  <2>2. ASSUME NEW s \in Msgs, inbox[s] = "processed" PROVE inbox'[s] = "processed"
    <3>1. \A S : AddInbox(S) => inbox'[s] = inbox[s]
      BY <2>2 DEF AddInbox
    <3> QED
      BY <1>7, <2>2, <3>1 DEF Arrive, Age, Post, Listener, Push, Poll, RestartListener, inboxVars
  <2>3. \A s \in Msgs : inbox[s] = "processed" => inbox'[s] = "processed"
    BY <2>2
  <2> QED
    BY <2>1, <2>3 DEF HandledInv
<1>8. CASE UNCHANGED vars
  BY <1>8 DEF vars, inboxVars, memory, HandledInv, Current
<1> QED
  BY <1>1, <1>2, <1>3, <1>4, <1>5, <1>6, <1>7, <1>8 DEF Next, Trader

LEMMA HandledInvariant == Spec => []HandledInv
<1>1. Init => HandledInv
  BY DEF Init, HandledInv, NoRun, Run
<1>2. Inv /\ HandledInv /\ [Next]_vars => HandledInv'
  BY NextHandled
<1> QED
  BY <1>1, <1>2, InboxInvariant, PTL DEF Spec

(* While the trader lives, no run in progress is placed or turned down     *)
(* again, whatever is pushed or polled twice: only its legs become fewer   *)
(* (store.py:31-34, trader.py:402-410).                                    *)
THEOREM HandlesOnce == Spec => NotHandledAgain
<1> DEFINE Goes1(m) ==
      (runs[m].st = "LIVE" /\ deaths = 0) => runs'[m].st \in {"LIVE", "DONE"} /\ runs'[m].legs <= runs[m].legs
<1>1. ASSUME Inv, HandledInv, [Next]_vars, NEW m \in Msgs PROVE Goes1(m)
  <2> SUFFICES ASSUME runs[m].st = "LIVE", deaths = 0
               PROVE  runs'[m].st \in {"LIVE", "DONE"} /\ runs'[m].legs <= runs[m].legs
    OBVIOUS
  <2>1. runs[m].legs \in Nat /\ runs \in [Msgs -> RunType]
    BY <1>1, SignalFacts DEF Inv, TypeOK, RunType
  <2>2. CASE runs'[m] = runs[m]
    BY <2>1, <2>2
  <2>3. CASE Look \/ LookEntryLike
    <3> PICK k : k = Current
      OBVIOUS
    <3>1. todo # {} /\ pc = "inbox"
      BY <2>3 DEF Look, LookEntryLike, At
    <3>2. k \in Msgs /\ inbox[k] = "new"
      BY <1>1, <3>1, CurrentIsFirst DEF Inv, TypeOK, NewInbox
    <3>3. m # k
      BY <1>1, <3>1, <3>2 DEF HandledInv
    <3>4. CASE LookAt(k)
      <4>1. Deferred(k) \/ Settled(k) \/ (Dies /\ UNCHANGED runs)
        BY <1>1, <3>2, <3>4, LookOutcomes DEF Inv
      <4>2. runs'[m] = runs[m]
        BY <2>1, <3>3, <4>1 DEF Deferred, Settled, Gets
      <4> QED
        BY <2>2, <4>2
    <3> QED
      BY <2>2, <2>3, <3>4 DEF Look, LookEntryLike
  <2>4. CASE Sync \/ Manage
    BY <1>1, <2>4, RunsElsewhere
  <2>5. CASE ~(Look \/ LookEntryLike \/ Sync \/ Manage)
    BY <1>1, <2>2, <2>5 DEF Next, Trader, Tick, Mark, Restart, Arrive, Age, BetweenTicks, vars
  <2> QED
    BY <2>3, <2>4, <2>5
<1>2. Inv /\ HandledInv /\ [Next]_vars => [\A m \in Msgs : Goes1(m)]_vars
  BY <1>1
<1> QED
  BY <1>2, InboxInvariant, HandledInvariant, PTL DEF Spec, NotHandledAgain

(***************************************************************************)
(* A signal is judged once                                                 *)
(***************************************************************************)
\* With a quote kept, the signal passed every rule but that on its age, and the model confirmed it.
Passed(m) ==
  /\ inbox[m] # "absent"
  /\ ValidateSignal(Signal, Config, quotes[m], FALSE) = {}
  /\ EntryCrosscheck /\ channel[m].kind # "entry_like" => checks[m] = "stands"

JudgedInv ==
  /\ judged => pc = "mark"
  /\ \A m \in Msgs : quotes[m] # NoQuote => Passed(m)

\* Age is a reason of its own.
LEMMA OnlyStale ==
  ASSUME NEW quote, NEW old \in BOOLEAN
  PROVE  /\ ValidateSignal(Signal, Config, quote, old) \subseteq ValidateSignal(Signal, Config, quote, FALSE) \union {"stale"}
         /\ ValidateSignal(Signal, Config, quote, FALSE) \subseteq ValidateSignal(Signal, Config, quote, old)
BY SMTT(30) DEF ValidateSignal

\* What a look leaves behind: nothing about the others; and what it says of the message itself.
LEMMA ForgetsItself ==
  ASSUME Inv, JudgedInv, NEW m \in Msgs, Forget(m), pc' = "mark", UNCHANGED inboxVars
  PROVE  JudgedInv'
<1>1. \A k \in Msgs : /\ quotes'[k] = (IF k = m THEN NoQuote ELSE quotes[k])
                      /\ k # m => checks'[k] = checks[k]
  BY DEF Forget, Inv, TypeOK
<1> QED
  BY <1>1 DEF JudgedInv, Passed, inboxVars

LEMMA RejectJudged ==
  ASSUME Inv, JudgedInv, NEW m \in Msgs, NEW reasons, Reject(m, reasons), UNCHANGED inboxVars
  PROVE  JudgedInv' /\ (reasons \intersect Judgement = {} => ~judged')
BY ForgetsItself DEF Reject, Goes

LEMMA GuardsAreNoJudgement ==
  ASSUME NEW state
  PROVE  Guards(state) \intersect Judgement = {}
BY DEF Guards, Judgement, PriceReasons

LEMMA LookJudged ==
  ASSUME Inv, JudgedInv, NEW m \in Msgs, inbox[m] = "new", pc = "inbox", LookAt(m), UNCHANGED inboxVars
  PROVE  JudgedInv' /\ (quotes[m] # NoQuote => runs' = runs \/ ~judged')
<1>1. PICK st \in FirstReadings, answer \in Answers(m) :
        LET quote == KeptQuote(m, st.quote)
            reasons == ValidateSignal(Signal, Config, quote, m <= aged)
                         \union (IF st.age = "none" THEN {"no_state"} ELSE {})
                         \union (IF answer = "differs" THEN {"crosscheck"} ELSE {})
        IN \/ WaitsForState(m, st) /\ Defer(m) /\ UNCHANGED <<quotes, checks>>
           \/ ~WaitsForState(m, st) /\ reasons # {} /\ Reject(m, reasons)
           \/ st.quote # NoQuote /\ reasons = {} /\ Reject(m, {"trade_not_allowed"})
           \/ ~WaitsForState(m, st) /\ reasons = {} /\ Decide(m, quote, answer)
  BY DEF LookAt
<1> DEFINE quote == KeptQuote(m, st.quote)
           rules == ValidateSignal(Signal, Config, quote, m <= aged)
           reasons == rules \union (IF st.age = "none" THEN {"no_state"} ELSE {})
                            \union (IF answer = "differs" THEN {"crosscheck"} ELSE {})
<1>2. ~judged
  BY DEF JudgedInv
<1>3. rules \subseteq ValidateSignal(Signal, Config, quote, FALSE) \union {"stale"}
      /\ ValidateSignal(Signal, Config, quote, FALSE) \subseteq rules
  <2>1. (m <= aged) \in BOOLEAN
    OBVIOUS
  <2> QED
    BY <2>1, OnlyStale
<1>4. quotes[m] # NoQuote => quote = quotes[m] /\ ValidateSignal(Signal, Config, quote, FALSE) = {} /\ answer # "differs"
  BY DEF KeptQuote, JudgedInv, Passed, Answers
<1>5. EntryCrosscheck /\ channel[m].kind # "entry_like" => answer # "none"
  BY DEF Answers, Crosscheck
<1>6. answer \in {"none", "stands", "differs"}
  BY DEF Answers, Crosscheck, Inv, TypeOK
<1> HIDE DEF quote, rules
<1>7. CASE Defer(m) /\ UNCHANGED <<quotes, checks>>
  BY <1>2, <1>7 DEF Defer, JudgedInv, Passed, inboxVars
<1>8. CASE Reject(m, reasons)
  <2>1. quotes[m] # NoQuote => reasons \intersect Judgement = {}
    BY <1>3, <1>4 DEF Judgement, PriceReasons
  <2> QED
    BY <1>8, <2>1, RejectJudged
<1>9. ASSUME NEW word \in {"trade_not_allowed", "account"}, Reject(m, {word})
      PROVE  JudgedInv' /\ ~judged'
  <2>1. {word} \intersect Judgement = {}
    BY DEF Judgement, PriceReasons
  <2> QED
    BY <1>9, <2>1, RejectJudged
<1>10. CASE reasons = {} /\ Decide(m, quote, answer)
  <2>1. PICK state \in States :
          LET guards == Guards(state)
          IN \/ guards = {} /\ ~Unplaceable(state.quote) /\ PlaceRun(m)
             \/ guards = {} /\ Unplaceable(state.quote) /\ Dies /\ UNCHANGED runs
             \/ /\ guards # {} /\ guards \subseteq Transient /\ Defer(m)
                /\ quotes' = [quotes EXCEPT ![m] = quote] /\ checks' = [checks EXCEPT ![m] = answer]
             \/ ~(guards \subseteq Transient) /\ Reject(m, guards)
             \/ state.age # "none" /\ Reject(m, {"account"})
    BY <1>10 DEF Decide
  <2>2. CASE PlaceRun(m)
    BY <1>2, <2>2, ForgetsItself DEF PlaceRun, Goes
  <2>3. CASE Dies /\ UNCHANGED runs
    BY <2>3 DEF Dies, JudgedInv
  <2>4. CASE /\ Defer(m)
             /\ quotes' = [quotes EXCEPT ![m] = quote] /\ checks' = [checks EXCEPT ![m] = answer]
    <3>1. \A k \in Msgs : /\ quotes'[k] = (IF k = m THEN quote ELSE quotes[k])
                          /\ checks'[k] = (IF k = m THEN answer ELSE checks[k])
      BY <2>4 DEF Inv, TypeOK
    <3>2. rules = {} /\ answer # "differs"
      BY <1>10
    <3>3. ValidateSignal(Signal, Config, quote, FALSE) = {}
      BY <1>3, <3>2
    <3>4. ~judged' /\ runs' = runs
      BY <1>2, <2>4 DEF Defer
    <3>5. EntryCrosscheck /\ channel[m].kind # "entry_like" => answer = "stands"
      BY <1>5, <1>6, <3>2
    <3>6. \A k \in Msgs : quotes'[k] # NoQuote => Passed(k)'
      BY <3>1, <3>3, <3>5 DEF JudgedInv, Passed, inboxVars
    <3> QED
      BY <3>4, <3>6 DEF JudgedInv
  <2>5. CASE Reject(m, Guards(state))
    BY <2>5, RejectJudged, GuardsAreNoJudgement
  <2> QED
    BY <1>9, <2>1, <2>2, <2>3, <2>4, <2>5
<1> QED
  BY <1>1, <1>7, <1>8, <1>9, <1>10 DEF quote, rules

LEMMA NextJudged ==
  ASSUME Inv, JudgedInv, [Next]_vars
  PROVE  JudgedInv' /\ \A m \in Msgs : quotes[m] # NoQuote => runs'[m] = runs[m] \/ ~judged'
<1>1. CASE Look \/ LookEntryLike
  <2> PICK k : k = Current
    OBVIOUS
  <2>1. todo # {} /\ pc = "inbox" /\ UNCHANGED inboxVars
    BY <1>1 DEF Look, LookEntryLike, At
  <2>2. k \in Msgs /\ inbox[k] = "new"
    BY <2>1, CurrentIsFirst DEF Inv, TypeOK, NewInbox
  <2>3. CASE LookAt(k)
    <3>1. JudgedInv' /\ (quotes[k] # NoQuote => runs' = runs \/ ~judged')
      BY <2>1, <2>2, <2>3, LookJudged
    <3>2. Deferred(k) \/ Settled(k) \/ (Dies /\ UNCHANGED runs)
      BY <2>2, <2>3, LookOutcomes DEF Inv
    <3>3. \A m \in Msgs : m # k => runs'[m] = runs[m]
      BY <3>2 DEF Deferred, Settled, Gets, Inv, TypeOK
    <3> QED
      BY <3>1, <3>3
  <2>4. CASE Goes("mark") /\ UNCHANGED <<runs, quotes, checks, deferred, judged>>
    BY <2>1, <2>4 DEF Goes, JudgedInv, Passed, inboxVars
  <2> QED
    BY <1>1, <2>3, <2>4 DEF Look, LookEntryLike
<1>2. CASE Tick \/ Sync \/ Manage
  <2>1. pc # "mark" /\ UNCHANGED <<inboxVars, quotes, checks, judged>>
    BY <1>2 DEF Tick, Sync, Manage, At
  <2> QED
    BY <2>1 DEF JudgedInv, Passed, inboxVars
<1>3. CASE Mark
  <2>1. /\ todo # {} /\ inbox' = [inbox EXCEPT ![Current] = "processed"] /\ ~judged'
        /\ UNCHANGED <<channel, runs, quotes, checks>>
    BY <1>3 DEF Mark, At
  <2>2. \A m \in Msgs : inbox[m] # "absent" => inbox'[m] # "absent"
    BY <2>1 DEF Inv, TypeOK, InboxTypeOK
  <2> QED
    BY <2>1, <2>2 DEF JudgedInv, Passed
<1>4. CASE Restart
  BY <1>4 DEF Restart, Dies, JudgedInv
<1>5. CASE Arrive \/ Age
  <2>1. UNCHANGED <<runs, pc, quotes, checks, judged>>
    BY <1>5 DEF Arrive, Age, BetweenTicks, memory
  <2>2. ASSUME NEW m \in Msgs, inbox[m] # "absent"
        PROVE  inbox'[m] # "absent" /\ channel'[m] = channel[m]
    <3>1. m \in 1..Len(channel) /\ channel \in Seq(Message)
      BY <2>2 DEF Inv, Stored, TypeOK, InboxTypeOK
    <3>2. \A c, x : channel' = Append(channel, x) => channel'[m] = channel[m]
      BY <3>1
    <3>3. Post => channel'[m] = channel[m] /\ inbox' = inbox
      BY <3>2 DEF Post
    <3>4. \A S : AddInbox(S) => inbox'[m] # "absent"
      BY <2>2 DEF AddInbox
    <3> QED
      BY <1>5, <2>2, <3>3, <3>4 DEF Arrive, Age, Listener, Push, Poll, RestartListener, inboxVars
  <2> QED
    BY <2>1, <2>2 DEF JudgedInv, Passed
<1>6. CASE UNCHANGED vars
  BY <1>6 DEF vars, inboxVars, memory, JudgedInv, Passed
<1> QED
  BY <1>1, <1>2, <1>3, <1>4, <1>5, <1>6 DEF Next, Trader

LEMMA JudgedInvariant == Spec => []JudgedInv
<1>1. Init => JudgedInv
  BY DEF Init, JudgedInv
<1>2. Inv /\ JudgedInv /\ [Next]_vars => JudgedInv'
  BY NextJudged
<1> QED
  BY <1>1, <1>2, InboxInvariant, PTL DEF Spec

(* A signal that passed at a look is not turned down at a later one for    *)
(* its price or by the model: the first quote and the model's answer are   *)
(* kept as long as it is deferred (trader.py:113-124, 337-354).            *)
THEOREM JudgedOnce == Spec => NotJudgedAgain
<1>1. Inv /\ JudgedInv /\ [Next]_vars
        => [\A m \in Msgs : (quotes[m] # NoQuote /\ runs'[m] # runs[m]) => ~judged']_vars
  BY NextJudged
<1> QED
  BY <1>1, InboxInvariant, JudgedInvariant, PTL DEF Spec, NotJudgedAgain
================================================================================
