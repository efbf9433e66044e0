---------------------------- MODULE SignalRunProofs ----------------------------
(***************************************************************************)
(* Theorems about one signal's run, for any number of legs, any prices and *)
(* any faults but where a theorem names one.                               *)
(***************************************************************************)
EXTENDS SignalRun, FiniteSetTheorems, TLAPS

LEMMA PriceFacts ==
  /\ SignalSl \in Prices /\ Tp1 \in Prices /\ MovePrices \subseteq Prices
  /\ \A l \in Legs : FillPrice[l] \in Prices
  /\ Prices \subseteq Nat \ {0} /\ NoPrice \notin Prices
  BY RunAssumption DEF Prices, NoPrice

(***************************************************************************)
(* One leg                                                                 *)
(***************************************************************************)
\* A leg that may be saved: the command it waits for has a kind, and a change of the stop has a price.
LegOK ==
  { leg \in LegType : /\ leg.inflight_cmd = NoCmd <=> leg.inflight_kind = "none"
                      /\ leg.inflight_kind = "modify_sl" => leg.inflight_sl # NoPrice }

\* From a to b the leg at most stopped waiting.
QuietLeg(a, b) ==
  \/ b.inflight_cmd = NoCmd
  \/ /\ b.inflight_cmd = a.inflight_cmd /\ b.inflight_kind = a.inflight_kind
     /\ b.inflight_sl = a.inflight_sl

LEMMA NewLegOK == NewLeg \in LegOK
  BY PriceFacts DEF NewLeg, LegOK, LegType, LegStates, Timers, NoCmd, NoPrice

LEMMA NoInflightOK ==
  ASSUME NEW leg \in LegType
  PROVE  NoInflight(leg) \in LegOK /\ NoInflight(leg).inflight_cmd = NoCmd /\ NoInflight(leg).state = leg.state
  BY DEF NoInflight, LegOK, LegType, NoCmd, NoPrice, Timers

\* What does not touch the command in flight.
LEMMA LegChanges ==
  ASSUME NEW leg \in LegOK
  PROVE  /\ \A s \in LegStates : [leg EXCEPT !.state = s] \in LegOK /\ QuietLeg(leg, [leg EXCEPT !.state = s])
         /\ \A t \in Timers : /\ [leg EXCEPT !.missing_since = t] \in LegOK
                              /\ QuietLeg(leg, [leg EXCEPT !.missing_since = t])
                              /\ [leg EXCEPT !.retry_after = t] \in LegOK
                              /\ QuietLeg(leg, [leg EXCEPT !.retry_after = t])
                              /\ [leg EXCEPT !.inflight_since = t] \in LegOK
                              /\ QuietLeg(leg, [leg EXCEPT !.inflight_since = t])
         /\ \A p \in Prices \union {NoPrice} : /\ [leg EXCEPT !.entry_price = p] \in LegOK
                                               /\ QuietLeg(leg, [leg EXCEPT !.entry_price = p])
         /\ \A p \in Prices : [leg EXCEPT !.sl_current = p] \in LegOK /\ QuietLeg(leg, [leg EXCEPT !.sl_current = p])
  BY DEF LegOK, LegType, QuietLeg

LEMMA FailedOK ==
  ASSUME NEW leg \in LegOK
  PROVE  Failed(leg) \in LegOK /\ QuietLeg(leg, Failed(leg))
<1>1. NoInflight(leg) \in LegOK /\ NoInflight(leg).inflight_cmd = NoCmd
  BY NoInflightOK DEF LegOK
<1> DEFINE rest == NoInflight(leg)
<1>2. [rest EXCEPT !.state = "CANCELLED"] \in LegOK /\ [rest EXCEPT !.state = "CANCELLED"].inflight_cmd = NoCmd
  BY <1>1 DEF LegOK, LegType, LegStates, Finished
<1>3. [rest EXCEPT !.retry_after = "on"] \in LegOK /\ [rest EXCEPT !.retry_after = "on"].inflight_cmd = NoCmd
  BY <1>1 DEF LegOK, LegType, Timers
<1> QED
  BY <1>2, <1>3 DEF Failed, QuietLeg

\* Only a leg that waits is told of its success.
LEMMA SucceededOK ==
  ASSUME NEW leg \in LegOK, leg.inflight_cmd # NoCmd, NEW fill_price \in Prices \union {NoPrice}
  PROVE  Succeeded(leg, fill_price) \in LegOK /\ QuietLeg(leg, Succeeded(leg, fill_price))
<1> DEFINE done == [NoInflight(leg) EXCEPT !.retry_after = "off"]
<1>1. done \in LegOK /\ done.inflight_cmd = NoCmd
  BY NoInflightOK DEF LegOK, LegType, Timers
<1>2. leg.inflight_kind \in Kinds /\ leg.inflight_sl \in Prices \union {NoPrice}
      /\ (leg.inflight_kind = "modify_sl" => leg.inflight_sl \in Prices)
  BY DEF LegOK, LegType
<1>3. Succeeded(leg, fill_price) =
        CASE leg.inflight_kind = "open_market"  -> [done EXCEPT !.state = "OPEN", !.entry_price = fill_price]
          [] leg.inflight_kind = "open_pending" -> [done EXCEPT !.state = "PENDING_ORDER"]
          [] leg.inflight_kind = "modify_sl"    -> [done EXCEPT !.sl_current = leg.inflight_sl]
          [] leg.inflight_kind = "close"        -> [done EXCEPT !.state = "CLOSED_MANUAL"]
          [] leg.inflight_kind = "cancel"       -> [done EXCEPT !.state = "CANCELLED"]
  BY DEF Succeeded
<1> HIDE DEF done
<1>4. \A s \in LegStates : [done EXCEPT !.state = s] \in LegOK /\ [done EXCEPT !.state = s].inflight_cmd = NoCmd
  BY <1>1 DEF LegOK, LegType
<1>5. /\ [done EXCEPT !.state = "OPEN", !.entry_price = fill_price] \in LegOK
      /\ [done EXCEPT !.state = "OPEN", !.entry_price = fill_price].inflight_cmd = NoCmd
  BY <1>1 DEF LegOK, LegType, LegStates
<1>6. leg.inflight_kind = "modify_sl" => /\ [done EXCEPT !.sl_current = leg.inflight_sl] \in LegOK
                                         /\ [done EXCEPT !.sl_current = leg.inflight_sl].inflight_cmd = NoCmd
  BY <1>1, <1>2 DEF LegOK, LegType
<1>7. {"PENDING_ORDER", "CLOSED_MANUAL", "CANCELLED"} \subseteq LegStates
  BY DEF LegStates, Finished, Closed
<1> QED
  BY <1>2, <1>3, <1>4, <1>5, <1>6, <1>7 DEF QuietLeg, Kinds, Opening

LEMMA ExpireInflightOK ==
  ASSUME NEW leg \in LegOK
  PROVE  ExpireInflight(leg) \in LegOK /\ QuietLeg(leg, ExpireInflight(leg))
<1>1. [NoInflight(leg) EXCEPT !.retry_after = "on"] \in LegOK /\ [NoInflight(leg) EXCEPT !.retry_after = "on"].inflight_cmd = NoCmd
  BY NoInflightOK DEF LegOK, LegType, Timers
<1>2. [leg EXCEPT !.inflight_since = "on"] \in LegOK /\ QuietLeg(leg, [leg EXCEPT !.inflight_since = "on"])
  BY LegChanges DEF Timers
<1>3. QuietLeg(leg, leg)
  BY DEF QuietLeg
<1> QED
  BY <1>1, <1>2, <1>3 DEF ExpireInflight, QuietLeg

LEMMA MissingOK ==
  ASSUME NEW leg \in LegOK, NEW verdict \in LegStates
  PROVE  Missing(leg, verdict) \in LegOK /\ QuietLeg(leg, Missing(leg, verdict))
<1>1. leg.missing_since \in {"off", "on", "due"}
  BY DEF LegOK, LegType, Timers
<1>2. [leg EXCEPT !.state = verdict, !.missing_since = "off"] \in LegOK
      /\ QuietLeg(leg, [leg EXCEPT !.state = verdict, !.missing_since = "off"])
  BY DEF LegOK, LegType, Timers, QuietLeg
<1>3. [leg EXCEPT !.missing_since = "on"] \in LegOK /\ QuietLeg(leg, [leg EXCEPT !.missing_since = "on"])
  BY LegChanges DEF Timers
<1>4. QuietLeg(leg, leg)
  BY DEF QuietLeg
<1> QED
  BY <1>1, <1>2, <1>3, <1>4 DEF Missing

LEMMA DetectOK ==
  ASSUME NEW leg \in LegOK, NEW l \in Legs, NEW entry \in Entries
  PROVE  Detect(leg, l, entry) \in LegOK /\ QuietLeg(leg, Detect(leg, l, entry))
<1> USE PriceFacts
<1>1. QuietLeg(leg, leg)
  BY DEF QuietLeg
<1>2. Missing(leg, "CANCELLED") \in LegOK /\ QuietLeg(leg, Missing(leg, "CANCELLED"))
      /\ Missing(leg, "CLOSED_MANUAL") \in LegOK /\ QuietLeg(leg, Missing(leg, "CLOSED_MANUAL"))
  BY MissingOK DEF LegStates, Finished, Closed
<1>3. [leg EXCEPT !.missing_since = "off"] \in LegOK /\ QuietLeg(leg, [leg EXCEPT !.missing_since = "off"])
  BY LegChanges DEF Timers
<1>4. [leg EXCEPT !.state = "OPEN", !.entry_price = FillPrice[l], !.missing_since = "off"] \in LegOK
      /\ QuietLeg(leg, [leg EXCEPT !.state = "OPEN", !.entry_price = FillPrice[l], !.missing_since = "off"])
  BY DEF LegOK, LegType, LegStates, Timers, QuietLeg
<1> DEFINE priced == [leg EXCEPT !.missing_since = "off",
                                 !.entry_price = IF leg.entry_price = NoPrice THEN FillPrice[l] ELSE leg.entry_price]
<1>5. priced \in LegOK /\ QuietLeg(leg, priced)
  BY DEF LegOK, LegType, Timers, QuietLeg
<1>6. entry \in Closed => /\ [leg EXCEPT !.state = entry, !.missing_since = "off"] \in LegOK
                          /\ QuietLeg(leg, [leg EXCEPT !.state = entry, !.missing_since = "off"])
  BY DEF LegOK, LegType, LegStates, Finished, Closed, Timers, QuietLeg
<1>7. CASE leg.inflight_cmd # NoCmd
  BY <1>1, <1>7 DEF Detect
<1>8. CASE leg.inflight_cmd = NoCmd /\ leg.state = "PENDING_ORDER"
  BY <1>2, <1>3, <1>4, <1>8 DEF Detect
<1>9. CASE leg.inflight_cmd = NoCmd /\ leg.state = "OPEN"
  <2>1. Detect(leg, l, entry) =
          CASE entry = "position" -> priced
            [] entry \in Closed   -> [leg EXCEPT !.state = entry, !.missing_since = "off"]
            [] OTHER              -> Missing(leg, "CLOSED_MANUAL")
    BY <1>9 DEF Detect
  <2> HIDE DEF priced
  <2> QED
    BY <1>2, <1>5, <1>6, <2>1 DEF Closed
<1>10. CASE leg.inflight_cmd = NoCmd /\ leg.state \notin {"PENDING_ORDER", "OPEN"}
  BY <1>1, <1>10 DEF Detect
<1> QED
  BY <1>7, <1>8, <1>9, <1>10

LEMMA AdoptOK ==
  ASSUME NEW leg \in LegOK, NEW l \in Legs, NEW entry \in Entries
  PROVE  Adopt(leg, l, entry) \in LegOK /\ QuietLeg(leg, Adopt(leg, l, entry))
<1> DEFINE opened == [leg EXCEPT !.state = "OPEN", !.entry_price = FillPrice[l],
                                 !.inflight_cmd = NoCmd, !.inflight_kind = "none"]
           pending == [leg EXCEPT !.state = "PENDING_ORDER", !.inflight_cmd = NoCmd, !.inflight_kind = "none"]
<1>1. opened \in LegOK /\ opened.inflight_cmd = NoCmd
  BY PriceFacts DEF LegOK, LegType, LegStates, NoCmd
<1>2. pending \in LegOK /\ pending.inflight_cmd = NoCmd
  BY DEF LegOK, LegType, LegStates, NoCmd
<1> QED
  BY <1>1, <1>2 DEF Adopt, QuietLeg

(***************************************************************************)
(* The run                                                                 *)
(***************************************************************************)
\* A run that may be saved: no leg waits for a command of a number not used yet.
RunOK ==
  { r \in RunType : \A l \in Legs : r.legs[l] \in LegOK /\ r.legs[l].inflight_cmd <= r.seq }

QuietRun(r, s) == s.seq = r.seq /\ \A l \in Legs : QuietLeg(r.legs[l], s.legs[l])

LEMMA RunFields ==
  ASSUME NEW r \in RunOK
  PROVE  /\ r.legs \in [Legs -> LegOK] /\ r.seq \in Nat
         /\ \A l \in Legs : r.legs[l] \in LegOK /\ r.legs[l] \in LegType /\ r.legs[l].inflight_cmd <= r.seq
         /\ r \in RunType
  BY DEF RunOK, RunType, LegOK

LEMMA QuietReflexive == \A r : QuietRun(r, r)
  BY DEF QuietRun, QuietLeg

LEMMA QuietTransitive ==
  ASSUME NEW r, NEW s, NEW t, QuietRun(r, s), QuietRun(s, t)
  PROVE  QuietRun(r, t)
  BY DEF QuietRun, QuietLeg

\* A run whose legs changed quietly.
LEMMA QuietLegsOK ==
  ASSUME NEW r \in RunOK, NEW legs \in [Legs -> LegOK], \A l \in Legs : QuietLeg(r.legs[l], legs[l])
  PROVE  [r EXCEPT !.legs = legs] \in RunOK /\ QuietRun(r, [r EXCEPT !.legs = legs])
<1> DEFINE s == [r EXCEPT !.legs = legs]
<1>1. s \in RunType /\ s.legs = legs /\ s.seq = r.seq
  BY DEF RunOK, RunType, LegOK
<1>2. \A l \in Legs : legs[l] \in LegOK /\ legs[l].inflight_cmd <= r.seq
  BY RunFields DEF QuietLeg, NoCmd
<1> HIDE DEF s
<1> QED
  BY <1>1, <1>2 DEF RunOK, QuietRun, s

\* What does not touch the legs.
LEMMA FlagsOK ==
  ASSUME NEW r \in RunOK
  PROVE  /\ \A st \in {"PLACING", "ACTIVE", "DONE", "REJECTED"} :
              [r EXCEPT !.state = st] \in RunOK /\ QuietRun(r, [r EXCEPT !.state = st])
         /\ [r EXCEPT !.be_applied = TRUE] \in RunOK /\ QuietRun(r, [r EXCEPT !.be_applied = TRUE])
         /\ [r EXCEPT !.tp1_applied = TRUE] \in RunOK /\ QuietRun(r, [r EXCEPT !.tp1_applied = TRUE])
         /\ [r EXCEPT !.pendings_cancelled = TRUE] \in RunOK /\ QuietRun(r, [r EXCEPT !.pendings_cancelled = TRUE])
         /\ [r EXCEPT !.close_requested = TRUE] \in RunOK /\ QuietRun(r, [r EXCEPT !.close_requested = TRUE])
  BY DEF RunOK, RunType, QuietRun, QuietLeg

LEMMA RecomputeOK ==
  ASSUME NEW r \in RunOK
  PROVE  Recompute(r) \in RunOK /\ QuietRun(r, Recompute(r))
<1>1. \E st \in {r.state, "PLACING", "ACTIVE", "DONE"} : Recompute(r) = [r EXCEPT !.state = st]
  BY DEF Recompute
<1>2. [r EXCEPT !.state = r.state] = r
  BY DEF RunOK, RunType
<1> QED
  BY ZenonT(40), <1>1, <1>2, FlagsOK, QuietReflexive

LEMMA NewRunOK == NewRun \in RunOK
<1>1. NewRun.legs = [l \in Legs |-> NewLeg] /\ NewRun.seq = 0
  BY DEF NewRun
<1>2. NewLeg \in LegOK /\ NewLeg \in LegType /\ NewLeg.inflight_cmd = 0
  BY NewLegOK DEF LegOK, NewLeg, NoCmd
<1>3. NewRun \in RunType
  BY <1>2 DEF NewRun, RunType
<1> QED
  BY <1>1, <1>2, <1>3 DEF RunOK

ResultType == [leg : Legs, n : Nat \ {0}, ok : BOOLEAN, fill_price : Prices \union {NoPrice}]

LEMMA ApplyResultsOK ==
  ASSUME NEW r \in RunOK, NEW rs, rs \subseteq ResultType
  PROVE  ApplyResults(r, rs) \in RunOK /\ QuietRun(r, ApplyResults(r, rs))
<1> DEFINE mine(l) == {x \in rs : x.leg = l /\ x.n = r.legs[l].inflight_cmd}
           applied(leg, x) == IF x.ok THEN Succeeded(leg, x.fill_price) ELSE Failed(leg)
           leg(l) == IF mine(l) = {} THEN r.legs[l] ELSE applied(r.legs[l], CHOOSE x \in mine(l) : TRUE)
           legs == [l \in Legs |-> leg(l)]
<1>1. ASSUME NEW l \in Legs
      PROVE  leg(l) \in LegOK /\ QuietLeg(r.legs[l], leg(l))
  <2>1. CASE mine(l) = {}
    BY <2>1, RunFields DEF QuietLeg
  <2>2. CASE mine(l) # {}
    <3> DEFINE x == CHOOSE y \in mine(l) : TRUE
    <3>1. x \in mine(l)
      BY <2>2
    <3>2. x \in ResultType /\ r.legs[l] \in LegOK /\ r.legs[l].inflight_cmd # NoCmd
      BY <3>1, RunFields DEF ResultType, NoCmd
    <3>3. leg(l) = applied(r.legs[l], x)
      BY <2>2
    <3> HIDE DEF x, mine
    <3> QED
      BY <3>2, <3>3, SucceededOK, FailedOK DEF ResultType
  <2> QED
    BY <2>1, <2>2
<1>2. ApplyResults(r, rs) = Recompute([r EXCEPT !.legs = legs])
  BY DEF ApplyResults
<1> HIDE DEF leg
<1>3. legs \in [Legs -> LegOK] /\ \A l \in Legs : QuietLeg(r.legs[l], legs[l])
  BY <1>1
<1> HIDE DEF legs
<1>4. [r EXCEPT !.legs = legs] \in RunOK /\ QuietRun(r, [r EXCEPT !.legs = legs])
  BY <1>3, QuietLegsOK
<1> QED
  BY <1>2, <1>4, RecomputeOK, QuietTransitive

LEMMA ObserveOK ==
  ASSUME NEW r \in RunOK, NEW snapshot \in [Legs -> Entries]
  PROVE  Observe(r, snapshot) \in RunOK /\ QuietRun(r, Observe(r, snapshot))
<1> DEFINE legs == [l \in Legs |-> Detect(ExpireInflight(r.legs[l]), l, snapshot[l])]
<1>1. ASSUME NEW l \in Legs
      PROVE  legs[l] \in LegOK /\ QuietLeg(r.legs[l], legs[l])
  <2>1. ExpireInflight(r.legs[l]) \in LegOK /\ QuietLeg(r.legs[l], ExpireInflight(r.legs[l]))
    BY RunFields, ExpireInflightOK
  <2>2. snapshot[l] \in Entries
    OBVIOUS
  <2> QED
    BY <2>1, <2>2, DetectOK DEF QuietLeg
<1>2. Observe(r, snapshot) = [r EXCEPT !.legs = legs]
  BY DEF Observe
<1>3. legs \in [Legs -> LegOK]
  BY <1>1
<1> HIDE DEF legs
<1> QED
  BY <1>1, <1>2, <1>3, QuietLegsOK

LEMMA ReconcileOK ==
  ASSUME NEW r \in RunOK, NEW snapshot \in [Legs -> Entries]
  PROVE  Reconcile(r, snapshot) \in RunOK /\ QuietRun(r, Reconcile(r, snapshot))
<1> DEFINE legs == [l \in Legs |-> Adopt(r.legs[l], l, snapshot[l])]
           adopted == [r EXCEPT !.legs = legs]
<1>1. legs \in [Legs -> LegOK] /\ \A l \in Legs : QuietLeg(r.legs[l], legs[l])
  BY RunFields, AdoptOK
<1>2. Reconcile(r, snapshot) = IF r.state \notin Live \/ adopted = r THEN r ELSE Recompute(adopted)
  BY DEF Reconcile
<1> HIDE DEF legs
<1>3. adopted \in RunOK /\ QuietRun(r, adopted)
  BY <1>1, QuietLegsOK
<1> HIDE DEF adopted
<1> QED
  BY <1>2, <1>3, RecomputeOK, QuietTransitive, QuietReflexive

(***************************************************************************)
(* What a handler writes                                                   *)
(***************************************************************************)
\* The place of the leg l among the legs S.
Rank(S, l) == Cardinality({k \in S : k <= l})

LEMMA RankFacts ==
  ASSUME NEW S \in SUBSET Legs
  PROVE  /\ Cardinality(S) \in Nat
         /\ \A l \in S : Rank(S, l) \in 1..Cardinality(S)
         /\ \A i \in 1..Cardinality(S) : \E l \in S : Rank(S, l) = i
         /\ \A l, k \in S : Rank(S, l) = Rank(S, k) => l = k
         /\ \A l, k \in S : Rank(S, l) < Rank(S, k) <=> l < k
<1> DEFINE upTo(l) == {k \in S : k <= l}
           n == Cardinality(S)
           place == [l \in S |-> Rank(S, l)]
<1>1. IsFiniteSet(S) /\ n \in Nat /\ S \subseteq Int
  <2>1. IsFiniteSet(Legs)
    BY RunAssumption, FS_Interval DEF Legs
  <2>2. IsFiniteSet(S)
    BY <2>1, FS_Subset
  <2> QED
    BY <2>2, FS_CardinalityType DEF Legs
<1>2. ASSUME NEW l \in S
      PROVE  IsFiniteSet(upTo(l)) /\ Rank(S, l) \in 1..n
  <2>1. IsFiniteSet(upTo(l)) /\ Cardinality(upTo(l)) <= n
    BY <1>1, FS_Subset
  <2>2. l \in upTo(l)
    BY <1>1
  <2>3. Cardinality(upTo(l)) \in Nat /\ Cardinality(upTo(l)) # 0
    BY <2>1, <2>2, FS_CardinalityType, FS_EmptySet
  <2> QED
    BY <1>1, <2>1, <2>3 DEF Rank
<1>3. ASSUME NEW l \in S, NEW k \in S, l < k
      PROVE  Rank(S, l) < Rank(S, k)
  <2>1. upTo(l) \in SUBSET upTo(k)
    <3>1. \A x \in S : x <= l => x <= k
      BY <1>1, <1>3
    <3> QED
      BY <3>1
  <2>2. k \in upTo(k) /\ k \notin upTo(l)
    BY <1>1, <1>3
  <2>3. Rank(S, l) \in Nat /\ Rank(S, k) \in Nat /\ Rank(S, l) <= Rank(S, k)
    BY <1>2, <2>1, FS_Subset DEF Rank
  <2>4. Rank(S, l) # Rank(S, k)
    BY <1>2, <2>1, <2>2, FS_Subset DEF Rank
  <2> QED
    BY <2>3, <2>4
<1>4. ASSUME NEW l \in S
      PROVE  Rank(S, l) \in Int /\ l \in Int
  <2>1. Rank(S, l) \in 1..n
    BY <1>2
  <2> QED
    BY <1>1, <2>1
<1>9. /\ \A l, k \in S : Rank(S, l) = Rank(S, k) => l = k
      /\ \A l, k \in S : Rank(S, l) < Rank(S, k) <=> l < k
  <2> SUFFICES ASSUME NEW l \in S, NEW k \in S
               PROVE  (Rank(S, l) = Rank(S, k) => l = k) /\ (Rank(S, l) < Rank(S, k) <=> l < k)
    OBVIOUS
  <2>1. l < k => Rank(S, l) < Rank(S, k)
    BY <1>3
  <2>2. k < l => Rank(S, k) < Rank(S, l)
    BY <1>3
  <2> QED
    BY <1>1, <1>4, <2>1, <2>2
<1>5. place \in Injection(S, 1..n)
  BY <1>2, <1>9 DEF Injection, IsInjective
<1>6. IsFiniteSet(1..n) /\ Cardinality(1..n) = n
  BY <1>1, FS_Interval
<1>7. place \in Surjection(S, 1..n)
  BY <1>5, <1>6, FS_Injection
<1>8. \A i \in 1..n : \E l \in S : Rank(S, l) = i
  BY <1>7 DEF Surjection
<1> QED
  BY <1>1, <1>2, <1>8, <1>9

LEMMA RankOfAll ==
  ASSUME NEW l \in Legs
  PROVE  Rank(Legs, l) = l
<1>1. {k \in Legs : k <= l} = 1..l
  BY RunAssumption DEF Legs
<1>2. Cardinality(1..l) = l
  BY FS_Interval DEF Legs
<1> QED
  BY <1>1, <1>2 DEF Rank

HandlerType == [run : RunOK, out : Seq(CommandType), unwritable : SUBSET Nat]

\* What a handler asks of a leg.
Order == { o \in [kind : Kinds, sl : Prices \union {NoPrice}] : o.kind = "modify_sl" => o.sl # NoPrice }

Line(l, n, o) == [leg |-> l, n |-> n, kind |-> o.kind, sl |-> o.sl]

LEMMA WaitingOK ==
  ASSUME NEW leg \in LegOK, NEW n \in Nat \ {0}, NEW o \in Order
  PROVE  Waiting(leg, n, o) \in LegOK
  BY ZenonT(40) DEF Waiting, LegOK, LegType, Order, Timers, NoCmd, Kinds, Opening

\* What is left of a leg whose command could not be written.
Unsent(leg, o) == [NoInflight(leg) EXCEPT !.state = IF o.kind \in Opening THEN "CANCELLED" ELSE @]

\* The legs of S whose commands are written.
Written(h, S) == {l \in S : h.run.seq + Rank(S, l) \notin h.unwritable}

\* _send: every leg of S gets the number of its rank and waits for it, or for nothing if its line could
\* not be written; the lines that could are in leg order.
LEMMA SendOK ==
  ASSUME NEW h \in HandlerType, NEW S \in SUBSET Legs, NEW what \in [S -> Order]
  PROVE  /\ Send(h, what) \in HandlerType /\ Send(h, what).unwritable = h.unwritable
         /\ Send(h, what).run.seq = h.run.seq + Cardinality(S)
         /\ \A l \in Legs \ S : Send(h, what).run.legs[l] = h.run.legs[l]
         /\ \A l \in S : Send(h, what).run.legs[l].state \in {h.run.legs[l].state, "CANCELLED"}
         /\ Send(h, what).run.be_applied = h.run.be_applied /\ Send(h, what).run.tp1_applied = h.run.tp1_applied
         /\ Send(h, what).run.state = h.run.state
         /\ \A l \in Written(h, S) :
              Send(h, what).run.legs[l] = Waiting(h.run.legs[l], h.run.seq + Rank(S, l), what[l])
         /\ \A l \in S \ Written(h, S) :
              /\ Send(h, what).run.legs[l].inflight_cmd = NoCmd
              /\ Send(h, what).run.legs[l] = Unsent(h.run.legs[l], what[l])
         /\ \E lines \in Seq(CommandType) :
              /\ Send(h, what).out = h.out \o lines /\ Len(lines) = Cardinality(Written(h, S))
              /\ \A i \in 1..Cardinality(Written(h, S)) : \E l \in Written(h, S) :
                   Rank(Written(h, S), l) = i /\ lines[i] = Line(l, h.run.seq + Rank(S, l), what[l])
<1> DEFINE n == Cardinality(S)
           W == Written(h, S)
           m == Cardinality(W)
           sent(l) == Waiting(h.run.legs[l], h.run.seq + Rank(S, l), what[l])
           unsent(l) == Unsent(h.run.legs[l], what[l])
           line(i) == LET l == CHOOSE k \in W : Rank(W, k) = i IN Line(l, h.run.seq + Rank(S, l), what[l])
           lines == [i \in 1..m |-> line(i)]
           legs == [l \in Legs |-> IF l \in W THEN sent(l)
                                   ELSE IF l \in S THEN unsent(l) ELSE h.run.legs[l]]
<1>0. W \in SUBSET S /\ W \in SUBSET Legs
  BY DEF Written
<1>1. h.run \in RunOK /\ h.out \in Seq(CommandType) /\ h.unwritable \in SUBSET Nat /\ h.run.seq \in Nat
      /\ \A l \in Legs : h.run.legs[l] \in LegOK /\ h.run.legs[l].inflight_cmd <= h.run.seq
  BY RunFields DEF HandlerType
<1>2. n \in Nat /\ m \in Nat /\ \A l \in S : Rank(S, l) \in 1..n
  BY <1>0, RankFacts
<1>3. ASSUME NEW l \in S
      PROVE  /\ sent(l) \in LegOK /\ sent(l).inflight_cmd <= h.run.seq + n
             /\ unsent(l) \in LegOK /\ unsent(l).inflight_cmd = NoCmd
             /\ sent(l).state = h.run.legs[l].state /\ unsent(l).state \in {h.run.legs[l].state, "CANCELLED"}
  <2>1. h.run.legs[l] \in LegOK /\ what[l] \in Order
    BY <1>1
  <2>2. h.run.seq + Rank(S, l) \in Nat \ {0} /\ h.run.seq + Rank(S, l) <= h.run.seq + n
    BY <1>1, <1>2
  <2>3. sent(l) \in LegOK /\ sent(l).inflight_cmd <= h.run.seq + n
    <3>1. sent(l) \in LegOK
      BY <2>1, <2>2, WaitingOK
    <3>2. sent(l).inflight_cmd = h.run.seq + Rank(S, l)
      BY <2>1 DEF Waiting, LegOK, LegType
    <3> QED
      BY <2>2, <3>1, <3>2
  <2>4. NoInflight(h.run.legs[l]) \in LegOK /\ NoInflight(h.run.legs[l]).inflight_cmd = NoCmd
    BY <2>1, NoInflightOK DEF LegOK
  <2>5. \A s \in LegStates : /\ [NoInflight(h.run.legs[l]) EXCEPT !.state = s] \in LegOK
                             /\ [NoInflight(h.run.legs[l]) EXCEPT !.state = s].inflight_cmd = NoCmd
    BY <2>4 DEF LegOK, LegType
  <2>6. NoInflight(h.run.legs[l]).state \in LegStates /\ "CANCELLED" \in LegStates
    BY <2>4 DEF LegOK, LegType, LegStates, Finished
  <2>7. sent(l).state = h.run.legs[l].state
    BY <2>1 DEF Waiting, LegOK, LegType
  <2>8. unsent(l).state \in {h.run.legs[l].state, "CANCELLED"}
    <3>1. NoInflight(h.run.legs[l]).state = h.run.legs[l].state
      BY <2>1, NoInflightOK DEF LegOK
    <3> QED
      BY <2>4, <3>1 DEF Unsent, LegOK, LegType
  <2> QED
    BY <2>3, <2>5, <2>6, <2>7, <2>8 DEF Unsent
<1>4. ASSUME NEW i \in 1..m
      PROVE  /\ \E l \in W : Rank(W, l) = i /\ lines[i] = Line(l, h.run.seq + Rank(S, l), what[l])
             /\ lines[i] \in CommandType
  <2> DEFINE l == CHOOSE k \in W : Rank(W, k) = i
  <2>1. l \in W /\ Rank(W, l) = i
    <3> HIDE DEF W
    <3>1. \E k \in W : Rank(W, k) = i
      BY <1>0, RankFacts
    <3> QED
      BY <3>1
  <2>2. lines[i] = Line(l, h.run.seq + Rank(S, l), what[l])
    <3> HIDE DEF W, m, sent, unsent, legs
    <3> QED
      OBVIOUS
  <2> HIDE DEF l, lines, W, m
  <2>3. l \in Legs /\ what[l] \in Order /\ h.run.seq + Rank(S, l) \in Nat \ {0}
    BY <1>0, <1>1, <1>2, <2>1
  <2>4. Line(l, h.run.seq + Rank(S, l), what[l]) \in CommandType
    BY <2>3 DEF Line, CommandType, Order
  <2> QED
    BY <2>1, <2>2, <2>4
<1>5. lines \in Seq(CommandType) /\ Len(lines) = m
  <2> HIDE DEF W, m
  <2>1. lines \in [1..m -> CommandType]
    <3>1. \A i \in 1..m : lines[i] \in CommandType
      BY <1>4
    <3> HIDE DEF line
    <3> QED
      BY <3>1
  <2> HIDE DEF lines
  <2> QED
    BY <1>2, <2>1
<1> DEFINE r == [[h.run EXCEPT !.seq = h.run.seq + n] EXCEPT !.legs = legs]
           out == h.out \o lines
<1>6. Send(h, what) = [h EXCEPT !.run = r, !.out = out]
  <2> DEFINE seqOf(T) == [h EXCEPT !.run = [h.run EXCEPT !.seq = h.run.seq + Cardinality(T)]]
             legsOf(T) == [l \in Legs |-> IF l \in Written(h, T) THEN Waiting(h.run.legs[l], h.run.seq + Rank(T, l), what[l])
                                          ELSE IF l \in T THEN unsent(l) ELSE h.run.legs[l]]
             lineOf(T, i) == LET l == CHOOSE k \in Written(h, T) : Rank(Written(h, T), k) = i
                             IN Line(l, h.run.seq + Rank(T, l), what[l])
             linesOf(T) == [i \in 1..Cardinality(Written(h, T)) |-> lineOf(T, i)]
             sending(T) == [[seqOf(T) EXCEPT !.run = [seqOf(T).run EXCEPT !.legs = legsOf(T)]]
                              EXCEPT !.out = h.out \o linesOf(T)]
  <2>1. Send(h, what) = sending(DOMAIN what)
    BY Zenon DEF Send, Written, Rank, Line, Unsent
  <2>2. sending(DOMAIN what) = sending(S)
    <3> HIDE DEF sending
    <3> QED
      OBVIOUS
  <2>3. legsOf(S) = legs /\ linesOf(S) = lines
    OBVIOUS
  <2> HIDE DEF legs, lines, legsOf, linesOf, n
  <2>4. sending(S) = [h EXCEPT !.run = r, !.out = out]
    BY <2>3 DEF HandlerType, RunOK, RunType, n
  <2> QED
    BY <2>1, <2>2, <2>4
<1> HIDE DEF lines, sent, unsent, W, m
<1>7. legs \in [Legs -> LegOK] /\ \A l \in Legs : legs[l].inflight_cmd <= h.run.seq + n
  <2>1. ASSUME NEW l \in Legs
        PROVE  legs[l] \in LegOK /\ legs[l].inflight_cmd <= h.run.seq + n
    BY <1>0, <1>1, <1>2, <1>3 DEF NoCmd, LegOK, LegType
  <2> QED
    BY <2>1
<1>8. /\ \A l \in Legs \ S : legs[l] = h.run.legs[l]
      /\ \A l \in W : legs[l] = sent(l)
      /\ \A l \in S \ W : legs[l] = unsent(l)
  BY <1>0
<1> HIDE DEF legs
<1>9. r \in RunOK /\ r.seq = h.run.seq + n /\ r.legs = legs
      /\ r.be_applied = h.run.be_applied /\ r.tp1_applied = h.run.tp1_applied /\ r.state = h.run.state
  <2>1. h.run \in RunType /\ h.run.seq + n \in Nat
    BY <1>1, <1>2 DEF RunOK
  <2>2. legs \in [Legs -> LegType]
    BY <1>7 DEF LegOK
  <2>3. r \in RunType /\ r.seq = h.run.seq + n /\ r.legs = legs
    BY <2>1, <2>2 DEF RunType
  <2>4. r.be_applied = h.run.be_applied /\ r.tp1_applied = h.run.tp1_applied /\ r.state = h.run.state
    BY <2>1 DEF RunType
  <2> HIDE DEF r
  <2> QED
    BY <1>7, <2>3, <2>4 DEF RunOK
<1>11. out \in Seq(CommandType)
  BY <1>1, <1>5
<1> HIDE DEF r
<1>12. Send(h, what) \in HandlerType /\ Send(h, what).run = r /\ Send(h, what).out = out
       /\ Send(h, what).unwritable = h.unwritable
  <2> HIDE DEF out
  <2> QED
    BY <1>6, <1>9, <1>11 DEF HandlerType
<1>13. \A l \in W : r.legs[l] = Waiting(h.run.legs[l], h.run.seq + Rank(S, l), what[l])
  BY <1>8, <1>9 DEF sent
<1>14. \A l \in S \ W : r.legs[l].inflight_cmd = NoCmd /\ r.legs[l] = unsent(l)
  BY <1>3, <1>8, <1>9
<1>17. /\ r.seq = h.run.seq + n /\ \A l \in Legs \ S : r.legs[l] = h.run.legs[l]
       /\ r.be_applied = h.run.be_applied /\ r.tp1_applied = h.run.tp1_applied /\ r.state = h.run.state
  BY <1>8, <1>9
<1>18. \A l \in S : r.legs[l].state \in {h.run.legs[l].state, "CANCELLED"}
  <2> SUFFICES ASSUME NEW l \in S
               PROVE  r.legs[l].state \in {h.run.legs[l].state, "CANCELLED"}
    OBVIOUS
  <2> QED
    BY <1>3, <1>8, <1>9
<1> HIDE DEF out
<1>19. /\ \A l \in W : Send(h, what).run.legs[l] = Waiting(h.run.legs[l], h.run.seq + Rank(S, l), what[l])
       /\ \A l \in S \ W : /\ Send(h, what).run.legs[l].inflight_cmd = NoCmd
                           /\ Send(h, what).run.legs[l] = Unsent(h.run.legs[l], what[l])
  BY <1>12, <1>13, <1>14 DEF unsent
<1>20. \E ls \in Seq(CommandType) :
         /\ Send(h, what).out = h.out \o ls /\ Len(ls) = m
         /\ \A i \in 1..m : \E l \in W :
              Rank(W, l) = i /\ ls[i] = Line(l, h.run.seq + Rank(S, l), what[l])
  <2>1. Send(h, what).out = h.out \o lines
    BY <1>12 DEF out
  <2> QED
    BY <1>4, <1>5, <2>1
<1> QED
  BY <1>12, <1>17, <1>18, <1>19, <1>20 DEF W, m

LEMMA WrittenIn ==
  ASSUME NEW h, NEW S \in SUBSET Legs
  PROVE  Written(h, S) \in SUBSET S /\ Written(h, S) \in SUBSET Legs
  BY DEF Written

\* Nothing of the run mistakes the line c for another: its number is used, and a leg that waits for it
\* remembers what it asks.
LineOK(r, c) ==
  /\ c.n <= r.seq
  /\ r.legs[c.leg].inflight_cmd = c.n =>
       r.legs[c.leg].inflight_kind = c.kind /\ r.legs[c.leg].inflight_sl = c.sl

\* A handler that has written lines of the kinds K so far, while the lines L are in the file.
Good(L, K, h) ==
  /\ h \in HandlerType
  /\ \A c \in L : LineOK(h.run, c)
  /\ \A i \in 1..Len(h.out) : LineOK(h.run, h.out[i]) /\ h.out[i].kind \in K

LEMMA QuietLine ==
  ASSUME NEW r \in RunOK, NEW s \in RunOK, QuietRun(r, s), NEW c \in CommandType, LineOK(r, c)
  PROVE  LineOK(s, c)
  BY RunFields DEF QuietRun, QuietLeg, LineOK, CommandType, NoCmd

LEMMA QuietGood ==
  ASSUME NEW L \in SUBSET CommandType, NEW K, NEW h, Good(L, K, h), NEW r \in RunOK, QuietRun(h.run, r)
  PROVE  Good(L, K, [h EXCEPT !.run = r])
<1> DEFINE g == [h EXCEPT !.run = r]
<1>1. h \in HandlerType /\ h.run \in RunOK
  BY DEF Good, HandlerType
<1>2. g \in HandlerType /\ g.run = r /\ g.out = h.out
  BY <1>1 DEF HandlerType
<1>3. \A i \in 1..Len(h.out) : h.out[i] \in CommandType
  BY <1>1 DEF HandlerType
<1> HIDE DEF g
<1>4. \A c \in L : LineOK(r, c)
  BY <1>1, QuietLine DEF Good
<1>5. \A i \in 1..Len(h.out) : LineOK(r, h.out[i]) /\ h.out[i].kind \in K
  BY <1>1, <1>3, QuietLine DEF Good
<1> QED
  BY <1>2, <1>4, <1>5 DEF Good, g

\* A new number is larger than any a line has.
LEMMA SendLine ==
  ASSUME NEW h \in HandlerType, NEW S \in SUBSET Legs, NEW what \in [S -> Order],
         NEW c \in CommandType, LineOK(h.run, c)
  PROVE  LineOK(Send(h, what).run, c)
<1> DEFINE s == Send(h, what).run
<1>1. h.run \in RunOK /\ h.run.seq \in Nat /\ c.leg \in Legs /\ c.n \in Nat \ {0} /\ h.unwritable \in SUBSET Nat
  BY RunFields DEF HandlerType, CommandType
<1>2. Cardinality(S) \in Nat /\ \A l \in S : Rank(S, l) \in 1..Cardinality(S)
  BY RankFacts
<1>3. /\ s.seq = h.run.seq + Cardinality(S)
      /\ \A l \in Legs \ S : s.legs[l] = h.run.legs[l]
      /\ \A l \in Written(h, S) : s.legs[l] = Waiting(h.run.legs[l], h.run.seq + Rank(S, l), what[l])
      /\ \A l \in S \ Written(h, S) : s.legs[l].inflight_cmd = NoCmd
  BY SendOK
<1> HIDE DEF s
<1>4. CASE c.leg \notin S
  <2>1. s.legs[c.leg] = h.run.legs[c.leg]
    BY <1>1, <1>3, <1>4
  <2> QED
    BY <1>1, <1>2, <1>3, <2>1 DEF LineOK, s
<1>5. CASE c.leg \in Written(h, S)
  <2>1. s.legs[c.leg] = Waiting(h.run.legs[c.leg], h.run.seq + Rank(S, c.leg), what[c.leg])
    BY <1>3, <1>5
  <2>2. h.run.legs[c.leg] \in LegType
    BY <1>1, RunFields
  <2>3. s.legs[c.leg].inflight_cmd = h.run.seq + Rank(S, c.leg)
    BY <2>1, <2>2 DEF Waiting, LegType
  <2> QED
    BY <1>1, <1>2, <1>3, <1>5, <2>3, WrittenIn DEF LineOK, s
<1>6. CASE c.leg \in S \ Written(h, S)
  <2>1. s.legs[c.leg].inflight_cmd = NoCmd
    BY <1>3, <1>6
  <2> QED
    BY <1>1, <1>2, <1>3, <2>1 DEF LineOK, NoCmd, s
<1> QED
  BY <1>1, <1>4, <1>5, <1>6

LEMMA SendGood ==
  ASSUME NEW L \in SUBSET CommandType, NEW K, NEW h, Good(L, K, h),
         NEW S \in SUBSET Legs, NEW what \in [S -> Order], \A l \in S : what[l].kind \in K
  PROVE  Good(L, K, Send(h, what))
<1> DEFINE t == Send(h, what)
<1>1. h \in HandlerType /\ h.run \in RunOK /\ h.run.seq \in Nat /\ h.unwritable \in SUBSET Nat /\ h.out \in Seq(CommandType)
  BY RunFields DEF Good, HandlerType
<1>2. t \in HandlerType
  BY <1>1, SendOK
<1>3. \A c \in L : LineOK(t.run, c)
  BY <1>1, SendLine DEF Good
<1>4. ASSUME NEW i \in 1..Len(h.out)
      PROVE  LineOK(t.run, h.out[i]) /\ h.out[i].kind \in K
  <2>1. h.out[i] \in CommandType
    BY <1>1
  <2> QED
    BY <1>1, <2>1, SendLine DEF Good
<1> DEFINE W == Written(h, S)
<1>5. W \in SUBSET S /\ W \in SUBSET Legs
  BY WrittenIn
<1>6. Good(L, K, t)
  <2>1. PICK lines \in Seq(CommandType) :
          /\ t.out = h.out \o lines /\ Len(lines) = Cardinality(W)
          /\ \A i \in 1..Cardinality(W) : \E l \in W :
               Rank(W, l) = i /\ lines[i] = Line(l, h.run.seq + Rank(S, l), what[l])
    BY <1>1, SendOK
  <2>2. Cardinality(W) \in Nat /\ Cardinality(S) \in Nat /\ \A l \in S : Rank(S, l) \in 1..Cardinality(S)
    BY <1>5, RankFacts
  <2>3. ASSUME NEW i \in 1..Len(lines)
        PROVE  LineOK(t.run, lines[i]) /\ lines[i].kind \in K
    <3>1. PICK l \in W : lines[i] = Line(l, h.run.seq + Rank(S, l), what[l])
      BY <2>1
    <3>2. t.run.legs[l] = Waiting(h.run.legs[l], h.run.seq + Rank(S, l), what[l]) /\ l \in S
      BY <1>1, <1>5, SendOK
    <3>3. h.run.legs[l] \in LegType /\ what[l] \in Order
      BY <1>1, <3>2, RunFields
    <3>4. /\ t.run.legs[l].inflight_cmd = h.run.seq + Rank(S, l) /\ t.run.legs[l].inflight_kind = what[l].kind
          /\ t.run.legs[l].inflight_sl = what[l].sl
      BY <3>2, <3>3 DEF Waiting, LegType
    <3>5. t.run.seq = h.run.seq + Cardinality(S)
      BY <1>1, SendOK
    <3>6. /\ lines[i].leg = l /\ lines[i].n = h.run.seq + Rank(S, l) /\ lines[i].kind = what[l].kind
          /\ lines[i].sl = what[l].sl
      BY <3>1 DEF Line
    <3> HIDE DEF t
    <3> QED
      BY <1>1, <2>1, <2>2, <3>2, <3>4, <3>5, <3>6 DEF LineOK
  <2> HIDE DEF t
  <2>4. ASSUME NEW i \in 1..Len(t.out)
        PROVE  LineOK(t.run, t.out[i]) /\ t.out[i].kind \in K
    <3>1. CASE i <= Len(h.out)
      <4>1. t.out[i] = h.out[i] /\ i \in 1..Len(h.out)
        BY <1>1, <2>1, <3>1
      <4> QED
        BY <1>4, <4>1
    <3>2. CASE i > Len(h.out)
      <4>1. t.out[i] = lines[i - Len(h.out)] /\ i - Len(h.out) \in 1..Len(lines)
        BY <1>1, <2>1, <3>2
      <4> QED
        BY <2>3, <4>1
    <3> QED
      BY <1>1, <2>1, <3>1, <3>2
  <2> QED
    BY <1>2, <1>3, <2>4 DEF Good, t
<1> QED
  BY <1>6

(***************************************************************************)
(* The handlers that place nothing                                         *)
(***************************************************************************)
Managing == Kinds \ Opening

LEMMA FlagsGood ==
  ASSUME NEW L \in SUBSET CommandType, NEW K, NEW h, Good(L, K, h)
  PROVE  /\ Good(L, K, [h EXCEPT !.run.be_applied = TRUE])
         /\ Good(L, K, [h EXCEPT !.run.tp1_applied = TRUE])
         /\ Good(L, K, [h EXCEPT !.run.pendings_cancelled = TRUE])
         /\ Good(L, K, [h EXCEPT !.run = Recompute(@)])
<1>1. h.run \in RunOK /\ h \in HandlerType
  BY DEF Good, HandlerType
<1> QED
  BY <1>1, FlagsOK, RecomputeOK, QuietGood

LEMMA ObserveGood ==
  ASSUME NEW L \in SUBSET CommandType, NEW K, NEW h, Good(L, K, h), NEW snapshot \in [Legs -> Entries]
  PROVE  Good(L, K, [h EXCEPT !.run = Observe(@, snapshot)])
<1>1. h.run \in RunOK
  BY DEF Good, HandlerType
<1> QED
  BY <1>1, ObserveOK, QuietGood

LEMMA ToGood ==
  ASSUME NEW L \in SUBSET CommandType, NEW K, NEW h, Good(L, K, h),
         NEW S \in SUBSET Legs, NEW kind \in Kinds \ {"modify_sl"}, kind \in K
  PROVE  Good(L, K, Send(h, To(S, kind)))
<1>1. To(S, kind) \in [S -> Order] /\ \A l \in S : To(S, kind)[l].kind \in K
  BY DEF To, Order
<1> QED
  BY <1>1, SendGood

LEMMA ModifyGood ==
  ASSUME NEW L \in SUBSET CommandType, NEW h, Good(L, Managing, h),
         NEW S \in SUBSET Legs, NEW sl, \A l \in S : sl[l] \in Prices
  PROVE  Good(L, Managing, Modify(h, S, sl))
<1> DEFINE T == {k \in S : SlImproves(sl[k], h.run.legs[k].sl_current)}
           what == [l \in T |-> [kind |-> "modify_sl", sl |-> sl[l]]]
<1>1. T \in SUBSET Legs /\ what \in [T -> Order] /\ \A l \in T : what[l].kind \in Managing
  BY PriceFacts DEF Order, Managing, Kinds, Opening
<1> QED
  BY <1>1, SendGood DEF Modify

LEMMA CloseEverythingGood ==
  ASSUME NEW L \in SUBSET CommandType, NEW h, Good(L, Managing, h)
  PROVE  Good(L, Managing, CloseEverything(h))
<1> DEFINE T == In(h.run, {"OPEN", "PENDING_ORDER"}) \intersect MayRetry(h.run)
           kind == [l \in T |-> IF h.run.legs[l].state = "OPEN" THEN "close" ELSE "cancel"]
           what == [l \in T |-> [kind |-> kind[l], sl |-> NoPrice]]
<1>1. T \in SUBSET Legs /\ what \in [T -> Order] /\ \A l \in T : what[l].kind \in Managing
  BY DEF Order, Managing, Kinds, Opening, In
<1>2. CloseEverything(h) = Send(h, what)
  BY DEF CloseEverything
<1> HIDE DEF what, T
<1> QED
  BY <1>1, <1>2, SendGood

LEMMA InLegs == \A r, states : In(r, states) \in SUBSET Legs
  BY DEF In

\* A leg with an entry has a price to move its stop to.
LEMMA EntryIsPrice ==
  ASSUME NEW L, NEW K, NEW h, Good(L, K, h), NEW l \in Legs, h.run.legs[l].entry_price # NoPrice
  PROVE  h.run.legs[l].entry_price \in Prices
<1>1. h.run.legs[l] \in LegType
  BY RunFields DEF Good, HandlerType
<1> QED
  BY <1>1 DEF LegType

LEMMA LadderRulesGood ==
  ASSUME NEW L \in SUBSET CommandType, NEW h, Good(L, Managing, h)
  PROVE  /\ Good(L, Managing, BreakEvenAfterTp2(h))
         /\ Good(L, Managing, SlToTp1AfterTp3(h))
         /\ Good(L, Managing, CancelAfterSl(h))
         /\ Good(L, Managing, ExpiryBackstop(h))
<1>1. Good(L, Managing, BreakEvenAfterTp2(h))
  <2> DEFINE S == {l \in In(h.run, {"OPEN"}) : l > 2 /\ h.run.legs[l].entry_price # NoPrice}
             sl == [l \in Legs |-> h.run.legs[l].entry_price]
  <2>1. S \in SUBSET Legs /\ \A l \in S : sl[l] \in Prices
    BY InLegs, EntryIsPrice
  <2> HIDE DEF S, sl
  <2>2. Good(L, Managing, Modify(h, S, sl))
    BY <2>1, ModifyGood
  <2>3. Good(L, Managing, [Modify(h, S, sl) EXCEPT !.run.be_applied = TRUE])
    BY <2>2, FlagsGood
  <2> QED
    BY <2>3 DEF BreakEvenAfterTp2, S, sl
<1>2. Good(L, Managing, SlToTp1AfterTp3(h))
  <2> DEFINE S == {l \in In(h.run, {"OPEN"}) : l > 3}
             sl == [l \in Legs |-> Tp1]
  <2>1. S \in SUBSET Legs /\ \A l \in S : sl[l] \in Prices
    BY InLegs, PriceFacts
  <2> HIDE DEF S, sl
  <2>2. Good(L, Managing, Modify(h, S, sl))
    BY <2>1, ModifyGood
  <2>3. Good(L, Managing, [Modify(h, S, sl) EXCEPT !.run.tp1_applied = TRUE])
    BY <2>2, FlagsGood
  <2> QED
    BY <2>3 DEF SlToTp1AfterTp3, S, sl
<1>3. \A S \in SUBSET Legs : Good(L, Managing, Send(h, To(S, "cancel")))
  BY ToGood DEF Managing, Kinds, Opening
<1>4. Good(L, Managing, CancelAfterSl(h))
  <2> DEFINE S == In(h.run, {"PENDING_ORDER"})
  <2>1. Good(L, Managing, Send(h, To(S, "cancel")))
    BY <1>3, InLegs
  <2>2. Good(L, Managing, [Send(h, To(S, "cancel")) EXCEPT !.run.pendings_cancelled = TRUE])
    BY <2>1, FlagsGood
  <2> QED
    BY <2>2 DEF CancelAfterSl
<1>5. Good(L, Managing, ExpiryBackstop(h))
  BY <1>3, InLegs DEF ExpiryBackstop
<1> QED
  BY <1>1, <1>2, <1>4, <1>5

LEMMA SyncRunGood ==
  ASSUME NEW L \in SUBSET CommandType, NEW h, Good(L, Managing, h), NEW snapshot \in [Legs -> Entries]
  PROVE  Good(L, Managing, SyncRun(h, snapshot))
<1> DEFINE seen == [h EXCEPT !.run = Observe(@, snapshot)]
           laddered == ExpiryBackstop(Ladder(seen))
           acted == IF seen.run.close_requested THEN CloseEverything(seen) ELSE laddered
<1>1. Good(L, Managing, seen)
  BY ObserveGood
<1>2. SyncRun(h, snapshot) = [acted EXCEPT !.run = Recompute(@)]
  BY DEF SyncRun
<1> HIDE DEF seen
<1>3. Good(L, Managing, laddered)
  BY <1>1, LadderRulesGood DEF Ladder
<1> HIDE DEF laddered
<1>4. Good(L, Managing, acted)
  BY <1>1, <1>3, CloseEverythingGood
<1> HIDE DEF acted
<1>5. Good(L, Managing, [acted EXCEPT !.run = Recompute(@)])
  BY <1>4, FlagsGood
<1> QED
  BY <1>2, <1>5

LEMMA ApplyActionGood ==
  ASSUME NEW L \in SUBSET CommandType, NEW h, Good(L, Managing, h),
         NEW action \in ActionKinds, NEW price \in MovePrices, NEW quote
  PROVE  Good(L, Managing, ApplyAction(h, action, price, quote))
<1>1. \A g : Good(L, Managing, g) =>
        \A S \in SUBSET Legs : /\ Good(L, Managing, Send(g, To(S, "cancel")))
                               /\ Good(L, Managing, Send(g, To(S, "close")))
  BY ToGood DEF Managing, Kinds, Opening
<1>2. \A r, states : In(r, states) \intersect Idle(r) \in SUBSET Legs
  BY InLegs
<1>3. Good(L, Managing, CloseAll(h))
  <2> DEFINE closing == Send(h, To(In(h.run, {"OPEN"}) \intersect Idle(h.run), "close"))
             S == In(h.run, {"PENDING_ORDER"}) \intersect Idle(h.run)
             cancelling == Send(closing, To(S, "cancel"))
  <2>1. Good(L, Managing, closing)
    BY <1>1, <1>2
  <2> HIDE DEF closing
  <2>2. Good(L, Managing, cancelling)
    BY <1>1, <1>2, <2>1
  <2> HIDE DEF cancelling
  <2>3. Good(L, Managing, [cancelling EXCEPT !.run.pendings_cancelled = TRUE])
    BY <2>2, FlagsGood
  <2> QED
    BY <2>3 DEF CloseAll, closing, cancelling
<1>4. Good(L, Managing, CancelPending(h))
  <2> DEFINE cancelling == Send(h, To(In(h.run, {"PENDING_ORDER"}) \intersect Idle(h.run), "cancel"))
  <2>1. Good(L, Managing, cancelling)
    BY <1>1, <1>2
  <2> HIDE DEF cancelling
  <2>2. Good(L, Managing, [cancelling EXCEPT !.run.pendings_cancelled = TRUE])
    BY <2>1, FlagsGood
  <2> QED
    BY <2>2 DEF CancelPending, cancelling
<1>5. Good(L, Managing, BreakEven(h))
  <2> DEFINE S == {l \in In(h.run, {"OPEN"}) : h.run.legs[l].entry_price # NoPrice}
             sl == [l \in Legs |-> h.run.legs[l].entry_price]
  <2>1. S \in SUBSET Legs /\ \A l \in S : sl[l] \in Prices
    BY InLegs, EntryIsPrice
  <2> HIDE DEF S, sl
  <2>2. Good(L, Managing, Modify(h, S, sl))
    BY <2>1, ModifyGood
  <2> QED
    BY <2>2 DEF BreakEven, S, sl
<1>6. Good(L, Managing, MoveSl(h, price, quote))
  <2> DEFINE S == In(h.run, {"OPEN"})
             sl == [l \in Legs |-> price]
  <2>1. S \in SUBSET Legs /\ \A l \in S : sl[l] \in Prices
    BY InLegs, PriceFacts
  <2> HIDE DEF S, sl
  <2>2. Good(L, Managing, Modify(h, S, sl))
    BY <2>1, ModifyGood
  <2> QED
    BY <2>2 DEF MoveSl, S, sl
<1> QED
  BY <1>3, <1>4, <1>5, <1>6 DEF ApplyAction, ActionKinds

(***************************************************************************)
(* place_run                                                               *)
(***************************************************************************)
\* What a handler that places starts from.
LEMMA BeginGood ==
  ASSUME NEW L \in SUBSET CommandType, NEW K, NEW r \in RunOK, \A c \in L : LineOK(r, c), NEW unwritable \in SUBSET Nat
  PROVE  Good(L, K, Begin(r, unwritable))
<1>1. Begin(r, unwritable) \in HandlerType /\ Begin(r, unwritable).out = << >> /\ Begin(r, unwritable).run = r
  <2>1. << >> \in Seq(CommandType)
    OBVIOUS
  <2> QED
    BY <2>1 DEF Begin, HandlerType
<1> QED
  BY <1>1 DEF Good

\* Its lines open each leg once, under the leg's own number.
LEMMA PlaceRunGood ==
  ASSUME NEW kind \in Opening, NEW unwritable \in SUBSET Nat
  PROVE  LET h == PlaceRun(Begin(NewRun, unwritable), kind)
         IN /\ Good({}, Opening, h)
            /\ \A i \in 1..Len(h.out) : h.out[i].n = h.out[i].leg
<1> DEFINE b == Begin(NewRun, unwritable)
           t == Send(b, To(Legs, kind))
           placing == [t.run EXCEPT !.state = "PLACING"]
           r == IF In(t.run, {"PLACING"}) = {} THEN Recompute(placing) ELSE placing
<1>1. Good({}, Opening, b) /\ b.run = NewRun /\ b.unwritable = unwritable /\ b.out = << >> /\ b.run.seq = 0
  <2>1. Good({}, Opening, b)
    BY BeginGood, NewRunOK
  <2> QED
    BY <2>1 DEF Begin, NewRun
<1>2. To(Legs, kind) \in [Legs -> Order] /\ kind \in Kinds \ {"modify_sl"}
  BY DEF To, Order, Kinds, Opening
<1> HIDE DEF b
<1>3. Good({}, Opening, t)
  BY <1>1, <1>2, ToGood
<1>4. \A i \in 1..Len(t.out) : t.out[i].n = t.out[i].leg
  <2> DEFINE what == To(Legs, kind)
  <2>0. b \in HandlerType /\ what \in [Legs -> Order] /\ Legs \in SUBSET Legs
    BY <1>1, <1>2 DEF Good
  <2> HIDE DEF what
  <2> DEFINE W == Written(b, Legs)
  <2>1. PICK lines \in Seq(CommandType) :
          /\ Send(b, what).out = b.out \o lines /\ Len(lines) = Cardinality(W)
          /\ \A i \in 1..Cardinality(W) : \E l \in W :
               Rank(W, l) = i /\ lines[i] = Line(l, b.run.seq + Rank(Legs, l), what[l])
    BY <2>0, SendOK
  <2>2. t.out = lines
    BY <1>1, <2>1 DEF what
  <2>3. \A l \in W : l \in Legs /\ Rank(Legs, l) = l /\ l \in Nat
    <3>1. W \in SUBSET Legs
      BY <2>0, WrittenIn
    <3>2. \A l \in Legs : l \in Nat
      BY DEF Legs
    <3> QED
      BY <3>1, <3>2, RankOfAll
  <2> HIDE DEF W, t
  <2>4. ASSUME NEW i \in 1..Len(lines)
        PROVE  lines[i].n = lines[i].leg
    <3>1. PICK l \in W : lines[i] = Line(l, b.run.seq + Rank(Legs, l), what[l])
      BY <2>1
    <3>2. lines[i].n = b.run.seq + Rank(Legs, l) /\ lines[i].leg = l
      BY <3>1 DEF Line
    <3> QED
      BY <1>1, <2>3, <3>2
  <2> QED
    BY <2>2, <2>4
<1>5. PlaceRun(b, kind) = [t EXCEPT !.run = r]
  BY DEF PlaceRun
<1> HIDE DEF t
<1>6. t.run \in RunOK /\ t \in HandlerType
  BY <1>3 DEF Good, HandlerType
<1>7. placing \in RunOK /\ QuietRun(t.run, placing)
  BY <1>6, FlagsOK
<1> HIDE DEF placing
<1>8. r \in RunOK /\ QuietRun(t.run, r)
  BY <1>7, RecomputeOK, QuietTransitive
<1> HIDE DEF r
<1>9. Good({}, Opening, [t EXCEPT !.run = r])
  BY <1>3, <1>8, QuietGood
<1>10. [t EXCEPT !.run = r].out = t.out
  BY <1>6 DEF HandlerType
<1> QED
  BY <1>4, <1>5, <1>9, <1>10 DEF b

LEMMA PlaceNothingGood ==
  ASSUME NEW unwritable \in SUBSET Nat
  PROVE  LET h == PlaceNothing(Begin(NewRun, unwritable))
         IN Good({}, Opening, h) /\ h.out = << >>
<1> DEFINE legs == [l \in Legs |-> [NewRun.legs[l] EXCEPT !.state = "CANCELLED"]]
           s == [NewRun EXCEPT !.legs = legs]
           b == Begin(NewRun, unwritable)
<1>1. Good({}, Opening, b) /\ b.run = NewRun /\ b.out = << >>
  <2>1. Good({}, Opening, b)
    BY BeginGood, NewRunOK
  <2> QED
    BY <2>1 DEF Begin
<1>2. PlaceNothing(b) = [b EXCEPT !.run = Recompute(s)]
  BY <1>1 DEF PlaceNothing, Begin
<1>3. legs \in [Legs -> LegOK] /\ \A l \in Legs : QuietLeg(NewRun.legs[l], legs[l])
  <2>1. "CANCELLED" \in LegStates
    BY DEF LegStates, Finished
  <2> QED
    BY <2>1, NewRunOK, RunFields, LegChanges
<1> HIDE DEF legs
<1>4. s \in RunOK /\ QuietRun(NewRun, s)
  BY <1>3, NewRunOK, QuietLegsOK
<1> HIDE DEF s
<1>5. Recompute(s) \in RunOK /\ QuietRun(NewRun, Recompute(s))
  BY <1>4, RecomputeOK, QuietTransitive
<1> HIDE DEF b
<1>6. Good({}, Opening, [b EXCEPT !.run = Recompute(s)])
  BY <1>1, <1>5, QuietGood
<1>7. [b EXCEPT !.run = Recompute(s)].out = << >>
  BY <1>1 DEF Good, HandlerType
<1> QED
  BY <1>2, <1>6, <1>7 DEF b

LEMMA PlacementsGood ==
  ASSUME NEW unwritable \in SUBSET Nat, NEW h \in Placements(unwritable)
  PROVE  Good({}, Opening, h) /\ \A i \in 1..Len(h.out) : h.out[i].n = h.out[i].leg
<1>1. \/ h = PlaceNothing(Begin(NewRun, unwritable))
      \/ \E kind \in Opening : h = PlaceRun(Begin(NewRun, unwritable), kind)
  BY DEF Placements, Opening
<1> QED
  BY <1>1, PlaceRunGood, PlaceNothingGood

(***************************************************************************)
(* The steps of the trader                                                 *)
(***************************************************************************)
Handles(h) == Completes(h) \/ DiesIn(h)

LEMMA HandlesTypes ==
  ASSUME TypeOK, run \in RunOK, NEW h \in HandlerType, Handles(h)
  PROVE  run' \in RunOK /\ commands' \in Seq(CommandType) /\ up' \in BOOLEAN /\ faults' \in Nat
<1>1. h.run \in RunOK /\ h.out \in Seq(CommandType) /\ commands \in Seq(CommandType) /\ faults \in Nat /\ up \in BOOLEAN
  BY DEF HandlerType, TypeOK
<1>2. CASE Completes(h)
  BY <1>1, <1>2 DEF Completes, Fault, NoFault
<1>3. CASE DiesIn(h)
  <2>1. up' \in BOOLEAN /\ faults' \in Nat
    <3>1. up' = FALSE /\ faults' = faults + 1
      BY <1>3, Zenon DEF DiesIn, Fault
    <3>2. up' \in BOOLEAN
      BY <3>1, Zenon
    <3>3. faults' \in Nat
      BY <1>1, <3>1
    <3> QED
      BY <3>2, <3>3
  <2>2. CASE commands' = commands \o h.out /\ run' = h.run
    BY <1>1, <2>1, <2>2
  <2>3. CASE \E sent \in 0..Len(h.out) : commands' = commands \o SubSeq(h.out, 1, sent) /\ UNCHANGED run
    <3>1. PICK sent \in 0..Len(h.out) : commands' = commands \o SubSeq(h.out, 1, sent)
      BY <2>3
    <3>2. SubSeq(h.out, 1, sent) \in Seq(CommandType)
      BY <1>1
    <3> QED
      BY <1>1, <2>1, <2>3, <3>1, <3>2
  <2> QED
    BY <1>3, <2>2, <2>3 DEF DiesIn
<1> QED
  BY <1>2, <1>3 DEF Handles

\* Every line of the file was there before or is the handler's.
LEMMA HandlesLines ==
  ASSUME TypeOK, NEW h \in HandlerType, Handles(h), NEW i \in 1..Len(commands')
  PROVE  \/ \E j \in 1..Len(commands) : commands'[i] = commands[j]
         \/ \E j \in 1..Len(h.out) : commands'[i] = h.out[j]
<1>1. h.out \in Seq(CommandType) /\ commands \in Seq(CommandType)
  BY DEF HandlerType, TypeOK
<1>2. CASE commands' = commands \o h.out
  <2>1. CASE i <= Len(commands)
    BY <1>1, <1>2, <2>1
  <2>2. CASE i > Len(commands)
    <3>1. i - Len(commands) \in 1..Len(h.out) /\ commands'[i] = h.out[i - Len(commands)]
      BY <1>1, <1>2, <2>2
    <3> QED
      BY <3>1
  <2> QED
    BY <1>1, <2>1, <2>2
<1>3. CASE \E sent \in 0..Len(h.out) : commands' = commands \o SubSeq(h.out, 1, sent)
  <2>1. PICK sent \in 0..Len(h.out) : commands' = commands \o SubSeq(h.out, 1, sent)
    BY <1>3
  <2>2. Len(SubSeq(h.out, 1, sent)) = sent /\ \A j \in 1..sent : SubSeq(h.out, 1, sent)[j] = h.out[j]
    BY <1>1
  <2>3. SubSeq(h.out, 1, sent) \in Seq(CommandType)
    BY <1>1
  <2> DEFINE part == SubSeq(h.out, 1, sent)
  <2> HIDE DEF part
  <2>4. Len(commands') = Len(commands) + sent
    BY <1>1, <2>1, <2>2, <2>3 DEF part
  <2>5. CASE i <= Len(commands)
    BY <1>1, <2>1, <2>3, <2>5
  <2>6. CASE i > Len(commands)
    <3>1. i - Len(commands) \in 1..sent
      BY <1>1, <2>4, <2>6
    <3>2. commands'[i] = SubSeq(h.out, 1, sent)[i - Len(commands)]
      BY <1>1, <2>1, <2>3, <2>4, <2>6
    <3> QED
      BY <1>1, <2>2, <3>1, <3>2
  <2> QED
    <3>1. i \in Int /\ Len(commands) \in Int
      BY <1>1, <2>4
    <3> QED
      BY <2>5, <2>6, <3>1
<1> QED
  BY <1>2, <1>3 DEF Handles, Completes, DiesIn

RunInv == TypeOK /\ run \in RunOK

LEMMA UnwritableIn ==
  ASSUME RunInv
  PROVE  Unwritable(0) \subseteq SUBSET Nat /\ Unwritable(run.seq) \subseteq SUBSET Nat
<1>1. Most \in Int
  BY RunAssumption DEF Most
<1>2. ASSUME NEW seq \in Nat, NEW unwritable \in Unwritable(seq)
      PROVE  unwritable \in SUBSET Nat
  <2>1. unwritable = {} \/ unwritable \in SUBSET ((seq + 1)..(seq + Most))
    BY <1>2 DEF Unwritable
  <2> QED
    BY <1>1, <2>1
<1>3. run.seq \in Nat
  BY RunFields DEF RunInv
<1> QED
  BY <1>2, <1>3

\* The type invariant, with the part of it that speaks of the run.
LEMMA RunInvFromRunOK ==
  ASSUME run \in RunOK, handled \in BOOLEAN, checking \in BOOLEAN, up \in BOOLEAN,
         commands \in Seq(CommandType), answered \in SUBSET (Legs \X Nat), results \subseteq ResultType,
         broker \in [Legs -> [st : Entries, sl : Prices \union {NoPrice}]], state \in [Legs -> Entries],
         expired \in BOOLEAN, messages \in Nat, faults \in Nat
  PROVE  RunInv
<1>1. run \in RunType /\ WaitsTypes
  BY RunFields DEF LegOK, WaitsTypes
<1> QED
  BY <1>1 DEF RunInv, TypeOK, ResultType

LEMMA RunInvInit == Init => RunInv
<1> SUFFICES ASSUME Init PROVE RunInv
  OBVIOUS
<1>1. commands \in Seq(CommandType)
  BY DEF Init
<1>2. broker \in [Legs -> [st : Entries, sl : Prices \union {NoPrice}]] /\ state \in [Legs -> Entries]
  BY DEF Init, Entries
<1> QED
  BY <1>1, <1>2, NewRunOK, RunInvFromRunOK DEF Init

\* What the handlers of Manage and Sync are.
LEMMA ManageGood ==
  ASSUME RunInv, NEW L \in SUBSET CommandType, \A c \in L : LineOK(run, c), NEW action \in Actions,
         NEW unwritable \in SUBSET Nat, NEW price \in MovePrices, NEW quote
  PROVE  Good(L, Managing, ApplyAction(Begin(run, unwritable), action, price, quote))
<1>1. Good(L, Managing, Begin(run, unwritable))
  BY BeginGood DEF RunInv
<1> QED
  BY <1>1, ApplyActionGood, RunAssumption

LEMMA SyncGood ==
  ASSUME RunInv, NEW L \in SUBSET CommandType, \A c \in L : LineOK(run, c), NEW unwritable \in SUBSET Nat
  PROVE  Good(L, Managing, SyncRun(Begin(ApplyResults(run, results), unwritable), state))
<1>1. run \in RunOK /\ results \subseteq ResultType /\ state \in [Legs -> Entries]
  BY DEF RunInv, TypeOK, ResultType
<1>2. ApplyResults(run, results) \in RunOK /\ QuietRun(run, ApplyResults(run, results))
  BY <1>1, ApplyResultsOK
<1>3. \A c \in L : LineOK(ApplyResults(run, results), c)
  BY <1>1, <1>2, QuietLine
<1>4. Good(L, Managing, Begin(ApplyResults(run, results), unwritable))
  BY <1>2, <1>3, BeginGood
<1> QED
  BY <1>1, <1>4, SyncRunGood

\* A deadline moves on.
LEMMA TimerOK ==
  ASSUME run \in RunOK, NEW l \in Legs, NEW timer \in {"missing_since", "inflight_since", "retry_after"}, NEW to \in Timers
  PROVE  /\ [run EXCEPT !.legs[l][timer] = to] \in RunOK
         /\ QuietRun(run, [run EXCEPT !.legs[l][timer] = to])
         /\ [run EXCEPT !.legs[l][timer] = to].state = run.state
<1> DEFINE leg == [run.legs[l] EXCEPT ![timer] = to]
           legs == [run.legs EXCEPT ![l] = leg]
<1>1. run.legs \in [Legs -> LegOK] /\ run \in RunType
  BY RunFields
<1>2. leg \in LegOK /\ QuietLeg(run.legs[l], leg)
  <2>1. run.legs[l] \in LegOK
    BY <1>1
  <2>2. CASE timer = "missing_since"
    BY <2>1, <2>2 DEF LegOK, LegType, QuietLeg
  <2>3. CASE timer = "inflight_since"
    BY <2>1, <2>3 DEF LegOK, LegType, QuietLeg
  <2>4. CASE timer = "retry_after"
    BY <2>1, <2>4 DEF LegOK, LegType, QuietLeg
  <2> QED
    BY <2>2, <2>3, <2>4
<1>3. [run EXCEPT !.legs[l][timer] = to] = [run EXCEPT !.legs = legs]
  BY <1>1 DEF RunType
<1> HIDE DEF leg
<1>4. legs \in [Legs -> LegOK] /\ \A k \in Legs : QuietLeg(run.legs[k], legs[k])
  BY <1>1, <1>2 DEF QuietLeg
<1> HIDE DEF legs
<1>5. [run EXCEPT !.legs = legs].state = run.state
  BY <1>1 DEF RunType
<1> QED
  BY <1>3, <1>4, <1>5, QuietLegsOK

(***************************************************************************)
(* The steps                                                               *)
(***************************************************************************)
\* What the EA answers is a command of the file.
LEMMA TakesTypes ==
  ASSUME TypeOK, NEW c, Takes(c)
  PROVE  /\ c \in CommandType /\ commands' \in Seq(CommandType)
         /\ Len(commands) > 0 /\ c = commands[1] /\ Len(commands') = Len(commands) - 1
         /\ \A i \in 1..Len(commands') : commands'[i] = commands[i + 1]
  BY DEF TypeOK, Takes

LEMMA BecomesTypes ==
  ASSUME TypeOK, NEW l \in Legs, NEW st \in Entries, Becomes(l, st)
  PROVE  broker' \in [Legs -> [st : Entries, sl : Prices \union {NoPrice}]]
<1>1. broker \in [Legs -> [st : Entries, sl : Prices \union {NoPrice}]]
  BY DEF TypeOK
<1> DEFINE entry == [st |-> st, sl |-> IF st = "position" THEN broker[l].sl ELSE NoPrice]
<1>2. entry \in [st : Entries, sl : Prices \union {NoPrice}]
  BY <1>1
<1>3. broker' = [broker EXCEPT ![l] = entry]
  BY <1>1 DEF Becomes
<1> HIDE DEF entry
<1> QED
  BY <1>1, <1>2, <1>3

LEMMA FaultTypes ==
  ASSUME faults \in Nat, NoFault \/ \E kind : Fault(kind)
  PROVE  faults' \in Nat
  BY DEF NoFault, Fault

LEMMA RunInvNext == RunInv /\ [Next]_vars => RunInv'
<1> SUFFICES ASSUME RunInv, [Next]_vars PROVE RunInv'
  OBVIOUS
<1> DEFINE entries == [Legs -> [st : Entries, sl : Prices \union {NoPrice}]]
<1>0. /\ run \in RunOK /\ handled \in BOOLEAN /\ checking \in BOOLEAN /\ up \in BOOLEAN
      /\ commands \in Seq(CommandType) /\ answered \in SUBSET (Legs \X Nat) /\ results \subseteq ResultType
      /\ broker \in entries /\ state \in [Legs -> Entries]
      /\ expired \in BOOLEAN /\ messages \in Nat /\ faults \in Nat /\ TypeOK
  BY DEF RunInv, TypeOK, ResultType
<1> SUFFICES /\ run' \in RunOK /\ handled' \in BOOLEAN /\ checking' \in BOOLEAN /\ up' \in BOOLEAN
             /\ commands' \in Seq(CommandType) /\ answered' \in SUBSET (Legs \X Nat) /\ results' \subseteq ResultType
             /\ broker' \in entries /\ state' \in [Legs -> Entries]
             /\ expired' \in BOOLEAN /\ messages' \in Nat /\ faults' \in Nat
  <2>1. RunInv' <=> (TypeOK' /\ run' \in RunOK)
    BY DEF RunInv
  <2>2. WaitsTypes'
    BY RunFields DEF LegOK, WaitsTypes
  <2>3. run' \in RunType
    BY RunFields
  <2> QED
    BY <2>1, <2>2, <2>3 DEF TypeOK, ResultType
<1>1. CASE Place
  <2>0. PICK unwritable \in SUBSET Nat : \E h \in Placements(unwritable) :
          \/ Completes(h) /\ handled' = TRUE /\ checking' = (Crosscheck /\ EntryType = "MARKET")
          \/ DiesIn(h) /\ UNCHANGED handled
    BY <1>1, UnwritableIn DEF Place
  <2>1. PICK h \in Placements(unwritable) :
          \/ Completes(h) /\ handled' = TRUE /\ checking' = (Crosscheck /\ EntryType = "MARKET")
          \/ DiesIn(h) /\ UNCHANGED handled
    BY <2>0
  <2>2. h \in HandlerType /\ Handles(h)
    BY <2>1, PlacementsGood DEF Good, Handles
  <2>3. run' \in RunOK /\ commands' \in Seq(CommandType) /\ up' \in BOOLEAN /\ faults' \in Nat
    BY <1>0, <2>2, HandlesTypes
  <2>4. handled' \in BOOLEAN /\ checking' \in BOOLEAN
    BY <1>0, <2>1 DEF DiesIn
  <2> QED
    BY <1>0, <1>1, <2>3, <2>4 DEF Place
<1>2. CASE Reject
  <2>1. Rejected \in RunOK
    BY NewRunOK, FlagsOK DEF Rejected
  <2> QED
    BY <1>0, <1>2, <2>1 DEF Reject, bridge, env
<1>3. CASE Sync
  <2>1. PICK unwritable \in SUBSET Nat :
          LET h == SyncRun(Begin(ApplyResults(run, results), unwritable), state)
          IN \/ Completes(h) /\ results' = {} /\ UNCHANGED checking
             \/ DiesIn(h) /\ UNCHANGED results
    BY <1>3, UnwritableIn DEF Sync
  <2> DEFINE h == SyncRun(Begin(ApplyResults(run, results), unwritable), state)
  <2>2. h \in HandlerType
    <3>1. Good({}, Managing, h)
      BY SyncGood
    <3> QED
      BY <3>1 DEF Good
  <2> HIDE DEF h
  <2>3. Handles(h) /\ results' \subseteq ResultType /\ checking' \in BOOLEAN
    BY <1>0, <2>1 DEF h, Handles, DiesIn
  <2>4. run' \in RunOK /\ commands' \in Seq(CommandType) /\ up' \in BOOLEAN /\ faults' \in Nat
    BY <1>0, <2>2, <2>3, HandlesTypes
  <2> QED
    BY <1>0, <1>3, <2>3, <2>4 DEF Sync
<1>4. CASE SyncBlind
  <2>1. ApplyResults(run, results) \in RunOK
    BY <1>0, ApplyResultsOK
  <2> QED
    BY <1>0, <1>4, <2>1 DEF SyncBlind, env
<1>5. CASE FinishPostcheck
  BY <1>0, <1>5, FlagsOK DEF FinishPostcheck, bridge, env
<1>6. CASE Restart
  BY <1>0, <1>6, ReconcileOK DEF Restart, bridge, env
<1>7. CASE \E action \in Actions : Manage(action)
  <2>1. PICK action \in Actions : Manage(action)
    BY <1>7
  <2>2. PICK unwritable \in SUBSET Nat, price \in MovePrices, quote \in Quotes :
          LET h == ApplyAction(Begin(run, unwritable), action, price, quote)
          IN \/ Completes(h) /\ UNCHANGED checking
             \/ DiesIn(h)
    BY <2>1, UnwritableIn DEF Manage
  <2> DEFINE h == ApplyAction(Begin(run, unwritable), action, price, quote)
  <2>3. h \in HandlerType
    <3>1. Good({}, Managing, h)
      BY ManageGood
    <3> QED
      BY <3>1 DEF Good
  <2> HIDE DEF h
  <2>4. Handles(h) /\ checking' \in BOOLEAN
    BY <1>0, <2>2 DEF h, Handles, DiesIn
  <2>5. run' \in RunOK /\ commands' \in Seq(CommandType) /\ up' \in BOOLEAN /\ faults' \in Nat
    BY <1>0, <2>3, <2>4, HandlesTypes
  <2> QED
    BY <1>0, <2>1, <2>4, <2>5 DEF Manage
<1>8. CASE Answer
  <2> DEFINE c == Head(commands)
  <2>1. Takes(c) /\ (SkipCommand(c) \/ ExecuteCommand(c) \/ RefuseCommand(c))
    BY <1>8 DEF Answer, SkipCommand, ExecuteCommand, RefuseCommand
  <2> HIDE DEF c
  <2>2. c \in CommandType /\ commands' \in Seq(CommandType)
    BY <1>0, <2>1, TakesTypes
  <2>3. Id(c) \in Legs \X Nat /\ c.leg \in Legs
    BY <2>2 DEF Id, CommandType
  <2>4. Repeatable(answered \union {Id(c)}, Tail(commands)) \in SUBSET (Legs \X Nat)
    BY <1>0, <2>3 DEF Repeatable
  <2>5. \A ok \in BOOLEAN, price \in Prices \union {NoPrice} : Result(c, ok, price) \in ResultType
    BY <2>2 DEF Result, ResultType, CommandType
  <2>6. CASE SkipCommand(c)
    BY <1>0, <2>2, <2>6 DEF SkipCommand, Takes, NoFault
  <2>7. CASE ExecuteCommand(c)
    <3>1. broker' \in entries
      <4>1. Done(c) \in [st : Entries, sl : Prices \union {NoPrice}]
        <5>1. broker[c.leg] \in [st : Entries, sl : Prices \union {NoPrice}] /\ c.sl \in Prices \union {NoPrice}
              /\ c.kind \in Kinds
          BY <1>0, <2>2, <2>3 DEF CommandType
        <5> QED
          BY <5>1, PriceFacts DEF Done, Once, Entries, Closed, Kinds, Opening
      <4> QED
        BY <1>0, <2>7, <4>1 DEF ExecuteCommand
    <3>2. FillPrice[c.leg] \in Prices \union {NoPrice} /\ NoPrice \in Prices \union {NoPrice}
      BY <2>3, PriceFacts
    <3>3. results' \subseteq ResultType
      BY <1>0, <2>5, <2>7, <3>2 DEF ExecuteCommand
    <3>4. faults' \in Nat
      BY <1>0, <2>7, FaultTypes DEF ExecuteCommand
    <3> QED
      BY <1>0, <2>2, <2>4, <2>7, <3>1, <3>3, <3>4 DEF ExecuteCommand, Takes
  <2>8. CASE RefuseCommand(c)
    <3>1. faults' \in Nat
      BY <1>0, <2>8, FaultTypes DEF RefuseCommand
    <3>2. results' \subseteq ResultType
      BY <1>0, <2>5, <2>8 DEF RefuseCommand
    <3> QED
      BY <1>0, <2>2, <2>4, <2>8, <3>1, <3>2 DEF RefuseCommand, Takes
  <2> QED
    BY <2>1, <2>6, <2>7, <2>8
<1>9. CASE WriteState
  <2>1. Current \in [Legs -> Entries]
    BY <1>0 DEF Current
  <2> QED
    BY <1>0, <1>9, <2>1 DEF WriteState, trader, bridge, env
<1>10. CASE TtlPasses
  BY <1>0, <1>10 DEF TtlPasses, trader, bridge
<1>11. ASSUME NEW l \in Legs, Fill(l) \/ HitTp(l) \/ HitSl(l) \/ CloseByHand(l) \/ OrderGone(l)
       PROVE  run' = run /\ broker' \in entries /\ faults' \in Nat
              /\ UNCHANGED <<trader, bridge, state, expired, messages>>
  <2>1. \E st \in Entries : Becomes(l, st)
    BY <1>11 DEF Fill, HitTp, HitSl, CloseByHand, OrderGone, Entries, Closed
  <2>2. broker' \in entries
    BY <1>0, <2>1, BecomesTypes
  <2>3. UNCHANGED <<trader, bridge, state, expired, messages>>
    BY <2>1 DEF Becomes
  <2>4. faults' \in Nat
    BY <1>0, <1>11, FaultTypes DEF Fill, HitTp, HitSl, CloseByHand, OrderGone
  <2> QED
    BY <2>2, <2>3, <2>4 DEF trader
<1>12. ASSUME NEW l \in Legs, TimePasses(l)
       PROVE  run' \in RunOK /\ faults' \in Nat
              /\ UNCHANGED <<handled, checking, up, bridge, broker, state, expired, messages>>
  <2>1. PICK timer \in {"missing_since", "inflight_since", "retry_after"}, from \in Timers, to \in Timers :
          Passes(l, timer, from, to)
    BY <1>12 DEF TimePasses, GraceOver, ResultOverdue, BackoffOver, Timers
  <2>2. run' \in RunOK
    BY <1>0, <2>1, TimerOK DEF Passes
  <2>3. faults' \in Nat
    BY <1>0, <1>12, FaultTypes DEF TimePasses, GraceOver, ResultOverdue, BackoffOver
  <2> QED
    BY <2>1, <2>2, <2>3 DEF Passes
<1>13. CASE UNCHANGED vars
  BY <1>0, <1>13 DEF vars
<1> QED
  BY <1>0, <1>1, <1>2, <1>3, <1>4, <1>5, <1>6, <1>7, <1>8, <1>9, <1>10, <1>11, <1>12, <1>13
     DEF Next, trader, bridge

(* What the trader, the EA and the broker keep is always of its type, and  *)
(* the run that is saved never waits for a number it has not used nor for  *)
(* a stop without a price.                                                 *)
THEOREM RunTypes == Spec => []TypeOK
<1>1. Init => RunInv
  BY RunInvInit
<1>2. RunInv /\ [Next]_vars => RunInv'
  BY RunInvNext
<1>3. RunInv => TypeOK
  BY DEF RunInv
<1> QED
  BY <1>1, <1>2, <1>3, PTL DEF Spec

(***************************************************************************)
(* Each leg is opened once                                                 *)
(***************************************************************************)
\* An opening has its leg's own number, and a leg that is at the broker is not opened again: its number
\* is answered, or no opening of it is in the file and none will be written.
OpensOnceInv ==
  /\ \A i \in 1..Len(commands) : commands[i].kind \in Opening => commands[i].n = commands[i].leg
  /\ \A l \in Legs : broker[l].st # "none" => <<l, l>> \in answered \/ (handled = TRUE /\ ~Opens(l))
  /\ OpenedOnce

\* A handler that places nothing adds no opening.
LEMMA ManagingOpensNothing ==
  ASSUME TypeOK, OpensOnceInv, NEW h, Good({}, Managing, h), Handles(h), UNCHANGED <<answered, broker, handled>>
  PROVE  OpensOnceInv'
<1>1. h \in HandlerType /\ \A i \in 1..Len(h.out) : h.out[i].kind \notin Opening
  BY DEF Good, Managing
<1>2. \A i \in 1..Len(commands') : commands'[i].kind \in Opening => \E j \in 1..Len(commands) : commands'[i] = commands[j]
  BY <1>1, HandlesLines
<1>3. \A l \in Legs : Opens(l)' => Opens(l)
  BY <1>2 DEF Opens
<1>4. \A i \in 1..Len(commands') : commands'[i].kind \in Opening => commands'[i].n = commands'[i].leg
  BY <1>2 DEF OpensOnceInv
<1> QED
  BY <1>3, <1>4 DEF OpensOnceInv, OpenedOnce

LEMMA OpensOnceNext == RunInv /\ OpensOnceInv /\ [Next]_vars => OpensOnceInv'
<1> SUFFICES ASSUME RunInv, OpensOnceInv, [Next]_vars PROVE OpensOnceInv'
  OBVIOUS
<1>0. TypeOK /\ commands \in Seq(CommandType) /\ handled \in BOOLEAN
      /\ broker \in [Legs -> [st : Entries, sl : Prices \union {NoPrice}]]
  BY DEF RunInv, TypeOK
<1>1. CASE Place
  <2>0. PICK unwritable \in SUBSET Nat : \E h \in Placements(unwritable) :
          \/ Completes(h) /\ handled' = TRUE
          \/ DiesIn(h) /\ UNCHANGED handled
    BY <1>1, UnwritableIn DEF Place
  <2>1. PICK h \in Placements(unwritable) : Handles(h)
    BY <2>0 DEF Handles
  <2>2. h \in HandlerType /\ \A i \in 1..Len(h.out) : h.out[i].n = h.out[i].leg
    BY PlacementsGood DEF Good
  <2>3. \A i \in 1..Len(commands') : commands'[i].kind \in Opening => commands'[i].n = commands'[i].leg
    BY SMTT(30), <1>0, <2>1, <2>2, HandlesLines DEF OpensOnceInv
  <2>4. handled = FALSE /\ UNCHANGED <<answered, broker>>
    BY <1>0, <1>1 DEF Place
  <2> QED
    BY <2>3, <2>4 DEF OpensOnceInv, OpenedOnce
<1>2. CASE Sync
  <2> DEFINE h(unwritable) == SyncRun(Begin(ApplyResults(run, results), unwritable), state)
  <2>1. PICK unwritable \in SUBSET Nat : Handles(h(unwritable))
    BY <1>2, UnwritableIn DEF Sync, Handles
  <2>2. Good({}, Managing, h(unwritable))
    BY SyncGood
  <2> HIDE DEF h
  <2> QED
    BY <1>0, <1>2, <2>1, <2>2, ManagingOpensNothing DEF Sync
<1>3. CASE \E action \in Actions : Manage(action)
  <2>1. PICK action \in Actions : Manage(action)
    BY <1>3
  <2> DEFINE h(unwritable, price, quote) == ApplyAction(Begin(run, unwritable), action, price, quote)
  <2>2. PICK unwritable \in SUBSET Nat, price \in MovePrices, quote \in Quotes : Handles(h(unwritable, price, quote))
    BY <2>1, UnwritableIn DEF Manage, Handles
  <2>3. Good({}, Managing, h(unwritable, price, quote))
    BY ManageGood
  <2> HIDE DEF h
  <2> QED
    BY <1>0, <2>1, <2>2, <2>3, ManagingOpensNothing DEF Manage
<1>4. CASE Answer
  <2> DEFINE c == Head(commands)
  <2>1. Takes(c) /\ (SkipCommand(c) \/ ExecuteCommand(c) \/ RefuseCommand(c))
    BY <1>4 DEF Answer, SkipCommand, ExecuteCommand, RefuseCommand
  <2> HIDE DEF c
  <2>2. /\ c \in CommandType /\ commands' \in Seq(CommandType) /\ Len(commands) > 0 /\ c = commands[1]
        /\ Len(commands') = Len(commands) - 1
        /\ \A i \in 1..Len(commands') : commands'[i] = commands[i + 1]
    BY <1>0, <2>1, TakesTypes
  <2>3. \A i \in 1..Len(commands') : commands'[i].kind \in Opening => commands'[i].n = commands'[i].leg
    BY <1>0, <2>2 DEF OpensOnceInv
  <2>4. ASSUME NEW l \in Legs, Opens(l)'
        PROVE  Opens(l)
    <3>1. PICK i \in 1..Len(commands') : commands'[i].leg = l /\ commands'[i].kind \in Opening
      BY <2>4 DEF Opens
    <3>2. i + 1 \in 1..Len(commands) /\ commands[i + 1] = commands'[i]
      BY <1>0, <2>2, <3>1
    <3> QED
      BY <3>1, <3>2 DEF Opens
  <2>5. c.leg \in Legs /\ c.kind \in Kinds /\ (c.kind \in Opening => Id(c) = <<c.leg, c.leg>> /\ Opens(c.leg))
    <3>1. 1 \in 1..Len(commands)
      BY <1>0, <2>2
    <3> QED
      BY <2>2, <3>1 DEF Id, Opens, OpensOnceInv, CommandType
  <2>6. handled' = handled /\ run' = run
    BY <2>1 DEF Takes
  <2>7. ASSUME NEW l \in Legs, <<l, l>> \in answered \union {Id(c)}
        PROVE  <<l, l>> \in Repeatable(answered \union {Id(c)}, Tail(commands)) \/ (handled = TRUE /\ ~Opens(l)')
    <3>1. CASE handled = FALSE
      BY <2>7, <3>1 DEF Repeatable
    <3>2. CASE handled = TRUE /\ Opens(l)'
      <4>1. PICK i \in 1..Len(commands') : commands'[i].leg = l /\ commands'[i].kind \in Opening
        BY <3>2 DEF Opens
      <4>2. Id(commands'[i]) = <<l, l>>
        BY <2>3, <4>1 DEF Id
      <4>3. commands' = Tail(commands)
        BY <2>1 DEF Takes
      <4> QED
        BY <2>7, <4>1, <4>2, <4>3 DEF Repeatable
    <3> QED
      BY <1>0, <3>1, <3>2
  <2>8. CASE SkipCommand(c)
    BY <2>3, <2>4, <2>6, <2>8 DEF SkipCommand, OpensOnceInv, OpenedOnce
  <2>9. CASE RefuseCommand(c)
    <3>1. answered' = Repeatable(answered \union {Id(c)}, Tail(commands)) /\ broker' = broker
      BY <2>9 DEF RefuseCommand
    <3>2. ASSUME NEW l \in Legs, broker[l].st # "none"
          PROVE  <<l, l>> \in answered' \/ (handled' = TRUE /\ ~Opens(l)')
      <4>1. CASE <<l, l>> \in answered
        BY <2>6, <2>7, <3>1, <4>1
      <4>2. CASE handled = TRUE /\ ~Opens(l)
        BY <2>4, <2>6, <4>2
      <4> QED
        BY <3>2, <4>1, <4>2 DEF OpensOnceInv
    <3> QED
      BY <2>3, <3>1, <3>2 DEF OpensOnceInv, OpenedOnce
  <2>10. CASE ExecuteCommand(c)
    <3>1. /\ answered' = Repeatable(answered \union {Id(c)}, Tail(commands))
          /\ broker' = [broker EXCEPT ![c.leg] = Done(c)] /\ Id(c) \notin answered /\ CanDo(c)
      BY <2>10 DEF ExecuteCommand
    <3>2. \A l \in Legs : l # c.leg => broker'[l] = broker[l]
      BY <1>0, <3>1
    <3>3. broker'[c.leg] = Done(c)
      BY <1>0, <2>5, <3>1
    <3>4. c.kind \in Opening => broker[c.leg].st = "none" /\ <<c.leg, c.leg>> \in answered \union {Id(c)}
      BY <2>5, <3>1 DEF OpensOnceInv
    <3>5. c.kind \notin Opening => broker[c.leg].st # "none"
      BY <2>5, <3>1 DEF CanDo, Kinds
    <3>6. Done(c).st # "twice"
      BY <1>0, <2>5, <3>4 DEF Done, Once, Kinds, Opening, OpensOnceInv, OpenedOnce
    <3>7. ASSUME NEW l \in Legs, broker'[l].st # "none"
          PROVE  <<l, l>> \in answered' \/ (handled' = TRUE /\ ~Opens(l)')
      <4>1. CASE l = c.leg /\ c.kind \in Opening
        BY <2>6, <2>7, <3>1, <3>4, <4>1
      <4>2. CASE broker[l].st # "none"
        <5>1. CASE <<l, l>> \in answered
          BY <2>6, <2>7, <3>1, <5>1
        <5>2. CASE handled = TRUE /\ ~Opens(l)
          BY <2>4, <2>6, <5>2
        <5> QED
          BY <4>2, <5>1, <5>2 DEF OpensOnceInv
      <4> QED
        BY <3>2, <3>5, <3>7, <4>1, <4>2
    <3>8. OpenedOnce'
      BY <3>2, <3>3, <3>6 DEF OpensOnceInv, OpenedOnce
    <3> QED
      BY <2>3, <3>7, <3>8 DEF OpensOnceInv
  <2> QED
    BY <2>1, <2>8, <2>9, <2>10
<1>5. ASSUME NEW l \in Legs, Fill(l) \/ HitTp(l) \/ HitSl(l) \/ CloseByHand(l) \/ OrderGone(l)
      PROVE  OpensOnceInv'
  <2>1. PICK st \in Entries \ {"twice"} : Becomes(l, st)
    BY <1>5 DEF Fill, HitTp, HitSl, CloseByHand, OrderGone, Entries, Closed
  <2>2. broker[l].st \in {"order", "position"}
    BY <1>5 DEF Fill, HitTp, HitSl, CloseByHand, OrderGone
  <2>3. broker'[l].st = st /\ \A k \in Legs : k # l => broker'[k] = broker[k]
    BY <1>0, <2>1 DEF Becomes
  <2>4. UNCHANGED <<commands, answered, handled>>
    BY <2>1 DEF Becomes, trader, bridge
  <2>5. \A k \in Legs : Opens(k)' <=> Opens(k)
    BY <2>4 DEF Opens
  <2>6. \A k \in Legs : broker'[k].st # "none" => broker[k].st # "none"
    BY <2>2, <2>3
  <2>7. OpenedOnce'
    BY <2>1, <2>3 DEF OpensOnceInv, OpenedOnce
  <2> QED
    BY <2>4, <2>5, <2>6, <2>7 DEF OpensOnceInv
<1>6. CASE UNCHANGED <<commands, answered, broker>> /\ (handled' = handled \/ handled' = TRUE)
  <2>1. \A l \in Legs : Opens(l)' <=> Opens(l)
    BY <1>6 DEF Opens
  <2> QED
    BY <1>6, <2>1 DEF OpensOnceInv, OpenedOnce
<1>7. CASE \/ Reject \/ SyncBlind \/ FinishPostcheck \/ Restart \/ WriteState \/ TtlPasses
           \/ (\E l \in Legs : TimePasses(l)) \/ UNCHANGED vars
  BY <1>6, <1>7 DEF Reject, SyncBlind, FinishPostcheck, Restart, WriteState, TtlPasses, TimePasses,
     GraceOver, ResultOverdue, BackoffOver, Passes, vars, trader, bridge
<1> QED
  BY <1>1, <1>2, <1>3, <1>4, <1>5, <1>7 DEF Next

(* Whatever goes wrong, the trader's own death between two lines of its    *)
(* placement and the second placement after it included, no leg gets two   *)
(* orders: the second placement uses the first one's numbers, and the EA   *)
(* skips what it answered.                                                 *)
THEOREM RunOpensOnce == Spec => []OpenedOnce
<1>1. Init => RunInv /\ OpensOnceInv
  <2>1. Init => OpensOnceInv
    BY DEF Init, OpensOnceInv, OpenedOnce
  <2> QED
    BY <2>1, RunInvInit
<1>2. RunInv /\ OpensOnceInv /\ [Next]_vars => (RunInv /\ OpensOnceInv)'
  BY RunInvNext, OpensOnceNext
<1>3. OpensOnceInv => OpenedOnce
  BY DEF OpensOnceInv
<1> QED
  BY <1>1, <1>2, <1>3, PTL DEF Spec

(***************************************************************************)
(* A leg waits for its own command                                         *)
(***************************************************************************)
Lines == {commands[i] : i \in 1..Len(commands)}

\* Nothing in the file is mistaken by the saved run, and nothing is in it before the placement is saved.
WaitsInv ==
  /\ \A c \in Lines : LineOK(run, c)
  /\ handled = FALSE => commands = << >> /\ run.state = "NEW"

LEMMA LinesTypes ==
  ASSUME TypeOK
  PROVE  Lines \in SUBSET CommandType
  BY DEF TypeOK, Lines

\* The save ends what the handler wrote.
LEMMA CompletesOwn ==
  ASSUME TypeOK, NEW K, NEW h, Good(Lines, K, h), Completes(h)
  PROVE  \A c \in Lines' : LineOK(run', c)
<1>1. h \in HandlerType /\ run' = h.run
  BY DEF Good, Completes
<1>2. ASSUME NEW i \in 1..Len(commands')
      PROVE  LineOK(run', commands'[i])
  <2>1. \/ \E j \in 1..Len(commands) : commands'[i] = commands[j]
        \/ \E j \in 1..Len(h.out) : commands'[i] = h.out[j]
    BY <1>1, HandlesLines DEF Handles
  <2> QED
    BY <1>1, <2>1 DEF Good, Lines
<1> QED
  BY <1>2 DEF Lines

LEMMA WaitsNext ==
  ASSUME "crash" \notin Faults
  PROVE  RunInv /\ WaitsInv /\ [Next]_vars => WaitsInv'
<1> SUFFICES ASSUME RunInv, WaitsInv, [Next]_vars PROVE WaitsInv'
  OBVIOUS
<1>0. /\ TypeOK /\ run \in RunOK /\ handled \in BOOLEAN /\ commands \in Seq(CommandType)
      /\ Lines \in SUBSET CommandType
  BY LinesTypes DEF RunInv, TypeOK
<1>1. \A h : ~DiesIn(h)
  BY DEF DiesIn, Fault
<1>2. CASE Place
  <2>0. PICK unwritable \in SUBSET Nat : \E h \in Placements(unwritable) : Completes(h) /\ handled' = TRUE
    BY <1>1, <1>2, UnwritableIn DEF Place
  <2>1. PICK h \in Placements(unwritable) : Completes(h) /\ handled' = TRUE
    BY <2>0
  <2>2. Lines = {}
    BY <1>0, <1>2 DEF Place, WaitsInv, Lines
  <2>3. Good(Lines, Opening, h)
    BY <2>2, PlacementsGood
  <2> QED
    BY <1>0, <2>1, <2>3, CompletesOwn DEF WaitsInv
<1>3. CASE Sync
  <2> DEFINE h(unwritable) == SyncRun(Begin(ApplyResults(run, results), unwritable), state)
  <2>1. PICK unwritable \in SUBSET Nat : Completes(h(unwritable))
    BY <1>1, <1>3, UnwritableIn DEF Sync
  <2>2. Good(Lines, Managing, h(unwritable))
    BY <1>0, SyncGood DEF WaitsInv
  <2> HIDE DEF h
  <2>3. \A c \in Lines' : LineOK(run', c)
    BY <1>0, <2>1, <2>2, CompletesOwn
  <2>4. handled = TRUE /\ handled' = handled
    BY <1>0, <1>3 DEF Sync, WaitsInv, Live
  <2> QED
    BY <2>3, <2>4 DEF WaitsInv
<1>4. CASE \E action \in Actions : Manage(action)
  <2>1. PICK action \in Actions : Manage(action)
    BY <1>4
  <2> DEFINE h(unwritable, price, quote) == ApplyAction(Begin(run, unwritable), action, price, quote)
  <2>2. PICK unwritable \in SUBSET Nat, price \in MovePrices, quote \in Quotes : Completes(h(unwritable, price, quote))
    BY <1>1, <2>1, UnwritableIn DEF Manage
  <2>3. Good(Lines, Managing, h(unwritable, price, quote))
    BY <1>0, ManageGood DEF WaitsInv
  <2> HIDE DEF h
  <2>4. \A c \in Lines' : LineOK(run', c)
    BY <1>0, <2>2, <2>3, CompletesOwn
  <2>5. handled = TRUE /\ handled' = handled
    BY <1>0, <2>1 DEF Manage, WaitsInv, Live
  <2> QED
    BY <2>4, <2>5 DEF WaitsInv
<1>5. CASE Answer
  <2> DEFINE c == Head(commands)
  <2>1. Takes(c)
    BY <1>5 DEF Answer, SkipCommand, ExecuteCommand, RefuseCommand
  <2> HIDE DEF c
  <2>2. /\ Len(commands) > 0 /\ Len(commands') = Len(commands) - 1
        /\ \A i \in 1..Len(commands') : commands'[i] = commands[i + 1]
    BY <1>0, <2>1, TakesTypes
  <2>3. Lines' \subseteq Lines
    BY <1>0, <2>2 DEF Lines
  <2>4. run' = run /\ handled' = handled /\ commands # << >>
    BY <2>1 DEF Takes
  <2> QED
    BY <1>0, <2>3, <2>4 DEF WaitsInv
<1>6. ASSUME run' \in RunOK, QuietRun(run, run'), UNCHANGED commands,
             handled' = TRUE \/ (handled' = handled /\ (run.state \in Live \/ run'.state = run.state))
      PROVE  WaitsInv'
  <2>1. Lines' = Lines
    BY <1>6 DEF Lines
  <2>2. \A c \in Lines' : LineOK(run', c)
    BY <1>0, <1>6, <2>1, QuietLine DEF WaitsInv
  <2> QED
    BY <1>0, <1>6, <2>2 DEF WaitsInv, Live
<1>7. CASE Reject
  <2>1. handled = FALSE /\ handled' = TRUE /\ commands' = commands
    BY <1>0, <1>7 DEF Reject, bridge
  <2>2. Lines' = {}
    BY <1>0, <2>1 DEF WaitsInv, Lines
  <2> QED
    BY <2>1, <2>2 DEF WaitsInv
<1>8. CASE SyncBlind
  <2>1. results \subseteq ResultType
    BY DEF RunInv, TypeOK, ResultType
  <2>2. ApplyResults(run, results) \in RunOK /\ QuietRun(run, ApplyResults(run, results))
    BY <1>0, <2>1, ApplyResultsOK
  <2> QED
    BY <1>0, <1>6, <1>8, <2>2, QuietReflexive DEF SyncBlind
<1>9. CASE FinishPostcheck
  <2>1. [run EXCEPT !.close_requested = TRUE] \in RunOK /\ QuietRun(run, [run EXCEPT !.close_requested = TRUE])
        /\ [run EXCEPT !.close_requested = TRUE].state = run.state
    BY ZenonT(40), <1>0, FlagsOK DEF RunOK, RunType
  <2> QED
    BY <1>0, <1>6, <1>9, <2>1, QuietReflexive DEF FinishPostcheck, bridge
<1>10. CASE Restart
  <2>1. Reconcile(run, state) \in RunOK /\ QuietRun(run, Reconcile(run, state))
    BY <1>0, ReconcileOK DEF TypeOK
  <2>2. run.state \in Live \/ Reconcile(run, state).state = run.state
    BY DEF Reconcile
  <2> QED
    BY <1>0, <1>6, <1>10, <2>1, <2>2, QuietReflexive DEF Restart, bridge
<1>11. ASSUME NEW l \in Legs, TimePasses(l)
       PROVE  WaitsInv'
  <2>1. PICK timer \in {"missing_since", "inflight_since", "retry_after"}, from \in Timers, to \in Timers :
          Passes(l, timer, from, to)
    BY <1>11 DEF TimePasses, GraceOver, ResultOverdue, BackoffOver, Timers
  <2>2. run' \in RunOK /\ QuietRun(run, run') /\ run'.state = run.state
    BY <1>0, <2>1, TimerOK DEF Passes
  <2> QED
    BY <1>6, <2>1, <2>2 DEF Passes, bridge
<1>12. CASE UNCHANGED <<run, handled, commands>>
  BY <1>0, <1>6, <1>12, QuietReflexive
<1>13. CASE \/ WriteState \/ TtlPasses \/ UNCHANGED vars
            \/ \E l \in Legs : Fill(l) \/ HitTp(l) \/ HitSl(l) \/ CloseByHand(l) \/ OrderGone(l)
  BY <1>12, <1>13 DEF WriteState, TtlPasses, Fill, HitTp, HitSl, CloseByHand, OrderGone, Becomes,
     vars, trader, bridge
<1> QED
  BY <1>2, <1>3, <1>4, <1>5, <1>7, <1>8, <1>9, <1>10, <1>11, <1>13 DEF Next

(* While the trader does not die in a handler, every command in the file   *)
(* that a leg waits for is the one the leg remembers: numbers are not used *)
(* again, whatever is lost, refused, late or could not be written.         *)
THEOREM RunWaitsForItsOwn ==
  ASSUME "crash" \notin Faults
  PROVE  Spec => []WaitsForItsOwn
<1>1. Init => RunInv /\ WaitsInv
  <2>1. Init => WaitsInv
    BY DEF Init, WaitsInv, Lines, NewRun
  <2> QED
    BY <2>1, RunInvInit
<1>2. RunInv /\ WaitsInv /\ [Next]_vars => (RunInv /\ WaitsInv)'
  BY RunInvNext, WaitsNext
<1>3. WaitsInv => WaitsForItsOwn
  BY DEF WaitsInv, WaitsForItsOwn, LineOK, Lines
<1> QED
  BY <1>1, <1>2, <1>3, PTL DEF Spec

(***************************************************************************)
(* The ladder has a cause                                                  *)
(***************************************************************************)
\* From a to b the leg did not reach its take-profit.
KeepsTp(a, b) == b.state = "CLOSED_TP" => a.state = "CLOSED_TP"

\* The run knows of no take-profit but those of the legs T, and acted on no other.
Told(T, r) ==
  /\ \A l \in Legs : r.legs[l].state = "CLOSED_TP" => l \in T
  /\ r.be_applied = TRUE => 2 \in T
  /\ r.tp1_applied = TRUE => 3 \in T

LEMMA LegKeepsTp ==
  ASSUME NEW leg \in LegOK, NEW l \in Legs, NEW entry \in Entries
  PROVE  /\ KeepsTp(leg, Failed(leg))
         /\ leg.inflight_cmd # NoCmd => \A price : KeepsTp(leg, Succeeded(leg, price))
         /\ KeepsTp(leg, ExpireInflight(leg))
         /\ KeepsTp(leg, Adopt(leg, l, entry))
         /\ entry = "CLOSED_TP" \/ KeepsTp(leg, Detect(leg, l, entry))
<1> DEFINE rest == NoInflight(leg)
<1>0. leg \in LegType /\ rest \in LegType /\ rest.state = leg.state
  BY NoInflightOK DEF LegOK
<1>1. KeepsTp(leg, Failed(leg))
  <2>1. [rest EXCEPT !.state = "CANCELLED"].state = "CANCELLED" /\ [rest EXCEPT !.retry_after = "on"].state = leg.state
    BY <1>0 DEF LegType
  <2> QED
    BY <2>1 DEF Failed, KeepsTp
<1>2. ASSUME leg.inflight_cmd # NoCmd, NEW price
      PROVE  KeepsTp(leg, Succeeded(leg, price))
  <2> DEFINE done == [rest EXCEPT !.retry_after = "off"]
  <2>1. done \in LegType /\ done.state = leg.state
    BY <1>0 DEF LegType, Timers
  <2>2. leg.inflight_kind \in Kinds
    BY <1>2 DEF LegOK, LegType
  <2>3. Succeeded(leg, price) =
          CASE leg.inflight_kind = "open_market"  -> [done EXCEPT !.state = "OPEN", !.entry_price = price]
            [] leg.inflight_kind = "open_pending" -> [done EXCEPT !.state = "PENDING_ORDER"]
            [] leg.inflight_kind = "modify_sl"    -> [done EXCEPT !.sl_current = leg.inflight_sl]
            [] leg.inflight_kind = "close"        -> [done EXCEPT !.state = "CLOSED_MANUAL"]
            [] leg.inflight_kind = "cancel"       -> [done EXCEPT !.state = "CANCELLED"]
    BY DEF Succeeded
  <2> HIDE DEF done
  <2>4. /\ [done EXCEPT !.state = "OPEN", !.entry_price = price].state = "OPEN"
        /\ [done EXCEPT !.state = "PENDING_ORDER"].state = "PENDING_ORDER"
        /\ [done EXCEPT !.sl_current = leg.inflight_sl].state = leg.state
        /\ [done EXCEPT !.state = "CLOSED_MANUAL"].state = "CLOSED_MANUAL"
        /\ [done EXCEPT !.state = "CANCELLED"].state = "CANCELLED"
    BY <2>1 DEF LegType
  <2> QED
    BY <2>2, <2>3, <2>4 DEF KeepsTp, Kinds, Opening
<1>3. KeepsTp(leg, ExpireInflight(leg))
  <2>1. [rest EXCEPT !.retry_after = "on"].state = leg.state /\ [leg EXCEPT !.inflight_since = "on"].state = leg.state
    BY <1>0 DEF LegType
  <2> QED
    BY <2>1 DEF ExpireInflight, KeepsTp
<1>4. KeepsTp(leg, Adopt(leg, l, entry))
  BY <1>0 DEF Adopt, KeepsTp, LegType
<1>5. ASSUME NEW verdict \in {"CANCELLED", "CLOSED_MANUAL"}
      PROVE  KeepsTp(leg, Missing(leg, verdict))
  BY <1>0 DEF Missing, KeepsTp, LegType, Timers
<1>6. ASSUME entry # "CLOSED_TP"
      PROVE  KeepsTp(leg, Detect(leg, l, entry))
  <2> DEFINE priced == [leg EXCEPT !.missing_since = "off",
                                   !.entry_price = IF leg.entry_price = NoPrice THEN FillPrice[l] ELSE leg.entry_price]
             opened == [leg EXCEPT !.state = "OPEN", !.entry_price = FillPrice[l], !.missing_since = "off"]
             ended == [leg EXCEPT !.state = entry, !.missing_since = "off"]
  <2>1. priced.state = leg.state /\ opened.state = "OPEN" /\ ended.state = entry
        /\ [leg EXCEPT !.missing_since = "off"].state = leg.state
    BY <1>0 DEF LegType
  <2>2. CASE leg.inflight_cmd # NoCmd
    BY <2>2 DEF Detect, KeepsTp
  <2>3. CASE leg.inflight_cmd = NoCmd /\ leg.state = "PENDING_ORDER"
    <3>1. Detect(leg, l, entry) = CASE entry = "order"    -> [leg EXCEPT !.missing_since = "off"]
                                    [] entry = "position" -> opened
                                    [] OTHER              -> Missing(leg, "CANCELLED")
      BY <2>3 DEF Detect
    <3> HIDE DEF opened
    <3> QED
      BY <1>5, <2>1, <3>1 DEF KeepsTp
  <2>4. CASE leg.inflight_cmd = NoCmd /\ leg.state = "OPEN"
    <3>1. Detect(leg, l, entry) = CASE entry = "position" -> priced
                                    [] entry \in Closed   -> ended
                                    [] OTHER              -> Missing(leg, "CLOSED_MANUAL")
      BY <2>4 DEF Detect
    <3> HIDE DEF priced, ended
    <3> QED
      BY <1>5, <1>6, <2>1, <3>1 DEF KeepsTp, Closed
  <2>5. CASE leg.inflight_cmd = NoCmd /\ leg.state \notin {"PENDING_ORDER", "OPEN"}
    BY <2>5 DEF Detect, KeepsTp
  <2> QED
    BY <2>2, <2>3, <2>4, <2>5
<1> QED
  BY <1>1, <1>2, <1>3, <1>4, <1>6

\* New legs, the flags as they were.
LEMMA ToldLegs ==
  ASSUME NEW T, NEW r \in RunOK, Told(T, r), NEW legs \in [Legs -> LegOK],
         \A l \in Legs : KeepsTp(r.legs[l], legs[l]) \/ l \in T
  PROVE  Told(T, [r EXCEPT !.legs = legs])
<1> DEFINE s == [r EXCEPT !.legs = legs]
<1>1. s.legs = legs /\ s.be_applied = r.be_applied /\ s.tp1_applied = r.tp1_applied
  BY DEF RunOK, RunType
<1> HIDE DEF s
<1> QED
  BY <1>1 DEF Told, KeepsTp, s

\* The legs as they were.
LEMMA ToldFlags ==
  ASSUME NEW T, NEW r \in RunOK, Told(T, r)
  PROVE  /\ \A st : Told(T, [r EXCEPT !.state = st])
         /\ Told(T, Recompute(r))
         /\ Told(T, [r EXCEPT !.pendings_cancelled = TRUE])
         /\ Told(T, [r EXCEPT !.close_requested = TRUE])
         /\ 2 \in T => Told(T, [r EXCEPT !.be_applied = TRUE])
         /\ 3 \in T => Told(T, [r EXCEPT !.tp1_applied = TRUE])
<1>1. ASSUME NEW st
      PROVE  Told(T, [r EXCEPT !.state = st])
  BY DEF Told, RunOK, RunType
<1>2. \E st : Recompute(r) = [r EXCEPT !.state = st]
  BY DEF Recompute
<1>3. Told(T, [r EXCEPT !.pendings_cancelled = TRUE])
  BY DEF Told, RunOK, RunType
<1>4. Told(T, [r EXCEPT !.close_requested = TRUE])
  BY DEF Told, RunOK, RunType
<1>5. 2 \in T => Told(T, [r EXCEPT !.be_applied = TRUE])
  BY DEF Told, RunOK, RunType
<1>6. 3 \in T => Told(T, [r EXCEPT !.tp1_applied = TRUE])
  BY DEF Told, RunOK, RunType
<1> QED
  BY <1>1, <1>2, <1>3, <1>4, <1>5, <1>6

LEMMA ToldUpdates ==
  ASSUME NEW T, NEW r \in RunOK, Told(T, r), NEW rs, rs \subseteq ResultType, NEW snapshot \in [Legs -> Entries],
         \A l \in Legs : snapshot[l] = "CLOSED_TP" => l \in T
  PROVE  Told(T, ApplyResults(r, rs)) /\ Told(T, Observe(r, snapshot)) /\ Told(T, Reconcile(r, snapshot))
<1>0. \A l \in Legs : r.legs[l] \in LegOK /\ snapshot[l] \in Entries
  BY RunFields
<1>1. Told(T, ApplyResults(r, rs))
  <2> DEFINE mine(l) == {x \in rs : x.leg = l /\ x.n = r.legs[l].inflight_cmd}
             applied(leg, x) == IF x.ok THEN Succeeded(leg, x.fill_price) ELSE Failed(leg)
             leg(l) == IF mine(l) = {} THEN r.legs[l] ELSE applied(r.legs[l], CHOOSE x \in mine(l) : TRUE)
             legs == [l \in Legs |-> leg(l)]
  <2>1. ASSUME NEW l \in Legs
        PROVE  leg(l) \in LegOK /\ KeepsTp(r.legs[l], leg(l)) /\ QuietLeg(r.legs[l], leg(l))
    <3>1. CASE mine(l) = {}
      BY <1>0, <3>1 DEF KeepsTp, QuietLeg
    <3>2. CASE mine(l) # {}
      <4> DEFINE x == CHOOSE y \in mine(l) : TRUE
      <4>1. x \in mine(l)
        BY <3>2
      <4>2. x \in ResultType /\ r.legs[l] \in LegOK /\ r.legs[l].inflight_cmd # NoCmd
        BY <1>0, <4>1 DEF ResultType, NoCmd
      <4>3. leg(l) = applied(r.legs[l], x)
        BY <3>2
      <4>4. \E entry : entry \in Entries
        BY DEF Entries
      <4> HIDE DEF x, mine
      <4> QED
        BY <4>2, <4>3, <4>4, SucceededOK, FailedOK, LegKeepsTp DEF ResultType
    <3> QED
      BY <3>1, <3>2
  <2>2. ApplyResults(r, rs) = Recompute([r EXCEPT !.legs = legs])
    BY DEF ApplyResults
  <2> HIDE DEF leg
  <2>3. legs \in [Legs -> LegOK] /\ \A l \in Legs : KeepsTp(r.legs[l], legs[l]) /\ QuietLeg(r.legs[l], legs[l])
    BY <2>1
  <2>4. [r EXCEPT !.legs = legs] \in RunOK
    BY <2>3, QuietLegsOK
  <2> HIDE DEF legs
  <2> DEFINE s == [r EXCEPT !.legs = legs]
  <2>5. s \in RunOK /\ Told(T, s)
    BY <2>3, <2>4, ToldLegs
  <2> HIDE DEF s
  <2>6. Told(T, Recompute(s))
    BY <2>5, ToldFlags
  <2> QED
    BY <2>2, <2>6 DEF s
<1>2. Told(T, Observe(r, snapshot))
  <2> DEFINE legs == [l \in Legs |-> Detect(ExpireInflight(r.legs[l]), l, snapshot[l])]
  <2>1. ASSUME NEW l \in Legs
        PROVE  legs[l] \in LegOK /\ (KeepsTp(r.legs[l], legs[l]) \/ l \in T)
    <3>1. ExpireInflight(r.legs[l]) \in LegOK /\ KeepsTp(r.legs[l], ExpireInflight(r.legs[l]))
      BY <1>0, ExpireInflightOK, LegKeepsTp
    <3>2. snapshot[l] = "CLOSED_TP" \/ KeepsTp(ExpireInflight(r.legs[l]), legs[l])
      BY <1>0, <3>1, LegKeepsTp
    <3>3. legs[l] \in LegOK
      BY <1>0, <3>1, DetectOK
    <3> HIDE DEF legs
    <3> QED
      BY <3>1, <3>2, <3>3 DEF KeepsTp
  <2>2. Observe(r, snapshot) = [r EXCEPT !.legs = legs]
    BY DEF Observe
  <2>3. legs \in [Legs -> LegOK]
    BY <2>1
  <2> HIDE DEF legs
  <2> QED
    BY <2>1, <2>2, <2>3, ToldLegs
<1>3. Told(T, Reconcile(r, snapshot))
  <2> DEFINE legs == [l \in Legs |-> Adopt(r.legs[l], l, snapshot[l])]
             adopted == [r EXCEPT !.legs = legs]
  <2>1. legs \in [Legs -> LegOK] /\ \A l \in Legs : KeepsTp(r.legs[l], legs[l]) /\ QuietLeg(r.legs[l], legs[l])
    BY <1>0, AdoptOK, LegKeepsTp
  <2>2. Reconcile(r, snapshot) = IF r.state \notin Live \/ adopted = r THEN r ELSE Recompute(adopted)
    BY DEF Reconcile
  <2> HIDE DEF legs
  <2>3. adopted \in RunOK /\ Told(T, adopted)
    BY <2>1, QuietLegsOK, ToldLegs
  <2> HIDE DEF adopted
  <2> QED
    BY <2>2, <2>3, ToldFlags
<1> QED
  BY <1>1, <1>2, <1>3

\* A handler that acts on no other take-profit than those of T.
Knows(T, h) == Good({}, Managing, h) /\ Told(T, h.run)

LEMMA KnowsRun ==
  ASSUME NEW T, NEW h, Knows(T, h), NEW r \in RunOK, QuietRun(h.run, r), Told(T, r)
  PROVE  Knows(T, [h EXCEPT !.run = r])
<1>1. Good({}, Managing, [h EXCEPT !.run = r])
  BY QuietGood DEF Knows
<1>2. [h EXCEPT !.run = r].run = r
  BY DEF Knows, Good, HandlerType
<1> QED
  BY <1>1, <1>2 DEF Knows

LEMMA ToldSend ==
  ASSUME NEW T, NEW h \in HandlerType, Told(T, h.run), NEW S \in SUBSET Legs, NEW what \in [S -> Order]
  PROVE  Told(T, Send(h, what).run)
<1> DEFINE s == Send(h, what).run
<1>1. /\ \A l \in Legs \ S : s.legs[l] = h.run.legs[l]
      /\ \A l \in S : s.legs[l].state \in {h.run.legs[l].state, "CANCELLED"}
      /\ s.be_applied = h.run.be_applied /\ s.tp1_applied = h.run.tp1_applied
  BY SendOK
<1> HIDE DEF s
<1>2. ASSUME NEW l \in Legs, s.legs[l].state = "CLOSED_TP"
      PROVE  l \in T
  <2>1. CASE l \in S
    BY <1>1, <1>2, <2>1 DEF Told
  <2>2. CASE l \notin S
    BY <1>1, <1>2, <2>2 DEF Told
  <2> QED
    BY <2>1, <2>2
<1> QED
  BY <1>1, <1>2 DEF Told, s

LEMMA KnowsSends ==
  ASSUME NEW T, NEW h, Knows(T, h), NEW S \in SUBSET Legs
  PROVE  /\ Knows(T, Send(h, To(S, "cancel"))) /\ Knows(T, Send(h, To(S, "close")))
         /\ Knows(T, CloseEverything(h))
         /\ \A sl : (\A l \in S : sl[l] \in Prices) => Knows(T, Modify(h, S, sl))
<1>1. h \in HandlerType /\ Told(T, h.run) /\ Good({}, Managing, h)
  BY DEF Knows, Good
<1>2. ASSUME NEW kind \in {"cancel", "close"}
      PROVE  Knows(T, Send(h, To(S, kind)))
  <2>1. Good({}, Managing, Send(h, To(S, kind)))
    BY <1>1, ToGood DEF Managing, Kinds, Opening
  <2>2. To(S, kind) \in [S -> Order]
    BY DEF To, Order, Kinds
  <2> QED
    BY <1>1, <2>1, <2>2, ToldSend DEF Knows
<1>3. Knows(T, CloseEverything(h))
  <2> DEFINE U == In(h.run, {"OPEN", "PENDING_ORDER"}) \intersect MayRetry(h.run)
             kind == [l \in U |-> IF h.run.legs[l].state = "OPEN" THEN "close" ELSE "cancel"]
             what == [l \in U |-> [kind |-> kind[l], sl |-> NoPrice]]
  <2>1. U \in SUBSET Legs /\ what \in [U -> Order]
    BY DEF Order, Kinds, In
  <2>2. CloseEverything(h) = Send(h, what)
    BY DEF CloseEverything
  <2> HIDE DEF what, U
  <2> QED
    BY <1>1, <2>1, <2>2, ToldSend, CloseEverythingGood DEF Knows
<1>4. ASSUME NEW sl, \A l \in S : sl[l] \in Prices
      PROVE  Knows(T, Modify(h, S, sl))
  <2> DEFINE U == {k \in S : SlImproves(sl[k], h.run.legs[k].sl_current)}
             what == [l \in U |-> [kind |-> "modify_sl", sl |-> sl[l]]]
  <2>1. U \in SUBSET Legs /\ what \in [U -> Order]
    BY <1>4, PriceFacts DEF Order, Kinds
  <2>2. Modify(h, S, sl) = Send(h, what)
    BY DEF Modify
  <2>3. Good({}, Managing, Modify(h, S, sl))
    BY <1>1, <1>4, ModifyGood
  <2> HIDE DEF what, U
  <2> QED
    BY <1>1, <2>1, <2>2, <2>3, ToldSend DEF Knows
<1> QED
  BY <1>2, <1>3, <1>4

LEMMA KnowsFlags ==
  ASSUME NEW T, NEW h, Knows(T, h)
  PROVE  /\ Knows(T, [h EXCEPT !.run = Recompute(@)])
         /\ Knows(T, [h EXCEPT !.run.pendings_cancelled = TRUE])
         /\ 2 \in T => Knows(T, [h EXCEPT !.run.be_applied = TRUE])
         /\ 3 \in T => Knows(T, [h EXCEPT !.run.tp1_applied = TRUE])
<1>1. h.run \in RunOK /\ Told(T, h.run)
  BY DEF Knows, Good, HandlerType
<1>2. Recompute(h.run) \in RunOK /\ QuietRun(h.run, Recompute(h.run)) /\ Told(T, Recompute(h.run))
  BY <1>1, RecomputeOK, ToldFlags
<1>3. /\ [h.run EXCEPT !.pendings_cancelled = TRUE] \in RunOK
      /\ QuietRun(h.run, [h.run EXCEPT !.pendings_cancelled = TRUE])
      /\ Told(T, [h.run EXCEPT !.pendings_cancelled = TRUE])
  BY <1>1, FlagsOK, ToldFlags
<1>4. /\ [h.run EXCEPT !.be_applied = TRUE] \in RunOK /\ QuietRun(h.run, [h.run EXCEPT !.be_applied = TRUE])
      /\ 2 \in T => Told(T, [h.run EXCEPT !.be_applied = TRUE])
  BY <1>1, FlagsOK, ToldFlags
<1>5. /\ [h.run EXCEPT !.tp1_applied = TRUE] \in RunOK /\ QuietRun(h.run, [h.run EXCEPT !.tp1_applied = TRUE])
      /\ 3 \in T => Told(T, [h.run EXCEPT !.tp1_applied = TRUE])
  BY <1>1, FlagsOK, ToldFlags
<1> QED
  BY <1>2, <1>3, <1>4, <1>5, KnowsRun

LEMMA KnowsLadder ==
  ASSUME NEW T, NEW h, Knows(T, h)
  PROVE  Knows(T, BreakEvenAfterTp2(h)) /\ Knows(T, SlToTp1AfterTp3(h)) /\ Knows(T, CancelAfterSl(h))
         /\ Knows(T, ExpiryBackstop(h))
<1>0. Good({}, Managing, h) /\ \A l \in Legs : Reached(h.run, l) => l \in T
  BY DEF Knows, Told, Reached, In
<1>1. Knows(T, BreakEvenAfterTp2(h))
  <2> DEFINE S == {l \in In(h.run, {"OPEN"}) : l > 2 /\ h.run.legs[l].entry_price # NoPrice}
             sl == [l \in Legs |-> h.run.legs[l].entry_price]
  <2>1. S \in SUBSET Legs /\ \A l \in S : sl[l] \in Prices
    BY <1>0, InLegs, EntryIsPrice
  <2>2. Reached(h.run, 2) => 2 \in T
    BY <1>0 DEF Reached, In
  <2> HIDE DEF S, sl
  <2>3. Knows(T, Modify(h, S, sl))
    BY <2>1, KnowsSends
  <2>4. 2 \in T => Knows(T, [Modify(h, S, sl) EXCEPT !.run.be_applied = TRUE])
    BY <2>3, KnowsFlags
  <2> QED
    BY <2>2, <2>4 DEF BreakEvenAfterTp2, S, sl
<1>2. Knows(T, SlToTp1AfterTp3(h))
  <2> DEFINE S == {l \in In(h.run, {"OPEN"}) : l > 3}
             sl == [l \in Legs |-> Tp1]
  <2>1. S \in SUBSET Legs /\ \A l \in S : sl[l] \in Prices
    BY InLegs, PriceFacts
  <2>2. Reached(h.run, 3) => 3 \in T
    BY <1>0 DEF Reached, In
  <2> HIDE DEF S, sl
  <2>3. Knows(T, Modify(h, S, sl))
    BY <2>1, KnowsSends
  <2>4. 3 \in T => Knows(T, [Modify(h, S, sl) EXCEPT !.run.tp1_applied = TRUE])
    BY <2>3, KnowsFlags
  <2> QED
    BY <2>2, <2>4 DEF SlToTp1AfterTp3, S, sl
<1>3. Knows(T, CancelAfterSl(h))
  <2> DEFINE S == In(h.run, {"PENDING_ORDER"})
  <2>1. Knows(T, Send(h, To(S, "cancel")))
    BY InLegs, KnowsSends
  <2>2. Knows(T, [Send(h, To(S, "cancel")) EXCEPT !.run.pendings_cancelled = TRUE])
    BY <2>1, KnowsFlags
  <2> QED
    BY <2>2 DEF CancelAfterSl
<1>4. Knows(T, ExpiryBackstop(h))
  <2>1. Knows(T, Send(h, To(In(h.run, {"PENDING_ORDER"}) \intersect MayRetry(h.run), "cancel")))
    <3>1. In(h.run, {"PENDING_ORDER"}) \intersect MayRetry(h.run) \in SUBSET Legs
      BY InLegs
    <3> QED
      BY <3>1, KnowsSends
  <2> QED
    BY <2>1 DEF ExpiryBackstop
<1> QED
  BY <1>1, <1>2, <1>3, <1>4

LEMMA KnowsSyncRun ==
  ASSUME NEW T, NEW h, Knows(T, h), NEW snapshot \in [Legs -> Entries],
         \A l \in Legs : snapshot[l] = "CLOSED_TP" => l \in T
  PROVE  Knows(T, SyncRun(h, snapshot))
<1> DEFINE seen == [h EXCEPT !.run = Observe(@, snapshot)]
           laddered == ExpiryBackstop(Ladder(seen))
           acted == IF seen.run.close_requested THEN CloseEverything(seen) ELSE laddered
<1>1. Knows(T, seen)
  <2>1. h.run \in RunOK /\ Told(T, h.run)
    BY DEF Knows, Good, HandlerType
  <2>2. Observe(h.run, snapshot) \in RunOK /\ QuietRun(h.run, Observe(h.run, snapshot))
    BY <2>1, ObserveOK
  <2>3. {} \subseteq ResultType
    OBVIOUS
  <2>4. Told(T, Observe(h.run, snapshot))
    BY <2>1, <2>3, ToldUpdates
  <2> QED
    BY <2>2, <2>4, KnowsRun
<1>2. SyncRun(h, snapshot) = [acted EXCEPT !.run = Recompute(@)]
  BY DEF SyncRun
<1> HIDE DEF seen
<1>3. Knows(T, laddered)
  BY <1>1, KnowsLadder DEF Ladder
<1> HIDE DEF laddered
<1>4. Knows(T, CloseEverything(seen))
  BY <1>1, KnowsSends
<1>5. Knows(T, acted)
  BY <1>3, <1>4
<1> HIDE DEF acted
<1>6. Knows(T, [acted EXCEPT !.run = Recompute(@)])
  BY <1>5, KnowsFlags
<1> QED
  BY <1>2, <1>6

LEMMA KnowsApplyAction ==
  ASSUME NEW T, NEW h, Knows(T, h), NEW action \in ActionKinds, NEW price \in MovePrices, NEW quote
  PROVE  Knows(T, ApplyAction(h, action, price, quote))
<1>1. \A r, states : In(r, states) \intersect Idle(r) \in SUBSET Legs
  BY InLegs
<1>2. Knows(T, CloseAll(h))
  <2> DEFINE closing == Send(h, To(In(h.run, {"OPEN"}) \intersect Idle(h.run), "close"))
             S == In(h.run, {"PENDING_ORDER"}) \intersect Idle(h.run)
             cancelling == Send(closing, To(S, "cancel"))
  <2>1. Knows(T, closing)
    BY <1>1, KnowsSends
  <2> HIDE DEF closing
  <2>2. Knows(T, cancelling)
    BY <1>1, <2>1, KnowsSends
  <2> HIDE DEF cancelling
  <2>3. Knows(T, [cancelling EXCEPT !.run.pendings_cancelled = TRUE])
    BY <2>2, KnowsFlags
  <2> QED
    BY <2>3 DEF CloseAll, closing, cancelling
<1>3. Knows(T, CancelPending(h))
  <2> DEFINE cancelling == Send(h, To(In(h.run, {"PENDING_ORDER"}) \intersect Idle(h.run), "cancel"))
  <2>1. Knows(T, cancelling)
    BY <1>1, KnowsSends
  <2> HIDE DEF cancelling
  <2>2. Knows(T, [cancelling EXCEPT !.run.pendings_cancelled = TRUE])
    BY <2>1, KnowsFlags
  <2> QED
    BY <2>2 DEF CancelPending, cancelling
<1>4. Knows(T, BreakEven(h))
  <2> DEFINE S == {l \in In(h.run, {"OPEN"}) : h.run.legs[l].entry_price # NoPrice}
             sl == [l \in Legs |-> h.run.legs[l].entry_price]
  <2>1. S \in SUBSET Legs /\ \A l \in S : sl[l] \in Prices
    BY InLegs, EntryIsPrice DEF Knows
  <2> HIDE DEF S, sl
  <2>2. Knows(T, Modify(h, S, sl))
    BY <2>1, KnowsSends
  <2> QED
    BY <2>2 DEF BreakEven, S, sl
<1>5. Knows(T, MoveSl(h, price, quote))
  <2> DEFINE S == In(h.run, {"OPEN"})
             sl == [l \in Legs |-> price]
  <2>1. S \in SUBSET Legs /\ \A l \in S : sl[l] \in Prices
    BY InLegs, PriceFacts
  <2> HIDE DEF S, sl
  <2>2. Knows(T, Modify(h, S, sl))
    BY <2>1, KnowsSends
  <2> QED
    BY <2>2 DEF MoveSl, S, sl
<1> QED
  BY <1>2, <1>3, <1>4, <1>5 DEF ApplyAction, ActionKinds

\* A run just placed knows of none.
LEMMA PlacementsTold ==
  ASSUME NEW unwritable \in SUBSET Nat, NEW h \in Placements(unwritable), NEW T
  PROVE  Told(T, h.run)
<1> DEFINE b == Begin(NewRun, unwritable)
<1>1. NewRun \in RunOK /\ b.run = NewRun /\ Told(T, NewRun) /\ b \in HandlerType
  <2>1. Told(T, NewRun)
    BY DEF Told, NewRun, NewLeg
  <2>2. Good({}, Opening, b)
    BY NewRunOK, BeginGood
  <2> QED
    BY <2>1, <2>2, NewRunOK DEF Begin, Good
<1>2. CASE h = PlaceNothing(b)
  <2> DEFINE legs == [l \in Legs |-> [NewRun.legs[l] EXCEPT !.state = "CANCELLED"]]
             s == [NewRun EXCEPT !.legs = legs]
  <2>1. legs \in [Legs -> LegOK] /\ \A l \in Legs : QuietLeg(NewRun.legs[l], legs[l])
    <3>1. "CANCELLED" \in LegStates
      BY DEF LegStates, Finished
    <3> QED
      BY <3>1, NewRunOK, RunFields, LegChanges
  <2>2. \A l \in Legs : KeepsTp(NewRun.legs[l], legs[l])
    <3>1. \A l \in Legs : NewRun.legs[l] \in LegType
      BY <1>1, RunFields
    <3> QED
      BY <3>1 DEF LegType, KeepsTp
  <2>3. PlaceNothing(b) = [b EXCEPT !.run = Recompute(s)]
    BY <1>1 DEF PlaceNothing
  <2> HIDE DEF legs, b
  <2>4. s \in RunOK /\ Told(T, s)
    BY <1>1, <2>1, <2>2, QuietLegsOK, ToldLegs
  <2> HIDE DEF s
  <2>5. Told(T, Recompute(s))
    BY <2>4, ToldFlags
  <2> QED
    BY <1>1, <1>2, <2>3, <2>5 DEF HandlerType
<1>3. ASSUME NEW kind \in Opening, h = PlaceRun(b, kind)
      PROVE  Told(T, h.run)
  <2> DEFINE t == Send(b, To(Legs, kind))
             placing == [t.run EXCEPT !.state = "PLACING"]
             r == IF In(t.run, {"PLACING"}) = {} THEN Recompute(placing) ELSE placing
  <2>1. PlaceRun(b, kind) = [t EXCEPT !.run = r]
    BY DEF PlaceRun
  <2>2. To(Legs, kind) \in [Legs -> Order]
    BY DEF To, Order, Kinds, Opening
  <2> HIDE DEF b
  <2>3. t \in HandlerType /\ Told(T, t.run)
    BY <1>1, <2>2, SendOK, ToldSend
  <2> HIDE DEF t
  <2>4. t.run \in RunOK
    BY <2>3 DEF HandlerType
  <2>5. placing \in RunOK /\ Told(T, placing)
    BY <2>3, <2>4, FlagsOK, ToldFlags
  <2> HIDE DEF placing
  <2>6. Told(T, r)
    BY <2>5, ToldFlags
  <2> HIDE DEF r
  <2> QED
    BY <1>3, <2>1, <2>3, <2>6 DEF HandlerType
<1>4. h = PlaceNothing(b) \/ \E kind \in Opening : h = PlaceRun(b, kind)
  BY DEF Placements, Opening
<1> QED
  BY <1>2, <1>3, <1>4

\* The legs that took profit at the broker.
AtTp == {l \in Legs : broker[l].st = "CLOSED_TP"}

CauseInv == Told(AtTp, run) /\ \A l \in Legs : state[l] = "CLOSED_TP" => l \in AtTp

\* A position that took profit stays what it is.
LEMMA AtTpGrows == RunInv /\ OpensOnceInv /\ [Next]_vars => AtTp \subseteq AtTp'
<1> SUFFICES ASSUME RunInv, OpensOnceInv, [Next]_vars, NEW l \in Legs, broker[l].st = "CLOSED_TP"
             PROVE  broker'[l] = broker[l]
  BY DEF AtTp
<1>0. TypeOK /\ commands \in Seq(CommandType) /\ broker \in [Legs -> [st : Entries, sl : Prices \union {NoPrice}]]
  BY DEF RunInv, TypeOK
<1>1. CASE Answer
  <2> DEFINE c == Head(commands)
  <2>1. Takes(c) /\ (SkipCommand(c) \/ ExecuteCommand(c) \/ RefuseCommand(c))
    BY <1>1 DEF Answer, SkipCommand, ExecuteCommand, RefuseCommand
  <2> HIDE DEF c
  <2>2. c \in CommandType /\ Len(commands) > 0 /\ c = commands[1]
    BY <1>0, <2>1, TakesTypes
  <2>3. CASE ExecuteCommand(c)
    <3>1. broker' = [broker EXCEPT ![c.leg] = Done(c)] /\ Id(c) \notin answered /\ CanDo(c)
      BY <2>3 DEF ExecuteCommand
    <3>2. c.leg # l
      <4>1. CASE c.kind \in Opening
        <5>1. 1 \in 1..Len(commands)
          BY <1>0, <2>2
        <5>2. Id(c) = <<c.leg, c.leg>> /\ Opens(c.leg)
          BY <2>2, <4>1, <5>1 DEF Id, Opens, OpensOnceInv
        <5> QED
          BY <3>1, <5>2 DEF OpensOnceInv
      <4>2. CASE c.kind \notin Opening
        BY <2>2, <3>1, <4>2 DEF CanDo, CommandType, Kinds
      <4> QED
        BY <4>1, <4>2
    <3> QED
      BY <1>0, <3>1, <3>2
  <2> QED
    BY <2>1, <2>3 DEF SkipCommand, RefuseCommand
<1>2. ASSUME NEW k \in Legs, Fill(k) \/ HitTp(k) \/ HitSl(k) \/ CloseByHand(k) \/ OrderGone(k)
      PROVE  broker'[l] = broker[l]
  <2>1. broker[k].st \in {"order", "position"} /\ \E st : Becomes(k, st)
    BY <1>2 DEF Fill, HitTp, HitSl, CloseByHand, OrderGone
  <2> QED
    BY <1>0, <2>1 DEF Becomes
<1>3. CASE UNCHANGED broker
  BY <1>3
<1>4. CASE \/ Place \/ Reject \/ Sync \/ SyncBlind \/ FinishPostcheck \/ Restart \/ WriteState \/ TtlPasses
           \/ (\E action \in Actions : Manage(action)) \/ (\E k \in Legs : TimePasses(k)) \/ UNCHANGED vars
  BY <1>3, <1>4 DEF Place, Reject, Sync, SyncBlind, FinishPostcheck, Restart, WriteState, TtlPasses, Manage,
     TimePasses, GraceOver, ResultOverdue, BackoffOver, Passes, vars
<1> QED
  BY <1>1, <1>2, <1>4 DEF Next

LEMMA ToldMore ==
  ASSUME NEW T, NEW U, T \subseteq U, NEW r, Told(T, r)
  PROVE  Told(U, r)
  BY DEF Told

LEMMA HandlesTold ==
  ASSUME NEW T, Told(T, run), NEW h, Told(T, h.run), Handles(h)
  PROVE  Told(T, run')
  BY DEF Handles, Completes, DiesIn

LEMMA CauseNext == RunInv /\ OpensOnceInv /\ CauseInv /\ [Next]_vars => CauseInv'
<1> SUFFICES ASSUME RunInv, OpensOnceInv, CauseInv, [Next]_vars PROVE CauseInv'
  OBVIOUS
<1>0. /\ TypeOK /\ run \in RunOK /\ results \subseteq ResultType /\ state \in [Legs -> Entries]
      /\ \A l \in Legs : state[l] = "CLOSED_TP" => l \in AtTp
      /\ Told(AtTp, run) /\ AtTp \subseteq AtTp'
  BY AtTpGrows DEF RunInv, TypeOK, ResultType, CauseInv
<1>1. Told(AtTp, run') /\ (state' = state \/ state' = Current) => CauseInv'
  <2> SUFFICES ASSUME Told(AtTp, run'), state' = state \/ state' = Current PROVE CauseInv'
    OBVIOUS
  <2>1. Told(AtTp', run')
    BY <1>0, ToldMore
  <2>2. ASSUME NEW l \in Legs, state'[l] = "CLOSED_TP"
        PROVE  l \in AtTp'
    <3>1. l \in AtTp
      BY <1>0, <2>2 DEF Current, AtTp
    <3> QED
      BY <1>0, <3>1
  <2> QED
    BY <2>1, <2>2 DEF CauseInv
<1>2. CASE Place
  <2>1. PICK unwritable \in SUBSET Nat : \E h \in Placements(unwritable) : Handles(h)
    BY <1>2, UnwritableIn DEF Place, Handles
  <2>2. PICK h \in Placements(unwritable) : Handles(h)
    BY <2>1
  <2>3. Told(AtTp, h.run)
    BY PlacementsTold
  <2> QED
    BY <1>0, <1>1, <1>2, <2>2, <2>3, HandlesTold DEF Place
<1>3. CASE Reject
  <2>1. Told(AtTp, Rejected)
    BY DEF Told, Rejected, NewRun, NewLeg
  <2> QED
    BY <1>1, <1>3, <2>1 DEF Reject
<1>4. CASE Sync
  <2> DEFINE h(unwritable) == SyncRun(Begin(ApplyResults(run, results), unwritable), state)
  <2>1. PICK unwritable \in SUBSET Nat : Handles(h(unwritable))
    BY <1>4, UnwritableIn DEF Sync, Handles
  <2> DEFINE b == Begin(ApplyResults(run, results), unwritable)
  <2>2. ApplyResults(run, results) \in RunOK /\ Told(AtTp, ApplyResults(run, results))
    BY <1>0, ApplyResultsOK, ToldUpdates
  <2>3. Good({}, Managing, b) /\ b.run = ApplyResults(run, results)
    <3>1. Good({}, Managing, b)
      BY <2>2, BeginGood
    <3> QED
      BY <3>1 DEF Begin
  <2>4. Knows(AtTp, b)
    BY <2>2, <2>3 DEF Knows
  <2> HIDE DEF b
  <2>5. Knows(AtTp, SyncRun(b, state))
    BY <1>0, <2>4, KnowsSyncRun
  <2>6. Told(AtTp, h(unwritable).run)
    BY <2>5 DEF Knows, b
  <2> HIDE DEF h
  <2> QED
    BY <1>0, <1>1, <1>4, <2>1, <2>6, HandlesTold DEF Sync
<1>5. CASE \E action \in Actions : Manage(action)
  <2>1. PICK action \in Actions : Manage(action)
    BY <1>5
  <2> DEFINE h(unwritable, price, quote) == ApplyAction(Begin(run, unwritable), action, price, quote)
  <2>2. PICK unwritable \in SUBSET Nat, price \in MovePrices, quote \in Quotes : Handles(h(unwritable, price, quote))
    BY <2>1, UnwritableIn DEF Manage, Handles
  <2> DEFINE b == Begin(run, unwritable)
  <2>3. Good({}, Managing, b) /\ b.run = run
    <3>1. Good({}, Managing, b)
      BY <1>0, BeginGood
    <3> QED
      BY <3>1 DEF Begin
  <2>4. Knows(AtTp, b)
    BY <1>0, <2>3 DEF Knows
  <2> HIDE DEF b
  <2>5. Knows(AtTp, ApplyAction(b, action, price, quote))
    BY <2>4, KnowsApplyAction, RunAssumption
  <2>6. Told(AtTp, h(unwritable, price, quote).run)
    BY <2>5 DEF Knows, b
  <2> HIDE DEF h
  <2> QED
    BY <1>0, <1>1, <2>1, <2>2, <2>6, HandlesTold DEF Manage
<1>6. CASE SyncBlind
  <2>1. Told(AtTp, ApplyResults(run, results))
    BY <1>0, ToldUpdates
  <2> QED
    BY <1>0, <1>1, <1>6, <2>1 DEF SyncBlind
<1>7. CASE FinishPostcheck
  <2>1. Told(AtTp, [run EXCEPT !.close_requested = TRUE])
    BY <1>0, ToldFlags
  <2>2. state' = state /\ (run' = run \/ run' = [run EXCEPT !.close_requested = TRUE])
    BY <1>7 DEF FinishPostcheck
  <2> QED
    BY <1>0, <1>1, <2>1, <2>2
<1>8. CASE Restart
  <2>1. {} \subseteq ResultType
    OBVIOUS
  <2>2. Told(AtTp, Reconcile(run, state))
    BY <1>0, <2>1, ToldUpdates
  <2> QED
    BY <1>0, <1>1, <1>8, <2>2 DEF Restart
<1>9. CASE Answer
  BY <1>0, <1>1, <1>9 DEF Answer, SkipCommand, ExecuteCommand, RefuseCommand, Takes
<1>10. CASE WriteState
  BY <1>0, <1>1, <1>10 DEF WriteState, trader
<1>11. ASSUME NEW l \in Legs, TimePasses(l)
       PROVE  CauseInv'
  <2>1. PICK timer \in {"missing_since", "inflight_since", "retry_after"}, from \in Timers, to \in Timers :
          Passes(l, timer, from, to)
    BY <1>11 DEF TimePasses, GraceOver, ResultOverdue, BackoffOver, Timers
  <2>2. /\ \A k \in Legs : run'.legs[k].state = run.legs[k].state
        /\ run'.be_applied = run.be_applied /\ run'.tp1_applied = run.tp1_applied
    <3>1. run \in RunType /\ \A k \in Legs : run.legs[k] \in LegType
      BY <1>0, RunFields
    <3>2. run' = [run EXCEPT !.legs[l][timer] = to]
      BY <2>1 DEF Passes
    <3>3. run'.legs = [run.legs EXCEPT ![l] = [@ EXCEPT ![timer] = to]]
          /\ run'.be_applied = run.be_applied /\ run'.tp1_applied = run.tp1_applied
      BY <3>1, <3>2 DEF RunType
    <3>4. [run.legs[l] EXCEPT ![timer] = to].state = run.legs[l].state
      <4>1. CASE timer = "missing_since"
        BY <3>1, <4>1 DEF LegType
      <4>2. CASE timer = "inflight_since"
        BY <3>1, <4>2 DEF LegType
      <4>3. CASE timer = "retry_after"
        BY <3>1, <4>3 DEF LegType
      <4> QED
        BY <4>1, <4>2, <4>3
    <3> QED
      BY <3>1, <3>3, <3>4 DEF RunType
  <2>3. Told(AtTp, run')
    BY <1>0, <2>2 DEF Told
  <2> QED
    BY <1>1, <2>1, <2>3 DEF Passes
<1>12. CASE \/ TtlPasses \/ UNCHANGED vars
            \/ \E l \in Legs : Fill(l) \/ HitTp(l) \/ HitSl(l) \/ CloseByHand(l) \/ OrderGone(l)
  BY <1>0, <1>1, <1>12 DEF TtlPasses, Fill, HitTp, HitSl, CloseByHand, OrderGone, Becomes, vars, trader
<1> QED
  BY <1>2, <1>3, <1>4, <1>5, <1>6, <1>7, <1>8, <1>9, <1>10, <1>11, <1>12 DEF Next

(* Whatever goes wrong, break-even is marked done only after leg 2 took    *)
(* profit at the broker, and the move to TP1 only after leg 3 did.         *)
THEOREM RunLadderHasCause == Spec => []LadderHasCause
<1>1. Init => RunInv /\ OpensOnceInv /\ CauseInv
  <2>1. Init => OpensOnceInv
    BY DEF Init, OpensOnceInv, OpenedOnce
  <2>2. Init => CauseInv
    BY DEF Init, CauseInv, Told, NewRun, NewLeg
  <2> QED
    BY <2>1, <2>2, RunInvInit
<1>2. RunInv /\ OpensOnceInv /\ CauseInv /\ [Next]_vars => (RunInv /\ OpensOnceInv /\ CauseInv)'
  BY RunInvNext, OpensOnceNext, CauseNext
<1>3. CauseInv => LadderHasCause
  BY DEF CauseInv, LadderHasCause, Told, AtTp
<1> QED
  BY <1>1, <1>2, <1>3, PTL DEF Spec

(***************************************************************************)
(* What a handler that manages asks of each leg                            *)
(***************************************************************************)
\* Only an open leg's stop is moved or position closed, only a pending leg's order is cancelled.
Asks(leg, o) ==
  \/ o.kind = "modify_sl" /\ leg.state = "OPEN" /\ o.sl # NoPrice
  \/ o.kind = "close" /\ leg.state = "OPEN"
  \/ o.kind = "cancel" /\ leg.state = "PENDING_ORDER"

\* The i-th line of out is the last one for the leg l, which was leg; a close is its only one.
LastAsked(leg, l, out, i) ==
  /\ out[i].leg = l
  /\ \A j \in 1..Len(out) : out[j].leg = l => j <= i /\ Asks(leg, out[j])
  /\ out[i].kind = "close" => leg.inflight_cmd = NoCmd /\ \A j \in 1..Len(out) : out[j].leg = l => j = i

Unasked(l, out) == \A i \in 1..Len(out) : out[i].leg # l

\* What the handler h made of the leg l, which was leg: it waits for the last line written for it, or for
\* nothing when the last line for it could not be written.
LegWorks(leg, l, h) ==
  \/ h.run.legs[l] = leg /\ Unasked(l, h.out)
  \/ /\ h.unwritable # {} /\ leg.state \in {"OPEN", "PENDING_ORDER"} /\ h.run.legs[l] = NoInflight(leg)
     /\ \A i \in 1..Len(h.out) : h.out[i].leg = l => Asks(leg, h.out[i])
  \/ \E i \in 1..Len(h.out) : LastAsked(leg, l, h.out, i) /\ h.run.legs[l] = Waiting(leg, h.out[i].n, h.out[i])

Increasing(cs) == \A i, j \in 1..Len(cs) : i < j => cs[i].n < cs[j].n

\* The handler h gives its lines new numbers, in their order.
Numbers(q, h) ==
  /\ h \in HandlerType
  /\ h.run.seq >= q /\ Increasing(h.out)
  /\ \A i \in 1..Len(h.out) : q < h.out[i].n /\ h.out[i].n <= h.run.seq

\* The handler h started from the run r.
Works(r, h) ==
  /\ r \in RunOK /\ h \in HandlerType
  /\ h.run.state = r.state
  /\ Numbers(r.seq, h)
  /\ \A l \in Legs : LegWorks(r.legs[l], l, h)

LEMMA WaitingFields ==
  ASSUME NEW leg \in LegType, NEW n, NEW o
  PROVE  /\ Waiting(leg, n, o).inflight_cmd = n /\ Waiting(leg, n, o).inflight_kind = o.kind
         /\ Waiting(leg, n, o).inflight_sl = o.sl /\ Waiting(leg, n, o).inflight_since = "off"
         /\ Waiting(leg, n, o).state = leg.state /\ Waiting(leg, n, o).sl_current = leg.sl_current
         /\ Waiting(leg, n, o).entry_price = leg.entry_price
         /\ Waiting(leg, n, o).missing_since = leg.missing_since
         /\ Waiting(leg, n, o).retry_after = leg.retry_after
  BY DEF Waiting, LegType

LEMMA NoInflightFields ==
  ASSUME NEW leg \in LegType
  PROVE  /\ NoInflight(leg).inflight_cmd = NoCmd /\ NoInflight(leg).inflight_kind = "none"
         /\ NoInflight(leg).inflight_sl = NoPrice /\ NoInflight(leg).inflight_since = "off"
         /\ NoInflight(leg).state = leg.state /\ NoInflight(leg).sl_current = leg.sl_current
         /\ NoInflight(leg).entry_price = leg.entry_price
         /\ NoInflight(leg).missing_since = leg.missing_since
         /\ NoInflight(leg).retry_after = leg.retry_after
  BY DEF NoInflight, LegType

\* Only the last command counts.
LEMMA WaitsForTheLast ==
  ASSUME NEW leg \in LegType, NEW n, NEW o, NEW m, NEW p
  PROVE  /\ Waiting(Waiting(leg, m, p), n, o) = Waiting(leg, n, o)
         /\ Waiting(NoInflight(leg), n, o) = Waiting(leg, n, o)
         /\ NoInflight(Waiting(leg, m, p)) = NoInflight(leg)
         /\ NoInflight(NoInflight(leg)) = NoInflight(leg)
         /\ p.kind \notin Opening => Unsent(leg, p) = NoInflight(leg)
<1>1. Waiting(Waiting(leg, m, p), n, o) = Waiting(leg, n, o)
  BY DEF Waiting, LegType
<1>2. NoInflight(NoInflight(leg)) = NoInflight(leg)
  BY DEF NoInflight, LegType
<1>4. Waiting(NoInflight(leg), n, o) = Waiting(leg, n, o)
  BY DEF NoInflight, Waiting, LegType
<1>5. NoInflight(Waiting(leg, m, p)) = NoInflight(leg)
  BY DEF NoInflight, Waiting, LegType
<1>3. ASSUME p.kind \notin Opening
      PROVE  Unsent(leg, p) = NoInflight(leg)
  BY <1>3 DEF Unsent, NoInflight, LegType
<1> QED
  BY <1>1, <1>2, <1>3, <1>4, <1>5

LEMMA WorksBegin ==
  ASSUME NEW r \in RunOK, NEW unwritable \in SUBSET Nat
  PROVE  /\ Works(r, Begin(r, unwritable)) /\ Begin(r, unwritable).out = << >>
         /\ Begin(r, unwritable).run.legs = r.legs
<1>1. Begin(r, unwritable) \in HandlerType
  <2>1. Good({}, {}, Begin(r, unwritable))
    BY BeginGood
  <2> QED
    BY <2>1 DEF Good
<1>2. Begin(r, unwritable).out = << >> /\ Begin(r, unwritable).run = r /\ r.seq \in Nat
  BY RunFields DEF Begin
<1> QED
  BY <1>1, <1>2 DEF Works, LegWorks, Unasked, Numbers, Increasing

LEMMA WorksStates ==
  ASSUME NEW r, NEW h, Works(r, h), NEW l \in Legs
  PROVE  h.run.legs[l].state = r.legs[l].state
<1>1. r.legs[l] \in LegType
  BY RunFields DEF Works
<1> QED
  BY <1>1, WaitingFields, NoInflightFields DEF Works, LegWorks

\* The lines of a handler that sends: those it had, and those of the legs that are written, in their order.
LEMMA SendLines ==
  ASSUME NEW h \in HandlerType, NEW S \in SUBSET Legs, NEW what \in [S -> Order]
  PROVE  LET t == Send(h, what)
             W == Written(h, S)
         IN /\ Len(t.out) = Len(h.out) + Cardinality(W) /\ Len(h.out) \in Nat
            /\ \A i \in 1..Len(h.out) : t.out[i] = h.out[i]
            /\ \A i \in 1..Len(t.out) : i > Len(h.out) =>
                 /\ t.out[i].leg \in W /\ Rank(W, t.out[i].leg) = i - Len(h.out)
                 /\ t.out[i] = Line(t.out[i].leg, h.run.seq + Rank(S, t.out[i].leg), what[t.out[i].leg])
                 /\ t.out[i].n = h.run.seq + Rank(S, t.out[i].leg)
<1> DEFINE t == Send(h, what)
           W == Written(h, S)
           m == Cardinality(W)
<1>0. h.out \in Seq(CommandType)
  BY DEF HandlerType
<1>4. m \in Nat
  BY WrittenIn, RankFacts
<1>5. PICK lines \in Seq(CommandType) :
        /\ t.out = h.out \o lines /\ Len(lines) = m
        /\ \A i \in 1..m : \E l \in W : Rank(W, l) = i /\ lines[i] = Line(l, h.run.seq + Rank(S, l), what[l])
  BY SendOK
<1> HIDE DEF t, W, m
<1>8. /\ Len(t.out) = Len(h.out) + m /\ Len(h.out) \in Nat
      /\ \A i \in 1..Len(h.out) : t.out[i] = h.out[i]
      /\ \A i \in 1..m : t.out[Len(h.out) + i] = lines[i]
  <2>1. h.out \in Seq(CommandType) /\ lines \in Seq(CommandType)
    BY <1>0
  <2>2. t.out = h.out \o lines /\ Len(lines) = m
    BY <1>5
  <2>3. Len(t.out) = Len(h.out) + m /\ Len(h.out) \in Nat
    <3>1. Len(h.out \o lines) = Len(h.out) + Len(lines) /\ Len(h.out) \in Nat
      BY <2>1
    <3> QED
      BY <2>2, <3>1
  <2>4. \A i \in 1..Len(h.out) : t.out[i] = h.out[i]
    BY <2>1, <2>2
  <2>5. \A i \in 1..m : t.out[Len(h.out) + i] = lines[i]
    BY <2>1, <2>2
  <2> QED
    BY <2>3, <2>4, <2>5
<1>9. ASSUME NEW i \in 1..Len(t.out), i > Len(h.out)
      PROVE  /\ t.out[i].leg \in W /\ Rank(W, t.out[i].leg) = i - Len(h.out)
             /\ t.out[i] = Line(t.out[i].leg, h.run.seq + Rank(S, t.out[i].leg), what[t.out[i].leg])
             /\ t.out[i].n = h.run.seq + Rank(S, t.out[i].leg)
  <2>0. Len(h.out) \in Nat /\ m \in Nat /\ Len(t.out) = Len(h.out) + m
    BY <1>4, <1>8
  <2>1. i - Len(h.out) \in 1..m /\ Len(h.out) + (i - Len(h.out)) = i
    BY <1>9, <2>0
  <2>2. PICK l \in W : /\ Rank(W, l) = i - Len(h.out)
                       /\ lines[i - Len(h.out)] = Line(l, h.run.seq + Rank(S, l), what[l])
    BY <1>5, <2>1
  <2>3. t.out[i] = Line(l, h.run.seq + Rank(S, l), what[l])
    BY <1>8, <2>1, <2>2
  <2>4. t.out[i].leg = l /\ t.out[i].n = h.run.seq + Rank(S, l)
    BY <2>3 DEF Line
  <2> QED
    BY <2>2, <2>3, <2>4
<1> QED
  BY <1>8, <1>9 DEF t, W, m

LEMMA SendNumbers ==
  ASSUME NEW q \in Nat, NEW h, Numbers(q, h), NEW S \in SUBSET Legs, NEW what \in [S -> Order]
  PROVE  Numbers(q, Send(h, what))
<1> DEFINE t == Send(h, what)
           W == Written(h, S)
           m == Cardinality(W)
<1>0. h \in HandlerType /\ h.run.seq \in Nat /\ h.out \in Seq(CommandType)
  BY RunFields DEF Numbers, HandlerType
<1>1. t \in HandlerType /\ t.run.seq = h.run.seq + Cardinality(S)
  BY <1>0, SendOK
<1>2. Cardinality(S) \in Nat /\ (\A l \in S : Rank(S, l) \in 1..Cardinality(S))
  BY RankFacts
<1>4. /\ W \in SUBSET S /\ m \in Nat
      /\ \A l \in W : Rank(W, l) \in 1..m
      /\ \A l, k \in W : Rank(W, l) = Rank(W, k) => l = k
      /\ \A l, k \in W : Rank(W, l) < Rank(W, k) => Rank(S, l) < Rank(S, k)
  <2>1. W \in SUBSET S /\ W \in SUBSET Legs
    BY WrittenIn
  <2> HIDE DEF W
  <2>2. /\ m \in Nat /\ \A l \in W : Rank(W, l) \in 1..m
        /\ \A l, k \in W : Rank(W, l) = Rank(W, k) => l = k
        /\ \A l, k \in W : Rank(W, l) < Rank(W, k) <=> l < k
    BY <2>1, RankFacts
  <2>3. \A l, k \in S : Rank(S, l) < Rank(S, k) <=> l < k
    BY RankFacts
  <2> QED
    BY <2>1, <2>2, <2>3
<1>8. /\ Len(t.out) = Len(h.out) + m /\ Len(h.out) \in Nat
      /\ \A i \in 1..Len(h.out) : t.out[i] = h.out[i]
  BY <1>0, SendLines
<1>9. ASSUME NEW i \in 1..Len(t.out), i > Len(h.out)
      PROVE  t.out[i].leg \in W /\ Rank(W, t.out[i].leg) = i - Len(h.out)
             /\ t.out[i].n = h.run.seq + Rank(S, t.out[i].leg)
  BY <1>0, <1>9, SendLines
<1> HIDE DEF t, W, m
<1>10. /\ h.run.seq >= q /\ Increasing(h.out)
       /\ \A i \in 1..Len(h.out) : q < h.out[i].n /\ h.out[i].n <= h.run.seq /\ h.out[i].n \in Nat
  <2>1. \A i \in 1..Len(h.out) : h.out[i].n \in Nat
    <3>1. \A i \in 1..Len(h.out) : h.out[i] \in CommandType
      BY <1>0
    <3> QED
      BY <3>1 DEF CommandType
  <2> QED
    BY <2>1 DEF Numbers
<1>11. Numbers(q, t)
  <2>1. ASSUME NEW i \in 1..Len(t.out)
        PROVE  q < t.out[i].n /\ t.out[i].n <= t.run.seq
    <3>1. CASE i <= Len(h.out)
      <4>1. i \in 1..Len(h.out) /\ t.out[i] = h.out[i]
        BY <1>8, <3>1
      <4>2. q < h.out[i].n /\ h.out[i].n <= h.run.seq /\ h.out[i].n \in Nat
        BY <1>10, <4>1
      <4>3. h.run.seq <= t.run.seq
        BY <1>0, <1>1, <1>2
      <4>4. t.run.seq \in Nat
        BY <1>0, <1>1, <1>2
      <4> QED
        BY <1>0, <4>1, <4>2, <4>3, <4>4
    <3>2. CASE i > Len(h.out)
      <4>1. t.out[i].leg \in S /\ t.out[i].n = h.run.seq + Rank(S, t.out[i].leg)
        BY <1>4, <1>9, <3>2
      <4>2. Rank(S, t.out[i].leg) \in 1..Cardinality(S)
        BY <1>2, <4>1
      <4>3. q <= h.run.seq /\ t.run.seq = h.run.seq + Cardinality(S) /\ Cardinality(S) \in Nat /\ h.run.seq \in Nat
        BY <1>0, <1>1, <1>2, <1>10
      <4> HIDE DEF t
      <4> QED
        BY <4>1, <4>2, <4>3
    <3> QED
      BY <1>8, <3>1, <3>2
  <2>2. ASSUME NEW i \in 1..Len(t.out), NEW j \in 1..Len(t.out), i < j
        PROVE  t.out[i].n < t.out[j].n
    <3>1. CASE j <= Len(h.out)
      <4>1. i \in 1..Len(h.out) /\ j \in 1..Len(h.out) /\ t.out[i] = h.out[i] /\ t.out[j] = h.out[j]
        BY <1>8, <2>2, <3>1
      <4> QED
        BY <1>10, <2>2, <4>1 DEF Increasing
    <3>2. CASE j > Len(h.out)
      <4>1. t.out[j].leg \in W /\ t.out[j].leg \in S /\ Rank(W, t.out[j].leg) = j - Len(h.out)
            /\ t.out[j].n = h.run.seq + Rank(S, t.out[j].leg)
        BY <1>4, <1>9, <3>2
      <4>2. Rank(S, t.out[j].leg) \in 1..Cardinality(S)
        BY <1>2, <4>1
      <4>3. CASE i <= Len(h.out)
        <5>1. i \in 1..Len(h.out) /\ t.out[i] = h.out[i]
          BY <1>8, <4>3
        <5>2. h.out[i].n <= h.run.seq /\ h.out[i].n \in Nat /\ h.run.seq \in Nat /\ Cardinality(S) \in Nat
          BY <1>0, <1>2, <1>10, <5>1
        <5>3. h.run.seq < t.out[j].n /\ t.out[j].n \in Nat
          BY <4>1, <4>2, <5>2
        <5>4. t.out[i].n <= h.run.seq /\ t.out[i].n \in Nat
          BY <5>1, <5>2
        <5> QED
          BY <5>2, <5>3, <5>4
      <4>4. CASE i > Len(h.out)
        <5>1. t.out[i].leg \in W /\ t.out[i].leg \in S /\ Rank(W, t.out[i].leg) = i - Len(h.out)
              /\ t.out[i].n = h.run.seq + Rank(S, t.out[i].leg)
          BY <1>4, <1>9, <4>4
        <5>2. Rank(S, t.out[i].leg) \in 1..Cardinality(S)
          BY <1>2, <5>1
        <5>3. Rank(W, t.out[i].leg) < Rank(W, t.out[j].leg)
          BY <1>8, <2>2, <4>1, <5>1
        <5>4. Rank(S, t.out[i].leg) < Rank(S, t.out[j].leg)
          BY <1>4, <4>1, <5>1, <5>3
        <5> QED
          BY <1>0, <1>2, <4>1, <4>2, <5>1, <5>2, <5>4
      <4> QED
        BY <1>8, <4>3, <4>4
    <3> QED
      BY <1>8, <3>1, <3>2
  <2>3. t.run.seq >= q
    BY <1>0, <1>1, <1>2, <1>10 DEF t
  <2>4. t \in HandlerType
    BY <1>1 DEF t
  <2> QED
    BY <2>1, <2>2, <2>3, <2>4 DEF Numbers, Increasing
<1> QED
  BY <1>11 DEF t

\* The handler has not sent anything to the leg l, which waits for nothing.
Untouched(r, h, l) == h.run.legs[l] = r.legs[l] /\ r.legs[l].inflight_cmd = NoCmd /\ Unasked(l, h.out)

LEMMA WorksSend ==
  ASSUME NEW r, NEW h, Works(r, h), NEW S \in SUBSET Legs, NEW what \in [S -> Order],
         \A l \in S : /\ Asks(h.run.legs[l], what[l])
                      /\ what[l].kind = "close" => Untouched(r, h, l)
  PROVE  Works(r, Send(h, what))
<1> DEFINE t == Send(h, what)
           W == Written(h, S)
           m == Cardinality(W)
<1>0. /\ r \in RunOK /\ h \in HandlerType /\ h.run.seq \in Nat /\ r.seq \in Nat /\ h.out \in Seq(CommandType)
      /\ h.unwritable \in SUBSET Nat /\ h.run.state = r.state
      /\ \A l \in Legs : r.legs[l] \in LegType /\ h.run.legs[l] \in LegType
  BY RunFields DEF Works, HandlerType
<1>1. /\ t \in HandlerType /\ t.unwritable = h.unwritable /\ t.run.state = r.state
      /\ t.run.seq = h.run.seq + Cardinality(S) /\ \A l \in Legs \ S : t.run.legs[l] = h.run.legs[l]
  BY <1>0, SendOK
<1>2. Cardinality(S) \in Nat /\ (\A l \in S : Rank(S, l) \in 1..Cardinality(S))
      /\ (\A l, k \in S : Rank(S, l) = Rank(S, k) => l = k)
  BY RankFacts
<1>3. \A l \in S : Asks(r.legs[l], what[l]) /\ what[l].kind \notin Opening /\ l \in Legs
  <2>1. \A l \in S : h.run.legs[l].state = r.legs[l].state
    BY WorksStates
  <2> QED
    BY <2>1 DEF Asks, Opening
<1>4. /\ W \in SUBSET S /\ m \in Nat
      /\ \A l \in W : Rank(W, l) \in 1..m
      /\ \A l, k \in W : Rank(W, l) = Rank(W, k) => l = k
      /\ \A l, k \in W : Rank(W, l) < Rank(W, k) => Rank(S, l) < Rank(S, k)
  <2>1. W \in SUBSET S /\ W \in SUBSET Legs
    BY WrittenIn
  <2> HIDE DEF W
  <2>2. /\ m \in Nat /\ \A l \in W : Rank(W, l) \in 1..m
        /\ \A l, k \in W : Rank(W, l) = Rank(W, k) => l = k
        /\ \A l, k \in W : Rank(W, l) < Rank(W, k) <=> l < k
    BY <2>1, RankFacts
  <2>3. \A l, k \in S : Rank(S, l) < Rank(S, k) <=> l < k
    BY RankFacts
  <2> QED
    BY <2>1, <2>2, <2>3
<1>6. /\ \A l \in W : t.run.legs[l] = Waiting(h.run.legs[l], h.run.seq + Rank(S, l), what[l])
      /\ \A l \in S \ W : t.run.legs[l] = NoInflight(h.run.legs[l])
  <2>1. /\ \A l \in W : t.run.legs[l] = Waiting(h.run.legs[l], h.run.seq + Rank(S, l), what[l])
        /\ \A l \in S \ W : t.run.legs[l] = Unsent(h.run.legs[l], what[l])
    BY <1>0, SendOK
  <2> HIDE DEF t, W
  <2>2. ASSUME NEW l \in S \ W
        PROVE  t.run.legs[l] = NoInflight(h.run.legs[l])
    <3>1. h.run.legs[l] \in LegType /\ what[l].kind \notin Opening
      BY <1>0, <1>3
    <3> QED
      BY <2>1, <3>1, WaitsForTheLast
  <2> QED
    BY <2>1, <2>2
<1>7. S \ W # {} => h.unwritable # {}
  BY DEF Written
<1>8. /\ Len(t.out) = Len(h.out) + m /\ Len(h.out) \in Nat
      /\ \A i \in 1..Len(h.out) : t.out[i] = h.out[i]
  BY <1>0, SendLines
<1>9. ASSUME NEW i \in 1..Len(t.out), i > Len(h.out)
      PROVE  /\ t.out[i].leg \in W /\ Rank(W, t.out[i].leg) = i - Len(h.out)
             /\ t.out[i] = Line(t.out[i].leg, h.run.seq + Rank(S, t.out[i].leg), what[t.out[i].leg])
             /\ t.out[i].n = h.run.seq + Rank(S, t.out[i].leg)
  BY <1>0, <1>9, SendLines
<1>11. Numbers(r.seq, t)
  BY <1>0, SendNumbers DEF Works
<1> HIDE DEF t, W, m
<1>12. ASSUME NEW l \in Legs
       PROVE  /\ LegWorks(r.legs[l], l, h)
              /\ \A j \in 1..Len(h.out) : h.out[j].leg = l => Asks(r.legs[l], h.out[j])
              /\ \A n, o : Waiting(h.run.legs[l], n, o) = Waiting(r.legs[l], n, o)
              /\ NoInflight(h.run.legs[l]) = NoInflight(r.legs[l])
  <2>1. LegWorks(r.legs[l], l, h)
    BY DEF Works
  <2>2. \A j \in 1..Len(h.out) : h.out[j].leg = l => Asks(r.legs[l], h.out[j])
    BY <2>1 DEF LegWorks, Unasked, LastAsked
  <2>3. \/ h.run.legs[l] = r.legs[l] \/ h.run.legs[l] = NoInflight(r.legs[l])
        \/ \E k, p : h.run.legs[l] = Waiting(r.legs[l], k, p)
    BY <2>1 DEF LegWorks
  <2>4. r.legs[l] \in LegType
    BY <1>0
  <2>5. /\ \A n, o : Waiting(h.run.legs[l], n, o) = Waiting(r.legs[l], n, o)
        /\ NoInflight(h.run.legs[l]) = NoInflight(r.legs[l])
    <3>1. CASE h.run.legs[l] = r.legs[l]
      BY <3>1
    <3>2. CASE h.run.legs[l] = NoInflight(r.legs[l])
      BY <2>4, <3>2, WaitsForTheLast
    <3>3. ASSUME NEW k, NEW p, h.run.legs[l] = Waiting(r.legs[l], k, p)
          PROVE  /\ \A n, o : Waiting(h.run.legs[l], n, o) = Waiting(r.legs[l], n, o)
                 /\ NoInflight(h.run.legs[l]) = NoInflight(r.legs[l])
      <4>1. \A n, o : Waiting(Waiting(r.legs[l], k, p), n, o) = Waiting(r.legs[l], n, o)
        BY <2>4, WaitsForTheLast
      <4>2. NoInflight(Waiting(r.legs[l], k, p)) = NoInflight(r.legs[l])
        BY <2>4 DEF NoInflight, Waiting, LegType
      <4> QED
        BY <3>3, <4>1, <4>2
    <3> QED
      BY <2>3, <3>1, <3>2, <3>3
  <2> QED
    BY <2>1, <2>2, <2>5
<1>13. ASSUME NEW l \in Legs, l \notin W
       PROVE  \A i \in 1..Len(t.out) : t.out[i].leg = l => i \in 1..Len(h.out) /\ t.out[i] = h.out[i]
  BY <1>8, <1>9, <1>13
<1>14. ASSUME NEW l \in Legs, l \notin S
       PROVE  LegWorks(r.legs[l], l, t)
  <2>1. t.run.legs[l] = h.run.legs[l] /\ l \notin W /\ t.unwritable = h.unwritable
    BY <1>1, <1>4, <1>14 DEF t
  <2>2. \A i \in 1..Len(t.out) : t.out[i].leg = l => i \in 1..Len(h.out) /\ t.out[i] = h.out[i]
    BY <1>13, <2>1
  <2>3. CASE h.run.legs[l] = r.legs[l] /\ Unasked(l, h.out)
    BY <2>1, <2>2, <2>3 DEF LegWorks, Unasked
  <2>4. CASE /\ h.unwritable # {} /\ r.legs[l].state \in {"OPEN", "PENDING_ORDER"}
             /\ h.run.legs[l] = NoInflight(r.legs[l])
    BY <1>12, <2>1, <2>2, <2>4 DEF LegWorks
  <2>5. ASSUME NEW i \in 1..Len(h.out), LastAsked(r.legs[l], l, h.out, i),
               h.run.legs[l] = Waiting(r.legs[l], h.out[i].n, h.out[i])
        PROVE  LegWorks(r.legs[l], l, t)
    <3>1. i \in 1..Len(t.out) /\ t.out[i] = h.out[i]
      BY <1>4, <1>8
    <3>2. LastAsked(r.legs[l], l, t.out, i)
      BY <2>2, <2>5, <3>1 DEF LastAsked
    <3> QED
      BY <2>1, <2>5, <3>1, <3>2 DEF LegWorks
  <2> QED
    BY <1>12, <2>3, <2>4, <2>5 DEF LegWorks
<1>15. ASSUME NEW l \in S \ W
       PROVE  LegWorks(r.legs[l], l, t)
  <2>1. /\ l \in Legs /\ l \notin W /\ t.run.legs[l] = NoInflight(h.run.legs[l]) /\ t.unwritable # {}
        /\ r.legs[l].state \in {"OPEN", "PENDING_ORDER"}
    BY <1>1, <1>3, <1>6, <1>7 DEF t, Asks
  <2>2. \A i \in 1..Len(t.out) : t.out[i].leg = l => i \in 1..Len(h.out) /\ t.out[i] = h.out[i]
    BY <1>13, <2>1
  <2>3. t.run.legs[l] = NoInflight(r.legs[l])
    BY <1>12, <2>1
  <2>4. \A i \in 1..Len(t.out) : t.out[i].leg = l => Asks(r.legs[l], t.out[i])
    BY <1>12, <2>1, <2>2
  <2> QED
    BY <2>1, <2>3, <2>4 DEF LegWorks
<1>16. ASSUME NEW l \in W
       PROVE  LegWorks(r.legs[l], l, t)
  <2> DEFINE i == Len(h.out) + Rank(W, l)
  <2>1. i \in 1..Len(t.out) /\ i > Len(h.out) /\ l \in Legs /\ l \in S /\ i - Len(h.out) = Rank(W, l)
    BY <1>4, <1>8
  <2>2. /\ t.out[i].leg = l /\ t.out[i] = Line(l, h.run.seq + Rank(S, l), what[l])
        /\ t.out[i].n = h.run.seq + Rank(S, l)
    <3> HIDE DEF i
    <3>1. t.out[i].leg \in W /\ Rank(W, t.out[i].leg) = Rank(W, l)
      BY <1>9, <2>1
    <3>2. t.out[i].leg = l
      BY <1>4, <3>1
    <3> QED
      BY <1>9, <2>1, <3>2
  <2>3. \A j \in 1..Len(t.out) : j > Len(h.out) /\ t.out[j].leg = l => j = i
    BY <1>4, <1>8, <1>9
  <2>4. \A j \in 1..Len(h.out) : t.out[j] = h.out[j]
    BY <1>8
  <2> HIDE DEF i
  <2>5. t.out[i].kind = what[l].kind /\ t.out[i].sl = what[l].sl
    BY <2>2 DEF Line
  <2>6. t.run.legs[l] = Waiting(r.legs[l], t.out[i].n, t.out[i])
    <3>1. t.run.legs[l] = Waiting(r.legs[l], t.out[i].n, what[l])
      BY <1>6, <1>12, <2>1, <2>2
    <3>2. \A leg, n : Waiting(leg, n, what[l]) = Waiting(leg, n, t.out[i])
      BY <2>5 DEF Waiting
    <3> QED
      BY <3>1, <3>2
  <2>7. Asks(r.legs[l], t.out[i])
    BY <1>3, <2>1, <2>5 DEF Asks
  <2>8. \A j \in 1..Len(h.out) : h.out[j].leg = l => Asks(r.legs[l], h.out[j])
    BY <1>12, <2>1
  <2>9. \A j \in 1..Len(t.out) : t.out[j].leg = l => j <= i /\ Asks(r.legs[l], t.out[j])
    <3> SUFFICES ASSUME NEW j \in 1..Len(t.out), t.out[j].leg = l PROVE j <= i /\ Asks(r.legs[l], t.out[j])
      OBVIOUS
    <3>1. CASE j > Len(h.out)
      BY <2>1, <2>3, <2>7, <3>1
    <3>2. CASE j <= Len(h.out)
      <4>1. j \in 1..Len(h.out)
        BY <1>8, <3>2
      <4>2. j <= i
        BY <1>8, <2>1, <4>1
      <4> QED
        BY <2>4, <2>8, <4>1, <4>2
    <3> QED
      BY <1>8, <3>1, <3>2
  <2>10. ASSUME t.out[i].kind = "close"
         PROVE  r.legs[l].inflight_cmd = NoCmd /\ \A j \in 1..Len(t.out) : t.out[j].leg = l => j = i
    <3>1. Untouched(r, h, l)
      BY <2>1, <2>5, <2>10
    <3>2. \A j \in 1..Len(t.out) : t.out[j].leg = l => j > Len(h.out)
      BY <1>8, <2>4, <3>1 DEF Untouched, Unasked
    <3> QED
      BY <2>3, <3>1, <3>2 DEF Untouched
  <2>11. LastAsked(r.legs[l], l, t.out, i)
    BY <2>2, <2>9, <2>10 DEF LastAsked
  <2> QED
    BY <2>1, <2>6, <2>11 DEF LegWorks
<1>17. \A l \in Legs : LegWorks(r.legs[l], l, t)
  BY <1>14, <1>15, <1>16
<1> QED
  BY <1>0, <1>1, <1>11, <1>17 DEF Works, t

LEMMA WorksFlags ==
  ASSUME NEW r, NEW h, Works(r, h)
  PROVE  /\ Works(r, [h EXCEPT !.run.be_applied = TRUE])
         /\ Works(r, [h EXCEPT !.run.tp1_applied = TRUE])
         /\ Works(r, [h EXCEPT !.run.pendings_cancelled = TRUE])
<1>1. ASSUME NEW s \in RunOK, s.legs = h.run.legs, s.seq = h.run.seq, s.state = h.run.state
      PROVE  Works(r, [h EXCEPT !.run = s])
  <2> DEFINE t == [h EXCEPT !.run = s]
  <2>1. h \in HandlerType
    BY DEF Works
  <2>2. t \in HandlerType /\ t.run = s /\ t.out = h.out /\ t.unwritable = h.unwritable
    BY <1>1, <2>1 DEF HandlerType
  <2> HIDE DEF t
  <2>3. \A l \in Legs : LegWorks(r.legs[l], l, t)
    BY <1>1, <2>2 DEF Works, LegWorks
  <2>4. Numbers(r.seq, t)
    BY <1>1, <2>2 DEF Works, Numbers
  <2> QED
    BY <1>1, <2>2, <2>3, <2>4 DEF Works, t
<1>2. h.run \in RunOK /\ h.run \in RunType
  BY RunFields DEF Works, HandlerType
<1>3. /\ [h.run EXCEPT !.be_applied = TRUE] \in RunOK /\ [h.run EXCEPT !.tp1_applied = TRUE] \in RunOK
      /\ [h.run EXCEPT !.pendings_cancelled = TRUE] \in RunOK
  BY <1>2, FlagsOK
<1>4. Works(r, [h EXCEPT !.run = [h.run EXCEPT !.be_applied = TRUE]])
  <2> DEFINE s == [h.run EXCEPT !.be_applied = TRUE]
  <2>1. s \in RunOK /\ s.legs = h.run.legs /\ s.seq = h.run.seq /\ s.state = h.run.state
    BY <1>2, <1>3 DEF RunType
  <2> HIDE DEF s
  <2> QED
    BY <1>1, <2>1 DEF s
<1>5. Works(r, [h EXCEPT !.run = [h.run EXCEPT !.tp1_applied = TRUE]])
  <2> DEFINE s == [h.run EXCEPT !.tp1_applied = TRUE]
  <2>1. s \in RunOK /\ s.legs = h.run.legs /\ s.seq = h.run.seq /\ s.state = h.run.state
    BY <1>2, <1>3 DEF RunType
  <2> HIDE DEF s
  <2> QED
    BY <1>1, <2>1 DEF s
<1>6. Works(r, [h EXCEPT !.run = [h.run EXCEPT !.pendings_cancelled = TRUE]])
  <2> DEFINE s == [h.run EXCEPT !.pendings_cancelled = TRUE]
  <2>1. s \in RunOK /\ s.legs = h.run.legs /\ s.seq = h.run.seq /\ s.state = h.run.state
    BY <1>2, <1>3 DEF RunType
  <2> HIDE DEF s
  <2> QED
    BY <1>1, <2>1 DEF s
<1> QED
  BY <1>4, <1>5, <1>6

LEMMA WorksCancel ==
  ASSUME NEW r, NEW h, Works(r, h), NEW S, S \subseteq In(h.run, {"PENDING_ORDER"})
  PROVE  Works(r, Send(h, To(S, "cancel")))
<1> DEFINE what == To(S, "cancel")
<1>1. S \in SUBSET Legs /\ what \in [S -> Order]
  BY DEF In, To, Order, Kinds
<1>2. \A l \in S : Asks(h.run.legs[l], what[l]) /\ what[l].kind # "close"
  BY DEF In, To, Asks
<1> HIDE DEF what
<1> QED
  BY <1>1, <1>2, WorksSend DEF what

LEMMA WorksClose ==
  ASSUME NEW r, NEW h, Works(r, h), h.out = << >>, h.run.legs = r.legs,
         NEW S, S \subseteq In(h.run, {"OPEN"}), S \subseteq Idle(h.run)
  PROVE  Works(r, Send(h, To(S, "close")))
<1> DEFINE what == To(S, "close")
<1>1. S \in SUBSET Legs /\ what \in [S -> Order]
  BY DEF In, To, Order, Kinds
<1>2. \A l \in S : Asks(h.run.legs[l], what[l]) /\ Untouched(r, h, l)
  BY DEF In, To, Asks, Idle, Untouched, Unasked
<1> HIDE DEF what
<1> QED
  BY <1>1, <1>2, WorksSend DEF what

LEMMA WorksModify ==
  ASSUME NEW r, NEW h, Works(r, h), NEW S, S \subseteq In(h.run, {"OPEN"}), NEW sl, \A l \in S : sl[l] \in Prices
  PROVE  Works(r, Modify(h, S, sl))
<1> DEFINE T == {k \in S : SlImproves(sl[k], h.run.legs[k].sl_current)}
           what == [l \in T |-> [kind |-> "modify_sl", sl |-> sl[l]]]
<1>1. T \in SUBSET Legs /\ what \in [T -> Order]
  BY PriceFacts DEF In, Order, Kinds
<1>2. \A l \in T : Asks(h.run.legs[l], what[l]) /\ what[l].kind # "close"
  BY PriceFacts DEF In, Asks
<1>3. Modify(h, S, sl) = Send(h, what)
  BY DEF Modify
<1> HIDE DEF what, T
<1> QED
  BY <1>1, <1>2, <1>3, WorksSend

LEMMA WorksCloseEverything ==
  ASSUME NEW r, NEW h, Works(r, h), h.out = << >>, h.run.legs = r.legs
  PROVE  Works(r, CloseEverything(h))
<1> DEFINE T == In(h.run, {"OPEN", "PENDING_ORDER"}) \intersect MayRetry(h.run)
           kind == [l \in T |-> IF h.run.legs[l].state = "OPEN" THEN "close" ELSE "cancel"]
           what == [l \in T |-> [kind |-> kind[l], sl |-> NoPrice]]
<1>1. T \in SUBSET Legs /\ what \in [T -> Order]
  BY DEF Order, Kinds, In
<1>2. \A l \in T : Asks(h.run.legs[l], what[l]) /\ Untouched(r, h, l)
  <2>1. \A l \in T : l \in Idle(h.run) /\ l \in In(h.run, {"OPEN", "PENDING_ORDER"})
    BY DEF MayRetry
  <2>2. \A l \in T : what[l].kind = IF h.run.legs[l].state = "OPEN" THEN "close" ELSE "cancel"
    OBVIOUS
  <2> HIDE DEF T, what
  <2>3. \A l \in T : Asks(h.run.legs[l], what[l])
    BY <2>1, <2>2 DEF In, Asks
  <2>4. \A l \in T : Untouched(r, h, l)
    BY <2>1 DEF Idle, Untouched, Unasked
  <2> QED
    BY <2>3, <2>4
<1>3. CloseEverything(h) = Send(h, what)
  BY DEF CloseEverything
<1> HIDE DEF what, T
<1> QED
  BY <1>1, <1>2, <1>3, WorksSend

LEMMA EntryOfRun ==
  ASSUME NEW r, NEW h, Works(r, h), NEW l \in Legs, h.run.legs[l].entry_price # NoPrice
  PROVE  h.run.legs[l].entry_price \in Prices
<1>1. h.run.legs[l] \in LegType
  BY RunFields DEF Works, HandlerType
<1> QED
  BY <1>1 DEF LegType

LEMMA WorksLadder ==
  ASSUME NEW r, NEW h, Works(r, h)
  PROVE  /\ Works(r, BreakEvenAfterTp2(h)) /\ Works(r, SlToTp1AfterTp3(h)) /\ Works(r, CancelAfterSl(h))
         /\ Works(r, ExpiryBackstop(h))
<1>1. Works(r, BreakEvenAfterTp2(h))
  <2> DEFINE S == {l \in In(h.run, {"OPEN"}) : l > 2 /\ h.run.legs[l].entry_price # NoPrice}
             sl == [l \in Legs |-> h.run.legs[l].entry_price]
  <2>1. S \subseteq In(h.run, {"OPEN"}) /\ \A l \in S : sl[l] \in Prices
    BY InLegs, EntryOfRun
  <2> HIDE DEF S, sl
  <2>2. Works(r, Modify(h, S, sl))
    BY <2>1, WorksModify
  <2>3. Works(r, [Modify(h, S, sl) EXCEPT !.run.be_applied = TRUE])
    BY <2>2, WorksFlags
  <2> QED
    BY <2>3 DEF BreakEvenAfterTp2, S, sl
<1>2. Works(r, SlToTp1AfterTp3(h))
  <2> DEFINE S == {l \in In(h.run, {"OPEN"}) : l > 3}
             sl == [l \in Legs |-> Tp1]
  <2>1. S \subseteq In(h.run, {"OPEN"}) /\ \A l \in S : sl[l] \in Prices
    BY InLegs, PriceFacts
  <2> HIDE DEF S, sl
  <2>2. Works(r, Modify(h, S, sl))
    BY <2>1, WorksModify
  <2>3. Works(r, [Modify(h, S, sl) EXCEPT !.run.tp1_applied = TRUE])
    BY <2>2, WorksFlags
  <2> QED
    BY <2>3 DEF SlToTp1AfterTp3, S, sl
<1>3. Works(r, CancelAfterSl(h))
  <2> DEFINE S == In(h.run, {"PENDING_ORDER"})
  <2>1. Works(r, Send(h, To(S, "cancel")))
    BY WorksCancel
  <2>2. Works(r, [Send(h, To(S, "cancel")) EXCEPT !.run.pendings_cancelled = TRUE])
    BY <2>1, WorksFlags
  <2> QED
    BY <2>2 DEF CancelAfterSl
<1>4. Works(r, ExpiryBackstop(h))
  <2>1. Works(r, Send(h, To(In(h.run, {"PENDING_ORDER"}) \intersect MayRetry(h.run), "cancel")))
    BY WorksCancel
  <2> QED
    BY <2>1 DEF ExpiryBackstop
<1> QED
  BY <1>1, <1>2, <1>3, <1>4

LEMMA WorksApplyAction ==
  ASSUME NEW r, NEW h, Works(r, h), h.out = << >>, h.run.legs = r.legs, NEW action \in ActionKinds, NEW price \in MovePrices, NEW quote
  PROVE  Works(r, ApplyAction(h, action, price, quote))
<1>1. Works(r, CloseAll(h))
  <2> DEFINE closing == Send(h, To(In(h.run, {"OPEN"}) \intersect Idle(h.run), "close"))
             S == In(closing.run, {"PENDING_ORDER"}) \intersect Idle(closing.run)
             U == In(h.run, {"PENDING_ORDER"}) \intersect Idle(h.run)
  <2>1. Works(r, closing)
    BY WorksClose
  <2>2. U \subseteq In(closing.run, {"PENDING_ORDER"})
    <3>1. \A l \in Legs : closing.run.legs[l].state = h.run.legs[l].state
      BY <2>1, WorksStates
    <3> HIDE DEF closing
    <3> QED
      BY <3>1 DEF In
  <2> HIDE DEF closing, U
  <2>3. Works(r, Send(closing, To(U, "cancel")))
    BY <2>1, <2>2, WorksCancel
  <2>4. Works(r, [Send(closing, To(U, "cancel")) EXCEPT !.run.pendings_cancelled = TRUE])
    BY <2>3, WorksFlags
  <2> QED
    BY <2>4 DEF CloseAll, closing, U
<1>2. Works(r, CancelPending(h))
  <2> DEFINE U == In(h.run, {"PENDING_ORDER"}) \intersect Idle(h.run)
  <2>1. Works(r, Send(h, To(U, "cancel")))
    BY WorksCancel
  <2>2. Works(r, [Send(h, To(U, "cancel")) EXCEPT !.run.pendings_cancelled = TRUE])
    BY <2>1, WorksFlags
  <2> QED
    BY <2>2 DEF CancelPending
<1>3. Works(r, BreakEven(h))
  <2> DEFINE S == {l \in In(h.run, {"OPEN"}) : h.run.legs[l].entry_price # NoPrice}
             sl == [l \in Legs |-> h.run.legs[l].entry_price]
  <2>1. S \subseteq In(h.run, {"OPEN"}) /\ \A l \in S : sl[l] \in Prices
    BY InLegs, EntryOfRun
  <2> HIDE DEF S, sl
  <2>2. Works(r, Modify(h, S, sl))
    BY <2>1, WorksModify
  <2> QED
    BY <2>2 DEF BreakEven, S, sl
<1>4. Works(r, MoveSl(h, price, quote))
  <2> DEFINE S == In(h.run, {"OPEN"})
             sl == [l \in Legs |-> price]
  <2>1. \A l \in S : sl[l] \in Prices
    BY InLegs, PriceFacts
  <2> HIDE DEF sl
  <2>2. Works(r, Modify(h, S, sl))
    BY <2>1, WorksModify
  <2> QED
    BY <2>2 DEF MoveSl, sl
<1> QED
  BY <1>1, <1>2, <1>3, <1>4 DEF ApplyAction, ActionKinds

\* What sync_run saves is what it makes of the run it observed, with the run's state computed anew.
LEMMA WorksSyncRun ==
  ASSUME NEW r \in RunOK, NEW snapshot \in [Legs -> Entries], NEW unwritable \in SUBSET Nat
  PROVE  LET h == SyncRun(Begin(r, unwritable), snapshot)
         IN \E acted : /\ Works(Observe(r, snapshot), acted)
                       /\ h.out = acted.out /\ h.unwritable = acted.unwritable /\ h.run = Recompute(acted.run)
<1> DEFINE b == Begin(r, unwritable)
           seen == [b EXCEPT !.run = Observe(@, snapshot)]
           laddered == ExpiryBackstop(Ladder(seen))
           acted == IF seen.run.close_requested THEN CloseEverything(seen) ELSE laddered
           s == Observe(r, snapshot)
<1>1. seen = Begin(s, unwritable)
  BY DEF Begin
<1>2. Works(s, seen) /\ seen.out = << >> /\ seen.run.legs = s.legs
  <2>1. s \in RunOK
    BY ObserveOK
  <2> HIDE DEF s, seen
  <2>2. Works(s, Begin(s, unwritable)) /\ Begin(s, unwritable).out = << >> /\ Begin(s, unwritable).run.legs = s.legs
    BY <2>1, WorksBegin
  <2> QED
    BY <1>1, <2>2
<1>3. SyncRun(b, snapshot) = [acted EXCEPT !.run = Recompute(@)]
  BY DEF SyncRun
<1> HIDE DEF seen, b
<1>4. Works(s, laddered)
  BY <1>2, WorksLadder DEF Ladder
<1>5. Works(s, CloseEverything(seen))
  BY <1>2, WorksCloseEverything
<1> HIDE DEF laddered
<1>7. Works(s, acted)
  BY <1>4, <1>5
<1> HIDE DEF acted
<1>8. acted \in HandlerType
  BY <1>7 DEF Works
<1>9. /\ [acted EXCEPT !.run = Recompute(@)].run = Recompute(acted.run)
      /\ [acted EXCEPT !.run = Recompute(@)].out = acted.out
      /\ [acted EXCEPT !.run = Recompute(@)].unwritable = acted.unwritable
  BY <1>8 DEF HandlerType
<1> QED
  BY <1>3, <1>7, <1>9 DEF b

(***************************************************************************)
(* What the trader's readings make of a leg                                *)
(***************************************************************************)
LEMMA FailedFields ==
  ASSUME NEW leg \in LegType
  PROVE  /\ Failed(leg).inflight_cmd = NoCmd /\ Failed(leg).inflight_kind = "none" /\ Failed(leg).inflight_since = "off"
         /\ Failed(leg).sl_current = leg.sl_current /\ Failed(leg).missing_since = leg.missing_since
         /\ Failed(leg).state = IF leg.inflight_kind \in Opening THEN "CANCELLED" ELSE leg.state
  BY DEF Failed, NoInflight, LegType

LEMMA SucceededFields ==
  ASSUME NEW leg \in LegOK, leg.inflight_cmd # NoCmd, NEW price
  PROVE  /\ Succeeded(leg, price).inflight_cmd = NoCmd /\ Succeeded(leg, price).inflight_kind = "none"
         /\ Succeeded(leg, price).inflight_since = "off" /\ Succeeded(leg, price).missing_since = leg.missing_since
         /\ leg.inflight_kind \in Kinds
         /\ leg.inflight_kind = "open_market" =>
              Succeeded(leg, price).state = "OPEN" /\ Succeeded(leg, price).sl_current = leg.sl_current
         /\ leg.inflight_kind = "open_pending" =>
              Succeeded(leg, price).state = "PENDING_ORDER" /\ Succeeded(leg, price).sl_current = leg.sl_current
         /\ leg.inflight_kind = "modify_sl" =>
              Succeeded(leg, price).state = leg.state /\ Succeeded(leg, price).sl_current = leg.inflight_sl
         /\ leg.inflight_kind = "close" => Succeeded(leg, price).state = "CLOSED_MANUAL"
         /\ leg.inflight_kind = "cancel" => Succeeded(leg, price).state = "CANCELLED"
<1> DEFINE done == [NoInflight(leg) EXCEPT !.retry_after = "off"]
<1>1. leg \in LegType /\ leg.inflight_kind \in Kinds
  BY DEF LegOK, LegType
<1>2. done \in LegType
  BY <1>1 DEF LegType, NoInflight, Timers, NoCmd, NoPrice
<1>3. /\ done.inflight_cmd = NoCmd /\ done.inflight_kind = "none" /\ done.inflight_since = "off"
      /\ done.missing_since = leg.missing_since /\ done.state = leg.state /\ done.sl_current = leg.sl_current
  BY <1>1 DEF LegType, NoInflight
<1>4. Succeeded(leg, price) =
        CASE leg.inflight_kind = "open_market"  -> [done EXCEPT !.state = "OPEN", !.entry_price = price]
          [] leg.inflight_kind = "open_pending" -> [done EXCEPT !.state = "PENDING_ORDER"]
          [] leg.inflight_kind = "modify_sl"    -> [done EXCEPT !.sl_current = leg.inflight_sl]
          [] leg.inflight_kind = "close"        -> [done EXCEPT !.state = "CLOSED_MANUAL"]
          [] leg.inflight_kind = "cancel"       -> [done EXCEPT !.state = "CANCELLED"]
  BY DEF Succeeded
<1> HIDE DEF done
<1>5. CASE leg.inflight_kind = "open_market"
  <2>1. Succeeded(leg, price) = [done EXCEPT !.state = "OPEN", !.entry_price = price]
    BY <1>4, <1>5
  <2> QED
    BY <1>1, <1>2, <1>3, <1>5, <2>1 DEF LegType
<1>6. CASE leg.inflight_kind = "open_pending"
  <2>1. Succeeded(leg, price) = [done EXCEPT !.state = "PENDING_ORDER"]
    BY <1>4, <1>6
  <2> QED
    BY <1>1, <1>2, <1>3, <1>6, <2>1 DEF LegType
<1>7. CASE leg.inflight_kind = "modify_sl"
  <2>1. Succeeded(leg, price) = [done EXCEPT !.sl_current = leg.inflight_sl]
    BY <1>4, <1>7
  <2> QED
    BY <1>1, <1>2, <1>3, <1>7, <2>1 DEF LegType
<1>8. CASE leg.inflight_kind = "close"
  <2>1. Succeeded(leg, price) = [done EXCEPT !.state = "CLOSED_MANUAL"]
    BY <1>4, <1>8
  <2> QED
    BY <1>1, <1>2, <1>3, <1>8, <2>1 DEF LegType
<1>9. CASE leg.inflight_kind = "cancel"
  <2>1. Succeeded(leg, price) = [done EXCEPT !.state = "CANCELLED"]
    BY <1>4, <1>9
  <2> QED
    BY <1>1, <1>2, <1>3, <1>9, <2>1 DEF LegType
<1> QED
  BY <1>1, <1>5, <1>6, <1>7, <1>8, <1>9 DEF Kinds, Opening

\* A leg gives up waiting only when the answer is overdue, and never for an opening.
LEMMA ExpireFields ==
  ASSUME NEW leg \in LegType
  PROVE  /\ ExpireInflight(leg).state = leg.state /\ ExpireInflight(leg).sl_current = leg.sl_current
         /\ ExpireInflight(leg).missing_since = leg.missing_since
         /\ \/ /\ ExpireInflight(leg).inflight_cmd = leg.inflight_cmd
               /\ ExpireInflight(leg).inflight_kind = leg.inflight_kind
               /\ ExpireInflight(leg).inflight_sl = leg.inflight_sl
               /\ ExpireInflight(leg).inflight_since = "due" => leg.inflight_since = "due"
            \/ /\ leg.inflight_cmd # NoCmd /\ leg.inflight_since = "due" /\ leg.inflight_kind \notin Opening
               /\ ExpireInflight(leg).inflight_cmd = NoCmd /\ ExpireInflight(leg).inflight_kind = "none"
<1> DEFINE on == [leg EXCEPT !.inflight_since = "on"]
           over == [NoInflight(leg) EXCEPT !.retry_after = "on"]
<1>1. /\ on.state = leg.state /\ on.sl_current = leg.sl_current /\ on.missing_since = leg.missing_since
      /\ on.inflight_cmd = leg.inflight_cmd /\ on.inflight_kind = leg.inflight_kind
      /\ on.inflight_sl = leg.inflight_sl /\ on.inflight_since = "on"
  BY DEF LegType
<1>2. /\ over.state = leg.state /\ over.sl_current = leg.sl_current /\ over.missing_since = leg.missing_since
      /\ over.inflight_cmd = NoCmd /\ over.inflight_kind = "none"
  BY DEF LegType, NoInflight
<1>3. leg.inflight_since \in {"off", "on", "due"}
  BY DEF LegType, Timers
<1>4. ExpireInflight(leg) = IF leg.inflight_cmd = NoCmd \/ leg.inflight_kind \in Opening THEN leg
                            ELSE IF leg.inflight_since = "off" THEN on
                            ELSE IF leg.inflight_since = "on" THEN leg ELSE over
  BY DEF ExpireInflight
<1> HIDE DEF on, over
<1> QED
  BY <1>1, <1>2, <1>3, <1>4

\* What state.json tells of a leg that does not wait.
LEMMA DetectFields ==
  ASSUME NEW leg \in LegType, NEW l \in Legs, NEW entry
  PROVE  LET d == Detect(leg, l, entry)
         IN /\ d.inflight_cmd = leg.inflight_cmd /\ d.inflight_kind = leg.inflight_kind
            /\ d.inflight_sl = leg.inflight_sl /\ d.inflight_since = leg.inflight_since
            /\ d.sl_current = leg.sl_current
            /\ \/ /\ d.state = leg.state /\ d.missing_since \in {leg.missing_since, "off", "on"}
                  /\ leg.state \notin {"PENDING_ORDER", "OPEN"} => d.missing_since = leg.missing_since
               \/ /\ leg.inflight_cmd = NoCmd /\ d.missing_since = "off"
                  /\ \/ leg.state = "PENDING_ORDER" /\ entry = "position" /\ d.state = "OPEN"
                     \/ /\ leg.state = "PENDING_ORDER" /\ entry \notin {"order", "position"}
                        /\ leg.missing_since = "due" /\ d.state = "CANCELLED"
                     \/ leg.state = "OPEN" /\ entry \in Closed /\ d.state = entry
                     \/ /\ leg.state = "OPEN" /\ entry # "position"
                        /\ leg.missing_since = "due" /\ d.state = "CLOSED_MANUAL"
<1> DEFINE off == [leg EXCEPT !.missing_since = "off"]
           opened == [leg EXCEPT !.state = "OPEN", !.entry_price = FillPrice[l], !.missing_since = "off"]
           priced == [leg EXCEPT !.missing_since = "off",
                                 !.entry_price = IF @ = NoPrice THEN FillPrice[l] ELSE @]
           ended == [leg EXCEPT !.state = entry, !.missing_since = "off"]
           on == [leg EXCEPT !.missing_since = "on"]
           over(verdict) == [leg EXCEPT !.state = verdict, !.missing_since = "off"]
<1> DEFINE same(d) == /\ d.inflight_cmd = leg.inflight_cmd /\ d.inflight_kind = leg.inflight_kind
                      /\ d.inflight_sl = leg.inflight_sl /\ d.inflight_since = leg.inflight_since
                      /\ d.sl_current = leg.sl_current
<1>1. same(off) /\ off.state = leg.state /\ off.missing_since = "off"
  BY DEF LegType
<1>2. same(opened) /\ opened.state = "OPEN" /\ opened.missing_since = "off"
  BY DEF LegType
<1>3. same(priced) /\ priced.state = leg.state /\ priced.missing_since = "off"
  BY DEF LegType
<1>4. same(ended) /\ ended.state = entry /\ ended.missing_since = "off"
  BY DEF LegType
<1>5. same(on) /\ on.state = leg.state /\ on.missing_since = "on"
  BY DEF LegType
<1>6. \A verdict : same(over(verdict)) /\ over(verdict).state = verdict /\ over(verdict).missing_since = "off"
  BY DEF LegType
<1>7. same(leg) /\ leg.missing_since \in {"off", "on", "due"}
  BY DEF LegType, Timers
<1>8. \A verdict : Missing(leg, verdict) = CASE leg.missing_since = "off" -> on
                                             [] leg.missing_since = "on"  -> leg
                                             [] leg.missing_since = "due" -> over(verdict)
  BY DEF Missing
<1>9. Detect(leg, l, entry) =
        IF leg.inflight_cmd # NoCmd THEN leg
        ELSE IF leg.state = "PENDING_ORDER" THEN
          CASE entry = "order"    -> off
            [] entry = "position" -> opened
            [] OTHER              -> Missing(leg, "CANCELLED")
        ELSE IF leg.state = "OPEN" THEN
          CASE entry = "position" -> priced
            [] entry \in Closed   -> ended
            [] OTHER              -> Missing(leg, "CLOSED_MANUAL")
        ELSE leg
  BY DEF Detect
<1>10. "position" \notin Closed
  BY DEF Closed
<1>11. ASSUME NEW verdict
       PROVE  LET d == Missing(leg, verdict)
              IN same(d) /\ \/ d.state = leg.state /\ d.missing_since \in {leg.missing_since, "on"}
                            \/ leg.missing_since = "due" /\ d.state = verdict /\ d.missing_since = "off"
  <2> HIDE DEF on, over, same
  <2> QED
    BY <1>5, <1>6, <1>7, <1>8
<1> DEFINE d == Detect(leg, l, entry)
<1>12. same(d) /\ \/ /\ d.state = leg.state /\ d.missing_since \in {leg.missing_since, "off", "on"}
                     /\ leg.state \notin {"PENDING_ORDER", "OPEN"} => d.missing_since = leg.missing_since
                  \/ /\ leg.inflight_cmd = NoCmd /\ d.missing_since = "off"
                     /\ \/ leg.state = "PENDING_ORDER" /\ entry = "position" /\ d.state = "OPEN"
                        \/ /\ leg.state = "PENDING_ORDER" /\ entry \notin {"order", "position"}
                           /\ leg.missing_since = "due" /\ d.state = "CANCELLED"
                        \/ leg.state = "OPEN" /\ entry \in Closed /\ d.state = entry
                        \/ /\ leg.state = "OPEN" /\ entry # "position"
                           /\ leg.missing_since = "due" /\ d.state = "CLOSED_MANUAL"
  <2> HIDE DEF off, opened, priced, ended, same
  <2>1. CASE leg.inflight_cmd # NoCmd
    BY <1>7, <1>9, <2>1
  <2>2. CASE leg.inflight_cmd = NoCmd /\ leg.state = "PENDING_ORDER"
    <3>1. d = CASE entry = "order"    -> off
                [] entry = "position" -> opened
                [] OTHER              -> Missing(leg, "CANCELLED")
      BY <1>9, <2>2
    <3> HIDE DEF d
    <3> QED
      BY <1>1, <1>2, <1>11, <2>2, <3>1
  <2>3. CASE leg.inflight_cmd = NoCmd /\ leg.state = "OPEN"
    <3>1. d = CASE entry = "position" -> priced
                [] entry \in Closed   -> ended
                [] OTHER              -> Missing(leg, "CLOSED_MANUAL")
      BY <1>9, <2>3
    <3> HIDE DEF d
    <3> QED
      BY <1>3, <1>4, <1>10, <1>11, <2>3, <3>1
  <2>4. CASE leg.inflight_cmd = NoCmd /\ leg.state \notin {"PENDING_ORDER", "OPEN"}
    BY <1>7, <1>9, <2>4
  <2> QED
    BY <2>1, <2>2, <2>3, <2>4
<1> QED
  BY <1>12

LEMMA AdoptFields ==
  ASSUME NEW leg \in LegType, NEW l \in Legs, NEW entry
  PROVE  \/ Adopt(leg, l, entry) = leg
         \/ /\ leg.state \in {"PLACING", "PENDING_ORDER"} /\ Adopt(leg, l, entry).state \in {"OPEN", "PENDING_ORDER"}
            /\ Adopt(leg, l, entry).inflight_kind = "none" /\ Adopt(leg, l, entry).inflight_cmd = NoCmd
  BY DEF Adopt, LegType

\* The result x made b of the leg a.
ReadAs(a, x, b) ==
  \/ x.ok = TRUE /\ b = Succeeded(a, x.fill_price)
  \/ x.ok = FALSE /\ b = Failed(a)

\* The run's legs once the results were read.
LEMMA ApplyResultsLeg ==
  ASSUME NEW r \in RunOK, NEW rs, rs \subseteq ResultType, NEW l \in Legs
  PROVE  \/ /\ ApplyResults(r, rs).legs[l] = r.legs[l]
            /\ \A x \in rs : x.leg = l => x.n # r.legs[l].inflight_cmd
         \/ \E x \in rs : /\ x.leg = l /\ x.n = r.legs[l].inflight_cmd /\ r.legs[l].inflight_cmd # NoCmd
                          /\ ReadAs(r.legs[l], x, ApplyResults(r, rs).legs[l])
<1> DEFINE mine(k) == {x \in rs : x.leg = k /\ x.n = r.legs[k].inflight_cmd}
           applied(leg, x) == IF x.ok THEN Succeeded(leg, x.fill_price) ELSE Failed(leg)
           leg(k) == IF mine(k) = {} THEN r.legs[k] ELSE applied(r.legs[k], CHOOSE x \in mine(k) : TRUE)
           legs == [k \in Legs |-> leg(k)]
           s == [r EXCEPT !.legs = legs]
<1>1. ApplyResults(r, rs) = Recompute(s)
  BY DEF ApplyResults
<1>2. s.legs = legs
  BY RunFields DEF RunType
<1>3. Recompute(s).legs = s.legs
  <2>1. \E st : Recompute(s) = [s EXCEPT !.state = st]
    BY DEF Recompute
  <2>2. "legs" \in DOMAIN s /\ "legs" # "state"
    BY RunFields DEF RunType
  <2> HIDE DEF s
  <2> QED
    BY <2>1, <2>2
<1>4. ApplyResults(r, rs).legs[l] = leg(l)
  <2>1. legs[l] = leg(l)
    OBVIOUS
  <2> HIDE DEF legs, s, leg
  <2> QED
    BY <1>1, <1>2, <1>3, <2>1
<1>5. CASE mine(l) = {}
  BY <1>4, <1>5
<1>6. CASE mine(l) # {}
  <2> DEFINE x == CHOOSE y \in mine(l) : TRUE
  <2>1. x \in mine(l)
    BY <1>6
  <2>2. leg(l) = applied(r.legs[l], x)
    BY <1>6
  <2> HIDE DEF x
  <2>3. x \in rs /\ x.leg = l /\ x.n = r.legs[l].inflight_cmd /\ x \in ResultType
    BY <2>1
  <2>4. x.n \in Nat \ {0}
    BY <2>3 DEF ResultType
  <2>5. \/ x.ok = TRUE /\ ApplyResults(r, rs).legs[l] = Succeeded(r.legs[l], x.fill_price)
        \/ x.ok = FALSE /\ ApplyResults(r, rs).legs[l] = Failed(r.legs[l])
    <3>1. x.ok = TRUE \/ x.ok = FALSE
      BY <2>3 DEF ResultType
    <3> HIDE DEF leg
    <3> QED
      BY <1>4, <2>2, <3>1
  <2>6. ReadAs(r.legs[l], x, ApplyResults(r, rs).legs[l])
    BY <2>5 DEF ReadAs
  <2> QED
    BY <2>3, <2>4, <2>6 DEF NoCmd
<1> QED
  BY <1>5, <1>6

LEMMA ObserveLeg ==
  ASSUME NEW r \in RunOK, NEW snapshot, NEW l \in Legs
  PROVE  /\ Observe(r, snapshot).legs[l] = Detect(ExpireInflight(r.legs[l]), l, snapshot[l])
         /\ Observe(r, snapshot).state = r.state
  BY RunFields DEF Observe, RunType

\* The state computed for a run: the run goes on, or all its legs are finished.
LEMMA RecomputeState ==
  ASSUME NEW r \in RunOK
  PROVE  /\ Recompute(r).legs = r.legs /\ Recompute(r).seq = r.seq
         /\ r.state # "REJECTED" =>
              /\ Recompute(r).state \in Live \union {"DONE"}
              /\ Recompute(r).state = "DONE" => \A l \in Legs : r.legs[l].state \in Finished
         /\ r.state = "REJECTED" => Recompute(r).state = "REJECTED"
<1>1. r \in RunType
  BY RunFields
<1> DEFINE st == IF r.state = "REJECTED" THEN r.state
                 ELSE IF In(r, Finished) = Legs THEN "DONE"
                 ELSE IF In(r, {"PLACING"}) # {} /\ In(r, {"OPEN", "PENDING_ORDER"}) = {} THEN "PLACING"
                 ELSE "ACTIVE"
<1>2. Recompute(r) = [r EXCEPT !.state = st]
  BY DEF Recompute
<1>3. /\ r.state # "REJECTED" =>
           /\ st \in Live \union {"DONE"}
           /\ st = "DONE" => \A l \in Legs : r.legs[l].state \in Finished
      /\ r.state = "REJECTED" => st = "REJECTED"
  BY DEF Live, In
<1> HIDE DEF st
<1>4. Recompute(r).legs = r.legs /\ Recompute(r).seq = r.seq /\ Recompute(r).state = st
  BY <1>1, <1>2 DEF RunType
<1> QED
  BY <1>3, <1>4

(***************************************************************************)
(* Legs move forward                                                       *)
(***************************************************************************)
\* A command fits the leg it is for: an opening a leg that is being placed, a change of the stop or a close
\* an open one, a cancel a pending one.
Fits(leg) ==
  \/ leg.inflight_kind = "none"
  \/ leg.inflight_kind \in Opening /\ leg.state = "PLACING"
  \/ leg.inflight_kind \in {"modify_sl", "close"} /\ leg.state = "OPEN"
  \/ leg.inflight_kind = "cancel" /\ leg.state = "PENDING_ORDER"

LegForward(a, b) ==
  /\ a.state \in Finished => b.state = a.state
  /\ a.state = "OPEN" => b.state \in {"OPEN"} \union Closed

\* From a to b the leg moved forward, and still fits.
Onward(a, b) == Fits(b) /\ LegForward(a, b)

LEMMA OnwardTransitive ==
  ASSUME NEW a, NEW b, NEW c, Onward(a, b), Onward(b, c)
  PROVE  Onward(a, c)
  BY DEF Onward, LegForward, Finished, Closed

LEMMA OnwardReadings ==
  ASSUME NEW leg \in LegOK, Fits(leg), NEW l \in Legs, NEW entry
  PROVE  /\ Onward(leg, leg)
         /\ Onward(leg, Failed(leg))
         /\ leg.inflight_cmd # NoCmd => \A price : Onward(leg, Succeeded(leg, price))
         /\ Onward(leg, ExpireInflight(leg))
         /\ Onward(leg, Detect(leg, l, entry))
         /\ Onward(leg, Adopt(leg, l, entry))
         /\ Onward(leg, NoInflight(leg))
         /\ \A n, o : Asks(leg, o) => Onward(leg, Waiting(leg, n, o))
<1>0. leg \in LegType /\ (leg.inflight_cmd = NoCmd <=> leg.inflight_kind = "none")
      /\ leg.state \in LegStates /\ leg.inflight_kind \in Kinds \union {"none"}
  BY DEF LegOK, LegType
<1>1. Onward(leg, leg)
  BY DEF Onward, LegForward
<1>2. Onward(leg, Failed(leg))
  BY <1>0, FailedFields DEF Onward, LegForward, Fits, Finished, Closed, Opening
<1>3. ASSUME leg.inflight_cmd # NoCmd, NEW price
      PROVE  Onward(leg, Succeeded(leg, price))
  <2> DEFINE s == Succeeded(leg, price)
  <2>1. s.inflight_kind = "none" /\ leg.inflight_kind \in Kinds
    BY <1>3, SucceededFields
  <2>2. CASE leg.inflight_kind = "open_market"
    <3>1. s.state = "OPEN"
      BY <1>3, <2>2, SucceededFields
    <3> HIDE DEF s
    <3> QED
      BY <2>1, <2>2, <3>1 DEF Onward, LegForward, Fits, Finished, Closed, Opening, s
  <2>3. CASE leg.inflight_kind = "open_pending"
    <3>1. s.state = "PENDING_ORDER"
      BY <1>3, <2>3, SucceededFields
    <3> HIDE DEF s
    <3> QED
      BY <2>1, <2>3, <3>1 DEF Onward, LegForward, Fits, Finished, Closed, Opening, s
  <2>4. CASE leg.inflight_kind = "modify_sl"
    <3>1. s.state = leg.state
      BY <1>3, <2>4, SucceededFields
    <3> HIDE DEF s
    <3> QED
      BY <2>1, <2>4, <3>1 DEF Onward, LegForward, Fits, Finished, Closed, Opening, s
  <2>5. CASE leg.inflight_kind = "close"
    <3>1. s.state = "CLOSED_MANUAL"
      BY <1>3, <2>5, SucceededFields
    <3> HIDE DEF s
    <3> QED
      BY <2>1, <2>5, <3>1 DEF Onward, LegForward, Fits, Finished, Closed, Opening, s
  <2>6. CASE leg.inflight_kind = "cancel"
    <3>1. s.state = "CANCELLED"
      BY <1>3, <2>6, SucceededFields
    <3> HIDE DEF s
    <3> QED
      BY <2>1, <2>6, <3>1 DEF Onward, LegForward, Fits, Finished, Closed, Opening, s
  <2> QED
    BY <2>1, <2>2, <2>3, <2>4, <2>5, <2>6 DEF Kinds, Opening
<1>4. Onward(leg, ExpireInflight(leg))
  <2>1. /\ ExpireInflight(leg).state = leg.state
        /\ ExpireInflight(leg).inflight_kind \in {leg.inflight_kind, "none"}
    BY <1>0, ExpireFields
  <2> QED
    BY <2>1 DEF Onward, LegForward, Fits
<1>5. Onward(leg, Detect(leg, l, entry))
  <2> DEFINE d == Detect(leg, l, entry)
  <2>1. /\ d.inflight_kind = leg.inflight_kind
        /\ \/ d.state = leg.state
           \/ leg.inflight_cmd = NoCmd /\ leg.state = "PENDING_ORDER" /\ d.state \in {"OPEN", "CANCELLED"}
           \/ leg.inflight_cmd = NoCmd /\ leg.state = "OPEN" /\ d.state \in Closed
    BY <1>0, DetectFields DEF Closed
  <2> HIDE DEF d
  <2>2. LegForward(leg, d)
    BY <2>1 DEF LegForward, Finished, Closed
  <2>3. Fits(d)
    BY <1>0, <2>1 DEF Fits
  <2> QED
    BY <2>2, <2>3 DEF Onward, d
<1>6. Onward(leg, Adopt(leg, l, entry))
  BY <1>0, <1>1, AdoptFields DEF Onward, LegForward, Fits, Finished, Closed
<1>7. Onward(leg, NoInflight(leg))
  BY <1>0, NoInflightFields DEF Onward, LegForward, Fits
<1>8. ASSUME NEW n, NEW o, Asks(leg, o)
      PROVE  Onward(leg, Waiting(leg, n, o))
  <2>1. Waiting(leg, n, o).state = leg.state /\ Waiting(leg, n, o).inflight_kind = o.kind
    BY <1>0, WaitingFields
  <2> QED
    BY <1>8, <2>1 DEF Onward, LegForward, Fits, Asks
<1> QED
  BY <1>1, <1>2, <1>3, <1>4, <1>5, <1>6, <1>7, <1>8

RunFits(r) == \A l \in Legs : Fits(r.legs[l])

\* A run that is over, or not begun, waits for nothing.
Rests(r) == r.state \notin Live => \A l \in Legs : r.legs[l].inflight_cmd = NoCmd

RunOnward(r, s) == \A l \in Legs : Onward(r.legs[l], s.legs[l])

LEMMA RunOnwardTransitive ==
  ASSUME NEW r, NEW s, NEW t, RunOnward(r, s), RunOnward(s, t)
  PROVE  RunOnward(r, t)
  BY OnwardTransitive DEF RunOnward

LEMMA RunOnwardReflexive ==
  ASSUME NEW r, RunFits(r)
  PROVE  RunOnward(r, r)
  BY DEF RunOnward, RunFits, Onward, LegForward

LEMMA OnwardFits ==
  ASSUME NEW r, NEW s, RunOnward(r, s)
  PROVE  RunFits(s)
  BY DEF RunOnward, RunFits, Onward

\* A finished leg waits for nothing.
LEMMA FinishedRests ==
  ASSUME NEW leg \in LegOK, Fits(leg), leg.state \in Finished
  PROVE  leg.inflight_cmd = NoCmd
  BY DEF LegOK, Fits, Finished, Closed

LEMMA RecomputeRests ==
  ASSUME NEW r \in RunOK, RunFits(r), r.state # "REJECTED"
  PROVE  Rests(Recompute(r))
<1>1. \A l \in Legs : r.legs[l] \in LegOK
  BY RunFields
<1> QED
  BY <1>1, RecomputeState, FinishedRests DEF Rests, RunFits

LEMMA OnwardRun ==
  ASSUME NEW r \in RunOK, RunFits(r), NEW rs, rs \subseteq ResultType, NEW snapshot \in [Legs -> Entries]
  PROVE  /\ RunOnward(r, ApplyResults(r, rs))
         /\ RunOnward(r, Observe(r, snapshot))
         /\ RunOnward(r, Reconcile(r, snapshot))
         /\ RunOnward(r, Recompute(r))
<1>0. \A l \in Legs : r.legs[l] \in LegOK /\ Fits(r.legs[l])
  BY RunFields DEF RunFits
<1>1. ASSUME NEW l \in Legs
      PROVE  Onward(r.legs[l], ApplyResults(r, rs).legs[l])
  <2>1. /\ Onward(r.legs[l], r.legs[l]) /\ Onward(r.legs[l], Failed(r.legs[l]))
        /\ r.legs[l].inflight_cmd # NoCmd => \A price : Onward(r.legs[l], Succeeded(r.legs[l], price))
    BY <1>0, OnwardReadings
  <2>3. CASE ApplyResults(r, rs).legs[l] = r.legs[l]
    BY <2>1, <2>3
  <2>4. CASE ApplyResults(r, rs).legs[l] # r.legs[l]
    <3>1. PICK x \in rs : /\ x.leg = l /\ x.n = r.legs[l].inflight_cmd /\ r.legs[l].inflight_cmd # NoCmd
                          /\ ReadAs(r.legs[l], x, ApplyResults(r, rs).legs[l])
      BY <2>4, ApplyResultsLeg
    <3> QED
      BY <2>1, <3>1 DEF ReadAs
  <2> QED
    BY <2>3, <2>4
<1>2. ASSUME NEW l \in Legs
      PROVE  Onward(r.legs[l], Observe(r, snapshot).legs[l])
  <2>1. ExpireInflight(r.legs[l]) \in LegOK /\ Onward(r.legs[l], ExpireInflight(r.legs[l]))
    BY <1>0, ExpireInflightOK, OnwardReadings
  <2>2. Fits(ExpireInflight(r.legs[l]))
    BY <2>1 DEF Onward
  <2>3. Onward(ExpireInflight(r.legs[l]), Detect(ExpireInflight(r.legs[l]), l, snapshot[l]))
    BY <2>1, <2>2, OnwardReadings
  <2>4. Observe(r, snapshot).legs[l] = Detect(ExpireInflight(r.legs[l]), l, snapshot[l])
    BY ObserveLeg
  <2> QED
    BY <2>1, <2>3, <2>4, OnwardTransitive
<1>3. RunOnward(r, Recompute(r))
  BY RecomputeState, RunOnwardReflexive DEF RunOnward
<1>4. RunOnward(r, Reconcile(r, snapshot))
  <2> DEFINE legs == [l \in Legs |-> Adopt(r.legs[l], l, snapshot[l])]
             adopted == [r EXCEPT !.legs = legs]
  <2>1. legs \in [Legs -> LegOK] /\ \A l \in Legs : QuietLeg(r.legs[l], legs[l]) /\ Onward(r.legs[l], legs[l])
    BY <1>0, AdoptOK, OnwardReadings
  <2>2. Reconcile(r, snapshot) = IF r.state \notin Live \/ adopted = r THEN r ELSE Recompute(adopted)
    BY DEF Reconcile
  <2> HIDE DEF legs
  <2>3. adopted \in RunOK /\ adopted.legs = legs
    BY <2>1, RunFields, QuietLegsOK DEF RunType
  <2> HIDE DEF adopted
  <2>4. RunOnward(r, adopted)
    BY <2>1, <2>3 DEF RunOnward
  <2>5. Recompute(adopted).legs = adopted.legs
    BY <2>3, RecomputeState
  <2>6. RunOnward(r, Recompute(adopted))
    BY <2>4, <2>5 DEF RunOnward
  <2> QED
    BY <2>2, <2>6, RunOnwardReflexive
<1> QED
  BY <1>1, <1>2, <1>3, <1>4 DEF RunOnward

LEMMA OnwardWorks ==
  ASSUME NEW r, NEW h, Works(r, h), RunFits(r)
  PROVE  RunOnward(r, h.run)
<1> SUFFICES ASSUME NEW l \in Legs PROVE Onward(r.legs[l], h.run.legs[l])
  BY DEF RunOnward
<1>1. r.legs[l] \in LegOK /\ Fits(r.legs[l])
  BY RunFields DEF Works, RunFits
<1>2. /\ Onward(r.legs[l], r.legs[l]) /\ Onward(r.legs[l], NoInflight(r.legs[l]))
      /\ \A n, o : Asks(r.legs[l], o) => Onward(r.legs[l], Waiting(r.legs[l], n, o))
  BY <1>1, OnwardReadings
<1>3. LegWorks(r.legs[l], l, h)
  BY DEF Works
<1>4. ASSUME NEW i \in 1..Len(h.out), LastAsked(r.legs[l], l, h.out, i)
      PROVE  Asks(r.legs[l], h.out[i])
  BY <1>4 DEF LastAsked
<1> QED
  BY <1>2, <1>3, <1>4 DEF LegWorks

\* What place_run makes of the leg l: it waits for its opening, or is cancelled and nothing opens it.
Placed(leg, l, out) ==
  \/ /\ leg.state = "CANCELLED" /\ leg.inflight_cmd = NoCmd /\ leg.inflight_kind = "none"
     /\ leg.inflight_since = "off" /\ leg.missing_since = "off" /\ Unasked(l, out)
  \/ \E kind \in Opening, i \in 1..Len(out) :
       /\ out[i] = [leg |-> l, n |-> l, kind |-> kind, sl |-> NoPrice]
       /\ leg = Waiting(NewLeg, l, out[i])

LEMMA NewLegFields ==
  /\ NewLeg \in LegType /\ NewLeg \in LegOK /\ \A l \in Legs : NewRun.legs[l] = NewLeg
  /\ NewRun.seq = 0 /\ NewRun.state = "NEW"
  /\ NewLeg.state = "PLACING" /\ NewLeg.inflight_cmd = NoCmd /\ NewLeg.inflight_kind = "none"
  /\ NewLeg.missing_since = "off" /\ NewLeg.inflight_since = "off" /\ NewLeg.sl_current = SignalSl
<1>1. NewLeg \in LegOK /\ NewLeg \in LegType
  BY NewLegOK DEF LegOK
<1> QED
  BY <1>1 DEF NewLeg, NewRun

LEMMA PlacementsLegs ==
  ASSUME NEW unwritable \in SUBSET Nat, NEW h \in Placements(unwritable)
  PROVE  /\ h \in HandlerType /\ Numbers(0, h)
         /\ \A i \in 1..Len(h.out) : h.out[i].leg = h.out[i].n /\ h.out[i].kind \in Opening
         /\ \A l \in Legs : Placed(h.run.legs[l], l, h.out)
         /\ h.run.state \in Live \union {"DONE"}
         /\ h.run.state = "DONE" => \A l \in Legs : h.run.legs[l].state \in Finished
<1> DEFINE b == Begin(NewRun, unwritable)
<1>0. Good({}, Opening, h) /\ h \in HandlerType
  BY PlacementsGood DEF Good
<1>1. NewRun \in RunOK /\ b.run = NewRun /\ b \in HandlerType /\ b.out = << >> /\ b.unwritable = unwritable
  <2>1. Good({}, Opening, b)
    BY NewRunOK, BeginGood
  <2> QED
    BY <2>1, NewRunOK DEF Begin, Good
<1>2. CASE h = PlaceNothing(b)
  <2> DEFINE legs == [l \in Legs |-> [NewRun.legs[l] EXCEPT !.state = "CANCELLED"]]
             s == [NewRun EXCEPT !.legs = legs]
  <2>1. legs \in [Legs -> LegOK] /\ \A l \in Legs : QuietLeg(NewRun.legs[l], legs[l])
    <3>1. "CANCELLED" \in LegStates
      BY DEF LegStates, Finished
    <3> QED
      BY <3>1, NewRunOK, RunFields, LegChanges
  <2>2. \A l \in Legs : /\ legs[l].state = "CANCELLED" /\ legs[l].inflight_cmd = NoCmd
                        /\ legs[l].inflight_kind = "none"
                        /\ legs[l].inflight_since = "off" /\ legs[l].missing_since = "off"
    BY NewLegFields DEF LegType
  <2>3. PlaceNothing(b) = [b EXCEPT !.run = Recompute(s)]
    BY <1>1 DEF PlaceNothing
  <2> HIDE DEF legs, b
  <2>4. s \in RunOK /\ s.legs = legs /\ s.state = "NEW"
    BY <1>1, <2>1, QuietLegsOK, RunFields, NewLegFields DEF RunType
  <2> HIDE DEF s
  <2>5. h.run = Recompute(s) /\ h.out = << >>
    BY <1>1, <1>2, <2>3 DEF HandlerType
  <2>6. \A l \in Legs : Placed(h.run.legs[l], l, h.out)
    BY <2>2, <2>4, <2>5, RecomputeState DEF Placed, Unasked
  <2>7. /\ Numbers(0, h)
        /\ \A i \in 1..Len(h.out) : h.out[i].leg = h.out[i].n /\ h.out[i].kind \in Opening
    <3>1. h.run.seq \in Nat
      BY <1>0, RunFields DEF HandlerType
    <3> QED
      BY <1>0, <2>5, <3>1 DEF Numbers, Increasing
  <2>8. /\ h.run.state \in Live \union {"DONE"}
        /\ h.run.state = "DONE" => \A l \in Legs : h.run.legs[l].state \in Finished
    BY <2>4, <2>5, RecomputeState
  <2> QED
    BY <1>0, <2>5, <2>6, <2>7, <2>8
<1>3. ASSUME NEW kind \in Opening, h = PlaceRun(b, kind)
      PROVE  /\ Numbers(0, h)
             /\ \A i \in 1..Len(h.out) : h.out[i].leg = h.out[i].n /\ h.out[i].kind \in Opening
             /\ \A l \in Legs : Placed(h.run.legs[l], l, h.out)
             /\ h.run.state \in Live \union {"DONE"}
             /\ h.run.state = "DONE" => \A l \in Legs : h.run.legs[l].state \in Finished
  <2> DEFINE what == To(Legs, kind)
             t == Send(b, what)
             placing == [t.run EXCEPT !.state = "PLACING"]
             r == IF In(t.run, {"PLACING"}) = {} THEN Recompute(placing) ELSE placing
  <2>1. PlaceRun(b, kind) = [t EXCEPT !.run = r]
    BY DEF PlaceRun
  <2>2. what \in [Legs -> Order] /\ Legs \in SUBSET Legs /\ \A l \in Legs : what[l] = [kind |-> kind, sl |-> NoPrice]
    BY DEF To, Order, Kinds, Opening
  <2> HIDE DEF b, what
  <2> DEFINE W == Written(b, Legs)
  <2>3. b.run.seq = 0 /\ b.run.legs = NewRun.legs /\ \A l \in Legs : 0 + Rank(Legs, l) = l
    BY <1>1, NewLegFields, RankOfAll DEF Legs
  <2>4. Numbers(0, t)
    <3>1. Numbers(0, b)
      BY <1>1, <2>3 DEF Numbers, Increasing
    <3> QED
      BY <2>2, <3>1, SendNumbers
  <2>5. /\ W \in SUBSET Legs /\ Cardinality(W) \in Nat
        /\ \A l \in W : Rank(W, l) \in 1..Cardinality(W)
        /\ \A l, k \in W : Rank(W, l) = Rank(W, k) => l = k
    <3>1. W \in SUBSET Legs
      BY <2>2, WrittenIn
    <3> HIDE DEF W
    <3> QED
      BY <3>1, RankFacts
  <2>6. /\ \A l \in W : t.run.legs[l] = Waiting(NewLeg, l, what[l])
        /\ \A l \in Legs \ W : t.run.legs[l] = Unsent(NewLeg, what[l])
    <3>1. /\ \A l \in W : t.run.legs[l] = Waiting(b.run.legs[l], b.run.seq + Rank(Legs, l), what[l])
          /\ \A l \in Legs \ W : t.run.legs[l] = Unsent(b.run.legs[l], what[l])
      BY <1>1, <2>2, SendOK
    <3> HIDE DEF t, W
    <3> QED
      BY <2>3, <2>5, <3>1, NewLegFields
  <2>7. /\ Len(t.out) = Cardinality(W)
        /\ \A i \in 1..Len(t.out) :
             /\ t.out[i].leg \in W /\ Rank(W, t.out[i].leg) = i
             /\ t.out[i] = [leg |-> t.out[i].leg, n |-> t.out[i].leg, kind |-> kind, sl |-> NoPrice]
    <3>1. /\ Len(t.out) = Len(b.out) + Cardinality(W) /\ Len(b.out) \in Nat
          /\ \A i \in 1..Len(t.out) : i > Len(b.out) =>
               /\ t.out[i].leg \in W /\ Rank(W, t.out[i].leg) = i - Len(b.out)
               /\ t.out[i] = Line(t.out[i].leg, b.run.seq + Rank(Legs, t.out[i].leg), what[t.out[i].leg])
      BY <1>1, <2>2, SendLines
    <3>2. Len(b.out) = 0
      BY <1>1
    <3> HIDE DEF t, W
    <3>3. Len(t.out) = Cardinality(W)
      BY <2>5, <3>1, <3>2
    <3>4. ASSUME NEW i \in 1..Len(t.out)
          PROVE  /\ t.out[i].leg \in W /\ Rank(W, t.out[i].leg) = i
                 /\ t.out[i] = [leg |-> t.out[i].leg, n |-> t.out[i].leg, kind |-> kind, sl |-> NoPrice]
      <4>1. i > Len(b.out) /\ i - Len(b.out) = i
        BY <2>5, <3>2, <3>3
      <4>2. /\ t.out[i].leg \in W /\ Rank(W, t.out[i].leg) = i
            /\ t.out[i] = Line(t.out[i].leg, b.run.seq + Rank(Legs, t.out[i].leg), what[t.out[i].leg])
        BY <3>1, <4>1
      <4>3. b.run.seq + Rank(Legs, t.out[i].leg) = t.out[i].leg
        BY <2>3, <2>5, <4>2
      <4>4. what[t.out[i].leg].kind = kind /\ what[t.out[i].leg].sl = NoPrice
        BY <2>2, <2>5, <4>2
      <4> QED
        BY <4>2, <4>3, <4>4 DEF Line
    <3> QED
      BY <3>3, <3>4
  <2> HIDE DEF t, W
  <2>8. t \in HandlerType /\ t.run \in RunOK
    BY <2>4 DEF Numbers, HandlerType
  <2>9. \A i \in 1..Len(t.out) : t.out[i].leg = t.out[i].n /\ t.out[i].kind = kind /\ t.out[i].sl = NoPrice
    <3>1. ASSUME NEW x, NEW l, x = [leg |-> l, n |-> l, kind |-> kind, sl |-> NoPrice]
          PROVE  x.leg = x.n /\ x.kind = kind /\ x.sl = NoPrice
      BY <3>1
    <3> QED
      BY <2>7, <3>1
  <2>10. ASSUME NEW l \in Legs
         PROVE  Placed(t.run.legs[l], l, t.out)
    <3>1. CASE l \in W
      <4>1. PICK i \in 1..Len(t.out) : i = Rank(W, l)
        BY <2>5, <2>7, <3>1
      <4>2. t.out[i].leg = l
        BY <2>5, <2>7, <3>1, <4>1
      <4>3. t.out[i] = [leg |-> l, n |-> l, kind |-> kind, sl |-> NoPrice]
        BY <2>7, <4>2
      <4>4. t.out[i].kind = what[l].kind /\ t.out[i].sl = what[l].sl
        BY <2>2, <2>9
      <4>5. t.run.legs[l] = Waiting(NewLeg, l, t.out[i])
        BY <2>6, <3>1, <4>4 DEF Waiting
      <4> QED
        BY <4>3, <4>5 DEF Placed
    <3>2. CASE l \notin W
      <4>1. t.run.legs[l] = Unsent(NewLeg, what[l]) /\ what[l].kind \in Opening
        BY <2>2, <2>6, <3>2
      <4>2. t.run.legs[l] = [NoInflight(NewLeg) EXCEPT !.state = "CANCELLED"]
        BY <4>1 DEF Unsent
      <4>3. /\ t.run.legs[l].state = "CANCELLED" /\ t.run.legs[l].inflight_cmd = NoCmd
            /\ t.run.legs[l].inflight_kind = "none"
            /\ t.run.legs[l].inflight_since = "off" /\ t.run.legs[l].missing_since = "off"
        BY <4>2, NewLegFields DEF NoInflight, LegType
      <4>4. Unasked(l, t.out)
        BY <2>7, <3>2 DEF Unasked
      <4> QED
        BY <4>3, <4>4 DEF Placed
    <3> QED
      BY <3>1, <3>2
  <2> HIDE DEF r
  <2>11. placing \in RunOK /\ placing.legs = t.run.legs /\ placing.seq = t.run.seq /\ placing.state = "PLACING"
    BY <2>8, FlagsOK, RunFields DEF RunType
  <2> HIDE DEF placing
  <2>12. r.legs = t.run.legs /\ r.seq = t.run.seq /\ r.state \in Live \union {"DONE"}
        /\ (r.state = "DONE" => \A l \in Legs : t.run.legs[l].state \in Finished)
    BY <2>11, RecomputeState DEF r, Live
  <2>13. h.run = r /\ h.out = t.out
    BY <1>3, <2>1, <2>8 DEF HandlerType
  <2>14. Numbers(0, h)
    BY <1>0, <2>4, <2>12, <2>13 DEF Numbers
  <2> QED
    BY <2>9, <2>10, <2>12, <2>13, <2>14
<1>4. h = PlaceNothing(b) \/ \E kind \in Opening : h = PlaceRun(b, kind)
  BY DEF Placements, Opening
<1> QED
  BY <1>0, <1>2, <1>3, <1>4

LEMMA PlacedFits ==
  ASSUME NEW leg, NEW l, NEW out, Placed(leg, l, out)
  PROVE  Fits(leg)
<1>1. CASE leg.inflight_kind = "none"
  BY <1>1 DEF Fits
<1>2. ASSUME NEW kind \in Opening, NEW i \in 1..Len(out),
             out[i] = [leg |-> l, n |-> l, kind |-> kind, sl |-> NoPrice], leg = Waiting(NewLeg, l, out[i])
      PROVE  Fits(leg)
  <2>1. leg.inflight_kind = out[i].kind /\ leg.state = "PLACING"
    BY <1>2, NewLegFields, WaitingFields
  <2> QED
    BY <1>2, <2>1 DEF Fits
<1> QED
  BY <1>1, <1>2 DEF Placed

\* The run goes on, or all its legs are finished.
GoesOn(r) ==
  /\ r.state \in Live \union {"DONE"}
  /\ r.state = "DONE" => \A l \in Legs : r.legs[l].state \in Finished

LEMMA GoesOnRests ==
  ASSUME NEW r \in RunOK, RunFits(r), GoesOn(r)
  PROVE  Rests(r)
<1>1. \A l \in Legs : r.legs[l] \in LegOK
  BY RunFields
<1> QED
  BY <1>1, FinishedRests DEF GoesOn, Rests, RunFits

LEMMA ApplyResultsState ==
  ASSUME NEW r \in RunOK, NEW rs, rs \subseteq ResultType, r.state # "REJECTED"
  PROVE  GoesOn(ApplyResults(r, rs)) /\ ApplyResults(r, rs).seq = r.seq
<1> DEFINE mine(k) == {x \in rs : x.leg = k /\ x.n = r.legs[k].inflight_cmd}
           applied(leg, x) == IF x.ok THEN Succeeded(leg, x.fill_price) ELSE Failed(leg)
           leg(k) == IF mine(k) = {} THEN r.legs[k] ELSE applied(r.legs[k], CHOOSE x \in mine(k) : TRUE)
           legs == [k \in Legs |-> leg(k)]
           s == [r EXCEPT !.legs = legs]
<1>1. ApplyResults(r, rs) = Recompute(s)
  BY DEF ApplyResults
<1>2. Recompute(s) \in RunOK /\ QuietRun(r, Recompute(s))
  BY <1>1, ApplyResultsOK
<1> HIDE DEF legs
<1>3. s.legs = legs /\ s.state = r.state
  BY RunFields DEF RunType
<1>4. s \in [DOMAIN r -> UNION {{s[f]} : f \in DOMAIN r}] /\ "state" \in DOMAIN s
  BY RunFields DEF RunType
<1> HIDE DEF s
<1> DEFINE st == IF In(s, Finished) = Legs THEN "DONE"
                 ELSE IF In(s, {"PLACING"}) # {} /\ In(s, {"OPEN", "PENDING_ORDER"}) = {} THEN "PLACING"
                 ELSE "ACTIVE"
<1>5. Recompute(s) = [s EXCEPT !.state = st]
  BY <1>3 DEF Recompute
<1>6. st \in Live \union {"DONE"} /\ (st = "DONE" => \A l \in Legs : s.legs[l].state \in Finished)
  BY DEF In, Live
<1> HIDE DEF st
<1>7. Recompute(s).state = st /\ Recompute(s).legs = s.legs
  BY <1>4, <1>5
<1> QED
  BY <1>1, <1>2, <1>6, <1>7 DEF GoesOn, QuietRun
LEMMA SyncTurn ==
  ASSUME NEW r \in RunOK, RunFits(r), r.state \in Live, NEW rs, rs \subseteq ResultType,
         NEW snapshot \in [Legs -> Entries], NEW unwritable \in SUBSET Nat
  PROVE  LET h == SyncRun(Begin(ApplyResults(r, rs), unwritable), snapshot)
         IN RunOnward(r, h.run) /\ GoesOn(h.run)
<1> DEFINE a == ApplyResults(r, rs)
           o == Observe(a, snapshot)
           h == SyncRun(Begin(a, unwritable), snapshot)
<1>1. a \in RunOK /\ RunOnward(r, a) /\ GoesOn(a)
  BY ApplyResultsOK, OnwardRun, ApplyResultsState DEF Live
<1>2. RunFits(a)
  BY <1>1, OnwardFits
<1> HIDE DEF a
<1>3. o \in RunOK /\ RunOnward(a, o) /\ o.state = a.state
  <2>1. {} \subseteq ResultType
    OBVIOUS
  <2>2. o.state = a.state
    BY <1>1, RunFields DEF Observe, RunType
  <2> QED
    BY <1>1, <1>2, <2>1, <2>2, ObserveOK, OnwardRun
<1>4. PICK acted : Works(o, acted) /\ h.run = Recompute(acted.run)
  BY <1>1, WorksSyncRun
<1> HIDE DEF o, h
<1>5. RunOnward(o, acted.run) /\ acted.run \in RunOK /\ acted.run.state = o.state
  <2>1. RunFits(o)
    BY <1>3, OnwardFits
  <2> QED
    BY <1>4, <2>1, OnwardWorks DEF Works, HandlerType
<1>6. RunOnward(acted.run, Recompute(acted.run)) /\ GoesOn(Recompute(acted.run))
  <2>1. RunFits(acted.run) /\ {} \subseteq ResultType
    BY <1>5, OnwardFits
  <2>2. RunOnward(acted.run, Recompute(acted.run))
    BY <1>5, <2>1, RecomputeState, RunOnwardReflexive DEF RunOnward
  <2>3. acted.run.state # "REJECTED"
    BY <1>1, <1>3, <1>5 DEF GoesOn, Live
  <2> QED
    BY <1>5, <2>2, <2>3, RecomputeState DEF GoesOn
<1>7. RunOnward(r, h.run) /\ GoesOn(h.run)
  BY <1>1, <1>3, <1>4, <1>5, <1>6, RunOnwardTransitive
<1> QED
  BY <1>7 DEF h, a

LEMMA ManageTurn ==
  ASSUME NEW r \in RunOK, RunFits(r), r.state \in Live, NEW unwritable \in SUBSET Nat,
         NEW action \in Actions, NEW price \in MovePrices, NEW quote
  PROVE  LET h == ApplyAction(Begin(r, unwritable), action, price, quote)
         IN Works(r, h) /\ RunOnward(r, h.run) /\ GoesOn(h.run)
<1> DEFINE h == ApplyAction(Begin(r, unwritable), action, price, quote)
<1>1. Works(r, h)
  BY WorksBegin, WorksApplyAction, RunAssumption
<1> HIDE DEF h
<1>2. RunOnward(r, h.run)
  BY <1>1, OnwardWorks
<1>3. GoesOn(h.run)
  BY <1>1 DEF Works, GoesOn, Live
<1> QED
  BY <1>1, <1>2, <1>3 DEF h

LEMMA PlaceTurn ==
  ASSUME NEW unwritable \in SUBSET Nat, NEW h \in Placements(unwritable)
  PROVE  RunFits(h.run) /\ GoesOn(h.run)
  BY PlacementsLegs, PlacedFits DEF RunFits, GoesOn

\* A deadline of the leg l moves on.
LEMMA TimerLegs ==
  ASSUME RunInv, NEW l \in Legs, NEW timer \in {"missing_since", "inflight_since", "retry_after"}, NEW from, NEW to,
         Passes(l, timer, from, to)
  PROVE  /\ \A k \in Legs \ {l} : run'.legs[k] = run.legs[k]
         /\ run'.legs[l] = [run.legs[l] EXCEPT ![timer] = to]
         /\ \A k \in Legs : /\ run'.legs[k].state = run.legs[k].state
                            /\ run'.legs[k].inflight_cmd = run.legs[k].inflight_cmd
                            /\ run'.legs[k].inflight_kind = run.legs[k].inflight_kind
                            /\ run'.legs[k].inflight_sl = run.legs[k].inflight_sl
                            /\ run'.legs[k].sl_current = run.legs[k].sl_current
         /\ run'.state = run.state /\ run'.seq = run.seq /\ run.legs[l][timer] = from
<1>1. run \in RunType /\ run.legs \in [Legs -> LegType] /\ run.legs[l] \in LegType
  BY RunFields DEF RunInv, RunType
<1>2. run' = [run EXCEPT !.legs[l][timer] = to] /\ run.legs[l][timer] = from
  BY DEF Passes
<1> DEFINE leg == [run.legs[l] EXCEPT ![timer] = to]
<1>3. run'.legs = [run.legs EXCEPT ![l] = leg] /\ run'.state = run.state /\ run'.seq = run.seq
  BY <1>1, <1>2 DEF RunType
<1>4. /\ leg.state = run.legs[l].state /\ leg.inflight_cmd = run.legs[l].inflight_cmd
      /\ leg.inflight_kind = run.legs[l].inflight_kind /\ leg.inflight_sl = run.legs[l].inflight_sl
      /\ leg.sl_current = run.legs[l].sl_current
  <2>1. CASE timer = "missing_since"
    BY <1>1, <2>1 DEF LegType
  <2>2. CASE timer = "inflight_since"
    BY <1>1, <2>2 DEF LegType
  <2>3. CASE timer = "retry_after"
    BY <1>1, <2>3 DEF LegType
  <2> QED
    BY <2>1, <2>2, <2>3
<1> HIDE DEF leg
<1>5. run'.legs[l] = leg /\ \A k \in Legs \ {l} : run'.legs[k] = run.legs[k]
  BY <1>1, <1>3
<1>6. run'.legs[l] = [run.legs[l] EXCEPT ![timer] = to]
  BY <1>5 DEF leg
<1> QED
  BY <1>2, <1>3, <1>4, <1>5, <1>6

FitsInv == RunFits(run) /\ Rests(run)

LegsForward == \A l \in Legs : LegForward(run.legs[l], run'.legs[l])

LEMMA OnwardForward ==
  ASSUME RunOnward(run, run')
  PROVE  LegsForward /\ RunFits(run')
  BY DEF RunOnward, Onward, LegsForward, RunFits

LEMMA ForwardNext == RunInv /\ FitsInv /\ [Next]_vars => FitsInv' /\ (handled = TRUE => LegsForward)
<1> SUFFICES ASSUME RunInv, FitsInv, [Next]_vars PROVE FitsInv' /\ (handled = TRUE => LegsForward)
  OBVIOUS
<1>0. /\ run \in RunOK /\ results \subseteq ResultType /\ state \in [Legs -> Entries] /\ {} \subseteq ResultType
      /\ RunFits(run) /\ Rests(run) /\ RunOnward(run, run)
  BY RunOnwardReflexive DEF RunInv, TypeOK, ResultType, FitsInv
<1>1. ASSUME RunOnward(run, run'), Rests(run')
      PROVE  FitsInv' /\ (handled = TRUE => LegsForward)
  BY <1>1, OnwardForward DEF FitsInv
<1>2. ASSUME NEW h, Handles(h), RunOnward(run, h.run), h.run \in RunOK, GoesOn(h.run)
      PROVE  FitsInv' /\ (handled = TRUE => LegsForward)
  <2>1. run' = run \/ run' = h.run
    BY <1>2 DEF Handles, Completes, DiesIn
  <2>2. Rests(h.run)
    BY <1>2, OnwardFits, GoesOnRests
  <2> QED
    BY <1>0, <1>1, <1>2, <2>1, <2>2
<1>3. CASE Place
  <2>1. PICK unwritable \in SUBSET Nat : \E h \in Placements(unwritable) : Handles(h)
    BY <1>3, UnwritableIn DEF Place, Handles
  <2>2. PICK h \in Placements(unwritable) : Handles(h)
    BY <2>1
  <2>3. RunFits(h.run) /\ GoesOn(h.run) /\ h.run \in RunOK
    BY PlaceTurn, PlacementsLegs DEF HandlerType
  <2>4. Rests(h.run)
    BY <2>3, GoesOnRests
  <2>5. run' = run \/ run' = h.run
    BY <2>2 DEF Handles, Completes, DiesIn
  <2>6. handled # TRUE
    BY <1>3 DEF Place
  <2> QED
    BY <1>0, <2>3, <2>4, <2>5, <2>6 DEF FitsInv
<1>4. CASE Reject
  <2>1. \A l \in Legs : Rejected.legs[l] = NewLeg
    BY DEF Rejected, NewRun
  <2>2. RunFits(Rejected) /\ Rests(Rejected)
    BY <2>1, NewLegFields DEF RunFits, Rests, Fits
  <2> QED
    BY <1>4, <2>2 DEF Reject, FitsInv
<1>5. CASE Sync
  <2> DEFINE h(unwritable) == SyncRun(Begin(ApplyResults(run, results), unwritable), state)
  <2>1. PICK unwritable \in SUBSET Nat : Handles(h(unwritable))
    BY <1>5, UnwritableIn DEF Sync, Handles
  <2>2. RunOnward(run, h(unwritable).run) /\ GoesOn(h(unwritable).run)
    BY <1>0, <1>5, SyncTurn DEF Sync
  <2>3. h(unwritable) \in HandlerType
    <3>1. Good({}, Managing, h(unwritable))
      BY SyncGood
    <3> QED
      BY <3>1 DEF Good
  <2> HIDE DEF h
  <2> QED
    BY <1>2, <2>1, <2>2, <2>3 DEF HandlerType
<1>6. CASE \E action \in Actions : Manage(action)
  <2>1. PICK action \in Actions : Manage(action)
    BY <1>6
  <2> DEFINE h(unwritable, price, quote) == ApplyAction(Begin(run, unwritable), action, price, quote)
  <2>2. PICK unwritable \in SUBSET Nat, price \in MovePrices, quote \in Quotes : Handles(h(unwritable, price, quote))
    BY <2>1, UnwritableIn DEF Manage, Handles
  <2>3. /\ RunOnward(run, h(unwritable, price, quote).run) /\ GoesOn(h(unwritable, price, quote).run)
        /\ Works(run, h(unwritable, price, quote))
    BY <1>0, <2>1, ManageTurn DEF Manage
  <2> HIDE DEF h
  <2> QED
    BY <1>2, <2>2, <2>3 DEF Works, HandlerType
<1>7. CASE SyncBlind
  <2>1. run.state \in Live => RunOnward(run, ApplyResults(run, results)) /\ Rests(ApplyResults(run, results))
    <3>1. ApplyResults(run, results) \in RunOK /\ RunOnward(run, ApplyResults(run, results))
      BY <1>0, ApplyResultsOK, OnwardRun
    <3>2. RunFits(ApplyResults(run, results))
      BY <3>1, OnwardFits
    <3> QED
      BY <1>0, <3>1, <3>2, ApplyResultsState, GoesOnRests DEF Live
  <2> QED
    BY <1>0, <1>1, <1>7, <2>1 DEF SyncBlind
<1>8. CASE FinishPostcheck
  <2>1. [run EXCEPT !.close_requested = TRUE].legs = run.legs /\ [run EXCEPT !.close_requested = TRUE].state = run.state
    BY <1>0, RunFields DEF RunType
  <2>2. run'.legs = run.legs /\ run'.state = run.state
    BY <1>8, <2>1 DEF FinishPostcheck
  <2> QED
    BY <1>0, <1>1, <2>2 DEF RunOnward, Rests
<1>9. CASE Restart
  <2>1. RunOnward(run, Reconcile(run, state)) /\ Rests(Reconcile(run, state))
    <3>1. Reconcile(run, state) \in RunOK /\ RunOnward(run, Reconcile(run, state))
      BY <1>0, ReconcileOK, OnwardRun
    <3>2. RunFits(Reconcile(run, state))
      BY <3>1, OnwardFits
    <3>3. CASE Reconcile(run, state) = run
      BY <1>0, <3>1, <3>3
    <3>4. CASE Reconcile(run, state) # run
      <4>1. PICK s : Reconcile(run, state) = Recompute(s) /\ s = [run EXCEPT !.legs = s.legs] /\ run.state \in Live
        <5> DEFINE s == [run EXCEPT !.legs = [l \in Legs |-> Adopt(@[l], l, state[l])]]
        <5>1. Reconcile(run, state) = Recompute(s) /\ run.state \in Live
          BY <3>4 DEF Reconcile
        <5>2. s = [run EXCEPT !.legs = s.legs]
          BY <1>0, RunFields DEF RunType
        <5> HIDE DEF s
        <5> QED
          BY <5>1, <5>2
      <4>2. GoesOn(Recompute(s))
        <5>1. s.state = run.state /\ run.state # "REJECTED" /\ DOMAIN s = DOMAIN run
          BY <1>0, <4>1, RunFields DEF RunType, Live
        <5> DEFINE st == IF In(s, Finished) = Legs THEN "DONE"
                         ELSE IF In(s, {"PLACING"}) # {} /\ In(s, {"OPEN", "PENDING_ORDER"}) = {} THEN "PLACING"
                         ELSE "ACTIVE"
        <5>2. Recompute(s) = [s EXCEPT !.state = st]
          BY <5>1 DEF Recompute
        <5>3. st \in Live \union {"DONE"} /\ (st = "DONE" => \A l \in Legs : s.legs[l].state \in Finished)
          BY DEF In, Live
        <5> HIDE DEF st
        <5>4. Recompute(s).state = st /\ Recompute(s).legs = s.legs
          BY <1>0, <4>1, <5>2, RunFields DEF RunType
        <5> QED
          BY <5>3, <5>4 DEF GoesOn
      <4> QED
        BY <3>1, <3>2, <4>1, <4>2, GoesOnRests
    <3> QED
      BY <3>1, <3>3, <3>4
  <2> QED
    BY <1>0, <1>1, <1>9, <2>1 DEF Restart
<1>10. ASSUME NEW l \in Legs, TimePasses(l)
       PROVE  FitsInv' /\ (handled = TRUE => LegsForward)
  <2>1. PICK timer \in {"missing_since", "inflight_since", "retry_after"}, from \in {"on"}, to \in {"due", "off"} :
            Passes(l, timer, from, to)
    BY <1>10 DEF TimePasses, GraceOver, ResultOverdue, BackoffOver
  <2>2. /\ run'.state = run.state
        /\ \A k \in Legs : /\ run'.legs[k].state = run.legs[k].state
                           /\ run'.legs[k].inflight_cmd = run.legs[k].inflight_cmd
                           /\ run'.legs[k].inflight_kind = run.legs[k].inflight_kind
    BY <2>1, TimerLegs
  <2> QED
    BY <1>0, <1>1, <2>2 DEF RunOnward, Onward, Fits, LegForward, Rests
<1>11. CASE UNCHANGED run
  BY <1>0, <1>1, <1>11
<1>12. CASE \/ Answer \/ WriteState \/ TtlPasses \/ UNCHANGED vars
            \/ \E l \in Legs : Fill(l) \/ HitTp(l) \/ HitSl(l) \/ CloseByHand(l) \/ OrderGone(l)
  BY <1>11, <1>12 DEF Answer, SkipCommand, ExecuteCommand, RefuseCommand, Takes, WriteState, TtlPasses,
     Fill, HitTp, HitSl, CloseByHand, OrderGone, Becomes, vars, trader
<1> QED
  BY <1>3, <1>4, <1>5, <1>6, <1>7, <1>8, <1>9, <1>10, <1>12 DEF Next

(* Whatever goes wrong, once the signal's message is handled no step of    *)
(* the trader takes back what a leg was finally recorded as, or takes an   *)
(* open leg for a pending or unplaced one (ladder.py:117-191).             *)
THEOREM RunHandledMovesForward == Spec => [][handled = TRUE => LegsForward]_vars
<1>1. Init => RunInv /\ FitsInv
  <2>1. Init => FitsInv
    BY NewLegFields DEF Init, FitsInv, RunFits, Rests, Fits
  <2> QED
    BY <2>1, RunInvInit
<1>2. RunInv /\ FitsInv /\ [Next]_vars => (RunInv /\ FitsInv)'
  BY RunInvNext, ForwardNext
<1>3. RunInv /\ FitsInv /\ [Next]_vars => [handled = TRUE => LegsForward]_vars
  BY ForwardNext
<1> QED
  BY <1>1, <1>2, <1>3, PTL DEF Spec

(***************************************************************************)
(* Numbers are used in order, while the trader does not die                *)
(***************************************************************************)
\* Every line has a number the run counted past, the lines are in the order of their numbers, the
\* results are older than the lines, and before the placement is saved there is nothing anywhere.
OrderInv ==
  /\ up = TRUE /\ answered = {}
  /\ Increasing(commands)
  /\ \A c \in Lines : c.n <= run.seq
  /\ \A x \in results : x.n <= run.seq /\ \A c \in Lines : x.n < c.n
  /\ handled = FALSE =>
       /\ run = NewRun /\ checking = FALSE /\ commands = << >> /\ results = {}
       /\ \A l \in Legs : broker[l].st = "none" /\ state[l] = "none"

LEMMA WorksNumbers ==
  ASSUME NEW r, NEW h, Works(r, h)
  PROVE  Numbers(r.seq, h)
  BY DEF Works

LEMMA SyncNumbers ==
  ASSUME NEW r \in RunOK, r.state \in Live, NEW rs, rs \subseteq ResultType,
         NEW snapshot \in [Legs -> Entries], NEW unwritable \in SUBSET Nat
  PROVE  Numbers(r.seq, SyncRun(Begin(ApplyResults(r, rs), unwritable), snapshot))
<1> DEFINE a == ApplyResults(r, rs)
           o == Observe(a, snapshot)
           h == SyncRun(Begin(a, unwritable), snapshot)
<1>1. a \in RunOK /\ a.seq = r.seq
  BY ApplyResultsOK, ApplyResultsState DEF Live
<1>2. h \in HandlerType
  <2>1. Good({}, Managing, Begin(a, unwritable))
    BY <1>1, BeginGood
  <2>2. Good({}, Managing, h)
    BY <2>1, SyncRunGood
  <2> QED
    BY <2>2 DEF Good
<1> HIDE DEF a
<1>3. o \in RunOK /\ o.seq = a.seq
  BY <1>1, ObserveOK DEF QuietRun
<1>4. PICK acted : Works(o, acted) /\ h.out = acted.out /\ h.run = Recompute(acted.run)
  BY <1>1, WorksSyncRun
<1> HIDE DEF o, h
<1>5. Numbers(o.seq, acted) /\ acted.run \in RunOK
  BY <1>4, WorksNumbers DEF Works, HandlerType
<1>6. h.run.seq = acted.run.seq
  BY <1>4, <1>5, RecomputeState
<1>7. Numbers(r.seq, h)
  BY <1>1, <1>2, <1>3, <1>4, <1>5, <1>6 DEF Numbers
<1> QED
  BY <1>7 DEF h, a

\* The lines of a handler that completes follow those of the file.
LEMMA CompletesLines ==
  ASSUME TypeOK, NEW h, h \in HandlerType, Completes(h)
  PROVE  Lines' = Lines \union {h.out[i] : i \in 1..Len(h.out)}
<1>1. h.out \in Seq(CommandType) /\ commands \in Seq(CommandType) /\ commands' = commands \o h.out
  BY DEF HandlerType, TypeOK, Completes
<1>2. /\ Len(commands') = Len(commands) + Len(h.out)
      /\ \A i \in 1..Len(commands) : commands'[i] = commands[i]
      /\ \A i \in 1..Len(h.out) : commands'[Len(commands) + i] = h.out[i]
      /\ Len(commands) \in Nat /\ Len(h.out) \in Nat
  BY <1>1
<1>3. \A c \in Lines' : c \in Lines \union {h.out[i] : i \in 1..Len(h.out)}
  <2>1. \A i \in 1..Len(commands') : \/ \E j \in 1..Len(commands) : commands'[i] = commands[j]
                                   \/ \E j \in 1..Len(h.out) : commands'[i] = h.out[j]
    BY HandlesLines DEF Handles
  <2> QED
    BY <2>1 DEF Lines
<1>4. \A c \in Lines : c \in Lines'
  BY <1>2 DEF Lines
<1>5. \A i \in 1..Len(h.out) : h.out[i] \in Lines'
  <2>1. \A i \in 1..Len(h.out) : Len(commands) + i \in 1..Len(commands')
    BY <1>2
  <2> QED
    BY <1>2, <2>1 DEF Lines
<1> QED
  BY <1>3, <1>4, <1>5

LEMMA OrderCompletes ==
  ASSUME RunInv, OrderInv, NEW h, Completes(h), Numbers(run.seq, h)
  PROVE  Increasing(commands') /\ (\A c \in Lines' : c.n <= run'.seq) /\ run'.seq >= run.seq
         /\ \A c \in Lines' : c \in Lines \/ c.n > run.seq
<1>1. /\ h.out \in Seq(CommandType) /\ commands \in Seq(CommandType) /\ commands' = commands \o h.out
      /\ run' = h.run /\ run'.seq \in Nat /\ run.seq \in Nat /\ TypeOK /\ h \in HandlerType
  BY RunFields DEF HandlerType, RunInv, TypeOK, Completes, Numbers
<1>2. /\ Len(commands') = Len(commands) + Len(h.out)
      /\ \A i \in 1..Len(commands) : commands'[i] = commands[i]
      /\ \A i \in 1..Len(h.out) : commands'[Len(commands) + i] = h.out[i]
      /\ Len(commands) \in Nat /\ Len(h.out) \in Nat
  BY <1>1
<1>3. /\ run'.seq >= run.seq /\ Increasing(h.out)
      /\ \A i \in 1..Len(h.out) : run.seq < h.out[i].n /\ h.out[i].n <= run'.seq /\ h.out[i].n \in Nat
  <2>1. \A i \in 1..Len(h.out) : h.out[i] \in CommandType
    BY <1>1
  <2>2. \A i \in 1..Len(h.out) : h.out[i].n \in Nat
    BY <2>1 DEF CommandType
  <2> QED
    BY <1>1, <2>2 DEF Numbers
<1>4. \A c \in Lines' : c \in Lines \/ \E i \in 1..Len(h.out) : c = h.out[i]
  BY <1>1, CompletesLines
<1>5. \A c \in Lines' : c \in Lines \/ (c.n > run.seq /\ c.n <= run'.seq)
  <2>1. ASSUME NEW i \in 1..Len(h.out)
        PROVE  h.out[i].n > run.seq /\ h.out[i].n <= run'.seq
    BY <1>1, <1>3
  <2> QED
    BY <1>4, <2>1
<1>6. \A c \in Lines : c.n <= run'.seq
  <2>1. \A c \in Lines : c.n \in Nat /\ c.n <= run.seq
    BY <1>1, LinesTypes DEF OrderInv, CommandType
  <2> QED
    BY <1>1, <1>2, <1>3, <2>1
<1>7. ASSUME NEW i \in 1..Len(commands'), NEW j \in 1..Len(commands'), i < j
      PROVE  commands'[i].n < commands'[j].n
  <2>1. CASE j <= Len(commands)
    BY <1>2, <1>7, <2>1 DEF OrderInv, Increasing
  <2>2. CASE j > Len(commands)
    <3>1. j - Len(commands) \in 1..Len(h.out) /\ Len(commands) + (j - Len(commands)) = j
      BY <1>2, <2>2
    <3>2. commands'[j] = h.out[j - Len(commands)]
      BY <1>2, <3>1
    <3>3. CASE i <= Len(commands)
      <4>1. commands'[i] \in Lines
        BY <1>2, <3>3 DEF Lines
      <4>2. commands'[i].n <= run.seq /\ commands'[i].n \in Nat
        BY <1>1, <4>1, LinesTypes DEF OrderInv, CommandType
      <4>3. run.seq < commands'[j].n /\ commands'[j].n \in Nat
        BY <1>3, <3>1, <3>2
      <4>4. run.seq \in Nat
        BY <1>1
      <4> QED
        BY <4>2, <4>3, <4>4
    <3>4. CASE i > Len(commands)
      <4>1. i - Len(commands) \in 1..Len(h.out) /\ Len(commands) + (i - Len(commands)) = i
        BY <1>2, <3>4
      <4>2. commands'[i] = h.out[i - Len(commands)] /\ i - Len(commands) < j - Len(commands)
        BY <1>2, <1>7, <4>1
      <4> QED
        BY <1>3, <3>1, <3>2, <4>1, <4>2 DEF Increasing
    <3> QED
      BY <1>2, <3>3, <3>4
  <2> QED
    BY <1>2, <2>1, <2>2
<1>8. Increasing(commands')
  BY <1>7 DEF Increasing
<1>9. run'.seq >= run.seq
  BY <1>1, <1>2, <1>3
<1> QED
  BY <1>5, <1>6, <1>8, <1>9

\* The EA answers the line c, the first of the file.
AnswersLine(c) ==
  /\ c \in CommandType /\ c \in Lines /\ Takes(c) /\ (ExecuteCommand(c) \/ RefuseCommand(c))
  /\ Lines' = Lines \ {c} /\ Increasing(commands')
  /\ \A d \in Lines' : c.n < d.n
  /\ handled = TRUE /\ answered' = {}

LEMMA AnswerTakes ==
  ASSUME RunInv, OrderInv, Answer
  PROVE  \E c : AnswersLine(c)
<1> DEFINE c == Head(commands)
<1>0. TypeOK /\ commands \in Seq(CommandType) /\ handled \in BOOLEAN
  BY DEF RunInv, TypeOK
<1>1. Takes(c) /\ (ExecuteCommand(c) \/ RefuseCommand(c))
  BY DEF Answer, SkipCommand, ExecuteCommand, RefuseCommand, OrderInv
<1> HIDE DEF c
<1>2. /\ c \in CommandType /\ Len(commands) > 0 /\ c = commands[1] /\ Len(commands') = Len(commands) - 1
      /\ \A i \in 1..Len(commands') : commands'[i] = commands[i + 1]
      /\ commands' = Tail(commands) /\ commands' \in Seq(CommandType)
      /\ Len(commands) \in Nat /\ Len(commands') \in Nat
  BY <1>0, <1>1, TakesTypes DEF Takes
<1>3. 1 \in 1..Len(commands) /\ c \in Lines
  BY <1>2 DEF Lines
<1>4. Increasing(commands')
  <2>1. ASSUME NEW i \in 1..Len(commands'), NEW j \in 1..Len(commands'), i < j
        PROVE  commands'[i].n < commands'[j].n
    <3>1. i + 1 \in 1..Len(commands) /\ j + 1 \in 1..Len(commands) /\ i + 1 < j + 1
      BY <1>2, <2>1
    <3>2. commands[i + 1].n < commands[j + 1].n
      BY <3>1 DEF OrderInv, Increasing
    <3> QED
      BY <1>2, <3>2
  <2> QED
    BY <2>1 DEF Increasing
<1>5. ASSUME NEW i \in 1..Len(commands')
      PROVE  c.n < commands'[i].n
  <2>1. i + 1 \in 1..Len(commands) /\ 1 < i + 1
    BY <1>2
  <2>2. commands[1].n < commands[i + 1].n
    BY <1>3, <2>1 DEF OrderInv, Increasing
  <2> QED
    BY <1>2, <2>2
<1>6. \A d \in Lines' : c.n < d.n
  BY <1>5 DEF Lines
<1>7. c.n \in Nat
  BY <1>2 DEF CommandType
<1>8. Lines' = Lines \ {c}
  <2>1. c \notin Lines'
    BY <1>6, <1>7
  <2>2. \A d \in Lines' : d \in Lines
    <3>1. \A i \in 1..Len(commands') : i + 1 \in 1..Len(commands)
      BY <1>2
    <3> QED
      BY <1>2, <3>1 DEF Lines
  <2>3. ASSUME NEW i \in 1..Len(commands), commands[i] # c
        PROVE  commands[i] \in Lines'
    <3>1. i - 1 \in 1..Len(commands') /\ (i - 1) + 1 = i
      <4>1. i # 1
        BY <1>2, <2>3
      <4> QED
        BY <1>2, <4>1
    <3>2. commands'[i - 1] = commands[i]
      BY <1>2, <3>1
    <3> QED
      BY <3>1, <3>2 DEF Lines
  <2> QED
    BY <2>1, <2>2, <2>3 DEF Lines
<1>9. handled = TRUE
  <2>1. commands # << >>
    BY <1>1 DEF Takes
  <2> QED
    BY <1>0, <2>1 DEF OrderInv
<1>10. answered' = {}
  <2>1. answered' = Repeatable({Id(c)}, commands')
    <3>1. answered' = Repeatable(answered \union {Id(c)}, Tail(commands))
      BY <1>1 DEF ExecuteCommand, RefuseCommand
    <3>2. answered \union {Id(c)} = {Id(c)}
      BY DEF OrderInv
    <3> QED
      BY <1>2, <3>1, <3>2
  <2>2. Id(c)[2] = c.n /\ c.n <= run.seq
    BY <1>3 DEF Id, OrderInv
  <2>3. run.seq \in Nat
    BY RunFields DEF RunInv
  <2>4. \A i \in 1..Len(commands') : Id(c) # Id(commands'[i])
    <3> SUFFICES ASSUME NEW i \in 1..Len(commands'), Id(c) = Id(commands'[i]) PROVE FALSE
      OBVIOUS
    <3>1. c.n < commands'[i].n
      BY <1>5
    <3>2. c.n = commands'[i].n
      BY DEF Id
    <3> QED
      BY <1>7, <3>1, <3>2
  <2>5. ~(Id(c)[2] > run.seq)
    BY <1>7, <2>2, <2>3
  <2> QED
    BY <1>9, <2>1, <2>4, <2>5 DEF Repeatable
<1> QED
  BY <1>1, <1>2, <1>3, <1>4, <1>6, <1>8, <1>9, <1>10 DEF AnswersLine

LEMMA NewRunFacts ==
  ASSUME run = NewRun
  PROVE  /\ run.state \notin Live /\ run.seq = 0
         /\ \A l \in Legs : /\ run.legs[l] = NewLeg /\ run.legs[l].missing_since = "off"
                            /\ run.legs[l].inflight_since = "off" /\ run.legs[l].retry_after = "off"
<1>1. NewLeg.retry_after = "off"
  BY DEF NewLeg
<1> QED
  BY <1>1, NewLegFields DEF Live

\* Until the message is handled there is nothing to do but place the run, turn the signal down or wait.
LEMMA Unhandled ==
  ASSUME RunInv, OrderInv, [Next]_vars, handled = FALSE
  PROVE  \/ Place \/ Reject
         \/ /\ UNCHANGED <<run, handled, checking, up, commands, answered, results, broker>>
            /\ \A l \in Legs : state'[l] = "none"
<1>0. /\ run = NewRun /\ checking = FALSE /\ commands = << >> /\ results = {} /\ up = TRUE
      /\ \A l \in Legs : broker[l].st = "none" /\ state[l] = "none"
  BY DEF OrderInv
<1>1. ~Sync /\ ~(\E action \in Actions : Manage(action))
  BY <1>0, NewRunFacts DEF Sync, Manage
<1>2. ~SyncBlind /\ ~FinishPostcheck /\ ~Restart /\ ~Answer
  BY <1>0 DEF SyncBlind, FinishPostcheck, Restart, Answer
<1>3. \A l \in Legs : ~(Fill(l) \/ HitTp(l) \/ HitSl(l) \/ CloseByHand(l) \/ OrderGone(l))
  BY <1>0 DEF Fill, HitTp, HitSl, CloseByHand, OrderGone
<1>4. ASSUME NEW l \in Legs
      PROVE  ~TimePasses(l)
  <2>1. run.legs[l].missing_since = "off" /\ run.legs[l].inflight_since = "off" /\ run.legs[l].retry_after = "off"
    BY <1>0, NewRunFacts
  <2> QED
    BY <2>1 DEF TimePasses, GraceOver, ResultOverdue, BackoffOver, Passes
<1>5. CASE WriteState
  <2>1. \A l \in Legs : state'[l] = broker[l].st
    BY <1>5 DEF WriteState, Current
  <2> QED
    BY <1>0, <1>5, <2>1 DEF WriteState, trader, bridge
<1>6. CASE TtlPasses
  BY <1>0, <1>6 DEF TtlPasses, trader, bridge
<1>7. CASE UNCHANGED vars
  BY <1>0, <1>7 DEF vars
<1> QED
  BY <1>1, <1>2, <1>3, <1>4, <1>5, <1>6, <1>7 DEF Next

LEMMA OrderNext ==
  ASSUME "crash" \notin Faults
  PROVE  RunInv /\ OrderInv /\ [Next]_vars => OrderInv'
<1> SUFFICES ASSUME RunInv, OrderInv, [Next]_vars PROVE OrderInv'
  OBVIOUS
<1>0. /\ TypeOK /\ run \in RunOK /\ results \subseteq ResultType /\ state \in [Legs -> Entries]
      /\ up = TRUE /\ answered = {} /\ handled \in BOOLEAN /\ run.seq \in Nat
      /\ \A c \in Lines : c.n \in Nat /\ c.n <= run.seq
      /\ \A x \in results : x.n \in Nat
  BY LinesTypes, RunFields DEF RunInv, TypeOK, ResultType, OrderInv, CommandType
<1>1. \A h : ~DiesIn(h)
  BY DEF DiesIn, Fault
<1>2. ASSUME handled' = TRUE, up' = up, answered' = answered, commands' = commands, results' \subseteq results,
             run'.seq = run.seq
      PROVE  OrderInv'
  <2>1. Lines' = Lines
    BY <1>2 DEF Lines
  <2> QED
    BY <1>2, <2>1 DEF OrderInv
<1>3. ASSUME handled' = TRUE, up' = up, answered' = answered, results' \subseteq results,
             NEW h, Completes(h), Numbers(run.seq, h)
      PROVE  OrderInv'
  <2>1. Increasing(commands') /\ (\A c \in Lines' : c.n <= run'.seq) /\ run'.seq >= run.seq
        /\ \A c \in Lines' : c \in Lines \/ c.n > run.seq
    BY <1>3, OrderCompletes
  <2>2. run'.seq \in Nat /\ \A c \in Lines' : c.n \in Nat
    <3>1. h.run \in RunOK /\ run' = h.run
      BY <1>3 DEF Numbers, HandlerType, Completes
    <3>2. RunInv'
      BY RunInvNext
    <3>3. Lines' \in SUBSET CommandType
      <4>1. commands' \in Seq(CommandType)
        BY <3>2 DEF RunInv, TypeOK
      <4> QED
        BY <4>1 DEF Lines
    <3> QED
      BY <3>1, <3>3, RunFields DEF CommandType
  <2>3. ASSUME NEW x \in results'
        PROVE  x.n <= run'.seq /\ \A c \in Lines' : x.n < c.n
    <3>1. x.n <= run.seq /\ x.n \in Nat /\ \A c \in Lines : x.n < c.n
      BY <1>0, <1>3 DEF OrderInv
    <3> QED
      BY <1>0, <2>1, <2>2, <3>1
  <2> QED
    BY <1>0, <1>3, <2>1, <2>3 DEF OrderInv
<1>4. CASE Place
  <2>1. PICK unwritable \in SUBSET Nat : \E h \in Placements(unwritable) : Completes(h) /\ handled' = TRUE
    BY <1>1, <1>4, UnwritableIn DEF Place
  <2>2. PICK h \in Placements(unwritable) : Completes(h) /\ handled' = TRUE
    BY <2>1
  <2>3. Numbers(run.seq, h)
    <3>1. run.seq = 0
      BY <1>0, <1>4, NewRunFacts DEF Place, OrderInv
    <3> QED
      BY <3>1, PlacementsLegs
  <2>4. up' = up /\ answered' = answered /\ results' = results
    BY <1>4, <2>2 DEF Place, Completes
  <2> QED
    BY <1>3, <2>2, <2>3, <2>4
<1>5. CASE handled = FALSE
  <2>1. CASE Reject
    <3>1. Rejected.seq = run.seq
      BY <1>5 DEF OrderInv, Rejected, NewRun
    <3> QED
      BY <1>2, <2>1, <3>1 DEF Reject, bridge
  <2>2. CASE /\ UNCHANGED <<run, handled, checking, up, commands, answered, results, broker>>
             /\ \A l \in Legs : state'[l] = "none"
    BY <1>0, <1>5, <2>2 DEF OrderInv, Lines
  <2> QED
    BY <1>4, <1>5, <2>1, <2>2, Unhandled
<1> SUFFICES ASSUME handled = TRUE PROVE OrderInv'
  BY <1>0, <1>5
<1>6. CASE Sync
  <2> DEFINE h(unwritable) == SyncRun(Begin(ApplyResults(run, results), unwritable), state)
  <2>1. PICK unwritable \in SUBSET Nat : Completes(h(unwritable)) /\ results' = {}
    BY <1>1, <1>6, UnwritableIn DEF Sync
  <2>2. Numbers(run.seq, h(unwritable))
    BY <1>0, <1>6, SyncNumbers DEF Sync
  <2> HIDE DEF h
  <2> QED
    BY <1>3, <1>6, <2>1, <2>2 DEF Sync, Completes
<1>7. CASE \E action \in Actions : Manage(action)
  <2>1. PICK action \in Actions : Manage(action)
    BY <1>7
  <2> DEFINE h(unwritable, price, quote) == ApplyAction(Begin(run, unwritable), action, price, quote)
  <2>2. PICK unwritable \in SUBSET Nat, price \in MovePrices, quote \in Quotes : Completes(h(unwritable, price, quote))
    BY <1>1, <2>1, UnwritableIn DEF Manage
  <2>3. Works(run, h(unwritable, price, quote))
    BY <1>0, WorksBegin, WorksApplyAction, RunAssumption
  <2> HIDE DEF h
  <2>4. Numbers(run.seq, h(unwritable, price, quote))
    BY <2>3, WorksNumbers
  <2> QED
    BY <1>3, <2>1, <2>2, <2>4 DEF Manage, Completes
<1>8. CASE Answer
  <2>1. PICK c : AnswersLine(c)
    BY <1>8, AnswerTakes
  <2>2. \A x \in results' : x \in results \/ x.n = c.n
    BY <2>1 DEF AnswersLine, ExecuteCommand, RefuseCommand, Result
  <2>3. c \in Lines /\ c.n \in Nat /\ c.n <= run.seq
    BY <1>0, <2>1 DEF AnswersLine
  <2>4. Lines' \subseteq Lines /\ Increasing(commands') /\ answered' = {} /\ handled' = TRUE /\ run' = run /\ up' = up
        /\ \A d \in Lines' : c.n < d.n
    BY <2>1 DEF AnswersLine, Takes
  <2>5. ASSUME NEW x \in results'
        PROVE  x.n <= run.seq /\ \A d \in Lines' : x.n < d.n
    BY <2>2, <2>3, <2>4 DEF OrderInv
  <2> QED
    BY <1>0, <2>4, <2>5 DEF OrderInv
<1>9. CASE SyncBlind
  <2>1. run.state \in Live => ApplyResults(run, results).seq = run.seq
    BY <1>0, ApplyResultsState DEF Live
  <2> QED
    BY <1>2, <1>9, <2>1 DEF SyncBlind
<1>10. CASE FinishPostcheck
  <2>1. [run EXCEPT !.close_requested = TRUE].seq = run.seq
    BY <1>0, RunFields DEF RunType
  <2> QED
    BY <1>2, <1>10, <2>1 DEF FinishPostcheck, bridge
<1>11. ASSUME NEW l \in Legs, TimePasses(l)
       PROVE  OrderInv'
  <2>1. PICK timer \in {"missing_since", "inflight_since", "retry_after"}, from \in {"on"}, to \in {"due", "off"} :
            Passes(l, timer, from, to)
    BY <1>11 DEF TimePasses, GraceOver, ResultOverdue, BackoffOver
  <2>2. run'.seq = run.seq
    BY <2>1, TimerLegs
  <2> QED
    BY <1>2, <2>1, <2>2 DEF Passes, bridge
<1>12. CASE \/ WriteState \/ TtlPasses \/ UNCHANGED vars
            \/ \E l \in Legs : Fill(l) \/ HitTp(l) \/ HitSl(l) \/ CloseByHand(l) \/ OrderGone(l)
  <2>1. UNCHANGED <<run, handled, up, commands, answered, results>>
    BY <1>12 DEF WriteState, TtlPasses, Fill, HitTp, HitSl, CloseByHand, OrderGone, Becomes, vars, trader, bridge
  <2> QED
    BY <1>2, <2>1
<1>13. ~Reject /\ ~Restart
  BY <1>0 DEF Reject, Restart
<1> QED
  BY <1>4, <1>6, <1>7, <1>8, <1>9, <1>10, <1>11, <1>12, <1>13 DEF Next

LEMMA OrderInit == Init => OrderInv
  BY DEF Init, OrderInv, Lines, Increasing

(* While the trader does not die in a handler, what a leg was finally      *)
(* recorded as never changes and an open leg is never taken for a pending  *)
(* or unplaced one again: the run is placed once.                          *)
THEOREM RunLegsMoveForward ==
  ASSUME "crash" \notin Faults
  PROVE  Spec => LegsMoveForward
<1>1. Init => RunInv /\ FitsInv /\ OrderInv
  <2>1. Init => FitsInv
    BY NewLegFields DEF Init, FitsInv, RunFits, Rests, Fits
  <2> QED
    BY <2>1, RunInvInit, OrderInit
<1>2. RunInv /\ FitsInv /\ OrderInv /\ [Next]_vars => (RunInv /\ FitsInv /\ OrderInv)'
  BY RunInvNext, ForwardNext, OrderNext
<1> DEFINE Forward == \A l \in Legs :
                        /\ run.legs[l].state \in Finished => run'.legs[l].state = run.legs[l].state
                        /\ run.legs[l].state = "OPEN" => run'.legs[l].state \in {"OPEN"} \union Closed
<1>3. RunInv /\ FitsInv /\ OrderInv /\ [Next]_vars => Forward
  <2> SUFFICES ASSUME RunInv, FitsInv, OrderInv, [Next]_vars PROVE Forward
    OBVIOUS
  <2>1. CASE handled = TRUE
    BY <2>1, ForwardNext DEF LegsForward, LegForward
  <2>2. CASE handled = FALSE
    <3>1. \A l \in Legs : run.legs[l].state = "PLACING"
      BY <2>2, NewLegFields DEF OrderInv
    <3> QED
      BY <3>1 DEF Finished, Closed
  <2> QED
    BY <2>1, <2>2 DEF RunInv, TypeOK
<1>4. Spec => [][Forward]_vars
  <2>1. RunInv /\ FitsInv /\ OrderInv /\ [Next]_vars => [Forward]_vars
    BY <1>3
  <2> QED
    BY <1>1, <1>2, <2>1, PTL DEF Spec
<1> QED
  BY <1>4 DEF LegsMoveForward

(***************************************************************************)
(* One leg, seen from everywhere: what the trader saved of it, its order   *)
(* or position at the broker, its entry in state.json, the command lines   *)
(* for it and the results of its commands.                                 *)
(***************************************************************************)
View(l) ==
  [ leg |-> run.legs[l], at |-> broker[l], seen |-> state[l],
    lines |-> {c \in Lines : c.leg = l}, answers |-> {x \in results : x.leg = l} ]

\* A leg of a run that counted to q.
ViewOK(v, q) ==
  /\ v.leg \in LegOK /\ Fits(v.leg)
  /\ v.at.st \in Entries /\ v.seen \in Entries
  /\ v.lines \subseteq CommandType /\ v.answers \subseteq ResultType
  /\ \A c \in v.lines : /\ c.n <= q
                        /\ c.n = v.leg.inflight_cmd => v.leg.inflight_kind = c.kind /\ v.leg.inflight_sl = c.sl
  /\ \A x \in v.answers : x.n <= q /\ \A c \in v.lines : x.n < c.n
  /\ q \in Nat

Unchanged(v, w) ==
  w.leg = v.leg /\ w.at = v.at /\ w.seen = v.seen /\ w.lines = v.lines /\ w.answers = v.answers

\* The trader places the leg, or gives it up at once.
PlacesLeg(v, w) ==
  /\ v.leg = NewLeg /\ v.at.st = "none" /\ v.seen = "none"
  /\ w.at = v.at /\ w.seen = v.seen /\ w.answers = {}
  /\ \/ /\ w.leg.state = "CANCELLED" /\ w.leg.inflight_cmd = NoCmd /\ w.leg.inflight_kind = "none"
        /\ w.leg.inflight_since = "off" /\ w.leg.missing_since = "off" /\ w.lines = {}
     \/ \E c \in CommandType : c.kind \in Opening /\ w.lines = {c} /\ w.leg = Waiting(NewLeg, c.n, c)

\* The trader read the results: it makes a of the leg.
ReadsLeg(v, a) ==
  \/ a = v.leg /\ \A x \in v.answers : x.n # v.leg.inflight_cmd
  \/ \E x \in v.answers : x.n = v.leg.inflight_cmd /\ v.leg.inflight_cmd # NoCmd /\ ReadAs(v.leg, x, a)

\* The line c was written last for the leg, which was a, after the lines before.
AsksLeg(a, before, w, c, q) ==
  /\ w.leg = Waiting(a, c.n, c) /\ before \subseteq w.lines /\ c.n > q /\ Asks(a, c)
  /\ \A d \in w.lines : d.n <= c.n /\ (d \in before \/ Asks(a, d))
  /\ c.kind = "close" => a.inflight_cmd = NoCmd /\ w.lines = before \union {c}

\* The trader manages the leg, which was a and had the lines before.
ManagesLeg(a, before, w, q) ==
  \/ w.leg = a /\ w.lines = before
  \/ /\ "unsent" \in Faults /\ a.state \in {"OPEN", "PENDING_ORDER"}
     /\ w.leg = NoInflight(a) /\ before \subseteq w.lines /\ \A d \in w.lines : d \in before \/ Asks(a, d)
  \/ \E c \in w.lines : AsksLeg(a, before, w, c, q)

TraderLeg(v, w, l, q) ==
  /\ w.at = v.at /\ w.seen = v.seen
  /\ \/ ManagesLeg(v.leg, v.lines, w, q) /\ w.answers = v.answers
     \/ /\ \E a : ReadsLeg(v, a) /\ ManagesLeg(Detect(ExpireInflight(a), l, v.seen), v.lines, w, q)
        /\ w.answers = {}
     \/ ReadsLeg(v, w.leg) /\ w.lines = v.lines /\ w.answers = {}

\* A deadline of the leg passes.
TimeLeg(v, w) ==
  /\ w.at = v.at /\ w.seen = v.seen /\ w.lines = v.lines /\ w.answers = v.answers
  /\ \/ /\ v.leg.missing_since = "on" /\ w.leg = [v.leg EXCEPT !.missing_since = "due"]
        /\ v.seen = v.at.st \/ "stale" \in Faults
     \/ /\ w.leg = [v.leg EXCEPT !.inflight_since = "due"]
        /\ (v.lines = {} /\ v.answers = {}) \/ "late" \in Faults
     \/ w.leg = [v.leg EXCEPT !.retry_after = "off"]

Able(b, c) ==
  /\ c.kind \in {"modify_sl", "close"} => b.st = "position"
  /\ c.kind = "cancel" => b.st = "order"

\* The EA carried out c: the leg's entry at the broker was b and is d.
Carried(b, c, d) ==
  /\ Able(b, c)
  /\ c.kind \in Opening => d.st = (IF b.st # "none" THEN "twice" ELSE IF c.kind = "open_market" THEN "position" ELSE "order")
                           /\ d.sl = SignalSl
  /\ c.kind = "modify_sl" => d.st = b.st /\ d.sl = c.sl
  /\ c.kind = "close" => d.st = "CLOSED_MANUAL"
  /\ c.kind = "cancel" => d.st = "gone"

Answered(v, w, c, ok) == \E x \in ResultType : x.n = c.n /\ x.ok = ok /\ w.answers = v.answers \union {x}

\* The EA answers the leg's first line c.
AnswersLeg(v, w, c) ==
  /\ w.leg = v.leg /\ w.seen = v.seen
  /\ c \in v.lines /\ w.lines = v.lines \ {c} /\ \A d \in w.lines : c.n < d.n
  /\ \/ Carried(v.at, c, w.at) /\ (Answered(v, w, c, TRUE) \/ ("lost" \in Faults /\ w.answers = v.answers))
     \/ (~Able(v.at, c) \/ "reject" \in Faults) /\ w.at = v.at /\ Answered(v, w, c, FALSE)

\* The order is filled or goes, the position is closed.
MarketLeg(v, w) ==
  /\ w.leg = v.leg /\ w.seen = v.seen /\ w.lines = v.lines /\ w.answers = v.answers
  /\ \/ v.at.st = "order" /\ w.at.st = "position" /\ w.at.sl = v.at.sl
     \/ v.at.st = "order" /\ w.at.st = "gone"
     \/ v.at.st = "position" /\ w.at.st \in Closed

WritesLeg(v, w) ==
  w.leg = v.leg /\ w.at = v.at /\ w.seen = v.at.st /\ w.lines = v.lines /\ w.answers = v.answers

LegStep(v, w, l, q) ==
  \/ Unchanged(v, w) \/ PlacesLeg(v, w) \/ TraderLeg(v, w, l, q) \/ TimeLeg(v, w)
  \/ (\E c \in CommandType : AnswersLeg(v, w, c)) \/ MarketLeg(v, w) \/ WritesLeg(v, w)

LEMMA ViewFields ==
  ASSUME NEW l \in Legs
  PROVE  /\ View(l).leg = run.legs[l] /\ View(l).at = broker[l] /\ View(l).seen = state[l]
         /\ View(l).lines = {c \in Lines : c.leg = l} /\ View(l).answers = {x \in results : x.leg = l}
         /\ View(l)'.leg = run'.legs[l] /\ View(l)'.at = broker'[l] /\ View(l)'.seen = state'[l]
         /\ View(l)'.lines = {c \in Lines' : c.leg = l} /\ View(l)'.answers = {x \in results' : x.leg = l}
  BY DEF View

\* What holds of every run while the trader does not die in a handler.
CalmInv == RunInv /\ FitsInv /\ WaitsInv /\ OrderInv

LEMMA CalmInit == Init => CalmInv
<1>1. Init => FitsInv
  BY NewLegFields DEF Init, FitsInv, RunFits, Rests, Fits
<1>2. Init => WaitsInv
  BY DEF Init, WaitsInv, Lines, NewRun
<1> QED
  BY <1>1, <1>2, RunInvInit, OrderInit DEF CalmInv

LEMMA CalmNext ==
  ASSUME "crash" \notin Faults
  PROVE  CalmInv /\ [Next]_vars => CalmInv'
  BY RunInvNext, ForwardNext, WaitsNext, OrderNext DEF CalmInv

LEMMA CalmViews ==
  ASSUME CalmInv, NEW l \in Legs
  PROVE  ViewOK(View(l), run.seq)
<1>1. /\ run.legs[l] \in LegOK /\ Fits(run.legs[l]) /\ broker[l].st \in Entries /\ state[l] \in Entries
      /\ Lines \in SUBSET CommandType /\ results \subseteq ResultType /\ run.seq \in Nat
  BY RunFields, LinesTypes DEF CalmInv, RunInv, TypeOK, ResultType, FitsInv, RunFits
<1>2. \A c \in Lines : /\ c.n <= run.seq
                       /\ c.leg = l /\ c.n = run.legs[l].inflight_cmd =>
                            run.legs[l].inflight_kind = c.kind /\ run.legs[l].inflight_sl = c.sl
  BY DEF CalmInv, WaitsInv, LineOK, OrderInv
<1>3. \A x \in results : x.n <= run.seq /\ \A c \in Lines : x.n < c.n
  BY DEF CalmInv, OrderInv
<1>4. /\ View(l).leg = run.legs[l] /\ View(l).at = broker[l] /\ View(l).seen = state[l]
      /\ View(l).lines = {c \in Lines : c.leg = l} /\ View(l).answers = {x \in results : x.leg = l}
  BY ViewFields
<1> QED
  BY <1>1, <1>2, <1>3, <1>4 DEF ViewOK

\* What a handler at work on the run r did to the leg l, seen from the leg.
LEMMA HandlerManages ==
  ASSUME CalmInv, NEW h, h \in HandlerType, Completes(h), NEW r, NEW acted, Works(r, acted), r.seq = run.seq,
         h.out = acted.out, h.unwritable = acted.unwritable, h.run.legs = acted.run.legs,
         NEW l \in Legs, NEW w, w.leg = run'.legs[l], w.lines = {c \in Lines' : c.leg = l}
  PROVE  ManagesLeg(r.legs[l], {c \in Lines : c.leg = l}, w, run.seq)
<1> DEFINE before == {c \in Lines : c.leg = l}
           a == r.legs[l]
<1>1. /\ TypeOK /\ run' = h.run /\ run.seq \in Nat /\ Lines' = Lines \union {h.out[i] : i \in 1..Len(h.out)}
      /\ h.out \in Seq(CommandType) /\ \A c \in Lines : c.n <= run.seq /\ c.n \in Nat
  <2>1. TypeOK /\ run \in RunOK /\ run' = h.run /\ h.out \in Seq(CommandType)
    BY DEF CalmInv, RunInv, Completes, HandlerType
  <2>2. \A c \in Lines : c.n <= run.seq /\ c.n \in Nat
    BY <2>1, LinesTypes DEF CalmInv, OrderInv, CommandType
  <2>3. Lines' = Lines \union {h.out[i] : i \in 1..Len(h.out)}
    BY <2>1, CompletesLines
  <2> QED
    BY <2>1, <2>2, <2>3, RunFields
<1>2. w.leg = acted.run.legs[l] /\ LegWorks(a, l, acted)
  BY <1>1 DEF Works
<1>3. \A d \in w.lines : d \in before \/ \E i \in 1..Len(h.out) : d = h.out[i] /\ h.out[i].leg = l
  BY <1>1
<1>4. before \subseteq w.lines
  BY <1>1
<1>5. /\ Increasing(h.out)
      /\ \A i \in 1..Len(h.out) : run.seq < h.out[i].n /\ h.out[i].n \in Nat
  <2>1. \A i \in 1..Len(h.out) : h.out[i] \in CommandType
    BY <1>1
  <2>2. \A i \in 1..Len(h.out) : h.out[i].n \in Nat
    BY <2>1 DEF CommandType
  <2> QED
    BY <2>2 DEF Works, Numbers
<1>6. CASE acted.run.legs[l] = a /\ Unasked(l, h.out)
  <2>1. w.lines = before
    BY <1>3, <1>4, <1>6 DEF Unasked
  <2> QED
    BY <1>2, <1>6, <2>1 DEF ManagesLeg
<1>7. CASE /\ acted.unwritable # {} /\ a.state \in {"OPEN", "PENDING_ORDER"} /\ acted.run.legs[l] = NoInflight(a)
           /\ \A i \in 1..Len(h.out) : h.out[i].leg = l => Asks(a, h.out[i])
  <2>1. "unsent" \in Faults
    BY <1>7 DEF Completes, Fault
  <2>2. \A d \in w.lines : d \in before \/ Asks(a, d)
    BY <1>3, <1>7
  <2> QED
    BY <1>2, <1>4, <1>7, <2>1, <2>2 DEF ManagesLeg
<1>8. ASSUME NEW i \in 1..Len(h.out), LastAsked(a, l, h.out, i), acted.run.legs[l] = Waiting(a, h.out[i].n, h.out[i])
      PROVE  ManagesLeg(a, before, w, run.seq)
  <2> DEFINE c == h.out[i]
  <2>1. c \in w.lines
    BY <1>1, <1>8 DEF LastAsked
  <2>2. run.seq < c.n /\ c.n \in Nat
    BY <1>5
  <2>3. ASSUME NEW d \in w.lines
        PROVE  d.n <= c.n /\ (d \in before \/ Asks(a, d))
    <3>1. CASE d \in before
      BY <1>1, <2>2, <3>1
    <3>2. ASSUME NEW j \in 1..Len(h.out), d = h.out[j], h.out[j].leg = l
          PROVE  d.n <= c.n /\ (d \in before \/ Asks(a, d))
      <4>1. j <= i /\ Asks(a, h.out[j])
        BY <1>8, <3>2 DEF LastAsked
      <4>2. j < i => h.out[j].n < h.out[i].n
        BY <1>5 DEF Increasing
      <4>3. h.out[j].n \in Nat /\ h.out[i].n \in Nat
        BY <1>5
      <4> QED
        BY <3>2, <4>1, <4>2, <4>3
    <3> QED
      BY <1>3, <3>1, <3>2
  <2>4. Asks(a, c)
    BY <1>8 DEF LastAsked
  <2>5. ASSUME c.kind = "close"
        PROVE  a.inflight_cmd = NoCmd /\ w.lines = before \union {c}
    <3>1. a.inflight_cmd = NoCmd /\ \A j \in 1..Len(h.out) : h.out[j].leg = l => j = i
      BY <1>8, <2>5 DEF LastAsked
    <3>2. \A d \in w.lines : d \in before \union {c}
      BY <1>3, <3>1
    <3> QED
      BY <1>4, <2>1, <3>1, <3>2
  <2>6. w.leg = Waiting(a, c.n, c)
    BY <1>2, <1>8
  <2>7. c.n > run.seq
    BY <1>1, <2>2
  <2> HIDE DEF c, before, a
  <2>8. AsksLeg(a, before, w, c, run.seq)
    BY <1>4, <2>3, <2>4, <2>5, <2>6, <2>7 DEF AsksLeg
  <2> QED
    BY <2>1, <2>8 DEF ManagesLeg
<1> QED
  BY <1>2, <1>6, <1>7, <1>8 DEF LegWorks

LEMMA RunReadsLeg ==
  ASSUME NEW r \in RunOK, NEW rs, rs \subseteq ResultType, NEW l \in Legs,
         NEW v, v.leg = r.legs[l], v.answers = {x \in rs : x.leg = l}
  PROVE  ReadsLeg(v, ApplyResults(r, rs).legs[l])
<1>1. CASE ApplyResults(r, rs).legs[l] = r.legs[l] /\ \A x \in rs : x.leg = l => x.n # r.legs[l].inflight_cmd
  BY <1>1 DEF ReadsLeg
<1>2. ASSUME NEW x \in rs, x.leg = l, x.n = r.legs[l].inflight_cmd, r.legs[l].inflight_cmd # NoCmd,
             ReadAs(r.legs[l], x, ApplyResults(r, rs).legs[l])
      PROVE  ReadsLeg(v, ApplyResults(r, rs).legs[l])
  BY <1>2 DEF ReadsLeg
<1> QED
  BY <1>1, <1>2, ApplyResultsLeg

LEMMA PlacesLegs ==
  ASSUME CalmInv, handled = FALSE, NEW unwritable \in SUBSET Nat, NEW h \in Placements(unwritable), Completes(h),
         NEW l \in Legs, NEW v, v.leg = run.legs[l], v.at = broker[l], v.seen = state[l],
         NEW w, w.leg = run'.legs[l], w.at = v.at, w.seen = v.seen,
         w.lines = {c \in Lines' : c.leg = l}, w.answers = {x \in results : x.leg = l}
  PROVE  PlacesLeg(v, w)
<1>1. /\ TypeOK /\ run = NewRun /\ Lines = {} /\ results = {} /\ broker[l].st = "none" /\ state[l] = "none"
      /\ run' = h.run
  BY DEF CalmInv, RunInv, OrderInv, Lines, Completes
<1>2. h \in HandlerType /\ Placed(h.run.legs[l], l, h.out)
      /\ \A i, j \in 1..Len(h.out) : h.out[i].leg = h.out[j].leg => i = j
  <2>1. /\ h \in HandlerType /\ Placed(h.run.legs[l], l, h.out) /\ Increasing(h.out)
        /\ \A i \in 1..Len(h.out) : h.out[i].leg = h.out[i].n
    BY PlacementsLegs DEF Numbers
  <2>2. \A i \in 1..Len(h.out) : h.out[i] \in CommandType
    BY <2>1 DEF HandlerType
  <2>3. \A i \in 1..Len(h.out) : h.out[i].n \in Nat
    BY <2>2 DEF CommandType
  <2> QED
    BY <2>1, <2>3 DEF Increasing
<1>3. Lines' = {h.out[i] : i \in 1..Len(h.out)}
  BY <1>1, <1>2, CompletesLines
<1>4. v.leg = NewLeg /\ v.at.st = "none" /\ v.seen = "none" /\ w.at = v.at /\ w.seen = v.seen /\ w.answers = {}
  BY <1>1, NewLegFields
<1>5. CASE /\ h.run.legs[l].state = "CANCELLED" /\ h.run.legs[l].inflight_cmd = NoCmd
           /\ h.run.legs[l].inflight_kind = "none"
           /\ h.run.legs[l].inflight_since = "off" /\ h.run.legs[l].missing_since = "off" /\ Unasked(l, h.out)
  <2>1. w.lines = {}
    BY <1>3, <1>5 DEF Unasked
  <2> QED
    BY <1>1, <1>4, <1>5, <2>1 DEF PlacesLeg
<1>6. ASSUME NEW kind \in Opening, NEW i \in 1..Len(h.out),
             h.out[i] = [leg |-> l, n |-> l, kind |-> kind, sl |-> NoPrice],
             h.run.legs[l] = Waiting(NewLeg, l, h.out[i])
      PROVE  PlacesLeg(v, w)
  <2> DEFINE c == h.out[i]
  <2>1. c \in CommandType
    <3>1. h.out \in Seq(CommandType)
      BY <1>2 DEF HandlerType
    <3> QED
      BY <1>6, <3>1
  <2>2. c.kind \in Opening /\ c.n = l /\ c.leg = l
    BY <1>6
  <2>3. w.lines = {c}
    <3>1. \A j \in 1..Len(h.out) : h.out[j].leg = l => j = i
      BY <1>2, <2>2
    <3> QED
      BY <1>3, <1>6, <2>2, <3>1
  <2>4. w.leg = Waiting(NewLeg, c.n, c)
    BY <1>1, <1>6, <2>2
  <2> HIDE DEF c
  <2> QED
    BY <1>4, <2>1, <2>2, <2>3, <2>4 DEF PlacesLeg
<1> QED
  BY <1>2, <1>5, <1>6 DEF Placed

LEMMA AnswersLegs ==
  ASSUME CalmInv, NEW c, AnswersLine(c), NEW l \in Legs,
         NEW v, v.leg = run.legs[l], v.at = broker[l], v.seen = state[l],
         v.lines = {d \in Lines : d.leg = l}, v.answers = {x \in results : x.leg = l},
         NEW w, w.leg = run'.legs[l], w.at = broker'[l], w.seen = state'[l],
         w.lines = {d \in Lines' : d.leg = l}, w.answers = {x \in results' : x.leg = l}
  PROVE  IF c.leg = l THEN AnswersLeg(v, w, c) ELSE Unchanged(v, w)
<1>0. /\ broker \in [Legs -> [st : Entries, sl : Prices \union {NoPrice}]] /\ c \in CommandType /\ c \in Lines
      /\ Lines' = Lines \ {c} /\ (\A d \in Lines' : c.n < d.n) /\ run' = run /\ state' = state
      /\ (ExecuteCommand(c) \/ RefuseCommand(c)) /\ c.leg \in Legs
  BY DEF CalmInv, RunInv, TypeOK, AnswersLine, Takes, CommandType
<1>1. ASSUME NEW ok \in BOOLEAN, NEW price \in Prices \union {NoPrice}, results' = results \union {Result(c, ok, price)}
      PROVE  IF c.leg = l THEN Answered(v, w, c, ok) ELSE w.answers = v.answers
  <2> DEFINE x == Result(c, ok, price)
  <2>1. x \in ResultType /\ x.n = c.n /\ x.ok = ok /\ x.leg = c.leg
    BY <1>0 DEF Result, ResultType, CommandType
  <2>2. results' = results \union {x}
    BY <1>1
  <2> HIDE DEF x
  <2>3. CASE c.leg = l
    <3>1. w.answers = v.answers \union {x}
      BY <2>1, <2>2, <2>3
    <3> QED
      BY <2>1, <2>3, <3>1 DEF Answered
  <2>4. CASE c.leg # l
    BY <2>1, <2>2, <2>4
  <2> QED
    BY <2>3, <2>4
<1>2. CanDo(c) <=> Able(broker[c.leg], c)
  BY <1>0 DEF CanDo, Able, CommandType, Kinds, Opening
<1>3. CASE RefuseCommand(c)
  <2>1. broker' = broker /\ results' = results \union {Result(c, FALSE, NoPrice)} /\ (~CanDo(c) \/ "reject" \in Faults)
    BY <1>3 DEF RefuseCommand, Fault
  <2>2. IF c.leg = l THEN Answered(v, w, c, FALSE) ELSE w.answers = v.answers
    BY <1>1, <2>1
  <2>3. CASE c.leg = l
    BY <1>0, <1>2, <2>1, <2>2, <2>3 DEF AnswersLeg
  <2>4. CASE c.leg # l
    BY <1>0, <2>1, <2>2, <2>4 DEF Unchanged
  <2> QED
    BY <2>3, <2>4
<1>4. CASE ExecuteCommand(c)
  <2>1. broker' = [broker EXCEPT ![c.leg] = Done(c)] /\ CanDo(c)
    BY <1>4 DEF ExecuteCommand
  <2>2. FillPrice[c.leg] \in Prices
    BY <1>0 DEF Prices
  <2>3. \/ results' = results /\ "lost" \in Faults
        \/ \E price \in Prices \union {NoPrice} : results' = results \union {Result(c, TRUE, price)}
    BY <1>4, <2>2 DEF ExecuteCommand, Fault
  <2>4. \/ w.answers = v.answers /\ (c.leg = l => "lost" \in Faults)
        \/ c.leg = l /\ Answered(v, w, c, TRUE)
    BY <1>1, <2>3
  <2>5. CASE c.leg = l
    <3>1. w.at = Done(c) /\ v.at = broker[c.leg] /\ v.at.st \in Entries
      BY <1>0, <2>1, <2>5
    <3>2. Carried(v.at, c, w.at)
      <4>1. Able(v.at, c)
        BY <1>2, <2>1, <3>1
      <4>2. CASE c.kind = "open_market"
        <5>1. Done(c) = [st |-> Once(c, "position"), sl |-> SignalSl]
          BY <4>2 DEF Done
        <5>2. w.at.st = Once(c, "position") /\ w.at.sl = SignalSl
          BY <3>1, <5>1
        <5> QED
          BY <3>1, <4>1, <4>2, <5>2 DEF Carried, Once
      <4>3. CASE c.kind = "open_pending"
        <5>1. Done(c) = [st |-> Once(c, "order"), sl |-> SignalSl]
          BY <4>3 DEF Done
        <5>2. w.at.st = Once(c, "order") /\ w.at.sl = SignalSl
          BY <3>1, <5>1
        <5> QED
          BY <3>1, <4>1, <4>3, <5>2 DEF Carried, Once
      <4>4. CASE c.kind = "modify_sl"
        <5>1. Done(c) = [broker[c.leg] EXCEPT !.sl = c.sl]
          BY <4>4 DEF Done
        <5>2. broker[c.leg] \in [st : Entries, sl : Prices \union {NoPrice}]
          BY <1>0
        <5>3. w.at.st = v.at.st /\ w.at.sl = c.sl
          BY <3>1, <5>1, <5>2
        <5> QED
          BY <4>1, <4>4, <5>3 DEF Carried, Opening
      <4>5. CASE c.kind = "close"
        <5>1. Done(c) = [st |-> "CLOSED_MANUAL", sl |-> NoPrice]
          BY <4>5 DEF Done
        <5>2. w.at.st = "CLOSED_MANUAL"
          BY <3>1, <5>1
        <5> QED
          BY <4>1, <4>5, <5>2 DEF Carried, Opening
      <4>6. CASE c.kind = "cancel"
        <5>1. Done(c) = [st |-> "gone", sl |-> NoPrice]
          BY <4>6 DEF Done
        <5>2. w.at.st = "gone"
          BY <3>1, <5>1
        <5> QED
          BY <4>1, <4>6, <5>2 DEF Carried, Opening
      <4> QED
        BY <1>0, <4>2, <4>3, <4>4, <4>5, <4>6 DEF CommandType, Kinds, Opening
    <3>3. /\ w.leg = v.leg /\ w.seen = v.seen /\ c \in v.lines /\ w.lines = v.lines \ {c}
          /\ \A d \in w.lines : c.n < d.n
      BY <1>0, <2>5
    <3> QED
      BY <2>4, <2>5, <3>2, <3>3 DEF AnswersLeg
  <2>6. CASE c.leg # l
    <3>1. w.at = v.at
      BY <1>0, <2>1, <2>6
    <3>2. w.lines = v.lines
      BY <1>0, <2>6
    <3> QED
      BY <1>0, <2>4, <2>6, <3>1, <3>2 DEF Unchanged
  <2> QED
    BY <2>5, <2>6
<1> QED
  BY <1>0, <1>3, <1>4

\* Every step, seen from one leg.
LEMMA LegSteps ==
  ASSUME "crash" \notin Faults, CalmInv, [Next]_vars, NEW l \in Legs,
         NEW v, v.leg = run.legs[l], v.at = broker[l], v.seen = state[l],
         v.lines = {c \in Lines : c.leg = l}, v.answers = {x \in results : x.leg = l},
         NEW w, w.leg = run'.legs[l], w.at = broker'[l], w.seen = state'[l],
         w.lines = {c \in Lines' : c.leg = l}, w.answers = {x \in results' : x.leg = l}
  PROVE  LegStep(v, w, l, run.seq)
<1>0. /\ TypeOK /\ run \in RunOK /\ results \subseteq ResultType /\ state \in [Legs -> Entries]
      /\ up = TRUE /\ handled \in BOOLEAN /\ OrderInv /\ RunInv /\ Rests(run) /\ RunFits(run)
      /\ broker \in [Legs -> [st : Entries, sl : Prices \union {NoPrice}]]
  BY DEF CalmInv, RunInv, TypeOK, ResultType, OrderInv, FitsInv
<1>1. \A h : ~DiesIn(h)
  BY DEF DiesIn, Fault
<1>2. ASSUME run'.legs[l] = run.legs[l], UNCHANGED <<commands, results, broker, state>>
      PROVE  LegStep(v, w, l, run.seq)
  <2>1. Lines' = Lines
    BY <1>2 DEF Lines
  <2> QED
    BY <1>2, <2>1 DEF LegStep, Unchanged
<1>3. CASE Place
  <2>1. PICK unwritable \in SUBSET Nat : \E h \in Placements(unwritable) : Completes(h)
    BY <1>1, <1>3, <1>0, UnwritableIn DEF Place
  <2>2. PICK h \in Placements(unwritable) : Completes(h)
    BY <2>1
  <2>3. handled = FALSE /\ results' = results /\ broker' = broker /\ state' = state
    BY <1>0, <1>3 DEF Place
  <2>4. w.at = v.at /\ w.seen = v.seen /\ w.answers = {x \in results : x.leg = l}
    BY <2>3
  <2>5. PlacesLeg(v, w)
    BY <2>2, <2>3, <2>4, PlacesLegs
  <2> QED
    BY <2>5 DEF LegStep
<1>4. CASE Reject
  <2>1. Rejected.legs[l] = run.legs[l]
    BY <1>4 DEF Reject, OrderInv, CalmInv, Rejected, NewRun
  <2> QED
    BY <1>2, <1>4, <2>1 DEF Reject, bridge
<1>5. CASE Sync
  <2> DEFINE a == ApplyResults(run, results)
             o == Observe(a, state)
             h(unwritable) == SyncRun(Begin(a, unwritable), state)
  <2>1. PICK unwritable \in SUBSET Nat : Completes(h(unwritable)) /\ results' = {}
    BY <1>1, <1>5, <1>0, UnwritableIn DEF Sync
  <2>2. broker' = broker /\ state' = state /\ run.state \in Live
    BY <1>5 DEF Sync
  <2>3. a \in RunOK /\ a.seq = run.seq /\ ReadsLeg(v, a.legs[l])
    <3>1. ReadsLeg(v, a.legs[l])
      BY <1>0, RunReadsLeg
    <3> QED
      BY <1>0, <2>2, <3>1, ApplyResultsOK, ApplyResultsState DEF Live
  <2>4. h(unwritable) \in HandlerType
    <3>1. Good({}, Managing, h(unwritable))
      BY <1>0, SyncGood
    <3> QED
      BY <3>1 DEF Good
  <2> HIDE DEF a
  <2>5. PICK acted : /\ Works(o, acted) /\ h(unwritable).out = acted.out
                     /\ h(unwritable).unwritable = acted.unwritable /\ h(unwritable).run = Recompute(acted.run)
    BY <1>0, <2>3, WorksSyncRun
  <2>6. o \in RunOK /\ o.seq = run.seq
    BY <1>0, <2>3, ObserveOK DEF QuietRun
  <2>7. o.legs[l] = Detect(ExpireInflight(a.legs[l]), l, v.seen)
    BY <1>0, <2>3, ObserveLeg
  <2> HIDE DEF h, o
  <2>8. h(unwritable).run.legs = acted.run.legs
    <3>1. acted.run \in RunOK
      BY <2>5 DEF Works, HandlerType
    <3> QED
      BY <2>5, <3>1, RecomputeState
  <2>9. ManagesLeg(o.legs[l], v.lines, w, run.seq)
    <3>1. PICK k : k = h(unwritable)
      OBVIOUS
    <3>2. /\ k \in HandlerType /\ Completes(k) /\ k.out = acted.out /\ k.unwritable = acted.unwritable
          /\ k.run.legs = acted.run.legs /\ Works(o, acted) /\ o.seq = run.seq
      BY <2>1, <2>4, <2>5, <2>6, <2>8, <3>1
    <3>3. ManagesLeg(o.legs[l], {c \in Lines : c.leg = l}, w, run.seq)
      BY <3>2, HandlerManages
    <3> QED
      BY <3>3
  <2>10. w.answers = {}
    BY <2>1
  <2>11. \E b : ReadsLeg(v, b) /\ ManagesLeg(Detect(ExpireInflight(b), l, v.seen), v.lines, w, run.seq)
    BY <2>3, <2>7, <2>9
  <2>12. TraderLeg(v, w, l, run.seq)
    BY <2>2, <2>10, <2>11 DEF TraderLeg
  <2> QED
    BY <2>12 DEF LegStep
<1>6. CASE \E action \in Actions : Manage(action)
  <2>1. PICK action \in Actions : Manage(action)
    BY <1>6
  <2> DEFINE h(unwritable, price, quote) == ApplyAction(Begin(run, unwritable), action, price, quote)
  <2>2. PICK unwritable \in SUBSET Nat, price \in MovePrices, quote \in Quotes : Completes(h(unwritable, price, quote))
    BY <1>1, <2>1, <1>0, UnwritableIn DEF Manage
  <2>3. Works(run, h(unwritable, price, quote))
    BY <1>0, WorksBegin, WorksApplyAction, RunAssumption
  <2> HIDE DEF h
  <2>4. broker' = broker /\ state' = state /\ results' = results
    BY <2>1 DEF Manage
  <2>5. h(unwritable, price, quote) \in HandlerType
    BY <2>3 DEF Works
  <2>6. ManagesLeg(run.legs[l], v.lines, w, run.seq)
    BY <2>2, <2>3, <2>5, HandlerManages
  <2>7. TraderLeg(v, w, l, run.seq)
    BY <2>4, <2>6 DEF TraderLeg
  <2> QED
    BY <2>7 DEF LegStep
<1>7. CASE SyncBlind
  <2>1. ReadsLeg(v, w.leg)
    <3>1. CASE run.state \in Live
      <4>1. ReadsLeg(v, ApplyResults(run, results).legs[l])
        BY <1>0, RunReadsLeg
      <4> QED
        BY <1>7, <3>1, <4>1 DEF SyncBlind
    <3>2. CASE run.state \notin Live
      <4>1. w.leg = v.leg /\ v.leg.inflight_cmd = NoCmd
        BY <1>0, <1>7, <3>2 DEF SyncBlind, Rests
      <4>2. \A x \in v.answers : x.n # NoCmd
        BY <1>0 DEF ResultType, NoCmd
      <4> QED
        BY <4>1, <4>2 DEF ReadsLeg
    <3> QED
      BY <3>1, <3>2
  <2>2. w.answers = {} /\ w.lines = v.lines /\ w.at = v.at /\ w.seen = v.seen
    BY <1>7 DEF SyncBlind, Lines
  <2>3. TraderLeg(v, w, l, run.seq)
    BY <2>1, <2>2 DEF TraderLeg
  <2> QED
    BY <2>3 DEF LegStep
<1>8. CASE FinishPostcheck
  <2>1. [run EXCEPT !.close_requested = TRUE].legs = run.legs
    BY <1>0, RunFields DEF RunType
  <2>2. run'.legs[l] = run.legs[l]
    BY <1>8, <2>1 DEF FinishPostcheck
  <2> QED
    BY <1>2, <1>8, <2>2 DEF FinishPostcheck, bridge
<1>9. CASE Answer
  <2>1. PICK c : AnswersLine(c)
    BY <1>0, <1>9, AnswerTakes
  <2>2. IF c.leg = l THEN AnswersLeg(v, w, c) ELSE Unchanged(v, w)
    BY <2>1, AnswersLegs
  <2>3. c \in CommandType
    BY <2>1 DEF AnswersLine
  <2> QED
    BY <2>2, <2>3 DEF LegStep
<1>10. ASSUME NEW k \in Legs, TimePasses(k)
       PROVE  LegStep(v, w, l, run.seq)
  <2>0. UNCHANGED <<commands, results, broker, state>>
    BY <1>10 DEF TimePasses, GraceOver, ResultOverdue, BackoffOver, Passes, bridge
  <2>1. /\ w.lines = v.lines /\ w.answers = v.answers /\ w.at = v.at /\ w.seen = v.seen
    BY <2>0 DEF Lines
  <2>2. CASE k # l
    <3>1. PICK timer \in {"missing_since", "inflight_since", "retry_after"}, from \in {"on"}, to \in {"due", "off"} :
              Passes(k, timer, from, to)
      BY <1>10 DEF TimePasses, GraceOver, ResultOverdue, BackoffOver
    <3>2. RunInv /\ l \in Legs \ {k}
      BY <1>0, <2>2
    <3>3. \A j \in Legs \ {k} : run'.legs[j] = run.legs[j]
      BY ZenonT(40), <3>1, <3>2, TimerLegs
    <3>4. run'.legs[l] = run.legs[l]
      BY <3>2, <3>3
    <3> QED
      BY <1>2, <2>0, <3>4
  <2>3. CASE k = l /\ GraceOver(k)
    <3>1. Passes(l, "missing_since", "on", "due") /\ (v.seen = v.at.st \/ "stale" \in Faults)
      BY <2>3 DEF GraceOver, Fault
    <3>2. run'.legs[l] = [run.legs[l] EXCEPT !["missing_since"] = "due"] /\ run.legs[l]["missing_since"] = "on"
      BY <1>0, <3>1, TimerLegs
    <3> QED
      BY <2>1, <3>1, <3>2 DEF LegStep, TimeLeg
  <2>4. CASE k = l /\ ResultOverdue(k)
    <3>1. Passes(l, "inflight_since", "on", "due") /\ (~Unanswered(l) \/ "late" \in Faults)
      BY <2>4 DEF ResultOverdue, Fault
    <3>2. run'.legs[l] = [run.legs[l] EXCEPT !["inflight_since"] = "due"]
      BY <1>0, <3>1, TimerLegs
    <3>3. ~Unanswered(l) => v.lines = {} /\ v.answers = {}
      BY DEF Unanswered, Lines
    <3> QED
      BY <2>1, <3>1, <3>2, <3>3 DEF LegStep, TimeLeg
  <2>5. CASE k = l /\ BackoffOver(k)
    <3>1. Passes(l, "retry_after", "on", "off")
      BY <2>5 DEF BackoffOver
    <3>2. run'.legs[l] = [run.legs[l] EXCEPT !["retry_after"] = "off"]
      BY <1>0, <3>1, TimerLegs
    <3> QED
      BY <2>1, <3>2 DEF LegStep, TimeLeg
  <2> QED
    BY <1>10, <2>2, <2>3, <2>4, <2>5 DEF TimePasses
<1>11. ASSUME NEW k \in Legs, Fill(k) \/ HitTp(k) \/ HitSl(k) \/ CloseByHand(k) \/ OrderGone(k)
       PROVE  LegStep(v, w, l, run.seq)
  <2>1. PICK st \in Entries : /\ Becomes(k, st)
                              /\ \/ broker[k].st = "order" /\ st \in {"position", "gone"}
                                 \/ broker[k].st = "position" /\ st \in Closed
    BY <1>11 DEF Fill, HitTp, HitSl, CloseByHand, OrderGone, Entries, Closed
  <2>2. /\ broker' = [broker EXCEPT ![k] = [st |-> st, sl |-> IF st = "position" THEN broker[k].sl ELSE NoPrice]]
        /\ UNCHANGED <<run, commands, results, state>>
    BY <1>0, <2>1 DEF Becomes, trader, bridge
  <2>3. CASE k # l
    <3>1. w.at = v.at
      BY <1>0, <2>2, <2>3
    <3>2. w.leg = v.leg /\ w.seen = v.seen /\ w.lines = v.lines /\ w.answers = v.answers
      BY <2>2 DEF Lines
    <3> QED
      BY <3>1, <3>2 DEF LegStep, Unchanged
  <2>4. CASE k = l
    <3>1. w.at = [st |-> st, sl |-> IF st = "position" THEN v.at.sl ELSE NoPrice]
      BY <1>0, <2>2, <2>4
    <3>2. w.at.st = st /\ (st = "position" => w.at.sl = v.at.sl)
      BY <3>1
    <3>3. w.leg = v.leg /\ w.seen = v.seen /\ w.lines = v.lines /\ w.answers = v.answers
      BY <2>2 DEF Lines
    <3>4. MarketLeg(v, w)
      BY <2>1, <2>4, <3>2, <3>3 DEF MarketLeg, Closed
    <3> QED
      BY <3>4 DEF LegStep
  <2> QED
    BY <2>3, <2>4
<1>12. CASE WriteState
  <2>1. state'[l] = broker[l].st
    BY <1>12 DEF WriteState, Current
  <2>2. UNCHANGED <<run, commands, results, broker>>
    BY <1>12 DEF WriteState, trader, bridge
  <2>3. w.leg = v.leg /\ w.at = v.at /\ w.lines = v.lines /\ w.answers = v.answers
    BY <2>2 DEF Lines
  <2> QED
    BY <2>1, <2>3 DEF LegStep, WritesLeg
<1>13. CASE TtlPasses \/ UNCHANGED vars
  <2>1. UNCHANGED <<run, commands, results, broker, state>>
    BY <1>13 DEF TtlPasses, vars, trader, bridge
  <2> QED
    BY <1>2, <2>1
<1>14. ~Restart
  BY <1>0 DEF Restart
<1> QED
  BY <1>3, <1>4, <1>5, <1>6, <1>7, <1>8, <1>9, <1>10, <1>11, <1>12, <1>13, <1>14 DEF Next

LEMMA ReadsFields ==
  ASSUME NEW v, NEW q, ViewOK(v, q), NEW a, ReadsLeg(v, a)
  PROVE  a \in LegOK /\ Fits(a) /\ (a.inflight_cmd = NoCmd \/ (a = v.leg /\ \A x \in v.answers : x.n # v.leg.inflight_cmd))
<1>1. v.leg \in LegOK /\ Fits(v.leg)
  BY DEF ViewOK
<1>2. CASE a = v.leg /\ \A x \in v.answers : x.n # v.leg.inflight_cmd
  BY <1>1, <1>2
<1>3. ASSUME NEW x \in v.answers, v.leg.inflight_cmd # NoCmd, ReadAs(v.leg, x, a)
      PROVE  a \in LegOK /\ Fits(a) /\ a.inflight_cmd = NoCmd
  <2>1. v.leg \in LegType /\ x \in ResultType
    BY <1>1, <1>3 DEF LegOK, ViewOK
  <2>0. 1 \in Legs
    BY RunAssumption DEF Legs
  <2>2. CASE a = Succeeded(v.leg, x.fill_price)
    <3>1. x.fill_price \in Prices \union {NoPrice}
      BY <2>1 DEF ResultType
    <3>2. \A price : Onward(v.leg, Succeeded(v.leg, price))
      BY <1>1, <1>3, <2>0, OnwardReadings
    <3>3. a \in LegOK
      BY <1>1, <1>3, <2>2, <3>1, SucceededOK
    <3>4. a.inflight_cmd = NoCmd
      BY <1>1, <1>3, <2>2, SucceededFields
    <3> QED
      BY <2>2, <3>2, <3>3, <3>4 DEF Onward
  <2>3. CASE a = Failed(v.leg)
    <3>1. Onward(v.leg, Failed(v.leg))
      BY <1>1, <2>0, OnwardReadings
    <3>2. a \in LegOK
      BY <1>1, <2>3, FailedOK
    <3>3. a.inflight_cmd = NoCmd
      BY <2>1, <2>3, FailedFields
    <3> QED
      BY <2>3, <3>1, <3>2, <3>3 DEF Onward
  <2> QED
    BY <1>3, <2>2, <2>3 DEF ReadAs
<1> QED
  BY <1>2, <1>3 DEF ReadsLeg

LEMMA SeenFields ==
  ASSUME NEW a \in LegOK, Fits(a), NEW l \in Legs, NEW entry \in Entries
  PROVE  LET o == Detect(ExpireInflight(a), l, entry)
         IN /\ o \in LegOK /\ Fits(o)
            /\ \/ o.inflight_cmd = NoCmd
               \/ /\ o.inflight_cmd = a.inflight_cmd /\ o.inflight_kind = a.inflight_kind
                  /\ o.inflight_sl = a.inflight_sl
<1> DEFINE e == ExpireInflight(a)
           o == Detect(e, l, entry)
<1>1. /\ e \in LegOK /\ Onward(a, e)
      /\ \/ e.inflight_cmd = NoCmd
         \/ /\ e.inflight_cmd = a.inflight_cmd /\ e.inflight_kind = a.inflight_kind
            /\ e.inflight_sl = a.inflight_sl
  <2>1. a \in LegType
    BY DEF LegOK
  <2>2. \/ e.inflight_cmd = NoCmd
        \/ e.inflight_cmd = a.inflight_cmd /\ e.inflight_kind = a.inflight_kind /\ e.inflight_sl = a.inflight_sl
    BY <2>1, ExpireFields
  <2> QED
    BY <2>2, ExpireInflightOK, OnwardReadings
<1> HIDE DEF e
<1>2. e \in LegType /\ Fits(e)
  BY <1>1 DEF LegOK, Onward
<1>3. /\ o \in LegOK /\ Onward(e, o)
      /\ o.inflight_cmd = e.inflight_cmd /\ o.inflight_kind = e.inflight_kind /\ o.inflight_sl = e.inflight_sl
  <2>1. o.inflight_cmd = e.inflight_cmd /\ o.inflight_kind = e.inflight_kind /\ o.inflight_sl = e.inflight_sl
    BY <1>2, DetectFields
  <2>2. o \in LegOK
    BY <1>1, DetectOK
  <2>3. Onward(e, o)
    BY <1>1, <1>2, OnwardReadings
  <2> QED
    BY <2>1, <2>2, <2>3
<1> HIDE DEF o
<1>4. /\ o \in LegOK /\ Fits(o)
      /\ \/ o.inflight_cmd = NoCmd
         \/ /\ o.inflight_cmd = a.inflight_cmd /\ o.inflight_kind = a.inflight_kind
            /\ o.inflight_sl = a.inflight_sl
  BY <1>1, <1>3 DEF Onward
<1> QED
  BY <1>4 DEF o, e

LEMMA ManagesFields ==
  ASSUME NEW a \in LegOK, NEW before, NEW w, NEW q, ManagesLeg(a, before, w, q)
  PROVE  /\ before \subseteq w.lines
         /\ \/ w.leg.inflight_cmd = NoCmd \/ w.leg = a
            \/ \E c \in w.lines : w.leg.inflight_cmd = c.n
<1>1. a \in LegType
  BY DEF LegOK
<1>2. NoInflight(a).inflight_cmd = NoCmd
  BY <1>1, NoInflightFields
<1>3. ASSUME NEW c \in w.lines, AsksLeg(a, before, w, c, q)
      PROVE  before \subseteq w.lines /\ w.leg.inflight_cmd = c.n
  BY <1>1, <1>3, WaitingFields DEF AsksLeg
<1> QED
  BY <1>2, <1>3 DEF ManagesLeg

(***************************************************************************)
(* An answer is coming                                                     *)
(***************************************************************************)
AnswerLeg(v) ==
  v.leg.inflight_cmd # NoCmd =>
    \/ \E c \in v.lines : c.n = v.leg.inflight_cmd
    \/ \E x \in v.answers : x.n = v.leg.inflight_cmd

LEMMA AnswerStep ==
  ASSUME "lost" \notin Faults, NEW v, NEW w, NEW q, NEW l \in Legs, ViewOK(v, q), AnswerLeg(v), LegStep(v, w, l, q)
  PROVE  AnswerLeg(w)
<1>0. v.leg \in LegOK /\ v.leg \in LegType /\ v.seen \in Entries
  BY DEF ViewOK, LegOK
<1>1. CASE Unchanged(v, w) \/ MarketLeg(v, w) \/ WritesLeg(v, w)
  BY <1>1 DEF Unchanged, MarketLeg, WritesLeg, AnswerLeg
<1>2. CASE PlacesLeg(v, w)
  <2>1. ASSUME NEW c \in w.lines, w.leg = Waiting(NewLeg, c.n, c)
        PROVE  AnswerLeg(w)
    BY <2>1, NewLegFields, WaitingFields DEF AnswerLeg
  <2> QED
    BY <1>2, <2>1 DEF PlacesLeg, AnswerLeg
<1>3. ASSUME NEW a \in LegOK, ManagesLeg(a, v.lines, w, q),
             a.inflight_cmd # NoCmd => \/ \E c \in v.lines : c.n = a.inflight_cmd
                                       \/ \E x \in w.answers : x.n = a.inflight_cmd
      PROVE  AnswerLeg(w)
  <2>1. /\ v.lines \subseteq w.lines
        /\ w.leg.inflight_cmd = NoCmd \/ w.leg = a \/ \E c \in w.lines : w.leg.inflight_cmd = c.n
    BY <1>3, ManagesFields
  <2> QED
    BY <1>3, <2>1 DEF AnswerLeg
<1>4. ASSUME NEW a, ReadsLeg(v, a)
      PROVE  /\ a \in LegOK /\ Fits(a)
             /\ a.inflight_cmd # NoCmd => \E c \in v.lines : c.n = a.inflight_cmd
  <2>1. a \in LegOK /\ Fits(a) /\ (a.inflight_cmd = NoCmd \/ (a = v.leg /\ \A x \in v.answers : x.n # v.leg.inflight_cmd))
    BY <1>4, ReadsFields
  <2> QED
    BY <2>1 DEF AnswerLeg
<1>5. CASE TraderLeg(v, w, l, q)
  <2>1. CASE ManagesLeg(v.leg, v.lines, w, q) /\ w.answers = v.answers
    BY <1>0, <1>3, <2>1 DEF AnswerLeg
  <2>2. ASSUME NEW a, ReadsLeg(v, a), ManagesLeg(Detect(ExpireInflight(a), l, v.seen), v.lines, w, q)
        PROVE  AnswerLeg(w)
    <3> DEFINE o == Detect(ExpireInflight(a), l, v.seen)
    <3>1. a \in LegOK /\ Fits(a) /\ (a.inflight_cmd # NoCmd => \E c \in v.lines : c.n = a.inflight_cmd)
      BY <1>4, <2>2
    <3>2. o \in LegOK /\ (o.inflight_cmd = NoCmd \/ o.inflight_cmd = a.inflight_cmd)
      BY <1>0, <3>1, SeenFields
    <3>3. ManagesLeg(o, v.lines, w, q)
      BY <2>2
    <3> HIDE DEF o
    <3> QED
      BY <1>3, <3>1, <3>2, <3>3
  <2>3. CASE ReadsLeg(v, w.leg) /\ w.lines = v.lines
    BY <1>4, <2>3 DEF AnswerLeg
  <2> QED
    BY <1>5, <2>1, <2>2, <2>3 DEF TraderLeg
<1>6. CASE TimeLeg(v, w)
  <2>1. w.leg.inflight_cmd = v.leg.inflight_cmd
    BY <1>0, <1>6 DEF TimeLeg, LegType
  <2> QED
    BY <1>6, <2>1 DEF TimeLeg, AnswerLeg
<1>7. ASSUME NEW c, AnswersLeg(v, w, c)
      PROVE  AnswerLeg(w)
  <2>1. PICK x : x.n = c.n /\ w.answers = v.answers \union {x}
    BY <1>7 DEF AnswersLeg, Answered
  <2>2. w.leg = v.leg /\ w.lines = v.lines \ {c}
    BY <1>7 DEF AnswersLeg
  <2> QED
    BY <2>1, <2>2 DEF AnswerLeg
<1> QED
  BY <1>1, <1>2, <1>5, <1>6, <1>7 DEF LegStep

AnswerInv == \A l \in Legs : AnswerLeg(View(l))

LEMMA AnswerNext ==
  ASSUME "crash" \notin Faults, "lost" \notin Faults
  PROVE  CalmInv /\ AnswerInv /\ [Next]_vars => AnswerInv'
<1> SUFFICES ASSUME CalmInv, AnswerInv, [Next]_vars, NEW l \in Legs PROVE AnswerLeg(View(l))'
  BY DEF AnswerInv
<1> DEFINE v == View(l)
           w == View(l)'
<1>1. /\ v.leg = run.legs[l] /\ v.at = broker[l] /\ v.seen = state[l]
      /\ v.lines = {c \in Lines : c.leg = l} /\ v.answers = {x \in results : x.leg = l}
      /\ w.leg = run'.legs[l] /\ w.at = broker'[l] /\ w.seen = state'[l]
      /\ w.lines = {c \in Lines' : c.leg = l} /\ w.answers = {x \in results' : x.leg = l}
  BY ViewFields
<1>2. ViewOK(v, run.seq) /\ AnswerLeg(v)
  BY CalmViews DEF AnswerInv
<1> HIDE DEF v, w
<1>3. LegStep(v, w, l, run.seq)
  BY <1>1, LegSteps
<1>4. AnswerLeg(w)
  BY <1>2, <1>3, AnswerStep
<1> QED
  BY <1>4 DEF w, AnswerLeg

LEMMA AnswerInit == Init => AnswerInv
<1> SUFFICES ASSUME Init, NEW l \in Legs PROVE AnswerLeg(View(l))
  BY DEF AnswerInv
<1>1. View(l).leg.inflight_cmd = NoCmd
  BY ViewFields, NewLegFields DEF Init
<1> QED
  BY <1>1 DEF AnswerLeg

(* While no result is lost and the trader does not die in a handler, a leg *)
(* that waits, waits for something: its command is still to be answered,   *)
(* or its result is still to be read.                                      *)
THEOREM RunAnswerIsComing ==
  ASSUME "crash" \notin Faults, "lost" \notin Faults
  PROVE  Spec => []AnswerIsComing
<1>1. Init => CalmInv /\ AnswerInv
  BY CalmInit, AnswerInit
<1>2. CalmInv /\ AnswerInv /\ [Next]_vars => (CalmInv /\ AnswerInv)'
  BY CalmNext, AnswerNext
<1>3. AnswerInv => AnswerIsComing
  <2> SUFFICES ASSUME AnswerInv, NEW l \in Legs, run.legs[l].inflight_cmd # NoCmd
               PROVE  \/ \E i \in 1..Len(commands) : Id(commands[i]) = <<l, run.legs[l].inflight_cmd>>
                      \/ \E x \in results : <<x.leg, x.n>> = <<l, run.legs[l].inflight_cmd>>
    BY DEF AnswerIsComing
  <2>1. AnswerLeg(View(l)) /\ View(l).leg = run.legs[l]
    BY ViewFields DEF AnswerInv
  <2>2. \/ \E c \in Lines : c.leg = l /\ c.n = run.legs[l].inflight_cmd
        \/ \E x \in results : x.leg = l /\ x.n = run.legs[l].inflight_cmd
    BY <2>1, ViewFields DEF AnswerLeg
  <2> QED
    BY <2>2 DEF Lines, Id
<1> QED
  BY <1>1, <1>2, <1>3, PTL DEF Spec

(***************************************************************************)
(* Nothing is orphaned                                                     *)
(***************************************************************************)
Over(at) == at.st \notin {"order", "position", "twice"}

\* state.json lags the broker, and never runs ahead of it.
SeenFits(at, seen) ==
  /\ at.st # "twice" /\ seen # "twice"
  /\ seen = "position" => at.st \notin {"none", "order"}
  /\ seen \in Closed \union {"gone"} => at.st = seen
  /\ seen = "order" => at.st # "none"

\* What the trader believes of the leg, against the broker and state.json.
Stands(leg, at, seen) ==
  /\ leg.state = "PLACING" => leg.missing_since = "off"
  /\ leg.inflight_kind = "open_market" => at.st # "order" /\ seen # "order"
  /\ leg.state = "OPEN" => at.st \notin {"none", "order"} /\ seen # "order"
  /\ leg.state \in Finished => Over(at)
  /\ leg.missing_since = "due" /\ seen \notin {"order", "position"} => Over(at)

\* A line that opens the leg is the command it waits for, and has opened nothing yet.
OpensFor(leg, at, lines) ==
  \A c \in lines : c.kind \in Opening => leg.state = "PLACING" /\ leg.inflight_cmd = c.n /\ at.st = "none"

\* The result the leg waits for says what became of it at the broker.
Tells(leg, at, answers) ==
  \A x \in answers : x.n = leg.inflight_cmd =>
    /\ x.ok = TRUE /\ leg.inflight_kind = "open_market" => at.st \notin {"none", "order"}
    /\ x.ok = FALSE /\ leg.inflight_kind \in Opening => at.st = "none"
    /\ x.ok = TRUE /\ leg.inflight_kind \in {"close", "cancel"} => Over(at)

OrphanLeg(v) ==
  /\ SeenFits(v.at, v.seen) /\ Stands(v.leg, v.at, v.seen)
  /\ OpensFor(v.leg, v.at, v.lines) /\ Tells(v.leg, v.at, v.answers)

LEMMA OrphanReads ==
  ASSUME NEW v, NEW q, ViewOK(v, q), OrphanLeg(v), NEW a, ReadsLeg(v, a)
  PROVE  Stands(a, v.at, v.seen) /\ OpensFor(a, v.at, v.lines)
<1> DEFINE leg == v.leg
<1>0. /\ leg \in LegOK /\ leg \in LegType /\ Fits(leg)
      /\ leg.inflight_kind \in Kinds \union {"none"} /\ (leg.inflight_cmd = NoCmd <=> leg.inflight_kind = "none")
  BY DEF ViewOK, LegOK, LegType
<1>1. Stands(leg, v.at, v.seen) /\ OpensFor(leg, v.at, v.lines) /\ Tells(leg, v.at, v.answers)
  BY DEF OrphanLeg
<1>2. CASE a = leg
  BY <1>1, <1>2
<1>3. ASSUME NEW x \in v.answers, x.n = leg.inflight_cmd, leg.inflight_cmd # NoCmd, ReadAs(leg, x, a)
      PROVE  Stands(a, v.at, v.seen) /\ OpensFor(a, v.at, v.lines)
  <2>1. \A c \in v.lines : x.n < c.n /\ x.n \in Nat /\ c.n \in Nat
    <3>1. x \in ResultType /\ \A c \in v.lines : x.n < c.n /\ c \in CommandType
      BY <1>3 DEF ViewOK
    <3> QED
      BY <3>1 DEF ResultType, CommandType
  <2>2. \A c \in v.lines : c.kind \notin Opening
    <3> SUFFICES ASSUME NEW c \in v.lines, c.kind \in Opening PROVE FALSE
      OBVIOUS
    <3>1. leg.inflight_cmd = c.n /\ x.n < c.n /\ x.n \in Nat
      BY <1>1, <2>1 DEF OpensFor
    <3> QED
      BY <3>1, <1>3
  <2>3. OpensFor(a, v.at, v.lines)
    BY <2>2 DEF OpensFor
  <2>4. /\ x.ok = TRUE /\ leg.inflight_kind = "open_market" => v.at.st \notin {"none", "order"}
        /\ x.ok = FALSE /\ leg.inflight_kind \in Opening => v.at.st = "none"
        /\ x.ok = TRUE /\ leg.inflight_kind \in {"close", "cancel"} => Over(v.at)
    BY <1>1, <1>3 DEF Tells
  <2>5. leg.inflight_kind \in Opening => leg.state = "PLACING" /\ leg.missing_since = "off"
    BY <1>0, <1>1 DEF Fits, Stands, Opening
  <2>6. leg.inflight_kind \notin Opening => leg.state # "PLACING"
    BY <1>0, <1>3 DEF Fits, Opening
  <2>7. CASE x.ok = TRUE /\ a = Succeeded(leg, x.fill_price)
    <3>1. a.inflight_kind = "none" /\ a.missing_since = leg.missing_since /\ leg.inflight_kind \in Kinds
      BY <1>0, <1>3, <2>7, SucceededFields
    <3>2. /\ leg.inflight_kind = "open_market" => a.state = "OPEN"
          /\ leg.inflight_kind = "open_pending" => a.state = "PENDING_ORDER"
          /\ leg.inflight_kind = "modify_sl" => a.state = leg.state
          /\ leg.inflight_kind = "close" => a.state = "CLOSED_MANUAL"
          /\ leg.inflight_kind = "cancel" => a.state = "CANCELLED"
      BY <1>0, <1>3, <2>7, SucceededFields
    <3>3. CASE leg.inflight_kind = "open_market"
      <4>1. a.state = "OPEN" /\ a.missing_since = "off" /\ v.at.st \notin {"none", "order"} /\ v.seen # "order"
        BY <1>1, <2>4, <2>5, <2>7, <3>1, <3>2, <3>3 DEF Stands, Opening
      <4> QED
        BY <4>1, <3>1, <2>3 DEF Stands, Finished, Closed
    <3>4. CASE leg.inflight_kind = "open_pending"
      <4>1. a.state = "PENDING_ORDER" /\ a.missing_since = "off"
        BY <2>5, <3>1, <3>2, <3>4 DEF Opening
      <4> QED
        BY <4>1, <3>1, <2>3 DEF Stands, Finished, Closed
    <3>5. CASE leg.inflight_kind = "modify_sl"
      BY <3>1, <3>2, <3>5, <2>3, <1>1 DEF Stands
    <3>6. CASE leg.inflight_kind \in {"close", "cancel"}
      <4>1. Over(v.at) /\ a.state \in {"CLOSED_MANUAL", "CANCELLED"}
        BY <2>4, <2>7, <3>2, <3>6
      <4> QED
        BY <4>1, <3>1, <2>3 DEF Stands, Over
    <3> QED
      BY <3>1, <3>3, <3>4, <3>5, <3>6 DEF Kinds, Opening
  <2>8. CASE x.ok = FALSE /\ a = Failed(leg)
    <3>1. /\ a.inflight_kind = "none" /\ a.missing_since = leg.missing_since
          /\ a.state = IF leg.inflight_kind \in Opening THEN "CANCELLED" ELSE leg.state
      BY <1>0, <2>8, FailedFields
    <3>2. CASE leg.inflight_kind \in Opening
      <4>1. v.at.st = "none" /\ a.state = "CANCELLED" /\ a.missing_since = "off"
        BY <2>4, <2>5, <2>8, <3>1, <3>2
      <4> QED
        BY <4>1, <3>1, <2>3 DEF Stands, Over
    <3>3. CASE leg.inflight_kind \notin Opening
      BY <3>1, <3>3, <2>3, <1>1 DEF Stands
    <3> QED
      BY <3>2, <3>3
  <2> QED
    BY <1>3, <2>7, <2>8 DEF ReadAs
<1> QED
  BY <1>2, <1>3 DEF ReadsLeg

LEMMA OrphanSees ==
  ASSUME NEW a \in LegOK, Fits(a), NEW l \in Legs, NEW at, NEW seen \in Entries, NEW lines,
         SeenFits(at, seen), Stands(a, at, seen), OpensFor(a, at, lines)
  PROVE  LET o == Detect(ExpireInflight(a), l, seen) IN Stands(o, at, seen) /\ OpensFor(o, at, lines)
<1> DEFINE e == ExpireInflight(a)
           o == Detect(e, l, seen)
<1>1. /\ e.state = a.state /\ e.missing_since = a.missing_since
      /\ \/ e.inflight_cmd = a.inflight_cmd /\ e.inflight_kind = a.inflight_kind
         \/ a.inflight_cmd # NoCmd /\ a.inflight_kind \notin Opening /\ e.inflight_kind = "none"
  <2>1. a \in LegType
    BY DEF LegOK
  <2> QED
    BY <2>1, ExpireFields
<1>2. e \in LegType
  BY ExpireInflightOK DEF LegOK
<1>3. Stands(e, at, seen)
  BY <1>1 DEF Stands, Opening
<1>4. OpensFor(e, at, lines)
  <2>1. a.inflight_cmd # NoCmd /\ a.inflight_kind \notin Opening => a.state # "PLACING"
    BY DEF LegOK, Fits, Opening
  <2> QED
    BY <1>1, <2>1 DEF OpensFor
<1> HIDE DEF e
<1>5. /\ o.inflight_cmd = e.inflight_cmd /\ o.inflight_kind = e.inflight_kind
      /\ \/ /\ o.state = e.state /\ o.missing_since \in {e.missing_since, "off", "on"}
            /\ e.state \notin {"PENDING_ORDER", "OPEN"} => o.missing_since = e.missing_since
         \/ /\ e.inflight_cmd = NoCmd /\ o.missing_since = "off"
            /\ \/ e.state = "PENDING_ORDER" /\ seen = "position" /\ o.state = "OPEN"
               \/ /\ e.state = "PENDING_ORDER" /\ seen \notin {"order", "position"}
                  /\ e.missing_since = "due" /\ o.state = "CANCELLED"
               \/ e.state = "OPEN" /\ seen \in Closed /\ o.state = seen
               \/ /\ e.state = "OPEN" /\ seen # "position"
                  /\ e.missing_since = "due" /\ o.state = "CLOSED_MANUAL"
  BY <1>2, DetectFields
<1> HIDE DEF o
<1>6. Stands(o, at, seen)
  <2>1. CASE o.state = e.state /\ o.missing_since \in {e.missing_since, "off", "on"}
             /\ (e.state \notin {"PENDING_ORDER", "OPEN"} => o.missing_since = e.missing_since)
    BY <1>3, <1>5, <2>1 DEF Stands
  <2>2. CASE o.missing_since = "off" /\ o.state = "OPEN" /\ seen = "position"
    BY <1>3, <1>5, <2>2 DEF Stands, SeenFits, Finished, Closed
  <2>3. CASE o.missing_since = "off" /\ o.state \in Finished /\ Over(at)
    <3>1. o.state # "PLACING" /\ o.state # "OPEN"
      BY <2>3 DEF Finished, Closed
    <3> QED
      BY <1>3, <1>5, <2>3, <3>1 DEF Stands
  <2>4. CASE e.state = "OPEN" /\ o.missing_since = "off" /\ o.state = seen /\ seen \in Closed
    <3>1. Over(at) /\ o.state \in Finished
      BY <2>4 DEF SeenFits, Over, Closed, Finished
    <3> QED
      BY <3>1, <2>3, <2>4
  <2>5. CASE e.missing_since = "due" /\ seen \notin {"order", "position"}
             /\ o.missing_since = "off" /\ o.state \in {"CANCELLED", "CLOSED_MANUAL"}
    <3>1. Over(at) /\ o.state \in Finished
      BY <1>3, <2>5 DEF Stands, Finished, Closed
    <3> QED
      BY <3>1, <2>3, <2>5
  <2>6. e.state = "OPEN" => seen # "order"
    BY <1>3 DEF Stands
  <2> QED
    BY <1>5, <2>1, <2>2, <2>4, <2>5, <2>6
<1>7. OpensFor(o, at, lines)
  BY <1>4, <1>5 DEF OpensFor
<1> QED
  BY <1>6, <1>7 DEF o, e

LEMMA OrphanManages ==
  ASSUME NEW a \in LegOK, Fits(a), NEW at, NEW seen, NEW before, NEW w, NEW q \in Nat,
         Stands(a, at, seen), OpensFor(a, at, before), Tells(a, at, w.answers),
         \A x \in w.answers : x.n <= q, w.answers \subseteq ResultType, w.lines \subseteq CommandType,
         ManagesLeg(a, before, w, q)
  PROVE  Stands(w.leg, at, seen) /\ OpensFor(w.leg, at, w.lines) /\ Tells(w.leg, at, w.answers)
<1>0. a \in LegType
  BY DEF LegOK
<1>1. CASE w.leg = a /\ w.lines = before
  BY <1>1
<1>2. CASE /\ a.state \in {"OPEN", "PENDING_ORDER"} /\ w.leg = NoInflight(a)
           /\ \A d \in w.lines : d \in before \/ Asks(a, d)
  <2>1. /\ w.leg.inflight_cmd = NoCmd /\ w.leg.inflight_kind = "none" /\ w.leg.state = a.state
        /\ w.leg.missing_since = a.missing_since
    BY <1>0, <1>2, NoInflightFields
  <2>2. Stands(w.leg, at, seen)
    BY <2>1 DEF Stands
  <2>3. OpensFor(w.leg, at, w.lines)
    <3>1. \A d \in w.lines : d.kind \notin Opening
      BY <1>2 DEF OpensFor, Asks, Opening
    <3> QED
      BY <3>1 DEF OpensFor
  <2>4. Tells(w.leg, at, w.answers)
    BY <2>1 DEF Tells, Opening
  <2> QED
    BY <2>2, <2>3, <2>4
<1>3. ASSUME NEW c \in w.lines, AsksLeg(a, before, w, c, q)
      PROVE  Stands(w.leg, at, seen) /\ OpensFor(w.leg, at, w.lines) /\ Tells(w.leg, at, w.answers)
  <2>1. /\ w.leg.inflight_cmd = c.n /\ w.leg.inflight_kind = c.kind /\ w.leg.state = a.state
        /\ w.leg.missing_since = a.missing_since
    BY <1>0, <1>3, WaitingFields DEF AsksLeg
  <2>2. a.state \in {"OPEN", "PENDING_ORDER"} /\ c.kind \in {"modify_sl", "close", "cancel"}
    BY <1>3 DEF AsksLeg, Asks
  <2>3. Stands(w.leg, at, seen)
    BY <2>1, <2>2 DEF Stands
  <2>4. OpensFor(w.leg, at, w.lines)
    <3>1. ASSUME NEW d \in w.lines, d.kind \in Opening PROVE FALSE
      <4>1. d \in before \/ Asks(a, d)
        BY <1>3, <3>1 DEF AsksLeg
      <4>2. d \notin before
        BY <2>2, <3>1 DEF OpensFor
      <4> QED
        BY <3>1, <4>1, <4>2 DEF Asks, Opening
    <3> QED
      BY <3>1 DEF OpensFor
  <2>5. Tells(w.leg, at, w.answers)
    <3>1. ASSUME NEW x \in w.answers, x.n = c.n PROVE FALSE
      <4>1. x.n <= q /\ c.n > q /\ x \in ResultType /\ c \in CommandType
        BY <1>3, <3>1 DEF AsksLeg
      <4> QED
        BY <3>1, <4>1 DEF ResultType, CommandType
    <3> QED
      BY <2>1, <3>1 DEF Tells
  <2> QED
    BY <2>3, <2>4, <2>5
<1> QED
  BY <1>1, <1>2, <1>3 DEF ManagesLeg

LEMMA OrphanTrader ==
  ASSUME NEW v, NEW w, NEW q, NEW l \in Legs, ViewOK(v, q), OrphanLeg(v), TraderLeg(v, w, l, q), w.lines \subseteq CommandType
  PROVE  OrphanLeg(w)
<1>0. /\ v.leg \in LegOK /\ Fits(v.leg) /\ v.seen \in Entries /\ q \in Nat
      /\ v.answers \subseteq ResultType /\ \A x \in v.answers : x.n <= q
  BY DEF ViewOK
<1>1. /\ SeenFits(v.at, v.seen) /\ Stands(v.leg, v.at, v.seen)
      /\ OpensFor(v.leg, v.at, v.lines) /\ Tells(v.leg, v.at, v.answers)
  BY DEF OrphanLeg
<1>2. w.at = v.at /\ w.seen = v.seen
  BY DEF TraderLeg
<1>3. CASE ManagesLeg(v.leg, v.lines, w, q) /\ w.answers = v.answers
  <2>1. Stands(w.leg, v.at, v.seen) /\ OpensFor(w.leg, v.at, w.lines) /\ Tells(w.leg, v.at, w.answers)
    BY <1>0, <1>1, <1>3, OrphanManages
  <2> QED
    BY <1>1, <1>2, <2>1 DEF OrphanLeg
<1>4. ASSUME NEW a, ReadsLeg(v, a), ManagesLeg(Detect(ExpireInflight(a), l, v.seen), v.lines, w, q), w.answers = {}
      PROVE  OrphanLeg(w)
  <2> DEFINE o == Detect(ExpireInflight(a), l, v.seen)
  <2>1. a \in LegOK /\ Fits(a)
    BY <1>4, ReadsFields
  <2>2. Stands(a, v.at, v.seen) /\ OpensFor(a, v.at, v.lines)
    BY <1>4, OrphanReads
  <2>3. o \in LegOK /\ Fits(o)
    BY <1>0, <2>1, SeenFields
  <2>4. Stands(o, v.at, v.seen) /\ OpensFor(o, v.at, v.lines)
    BY <1>0, <1>1, <2>1, <2>2, OrphanSees
  <2>5. ManagesLeg(o, v.lines, w, q) /\ Tells(o, v.at, w.answers)
    BY <1>4 DEF Tells
  <2>7. w.answers \subseteq ResultType /\ \A x \in w.answers : x.n <= q
    BY <1>4
  <2> HIDE DEF o
  <2>6. Stands(w.leg, v.at, v.seen) /\ OpensFor(w.leg, v.at, w.lines) /\ Tells(w.leg, v.at, w.answers)
    BY <1>0, <2>3, <2>4, <2>5, <2>7, OrphanManages
  <2> QED
    BY <1>1, <1>2, <2>6 DEF OrphanLeg
<1>5. CASE ReadsLeg(v, w.leg) /\ w.lines = v.lines /\ w.answers = {}
  <2>1. Stands(w.leg, v.at, v.seen) /\ OpensFor(w.leg, v.at, v.lines)
    BY <1>5, OrphanReads
  <2>2. Tells(w.leg, v.at, w.answers)
    BY <1>5 DEF Tells
  <2> QED
    BY <1>1, <1>2, <1>5, <2>1, <2>2 DEF OrphanLeg
<1> QED
  BY <1>3, <1>4, <1>5 DEF TraderLeg

LEMMA OrphanPlaces ==
  ASSUME NEW v, NEW w, PlacesLeg(v, w)
  PROVE  OrphanLeg(w)
<1>1. w.at.st = "none" /\ w.seen = "none" /\ w.answers = {}
  BY DEF PlacesLeg
<1>2. SeenFits(w.at, w.seen) /\ Tells(w.leg, w.at, w.answers)
  BY <1>1 DEF SeenFits, Tells, Closed
<1>3. CASE w.leg.state = "CANCELLED" /\ w.leg.inflight_kind = "none" /\ w.leg.missing_since = "off" /\ w.lines = {}
  BY <1>1, <1>2, <1>3 DEF OrphanLeg, Stands, OpensFor, Over
<1>4. ASSUME NEW c, w.lines = {c}, w.leg = Waiting(NewLeg, c.n, c)
      PROVE  OrphanLeg(w)
  <2>1. w.leg.state = "PLACING" /\ w.leg.missing_since = "off" /\ w.leg.inflight_cmd = c.n
    BY <1>4, NewLegFields, WaitingFields
  <2>2. Stands(w.leg, w.at, w.seen)
    BY <1>1, <2>1 DEF Stands, Over, Finished, Closed
  <2>3. OpensFor(w.leg, w.at, w.lines)
    BY <1>1, <1>4, <2>1 DEF OpensFor
  <2> QED
    BY <1>2, <2>2, <2>3 DEF OrphanLeg
<1> QED
  BY <1>3, <1>4 DEF PlacesLeg

LEMMA OrphanTime ==
  ASSUME "stale" \notin Faults, NEW v, NEW w, NEW q, ViewOK(v, q), OrphanLeg(v), TimeLeg(v, w)
  PROVE  OrphanLeg(w)
<1>0. v.leg \in LegType
  BY DEF ViewOK, LegOK
<1>1. /\ SeenFits(v.at, v.seen) /\ Stands(v.leg, v.at, v.seen)
      /\ OpensFor(v.leg, v.at, v.lines) /\ Tells(v.leg, v.at, v.answers)
  BY DEF OrphanLeg
<1>2. w.at = v.at /\ w.seen = v.seen /\ w.lines = v.lines /\ w.answers = v.answers
  BY DEF TimeLeg
<1>3. /\ w.leg.state = v.leg.state /\ w.leg.inflight_cmd = v.leg.inflight_cmd
      /\ w.leg.inflight_kind = v.leg.inflight_kind
  BY <1>0 DEF TimeLeg, LegType
<1>4. w.leg.missing_since = v.leg.missing_since \/ (v.leg.missing_since = "on" /\ v.seen = v.at.st)
  BY <1>0 DEF TimeLeg, LegType
<1>5. Stands(w.leg, v.at, v.seen)
  <2>1. CASE w.leg.missing_since = v.leg.missing_since
    BY <1>1, <1>3, <2>1 DEF Stands
  <2>2. CASE v.leg.missing_since = "on" /\ v.seen = v.at.st
    <3>1. v.seen \notin {"order", "position"} => Over(v.at)
      BY <1>1, <2>2 DEF SeenFits, Over
    <3>2. v.leg.state # "PLACING"
      BY <1>1, <2>2 DEF Stands
    <3> QED
      BY <1>1, <1>3, <3>1, <3>2 DEF Stands
  <2> QED
    BY <1>4, <2>1, <2>2
<1>6. OpensFor(w.leg, v.at, v.lines)
  BY <1>1, <1>3 DEF OpensFor
<1>7. Tells(w.leg, v.at, v.answers)
  BY <1>1, <1>3 DEF Tells
<1> QED
  BY <1>1, <1>2, <1>5, <1>6, <1>7 DEF OrphanLeg

LEMMA OrphanMarket ==
  ASSUME NEW v, NEW w, OrphanLeg(v), MarketLeg(v, w) \/ WritesLeg(v, w)
  PROVE  OrphanLeg(w)
<1>1. /\ SeenFits(v.at, v.seen) /\ Stands(v.leg, v.at, v.seen)
      /\ OpensFor(v.leg, v.at, v.lines) /\ Tells(v.leg, v.at, v.answers)
  BY DEF OrphanLeg
<1>2. w.leg = v.leg /\ w.lines = v.lines /\ w.answers = v.answers
  BY DEF MarketLeg, WritesLeg
<1>3. CASE WritesLeg(v, w)
  <2>1. w.at = v.at /\ w.seen = v.at.st
    BY <1>3 DEF WritesLeg
  <2>2. SeenFits(w.at, w.seen)
    BY <1>1, <2>1 DEF SeenFits
  <2>3. Stands(w.leg, w.at, w.seen)
    BY <1>1, <1>2, <2>1 DEF Stands, SeenFits, Over
  <2> QED
    BY <1>1, <1>2, <2>1, <2>2, <2>3 DEF OrphanLeg
<1>4. CASE MarketLeg(v, w)
  <2>1. /\ w.seen = v.seen /\ w.at.st \in Closed \union {"gone", "position"}
        /\ \/ v.at.st = "order"
           \/ v.at.st = "position" /\ w.at.st \in Closed
    BY <1>4 DEF MarketLeg
  <2>2. SeenFits(w.at, w.seen)
    BY <1>1, <2>1 DEF SeenFits, Closed
  <2>3. Stands(w.leg, w.at, w.seen)
    <3>1. w.at.st \notin {"none", "order"}
      BY <2>1 DEF Closed
    <3>2. ~Over(v.at)
      BY <2>1 DEF Over
    <3> QED
      BY <1>1, <1>2, <2>1, <3>1, <3>2 DEF Stands
  <2>4. OpensFor(w.leg, w.at, w.lines)
    BY <1>1, <1>2, <2>1 DEF OpensFor
  <2>5. Tells(w.leg, w.at, w.answers)
    <3>1. w.at.st \notin {"none", "order"} /\ v.at.st # "none" /\ ~Over(v.at)
      BY <2>1 DEF Over, Closed
    <3> QED
      BY <1>1, <1>2, <3>1 DEF Tells
  <2> QED
    BY <2>2, <2>3, <2>4, <2>5 DEF OrphanLeg
<1> QED
  BY <1>3, <1>4

LEMMA OrphanAnswers ==
  ASSUME NEW v, NEW w, NEW q, ViewOK(v, q), OrphanLeg(v), NEW c \in CommandType, AnswersLeg(v, w, c)
  PROVE  OrphanLeg(w)
<1>0. /\ v.leg \in LegType /\ v.leg \in LegOK /\ Fits(v.leg) /\ c \in v.lines /\ c.n \in Nat
      /\ v.lines \subseteq CommandType /\ v.answers \subseteq ResultType /\ c.kind \in Kinds
  BY DEF ViewOK, LegOK, AnswersLeg, CommandType
<1>1. /\ SeenFits(v.at, v.seen) /\ Stands(v.leg, v.at, v.seen)
      /\ OpensFor(v.leg, v.at, v.lines) /\ Tells(v.leg, v.at, v.answers)
  BY DEF OrphanLeg
<1>2. w.leg = v.leg /\ w.seen = v.seen /\ w.lines = v.lines \ {c} /\ \A d \in w.lines : c.n < d.n
  BY DEF AnswersLeg
<1>3. \A d \in w.lines : d.n \in Nat /\ d.n # c.n
  <2>1. \A d \in w.lines : d \in CommandType /\ c.n < d.n
    BY <1>0, <1>2
  <2> QED
    BY <1>0, <2>1 DEF CommandType
<1>4. \A x \in v.answers : x.n # c.n
  <2>1. \A x \in v.answers : x \in ResultType /\ x.n < c.n
    BY <1>0 DEF ViewOK
  <2> QED
    BY <1>0, <2>1 DEF ResultType
<1>5. c.n = v.leg.inflight_cmd => v.leg.inflight_kind = c.kind
  BY <1>0 DEF ViewOK
<1>6. c.kind \in Opening =>
        v.leg.state = "PLACING" /\ v.leg.inflight_cmd = c.n /\ v.at.st = "none" /\ \A d \in w.lines : d.kind \notin Opening
  <2>1. ASSUME c.kind \in Opening, NEW d \in w.lines, d.kind \in Opening PROVE FALSE
    BY <1>0, <1>1, <1>2, <1>3, <2>1 DEF OpensFor
  <2> QED
    BY <1>0, <1>1, <2>1 DEF OpensFor
<1>7. ASSUME NEW ok \in BOOLEAN, Tells(w.leg, w.at, v.answers), Answered(v, w, c, ok),
             c.n = w.leg.inflight_cmd =>
               /\ ok = TRUE /\ c.kind = "open_market" => w.at.st \notin {"none", "order"}
               /\ ok = FALSE /\ c.kind \in Opening => w.at.st = "none"
               /\ ok = TRUE /\ c.kind \in {"close", "cancel"} => Over(w.at)
      PROVE  Tells(w.leg, w.at, w.answers)
  <2>1. PICK x \in ResultType : x.n = c.n /\ x.ok = ok /\ w.answers = v.answers \union {x}
    BY <1>7 DEF Answered
  <2> SUFFICES ASSUME NEW y \in w.answers, y.n = w.leg.inflight_cmd
               PROVE  /\ y.ok = TRUE /\ w.leg.inflight_kind = "open_market" => w.at.st \notin {"none", "order"}
                      /\ y.ok = FALSE /\ w.leg.inflight_kind \in Opening => w.at.st = "none"
                      /\ y.ok = TRUE /\ w.leg.inflight_kind \in {"close", "cancel"} => Over(w.at)
    BY DEF Tells
  <2>2. CASE y \in v.answers
    BY <1>7, <2>2 DEF Tells
  <2>3. CASE y = x
    <3>1. c.n = w.leg.inflight_cmd /\ w.leg.inflight_kind = c.kind
      BY <1>2, <1>5, <2>1, <2>3
    <3>2. y.ok = ok
      BY <2>1, <2>3
    <3> QED
      BY <1>7, <3>1, <3>2
  <2> QED
    BY <2>1, <2>2, <2>3
<1>8. CASE w.at = v.at /\ Answered(v, w, c, FALSE)
  <2>1. Tells(w.leg, w.at, v.answers)
    BY <1>1, <1>2, <1>8
  <2>2. Tells(w.leg, w.at, w.answers)
    <3>1. c.kind \in Opening => w.at.st = "none"
      BY <1>6, <1>8
    <3> QED
      BY <1>7, <1>8, <2>1, <3>1
  <2>3. OpensFor(w.leg, w.at, w.lines)
    BY <1>1, <1>2, <1>8 DEF OpensFor
  <2> QED
    BY <1>1, <1>2, <1>8, <2>2, <2>3 DEF OrphanLeg
<1>9. CASE Carried(v.at, c, w.at) /\ (Answered(v, w, c, TRUE) \/ w.answers = v.answers)
  <2>0. SUFFICES /\ SeenFits(w.at, w.seen) /\ Stands(w.leg, w.at, w.seen)
                 /\ OpensFor(w.leg, w.at, w.lines) /\ Tells(w.leg, w.at, v.answers)
                 /\ c.n = w.leg.inflight_cmd =>
                      /\ c.kind = "open_market" => w.at.st \notin {"none", "order"}
                      /\ c.kind \in {"close", "cancel"} => Over(w.at)
    <3>1. CASE w.answers = v.answers
      BY <2>0, <3>1 DEF OrphanLeg
    <3>2. CASE Answered(v, w, c, TRUE)
      <4>1. Tells(w.leg, w.at, w.answers)
        BY <1>7, <2>0, <3>2
      <4> QED
        BY <2>0, <4>1 DEF OrphanLeg
    <3> QED
      BY <1>9, <3>1, <3>2
  <2>1. CASE c.kind \in Opening
    <3>1. /\ w.at.st = (IF c.kind = "open_market" THEN "position" ELSE "order")
          /\ v.seen \notin {"position", "order", "gone", "twice"} \union Closed
      BY <1>1, <1>6, <1>9, <2>1 DEF Carried, SeenFits, Closed
    <3>2. SeenFits(w.at, w.seen)
      BY <1>2, <3>1 DEF SeenFits, Closed
    <3>3. w.leg.state = "PLACING" /\ w.leg.missing_since = "off" /\ w.leg.inflight_cmd = c.n /\ w.leg.inflight_kind = c.kind
      BY <1>1, <1>2, <1>5, <1>6, <2>1 DEF Stands
    <3>4. Stands(w.leg, w.at, w.seen)
      BY <1>2, <3>1, <3>3 DEF Stands, Finished, Closed
    <3>5. OpensFor(w.leg, w.at, w.lines)
      BY <1>6, <2>1 DEF OpensFor
    <3>6. Tells(w.leg, w.at, v.answers)
      BY <1>4, <3>3 DEF Tells
    <3>7. c.kind = "open_market" => w.at.st \notin {"none", "order"}
      BY <3>1
    <3>8. c.kind \notin {"close", "cancel"}
      BY <2>1 DEF Opening
    <3> QED
      BY <3>2, <3>4, <3>5, <3>6, <3>7, <3>8
  <2>2. CASE c.kind = "modify_sl"
    <3>1. w.at.st = v.at.st
      BY <1>9, <2>2 DEF Carried
    <3>2. SeenFits(w.at, w.seen) /\ Stands(w.leg, w.at, w.seen)
      BY <1>1, <1>2, <3>1 DEF SeenFits, Stands, Over
    <3>3. OpensFor(w.leg, w.at, w.lines) /\ Tells(w.leg, w.at, v.answers)
      BY <1>1, <1>2, <3>1 DEF OpensFor, Tells, Over
    <3> QED
      BY <2>2, <3>2, <3>3
  <2>3. CASE c.kind \in {"close", "cancel"}
    <3>1. /\ v.at.st \in {"position", "order"} /\ w.at.st \in {"gone", "CLOSED_MANUAL"}
          /\ v.at.st = "order" => w.at.st = "gone"
      BY <1>9, <2>3 DEF Carried, Able
    <3>2. Over(w.at) /\ ~Over(v.at) /\ w.at.st \notin {"none", "order", "twice"}
      BY <3>1 DEF Over
    <3>3. SeenFits(w.at, w.seen)
      BY <1>1, <1>2, <3>1, <3>2 DEF SeenFits, Closed
    <3>4. Stands(w.leg, w.at, w.seen)
      BY <1>1, <1>2, <3>2 DEF Stands
    <3>5. OpensFor(w.leg, w.at, w.lines)
      BY <1>1, <1>2, <3>1 DEF OpensFor
    <3>6. Tells(w.leg, w.at, v.answers)
      BY <1>1, <1>2, <3>1, <3>2 DEF Tells
    <3> QED
      BY <2>3, <3>2, <3>3, <3>4, <3>5, <3>6
  <2> QED
    BY <1>0, <2>1, <2>2, <2>3 DEF Kinds
<1> QED
  BY <1>8, <1>9 DEF AnswersLeg

LEMMA OrphanStep ==
  ASSUME "stale" \notin Faults, NEW v, NEW w, NEW q, NEW l \in Legs, ViewOK(v, q), OrphanLeg(v), LegStep(v, w, l, q),
         w.lines \subseteq CommandType
  PROVE  OrphanLeg(w)
<1>1. CASE Unchanged(v, w)
  BY <1>1 DEF Unchanged, OrphanLeg
<1> QED
  BY <1>1, OrphanPlaces, OrphanTrader, OrphanTime, OrphanAnswers, OrphanMarket DEF LegStep

OrphanInv == \A l \in Legs : OrphanLeg(View(l))

LEMMA OrphanInit == Init => OrphanInv
<1> SUFFICES ASSUME Init, NEW l \in Legs PROVE OrphanLeg(View(l))
  BY DEF OrphanInv
<1> DEFINE v == View(l)
<1>1. /\ v.leg = NewLeg /\ v.at.st = "none" /\ v.seen = "none" /\ v.answers = {}
      /\ v.lines = {}
  <2>1. /\ v.leg = run.legs[l] /\ v.at = broker[l] /\ v.seen = state[l]
        /\ v.lines = {c \in Lines : c.leg = l} /\ v.answers = {x \in results : x.leg = l}
    BY ViewFields
  <2>2. Lines = {} /\ results = {}
    BY DEF Init, Lines
  <2> QED
    BY <2>1, <2>2, NewLegFields DEF Init
<1> HIDE DEF v
<1>2. OrphanLeg(v)
  BY <1>1, NewLegFields DEF OrphanLeg, SeenFits, Stands, OpensFor, Tells, Over, Finished, Closed
<1> QED
  BY <1>2 DEF v

LEMMA OrphanNext ==
  ASSUME "crash" \notin Faults, "stale" \notin Faults
  PROVE  CalmInv /\ OrphanInv /\ [Next]_vars => OrphanInv'
<1> SUFFICES ASSUME CalmInv, OrphanInv, [Next]_vars, NEW l \in Legs PROVE OrphanLeg(View(l))'
  BY DEF OrphanInv
<1> DEFINE v == View(l)
           w == View(l)'
<1>1. /\ v.leg = run.legs[l] /\ v.at = broker[l] /\ v.seen = state[l]
      /\ v.lines = {c \in Lines : c.leg = l} /\ v.answers = {x \in results : x.leg = l}
      /\ w.leg = run'.legs[l] /\ w.at = broker'[l] /\ w.seen = state'[l]
      /\ w.lines = {c \in Lines' : c.leg = l} /\ w.answers = {x \in results' : x.leg = l}
  BY ViewFields
<1>2. ViewOK(v, run.seq) /\ OrphanLeg(v)
  BY CalmViews DEF OrphanInv
<1>5. w.lines \subseteq CommandType
  <2>1. RunInv'
    BY RunInvNext DEF CalmInv
  <2>2. Lines' \in SUBSET CommandType
    BY <2>1 DEF RunInv, TypeOK, Lines
  <2> QED
    BY <1>1, <2>2
<1> HIDE DEF v, w
<1>3. LegStep(v, w, l, run.seq)
  BY <1>1, LegSteps
<1>4. OrphanLeg(w)
  BY <1>2, <1>3, <1>5, OrphanStep
<1> QED
  BY <1>4 DEF w, OrphanLeg

(* While the trader does not die in a handler and state.json keeps being   *)
(* rewritten, a leg the trader has written off has nothing left at the     *)
(* broker and no command on its way that would open it: no order or        *)
(* position is left unmanaged, whatever is refused, answered too late,     *)
(* lost, filled without a price or closed by hand.                         *)
THEOREM RunOrphansNothing ==
  ASSUME "crash" \notin Faults, "stale" \notin Faults
  PROVE  Spec => []NothingOrphaned
<1>1. Init => CalmInv /\ OrphanInv
  BY CalmInit, OrphanInit
<1>2. CalmInv /\ OrphanInv /\ [Next]_vars => (CalmInv /\ OrphanInv)'
  BY CalmNext, OrphanNext
<1>3. OrphanInv => NothingOrphaned
  <2> SUFFICES ASSUME OrphanInv, NEW l \in Legs, run.legs[l].state \in Finished
               PROVE  ~AtBroker(l) /\ ~Opens(l)
    BY DEF NothingOrphaned
  <2>1. OrphanLeg(View(l)) /\ View(l).leg = run.legs[l] /\ View(l).at = broker[l]
    BY ViewFields DEF OrphanInv
  <2>2. ~AtBroker(l)
    BY <2>1 DEF OrphanLeg, Stands, Over, AtBroker
  <2>3. \A c \in Lines : c.leg = l => c.kind \notin Opening
    BY <2>1, ViewFields DEF OrphanLeg, OpensFor, Finished, Closed
  <2> QED
    BY <2>2, <2>3 DEF Opens, Lines
<1> QED
  BY <1>1, <1>2, <1>3, PTL DEF Spec

(***************************************************************************)
(* The stop is known                                                       *)
(***************************************************************************)
Modifies(lines) == \E c \in lines : c.kind = "modify_sl"

\* What the trader believes of the leg's stop, against the broker and the lines on their way.
StopFits(leg, at, lines) ==
  /\ leg.inflight_cmd # NoCmd => leg.inflight_since # "due"
  /\ leg.state \in {"PLACING", "PENDING_ORDER"} =>
       leg.sl_current = SignalSl /\ ~Modifies(lines) /\ (at.st \in {"order", "position"} => at.sl = SignalSl)
  /\ leg.state = "OPEN" /\ at.st = "position" /\ leg.inflight_kind # "modify_sl" => leg.sl_current = at.sl /\ ~Modifies(lines)
  /\ leg.state = "OPEN" /\ at.st = "position" /\ leg.inflight_kind = "modify_sl" =>
       \A c \in lines : c.kind = "modify_sl" => c.n <= leg.inflight_cmd

\* The result of the last modification says where the stop is.
StopTold(leg, at, lines, answers) ==
  leg.state = "OPEN" /\ at.st = "position" /\ leg.inflight_kind = "modify_sl" =>
    \A x \in answers : x.n = leg.inflight_cmd => x.ok = TRUE /\ at.sl = leg.inflight_sl /\ ~Modifies(lines)

StopLeg(v) == StopFits(v.leg, v.at, v.lines) /\ StopTold(v.leg, v.at, v.lines, v.answers)

LEMMA StopReads ==
  ASSUME NEW v, NEW q, ViewOK(v, q), OrphanLeg(v), StopLeg(v), NEW a, ReadsLeg(v, a)
  PROVE  StopFits(a, v.at, v.lines)
<1> DEFINE leg == v.leg
<1>0. /\ leg \in LegOK /\ leg \in LegType /\ Fits(leg)
      /\ leg.inflight_kind \in Kinds \union {"none"} /\ (leg.inflight_cmd = NoCmd <=> leg.inflight_kind = "none")
  BY DEF ViewOK, LegOK, LegType
<1>1. StopFits(leg, v.at, v.lines) /\ StopTold(leg, v.at, v.lines, v.answers)
  BY DEF StopLeg
<1>2. CASE a = leg
  BY <1>1, <1>2
<1>3. ASSUME NEW x \in v.answers, x.n = leg.inflight_cmd, leg.inflight_cmd # NoCmd, ReadAs(leg, x, a)
      PROVE  StopFits(a, v.at, v.lines)
  <2>1. leg.inflight_kind \in Opening => leg.state = "PLACING"
    BY <1>0 DEF Fits, Opening
  <2>2. leg.inflight_kind \in {"modify_sl", "close"} => leg.state = "OPEN"
    BY <1>0 DEF Fits, Opening
  <2>3. leg.inflight_kind = "cancel" => leg.state = "PENDING_ORDER"
    BY <1>0 DEF Fits, Opening
  <2>7. CASE x.ok = TRUE /\ a = Succeeded(leg, x.fill_price)
    <3>1. a.inflight_kind = "none" /\ a.inflight_cmd = NoCmd /\ leg.inflight_kind \in Kinds
      BY <1>0, <1>3, <2>7, SucceededFields
    <3>2. /\ leg.inflight_kind = "open_market" => a.state = "OPEN" /\ a.sl_current = leg.sl_current
          /\ leg.inflight_kind = "open_pending" => a.state = "PENDING_ORDER" /\ a.sl_current = leg.sl_current
          /\ leg.inflight_kind = "modify_sl" => a.state = leg.state /\ a.sl_current = leg.inflight_sl
          /\ leg.inflight_kind = "close" => a.state = "CLOSED_MANUAL"
          /\ leg.inflight_kind = "cancel" => a.state = "CANCELLED"
      BY <1>0, <1>3, <2>7, SucceededFields
    <3>3. CASE leg.inflight_kind = "open_market"
      BY <1>1, <2>1, <3>1, <3>2, <3>3 DEF StopFits, Opening
    <3>4. CASE leg.inflight_kind = "open_pending"
      BY <1>1, <2>1, <3>1, <3>2, <3>4 DEF StopFits, Opening
    <3>5. CASE leg.inflight_kind = "modify_sl"
      <4>1. v.at.st = "position" => v.at.sl = leg.inflight_sl /\ ~Modifies(v.lines)
        BY <1>1, <1>3, <2>2, <3>5 DEF StopTold
      <4> QED
        BY <2>2, <3>1, <3>2, <3>5, <4>1 DEF StopFits
    <3>6. CASE leg.inflight_kind \in {"close", "cancel"}
      BY <3>1, <3>2, <3>6 DEF StopFits
    <3> QED
      BY <3>1, <3>3, <3>4, <3>5, <3>6 DEF Kinds, Opening
  <2>8. CASE x.ok = FALSE /\ a = Failed(leg)
    <3>1. /\ a.inflight_kind = "none" /\ a.inflight_cmd = NoCmd /\ a.sl_current = leg.sl_current
          /\ a.state = IF leg.inflight_kind \in Opening THEN "CANCELLED" ELSE leg.state
      BY <1>0, <2>8, FailedFields
    <3>2. CASE leg.inflight_kind \in Opening
      BY <3>1, <3>2 DEF StopFits
    <3>3. CASE leg.inflight_kind = "modify_sl"
      <4>1. v.at.st # "position" /\ leg.state = "OPEN" /\ a.state = "OPEN"
        BY <1>1, <1>3, <2>2, <2>8, <3>1, <3>3 DEF StopTold, Opening
      <4> QED
        BY <3>1, <4>1 DEF StopFits
    <3>4. CASE leg.inflight_kind \in {"close", "cancel"}
      <4>1. a.state = leg.state /\ leg.state \in {"OPEN", "PENDING_ORDER"}
        BY <2>2, <2>3, <3>1, <3>4 DEF Opening
      <4>2. leg.inflight_kind # "modify_sl"
        BY <3>4
      <4> QED
        BY <1>1, <3>1, <4>1, <4>2 DEF StopFits
    <3> QED
      BY <1>0, <1>3, <3>2, <3>3, <3>4 DEF Kinds
  <2> QED
    BY <1>3, <2>7, <2>8 DEF ReadAs
<1> QED
  BY <1>2, <1>3 DEF ReadsLeg

LEMMA StopSees ==
  ASSUME NEW a \in LegOK, Fits(a), NEW l \in Legs, NEW at, NEW seen \in Entries, NEW lines, StopFits(a, at, lines)
  PROVE  StopFits(Detect(ExpireInflight(a), l, seen), at, lines)
<1> DEFINE e == ExpireInflight(a)
           o == Detect(e, l, seen)
<1>1. /\ e.state = a.state /\ e.sl_current = a.sl_current
      /\ e.inflight_cmd = a.inflight_cmd /\ e.inflight_kind = a.inflight_kind
      /\ e.inflight_since = "due" => a.inflight_since = "due"
  <2>1. a \in LegType
    BY DEF LegOK
  <2> QED
    BY <2>1, ExpireFields DEF StopFits
<1>2. e \in LegType /\ (e.inflight_cmd = NoCmd <=> e.inflight_kind = "none")
  BY ExpireInflightOK DEF LegOK
<1>3. StopFits(e, at, lines)
  BY <1>1 DEF StopFits
<1> HIDE DEF e
<1>5. /\ o.inflight_cmd = e.inflight_cmd /\ o.inflight_kind = e.inflight_kind /\ o.inflight_since = e.inflight_since
      /\ o.sl_current = e.sl_current
      /\ \/ o.state = e.state
         \/ e.inflight_cmd = NoCmd /\ e.state = "PENDING_ORDER" /\ o.state = "OPEN"
         \/ o.state \in Finished
  BY <1>2, DetectFields DEF Finished, Closed
<1> HIDE DEF o
<1>6. StopFits(o, at, lines)
  <2>1. CASE o.state = e.state
    BY <1>3, <1>5, <2>1 DEF StopFits
  <2>2. CASE e.inflight_cmd = NoCmd /\ e.state = "PENDING_ORDER" /\ o.state = "OPEN"
    BY <1>2, <1>3, <1>5, <2>2 DEF StopFits
  <2>3. CASE o.state \in Finished
    <3>1. o.state \notin {"PLACING", "PENDING_ORDER", "OPEN"}
      BY <2>3 DEF Finished, Closed
    <3> QED
      BY <1>3, <1>5, <3>1 DEF StopFits
  <2> QED
    BY <1>5, <2>1, <2>2, <2>3
<1> QED
  BY <1>6 DEF o, e

LEMMA StopManages ==
  ASSUME "unsent" \notin Faults,
         NEW a \in LegOK, Fits(a), NEW at, NEW before, NEW w, NEW q \in Nat,
         StopFits(a, at, before), StopTold(a, at, before, w.answers),
         \A x \in w.answers : x.n <= q, w.answers \subseteq ResultType, w.lines \subseteq CommandType,
         ManagesLeg(a, before, w, q)
  PROVE  StopFits(w.leg, at, w.lines) /\ StopTold(w.leg, at, w.lines, w.answers)
<1>0. a \in LegType /\ (a.inflight_cmd = NoCmd <=> a.inflight_kind = "none")
  BY DEF LegOK
<1>1. CASE w.leg = a /\ w.lines = before
  BY <1>1
<1>3. ASSUME NEW c \in w.lines, AsksLeg(a, before, w, c, q)
      PROVE  StopFits(w.leg, at, w.lines) /\ StopTold(w.leg, at, w.lines, w.answers)
  <2>1. /\ w.leg.inflight_cmd = c.n /\ w.leg.inflight_kind = c.kind /\ w.leg.state = a.state
        /\ w.leg.sl_current = a.sl_current /\ w.leg.inflight_since = "off"
    BY <1>0, <1>3, WaitingFields DEF AsksLeg
  <2>2. \A d \in w.lines : d.n <= c.n /\ (d \in before \/ Asks(a, d))
    BY <1>3 DEF AsksLeg
  <2>3. \A x \in w.answers : x.n # c.n
    <3> SUFFICES ASSUME NEW x \in w.answers, x.n = c.n PROVE FALSE
      OBVIOUS
    <3>1. x.n <= q /\ c.n > q /\ x \in ResultType /\ c \in CommandType
      BY <1>3 DEF AsksLeg
    <3> QED
      BY <3>1 DEF ResultType, CommandType
  <2>4. StopTold(w.leg, at, w.lines, w.answers)
    BY <2>1, <2>3 DEF StopTold
  <2>5. CASE c.kind = "modify_sl" /\ a.state = "OPEN"
    BY <2>1, <2>2, <2>4, <2>5 DEF StopFits
  <2>6. CASE c.kind = "close" /\ a.state = "OPEN"
    <3>1. a.inflight_kind = "none" /\ w.lines = before \union {c}
      BY <1>0, <1>3, <2>6 DEF AsksLeg
    <3>2. Modifies(w.lines) => Modifies(before)
      BY <2>6, <3>1 DEF Modifies
    <3> QED
      BY <2>1, <2>4, <2>6, <3>1, <3>2 DEF StopFits
  <2>7. CASE c.kind = "cancel" /\ a.state = "PENDING_ORDER"
    <3>1. Modifies(w.lines) => Modifies(before)
      BY <2>2, <2>7 DEF Modifies, Asks
    <3> QED
      BY <2>1, <2>4, <2>7, <3>1 DEF StopFits
  <2> QED
    BY <1>3, <2>4, <2>5, <2>6, <2>7 DEF AsksLeg, Asks
<1> QED
  BY <1>1, <1>3 DEF ManagesLeg

LEMMA StopTrader ==
  ASSUME "unsent" \notin Faults, NEW v, NEW w, NEW q, NEW l \in Legs,
         ViewOK(v, q), OrphanLeg(v), StopLeg(v), TraderLeg(v, w, l, q), w.lines \subseteq CommandType
  PROVE  StopLeg(w)
<1>0. /\ v.leg \in LegOK /\ Fits(v.leg) /\ v.seen \in Entries /\ q \in Nat
      /\ v.answers \subseteq ResultType /\ \A x \in v.answers : x.n <= q
  BY DEF ViewOK
<1>1. StopFits(v.leg, v.at, v.lines) /\ StopTold(v.leg, v.at, v.lines, v.answers)
  BY DEF StopLeg
<1>2. w.at = v.at
  BY DEF TraderLeg
<1>3. CASE ManagesLeg(v.leg, v.lines, w, q) /\ w.answers = v.answers
  <2>1. StopFits(w.leg, v.at, w.lines) /\ StopTold(w.leg, v.at, w.lines, w.answers)
    BY <1>0, <1>1, <1>3, StopManages
  <2> QED
    BY <1>2, <2>1 DEF StopLeg
<1>4. ASSUME NEW a, ReadsLeg(v, a), ManagesLeg(Detect(ExpireInflight(a), l, v.seen), v.lines, w, q), w.answers = {}
      PROVE  StopLeg(w)
  <2> DEFINE o == Detect(ExpireInflight(a), l, v.seen)
  <2>1. a \in LegOK /\ Fits(a)
    BY <1>4, ReadsFields
  <2>2. StopFits(a, v.at, v.lines)
    BY <1>4, StopReads
  <2>3. o \in LegOK /\ Fits(o)
    BY <1>0, <2>1, SeenFields
  <2>4. StopFits(o, v.at, v.lines)
    BY <1>0, <2>1, <2>2, StopSees
  <2>5. ManagesLeg(o, v.lines, w, q) /\ StopTold(o, v.at, v.lines, w.answers)
    BY <1>4 DEF StopTold
  <2>6. w.answers \subseteq ResultType /\ \A x \in w.answers : x.n <= q
    BY <1>4
  <2> HIDE DEF o
  <2>7. StopFits(w.leg, v.at, w.lines) /\ StopTold(w.leg, v.at, w.lines, w.answers)
    BY <1>0, <2>3, <2>4, <2>5, <2>6, StopManages
  <2> QED
    BY <1>2, <2>7 DEF StopLeg
<1>5. CASE ReadsLeg(v, w.leg) /\ w.lines = v.lines /\ w.answers = {}
  <2>1. StopFits(w.leg, v.at, v.lines)
    BY <1>5, StopReads
  <2>2. StopTold(w.leg, v.at, v.lines, w.answers)
    BY <1>5 DEF StopTold
  <2> QED
    BY <1>2, <1>5, <2>1, <2>2 DEF StopLeg
<1> QED
  BY <1>3, <1>4, <1>5 DEF TraderLeg

LEMMA StopPlaces ==
  ASSUME NEW v, NEW w, PlacesLeg(v, w)
  PROVE  StopLeg(w)
<1>1. w.at.st = "none" /\ w.answers = {}
  BY DEF PlacesLeg
<1>2. StopTold(w.leg, w.at, w.lines, w.answers)
  BY <1>1 DEF StopTold
<1>3. CASE w.leg.state = "CANCELLED" /\ w.leg.inflight_cmd = NoCmd
  BY <1>2, <1>3 DEF StopLeg, StopFits
<1>4. ASSUME NEW c, c.kind \in Opening, w.lines = {c}, w.leg = Waiting(NewLeg, c.n, c)
      PROVE  StopLeg(w)
  <2>1. w.leg.state = "PLACING" /\ w.leg.inflight_since = "off" /\ w.leg.sl_current = SignalSl
    BY <1>4, NewLegFields, WaitingFields
  <2>2. ~Modifies(w.lines)
    BY <1>4 DEF Modifies, Opening
  <2>3. StopFits(w.leg, w.at, w.lines)
    BY <1>1, <2>1, <2>2 DEF StopFits
  <2> QED
    BY <1>2, <2>3 DEF StopLeg
<1> QED
  BY <1>3, <1>4 DEF PlacesLeg

\* A result is not overdue while it is coming.
LEMMA StopTime ==
  ASSUME "late" \notin Faults, NEW v, NEW w, NEW q, ViewOK(v, q), AnswerLeg(v), StopLeg(v), TimeLeg(v, w)
  PROVE  StopLeg(w)
<1>0. v.leg \in LegType
  BY DEF ViewOK, LegOK
<1>1. StopFits(v.leg, v.at, v.lines) /\ StopTold(v.leg, v.at, v.lines, v.answers)
  BY DEF StopLeg
<1>2. w.at = v.at /\ w.lines = v.lines /\ w.answers = v.answers
  BY DEF TimeLeg
<1>3. /\ w.leg.state = v.leg.state /\ w.leg.sl_current = v.leg.sl_current /\ w.leg.inflight_cmd = v.leg.inflight_cmd
      /\ w.leg.inflight_kind = v.leg.inflight_kind /\ w.leg.inflight_sl = v.leg.inflight_sl
  BY <1>0 DEF TimeLeg, LegType
<1>4. w.leg.inflight_since = v.leg.inflight_since \/ (v.lines = {} /\ v.answers = {})
  BY <1>0 DEF TimeLeg, LegType
<1>5. w.leg.inflight_cmd # NoCmd => w.leg.inflight_since # "due"
  BY <1>1, <1>3, <1>4 DEF StopFits, AnswerLeg
<1>6. StopFits(w.leg, v.at, v.lines)
  BY <1>1, <1>3, <1>5 DEF StopFits
<1>7. StopTold(w.leg, v.at, v.lines, v.answers)
  BY <1>1, <1>3 DEF StopTold
<1> QED
  BY <1>2, <1>6, <1>7 DEF StopLeg

LEMMA StopMarket ==
  ASSUME NEW v, NEW w, OrphanLeg(v), StopLeg(v), MarketLeg(v, w) \/ WritesLeg(v, w)
  PROVE  StopLeg(w)
<1>1. StopFits(v.leg, v.at, v.lines) /\ StopTold(v.leg, v.at, v.lines, v.answers)
  BY DEF StopLeg
<1>2. w.leg = v.leg /\ w.lines = v.lines /\ w.answers = v.answers
  BY DEF MarketLeg, WritesLeg
<1>3. CASE w.at = v.at
  BY <1>1, <1>2, <1>3 DEF StopLeg
<1>4. CASE v.at.st = "order" /\ w.at.st = "position" /\ w.at.sl = v.at.sl
  <2>1. v.leg.state # "OPEN"
    BY <1>4 DEF OrphanLeg, Stands
  <2> QED
    BY <1>1, <1>2, <1>4, <2>1 DEF StopLeg, StopFits, StopTold
<1>5. CASE w.at.st \in Closed \union {"gone"}
  <2>1. w.at.st \notin {"order", "position"}
    BY <1>5 DEF Closed
  <2> QED
    BY <1>1, <1>2, <2>1 DEF StopLeg, StopFits, StopTold
<1> QED
  BY <1>3, <1>4, <1>5 DEF MarketLeg, WritesLeg

LEMMA StopAnswers ==
  ASSUME "reject" \notin Faults, "lost" \notin Faults,
         NEW v, NEW w, NEW q, ViewOK(v, q), OrphanLeg(v), StopLeg(v), NEW c \in CommandType, AnswersLeg(v, w, c)
  PROVE  StopLeg(w)
<1>0. /\ c \in v.lines /\ c.n \in Nat /\ c.kind \in Kinds
      /\ v.lines \subseteq CommandType /\ v.answers \subseteq ResultType
  BY DEF ViewOK, AnswersLeg, CommandType
<1>1. /\ StopFits(v.leg, v.at, v.lines) /\ StopTold(v.leg, v.at, v.lines, v.answers)
      /\ OpensFor(v.leg, v.at, v.lines)
  BY DEF StopLeg, OrphanLeg
<1>2. w.leg = v.leg /\ w.lines = v.lines \ {c} /\ \A d \in w.lines : c.n < d.n
  BY DEF AnswersLeg
<1>3. \A d \in w.lines : d.n \in Nat /\ ~(d.n <= c.n)
  <2>1. \A d \in w.lines : d \in CommandType /\ c.n < d.n
    BY <1>0, <1>2
  <2> QED
    BY <1>0, <2>1 DEF CommandType
<1>4. \A x \in v.answers : x.n \in Nat /\ x.n < c.n
  <2>1. \A x \in v.answers : x \in ResultType /\ x.n < c.n
    BY <1>0 DEF ViewOK
  <2> QED
    BY <1>0, <2>1 DEF ResultType
<1>5. c.n = v.leg.inflight_cmd => v.leg.inflight_kind = c.kind /\ v.leg.inflight_sl = c.sl
  BY <1>0 DEF ViewOK
<1>6. Modifies(w.lines) => Modifies(v.lines)
  BY <1>2 DEF Modifies
<1>7. CASE c.kind = "modify_sl" /\ v.at.st = "position"
  <2>1. Carried(v.at, c, w.at) /\ Answered(v, w, c, TRUE)
    BY <1>7 DEF AnswersLeg, Able
  <2>2. w.at.st = "position" /\ w.at.sl = c.sl
    BY <1>7, <2>1 DEF Carried
  <2>3. PICK x : x.n = c.n /\ x.ok = TRUE /\ w.answers = v.answers \union {x}
    BY <2>1 DEF Answered
  <2>4. v.leg.state \notin {"PLACING", "PENDING_ORDER"}
    BY <1>0, <1>1, <1>7 DEF StopFits, Modifies
  <2>5. CASE v.leg.state = "OPEN"
    <3>1. v.leg.inflight_kind = "modify_sl" /\ c.n <= v.leg.inflight_cmd
      BY <1>0, <1>1, <1>7, <2>5 DEF StopFits, Modifies
    <3>2. StopFits(w.leg, w.at, w.lines)
      BY <1>1, <1>2, <1>7, <2>2, <2>5, <3>1 DEF StopFits
    <3>3. ASSUME NEW y \in w.answers, y.n = v.leg.inflight_cmd
          PROVE  y.ok = TRUE /\ w.at.sl = v.leg.inflight_sl /\ ~Modifies(w.lines)
      <4>1. y = x
        <5>1. ASSUME y \in v.answers PROVE FALSE
          <6>1. y.n < c.n /\ c.n <= y.n /\ y.n \in Nat
            BY <1>4, <3>1, <3>3, <5>1
          <6> QED
            BY <1>0, <6>1
        <5> QED
          BY <2>3, <5>1
      <4>2. c.n = v.leg.inflight_cmd
        BY <2>3, <3>3, <4>1
      <4>3. w.at.sl = v.leg.inflight_sl
        BY <1>5, <2>2, <4>2
      <4>4. ASSUME NEW d \in w.lines, d.kind = "modify_sl" PROVE FALSE
        BY <1>1, <1>2, <1>3, <1>7, <2>5, <3>1, <4>2, <4>4 DEF StopFits
      <4> QED
        BY <2>3, <4>1, <4>3, <4>4 DEF Modifies
    <3>4. StopTold(w.leg, w.at, w.lines, w.answers)
      BY <1>2, <3>3 DEF StopTold
    <3> QED
      BY <3>2, <3>4 DEF StopLeg
  <2>6. CASE v.leg.state # "OPEN"
    BY <1>1, <1>2, <2>4, <2>6 DEF StopLeg, StopFits, StopTold
  <2> QED
    BY <2>5, <2>6
<1>8. CASE Carried(v.at, c, w.at) /\ c.kind \in Opening
  <2>1. v.leg.state = "PLACING" /\ v.at.st = "none" /\ w.at.sl = SignalSl
    BY <1>0, <1>1, <1>8 DEF OpensFor, Carried
  <2> QED
    BY <1>1, <1>2, <1>6, <2>1 DEF StopLeg, StopFits, StopTold
<1>9. CASE Carried(v.at, c, w.at) /\ c.kind \in {"close", "cancel"}
  <2>1. w.at.st \notin {"order", "position"}
    BY <1>9 DEF Carried
  <2> QED
    BY <1>1, <1>2, <1>6, <2>1 DEF StopLeg, StopFits, StopTold
<1>10. CASE w.at = v.at /\ Answered(v, w, c, FALSE) /\ ~(c.kind = "modify_sl" /\ v.at.st = "position")
  <2>1. PICK x : x.n = c.n /\ w.answers = v.answers \union {x}
    BY <1>10 DEF Answered
  <2>2. StopFits(w.leg, w.at, w.lines)
    BY <1>1, <1>2, <1>6, <1>10 DEF StopFits
  <2>3. StopTold(w.leg, w.at, w.lines, w.answers)
    <3> SUFFICES ASSUME v.leg.state = "OPEN", v.at.st = "position", v.leg.inflight_kind = "modify_sl",
                        NEW y \in w.answers, y.n = v.leg.inflight_cmd
                 PROVE  y.ok = TRUE /\ v.at.sl = v.leg.inflight_sl /\ ~Modifies(w.lines)
      BY <1>2, <1>10 DEF StopTold
    <3>1. y # x
      BY <1>5, <1>10, <2>1
    <3>2. y \in v.answers
      BY <2>1, <3>1
    <3> QED
      BY <1>1, <1>6, <3>2 DEF StopTold
  <2> QED
    BY <2>2, <2>3 DEF StopLeg
<1> QED
  <2>1. \/ Carried(v.at, c, w.at)
        \/ ~Able(v.at, c) /\ w.at = v.at /\ Answered(v, w, c, FALSE)
    BY DEF AnswersLeg
  <2>2. Carried(v.at, c, w.at) /\ c.kind = "modify_sl" => v.at.st = "position"
    BY DEF Carried, Able
  <2>3. c.kind = "modify_sl" /\ v.at.st = "position" => Able(v.at, c)
    BY DEF Able
  <2> QED
    BY <1>0, <1>7, <1>8, <1>9, <1>10, <2>1, <2>2, <2>3 DEF Kinds

\* Nothing goes wrong but that a market order's result lacks its price, or somebody acts at the terminal.
OnlyByHand == Faults \subseteq {"nofill", "by_hand"}

LEMMA StopStep ==
  ASSUME OnlyByHand, NEW v, NEW w, NEW q, NEW l \in Legs, ViewOK(v, q), AnswerLeg(v), OrphanLeg(v), StopLeg(v),
         LegStep(v, w, l, q), w.lines \subseteq CommandType
  PROVE  StopLeg(w)
<1>0. "unsent" \notin Faults /\ "late" \notin Faults /\ "reject" \notin Faults /\ "lost" \notin Faults
  BY DEF OnlyByHand
<1>1. CASE Unchanged(v, w)
  BY <1>1 DEF Unchanged, StopLeg
<1> QED
  BY <1>0, <1>1, StopPlaces, StopTrader, StopTime, StopAnswers, StopMarket DEF LegStep

StopInv == \A l \in Legs : StopLeg(View(l))

LEMMA StopInit == Init => StopInv
<1> SUFFICES ASSUME Init, NEW l \in Legs PROVE StopLeg(View(l))
  BY DEF StopInv
<1> DEFINE v == View(l)
<1>1. v.leg = NewLeg /\ v.at.st = "none" /\ v.answers = {} /\ v.lines = {}
  <2>1. /\ v.leg = run.legs[l] /\ v.at = broker[l]
        /\ v.lines = {c \in Lines : c.leg = l} /\ v.answers = {x \in results : x.leg = l}
    BY ViewFields
  <2>2. Lines = {} /\ results = {}
    BY DEF Init, Lines
  <2> QED
    BY <2>1, <2>2, NewLegFields DEF Init
<1> HIDE DEF v
<1>2. StopLeg(v)
  BY <1>1, NewLegFields DEF StopLeg, StopFits, StopTold, Modifies
<1> QED
  BY <1>2 DEF v

LEMMA StopNext ==
  ASSUME OnlyByHand
  PROVE  CalmInv /\ AnswerInv /\ OrphanInv /\ StopInv /\ [Next]_vars => StopInv'
<1> SUFFICES ASSUME CalmInv, AnswerInv, OrphanInv, StopInv, [Next]_vars, NEW l \in Legs PROVE StopLeg(View(l))'
  BY DEF StopInv
<1> DEFINE v == View(l)
           w == View(l)'
<1>1. /\ v.leg = run.legs[l] /\ v.at = broker[l] /\ v.seen = state[l]
      /\ v.lines = {c \in Lines : c.leg = l} /\ v.answers = {x \in results : x.leg = l}
      /\ w.leg = run'.legs[l] /\ w.at = broker'[l] /\ w.seen = state'[l]
      /\ w.lines = {c \in Lines' : c.leg = l} /\ w.answers = {x \in results' : x.leg = l}
  BY ViewFields
<1>2. ViewOK(v, run.seq) /\ AnswerLeg(v) /\ OrphanLeg(v) /\ StopLeg(v)
  BY CalmViews DEF AnswerInv, OrphanInv, StopInv
<1>3. w.lines \subseteq CommandType
  <2>1. RunInv'
    BY RunInvNext DEF CalmInv
  <2>2. Lines' \in SUBSET CommandType
    BY <2>1 DEF RunInv, TypeOK, Lines
  <2> QED
    BY <1>1, <2>2
<1> HIDE DEF v, w
<1>4. LegStep(v, w, l, run.seq)
  <2>1. "crash" \notin Faults
    BY DEF OnlyByHand
  <2> QED
    BY <1>1, <2>1, LegSteps
<1>5. StopLeg(w)
  BY <1>2, <1>3, <1>4, StopStep
<1> QED
  BY <1>5 DEF w, StopLeg

(* When nothing goes wrong but that a market order's result does not say   *)
(* its price, or that somebody closes a position or deletes an order at    *)
(* the terminal: while nothing is under way for an open leg, the stop the  *)
(* trader believes in is the stop at the broker.                           *)
THEOREM RunStopIsKnown ==
  ASSUME OnlyByHand
  PROVE  Spec => []StopIsKnown
<1>0. "crash" \notin Faults /\ "lost" \notin Faults /\ "stale" \notin Faults
  BY DEF OnlyByHand
<1>1. Init => CalmInv /\ AnswerInv /\ OrphanInv /\ StopInv
  BY CalmInit, AnswerInit, OrphanInit, StopInit
<1>2. CalmInv /\ AnswerInv /\ OrphanInv /\ StopInv /\ [Next]_vars => (CalmInv /\ AnswerInv /\ OrphanInv /\ StopInv)'
  BY <1>0, CalmNext, AnswerNext, OrphanNext, StopNext
<1>3. CalmInv /\ AnswerInv /\ StopInv => StopIsKnown
  <2> SUFFICES ASSUME CalmInv, AnswerInv, StopInv,
                      NEW l \in Legs, run.legs[l].state = "OPEN", broker[l].st = "position", ~Unanswered(l)
               PROVE  run.legs[l].sl_current = broker[l].sl
    BY DEF StopIsKnown
  <2> DEFINE v == View(l)
  <2>1. /\ v.leg = run.legs[l] /\ v.at = broker[l]
        /\ v.lines = {c \in Lines : c.leg = l} /\ v.answers = {x \in results : x.leg = l}
    BY ViewFields
  <2>2. AnswerLeg(v) /\ StopLeg(v) /\ v.leg \in LegOK
    BY CalmViews DEF AnswerInv, StopInv, ViewOK
  <2>3. v.lines = {} /\ v.answers = {}
    BY <2>1 DEF Unanswered, Lines
  <2> HIDE DEF v
  <2>4. v.leg.inflight_kind # "modify_sl"
    BY <2>2, <2>3 DEF AnswerLeg, LegOK
  <2> QED
    BY <2>1, <2>2, <2>4 DEF StopLeg, StopFits
<1> QED
  BY <1>1, <1>2, <1>3, PTL DEF Spec
=============================================================================
