----------------------------- MODULE CopierSource -----------------------------
(***************************************************************************)
(* CopierSource (SourceHandler.mqh, CopierSource.mq5): an EA that turns    *)
(* what happens to a position of the source account into lines of the      *)
(* events file.  It hears of a deal from a trade transaction and, should   *)
(* that be lost, from a sweep that compares the terminal's position list   *)
(* with a tracker of what was reported.  The tracker is on disk.           *)
(*                                                                         *)
(* Positions are tracked independently but for the file, so there is one;  *)
(* the others are an action that has the file written anew.  Its changes   *)
(* are numbered; a number stands for DEAL_TIME_MSC and                     *)
(* POSITION_TIME_UPDATE_MSC.  Volumes are counted in volume steps, stop    *)
(* loss and take profit are one level, 0 for none.                         *)
(***************************************************************************)
EXTENDS Integers, Sequences

CONSTANTS
  Lots,          \* volume the position is opened with
  Stops,         \* levels its stop is set to
  Faults,        \* what may go wrong
  MaxChanges,    \* bound: changes of the position
  MaxStops,      \* bound: EA stopped
  MaxFaults      \* bound: faults

FaultKinds ==
  { "append",        \* an event line cannot be written
    "unsaved",       \* the tracker's file is not opened after a close: no access, or the EA dies
    "unsaved_open",  \* the same after an opening or a changed stop
    "torn",          \* the file is emptied, and then the EA dies or the disk is full
    "unreadable",    \* the file is there and cannot be read at a start
    "lost",          \* a transaction never arrives
    "late",          \* a transaction comes after sweeps that count as settled
    "late_open",     \* the same for an opening deal, or while the position is not tracked or not told of
    "history",       \* a deal is not in the history yet
    "misread",       \* the same, and it is taken for an opening when it closes, or the reverse
    "lag",           \* the position list is behind for more than one sweep
    "offline",       \* the terminal has to synchronise its positions again
    "rush" }         \* the account trades on before the EA knows of a fill, or of what was before it

ASSUME CopierAssumption ==
  /\ Lots \in Nat \ {0}
  /\ Stops \subseteq Nat \ {0}
  /\ Faults \subseteq FaultKinds
  /\ MaxChanges \in Nat /\ MaxStops \in Nat /\ MaxFaults \in Nat

VARIABLES
  account,    \* the position at the broker; low is the least it has been, grown that it got a fill
  list,       \* the same as the terminal lists it
  resync,     \* the terminal lists no positions until it has synchronised
  queue,      \* transactions the EA has not handled
  late,       \* they are more than RECONCILE_SETTLE_SEC old
  up,         \* the EA runs
  seeding,    \* g_seed_pending
  tracker,    \* its entry for the position
  saved,      \* the tracker's file, and whether there is one
  told,       \* the position as a reader of the events file knows it
  stops,      \* stops so far
  faults      \* faults so far

broker == <<account, list, resync>>
vars == <<account, list, resync, queue, late, up, seeding, tracker, saved, told, stops, faults>>

Fault(kind) == kind \in Faults /\ faults < MaxFaults /\ faults' = faults + 1
NoFault == UNCHANGED faults

Least(a, b) == IF a < b THEN a ELSE b

(***************************************************************************)
(* The tracker's entry                                                     *)
(***************************************************************************)
Untracked ==
  [on |-> FALSE, volume |-> 0, sl |-> 0, synced |-> 0, missing |-> 0, pending |-> 0, count |-> 0]

Tracked(volume, sl) == [Untracked EXCEPT !.on = TRUE, !.volume = volume, !.sl = sl]

\* What SaveTracker writes and LoadTracker reads of an entry.
OnDisk(entry) ==
  [filed |-> TRUE, on |-> entry.on, volume |-> entry.volume, sl |-> entry.sl, synced |-> entry.synced]

Loaded(file) == [Tracked(file.volume, file.sl) EXCEPT !.on = file.on, !.synced = file.synced]

(***************************************************************************)
(* Events                                                                  *)
(***************************************************************************)
Event(type, volume, sl) == [type |-> type, volume |-> volume, sl |-> sl]

\* A reader keeps the first OPEN, and the least that any close has left.
Tell(t, e) ==
  CASE e.type = "OPEN" /\ ~t.opened -> [opened |-> TRUE, first |-> e.volume, left |-> e.volume, sl |-> e.sl]
    [] e.type \in {"PARTIAL_CLOSE", "CLOSE"} /\ t.opened -> [t EXCEPT !.left = Least(@, e.volume)]
    [] e.type = "MODIFY" /\ t.opened -> [t EXCEPT !.sl = e.sl]
    [] OTHER -> t

(***************************************************************************)
(* A handler takes the EA from one of these records to one of a set: each  *)
(* line it appends may fail, and so may the tracker it saves after it.     *)
(***************************************************************************)
Now == [up |-> up, tracker |-> tracker, saved |-> saved, told |-> told, faults |-> faults]

\* The transactions that are left are forgotten if the EA dies.
Becomes(outcomes, left) ==
  /\ \E w \in outcomes :
       /\ up' = w.up /\ tracker' = w.tracker /\ saved' = w.saved
       /\ told' = w.told /\ faults' = w.faults
       /\ queue' = IF w.up THEN left ELSE << >>
  /\ late' = (late /\ queue' # << >>)

Ends(outcomes, left) == Becomes(outcomes, left) /\ UNCHANGED <<broker, seeding, stops>>

Faulty(w, kind) ==
  IF kind \in Faults /\ w.faults < MaxFaults THEN {[w EXCEPT !.faults = @ + 1]} ELSE {}

OrDies(S) == S \union {[x EXCEPT !.up = FALSE, !.tracker = Untracked] : x \in S}

\* The file was emptied: the line of the entry is missing, or it ends in its last field, the time.
Torn(w) ==
  LET short == Faulty(w, "torn")
  IN {[x EXCEPT !.saved = OnDisk(Untracked)] : x \in short}
       \union {[x EXCEPT !.saved = [OnDisk(x.tracker) EXCEPT !.synced = 0]] : x \in short}

\* Nobody looks whether the lines were written.
SaveTracker(w) == {[w EXCEPT !.saved = OnDisk(w.tracker)]} \union OrDies(Torn(w))

\* Track, Update and Untrack, after the line of an event.
Keep(w, e, entry) ==
  LET kept == [w EXCEPT !.tracker = entry]
  IN SaveTracker(kept)
       \union OrDies(Faulty(kept, IF e.type \in {"OPEN", "MODIFY"} THEN "unsaved_open" ELSE "unsaved"))

Emit(w, e) == {[w EXCEPT !.told = Tell(@, e)]} \union Faulty(w, "append")

\* Mutant of EmitAndKeep: the tracker is updated although the line could not be written.
EmitOrNotAndKeep(w, e, entry) ==
  Keep([w EXCEPT !.told = Tell(@, e)], e, entry) \union UNION {Keep(x, e, entry) : x \in Faulty(w, "append")}

EmitAndKeep(w, e, entry) ==
  Keep([w EXCEPT !.told = Tell(@, e)], e, entry) \union Faulty(w, "append")

(***************************************************************************)
(* OnTransaction                                                           *)
(***************************************************************************)
Selectable == list.volume > 0

ListedSl == IF Selectable THEN list.sl ELSE 0

OnDealIn(w, t) ==
  LET grown == IF Selectable THEN list.volume ELSE tracker.volume + t.volume
  IN EmitAndKeep(w, Event("OPEN", t.volume, ListedSl),
                 IF tracker.on THEN [tracker EXCEPT !.volume = grown, !.sl = ListedSl]
                 ELSE Tracked(t.volume, ListedSl))

OnDealOutUntracked(w) ==
  IF Selectable
  THEN EmitAndKeep(w, Event("PARTIAL_CLOSE", list.volume, 0), Tracked(list.volume, list.sl))
  ELSE Emit(w, Event("CLOSE", 0, 0))

\* Mutant of FullyClosed: a closing deal larger than the tracker's volume leaves less than nothing.
ClosedIfNothingLeft(remaining) == remaining = 0 \/ ~Selectable

\* A position that is not listed after a closing deal is closed, whatever the tracker has left.
FullyClosed(remaining) == remaining <= 0 \/ ~Selectable

OnDealOutTracked(w, t) ==
  LET remaining == tracker.volume - t.volume IN
  IF FullyClosed(remaining)
  THEN EmitAndKeep(w, Event("CLOSE", 0, 0), Untracked)
  ELSE EmitAndKeep(w, Event("PARTIAL_CLOSE", remaining, 0), [tracker EXCEPT !.volume = remaining])

\* Mutant of Reflected: the sweep leaves no mark.
NeverReflected(t) == tracker.on /\ t.n <= 0

\* The sweep has reported this deal already.
Reflected(t) == tracker.on /\ t.n <= tracker.synced

OnDealAs(entry, w, t) ==
  CASE entry = "in" -> OnDealIn(w, t)
    [] entry = "out" /\ tracker.on -> OnDealOutTracked(w, t)
    [] entry = "out" /\ ~tracker.on -> OnDealOutUntracked(w)

OnDeal(t) ==
  /\ t.kind \in {"in", "out"}
  /\ Ends(IF t.kind = "out" /\ Reflected(t) THEN {Now} ELSE OnDealAs(t.kind, Now, t), Tail(queue))

\* A transaction does not say whether it opens or closes, nor when.
Guess == IF ~Selectable \/ (tracker.on /\ list.volume < tracker.volume) THEN "out" ELSE "in"

OnDealNotInHistory(t) ==
  LET kind == IF Guess = t.kind THEN "history" ELSE "misread" IN
  /\ t.kind \in {"in", "out"}
  /\ Ends(UNION {OnDealAs(Guess, w, t) : w \in Faulty(Now, kind)}, Tail(queue))

OnPositionChange(t) ==
  /\ t.kind = "stop"
  /\ Ends(CASE tracker.on /\ tracker.sl = t.sl -> {Now}
            [] tracker.on /\ tracker.sl # t.sl ->
                 EmitAndKeep(Now, Event("MODIFY", 0, t.sl), [tracker EXCEPT !.sl = t.sl])
            [] ~tracker.on -> Emit(Now, Event("MODIFY", 0, t.sl)),
          Tail(queue))

OnTransaction ==
  up /\ queue # << >> /\ LET t == Head(queue) IN
    OnDeal(t) \/ OnDealNotInHistory(t) \/ OnPositionChange(t)

(***************************************************************************)
(* Reconcile                                                               *)
(***************************************************************************)
\* A difference of volume, once seen on two sweeps; then the stop.
SweepVolume(w) ==
  LET entry == w.tracker
      count == IF entry.count > 0 /\ entry.pending = list.volume THEN 2 ELSE 1
      waits == [w EXCEPT !.tracker = [entry EXCEPT !.pending = list.volume, !.count = count]]
      e == IF list.volume < entry.volume THEN Event("PARTIAL_CLOSE", list.volume, 0)
           ELSE Event("OPEN", list.volume - entry.volume, list.sl)
  IN CASE list.volume = entry.volume -> {[w EXCEPT !.tracker.count = 0]}
       [] list.volume # entry.volume /\ count = 1 -> {waits}
       [] list.volume # entry.volume /\ count = 2 ->
            EmitAndKeep(waits, e, [entry EXCEPT !.volume = list.volume, !.synced = list.n, !.count = 0])

\* Mutant of SweepStop: a stop is left to the transactions.
NoSweepStop(w) == {w}

SweepStop(w) ==
  IF ~w.up \/ w.tracker.sl = list.sl THEN {w}
  ELSE EmitAndKeep(w, Event("MODIFY", 0, list.sl), [w.tracker EXCEPT !.sl = list.sl])

Found(w) == [w EXCEPT !.tracker.missing = 0]

SweepLive(w) ==
  IF ~tracker.on
  THEN EmitAndKeep(w, Event("OPEN", list.volume, list.sl), Tracked(list.volume, list.sl))
  ELSE UNION {SweepStop(v) : v \in SweepVolume(Found(w))}

\* Absent on two sweeps, and the history has less of it open than the tracker.
SweepGone(w, net) ==
  LET missing == IF tracker.missing = 0 THEN 1 ELSE 2
      absent == [w EXCEPT !.tracker.missing = missing]
      recheck == [tracker EXCEPT !.missing = 1]
  IN CASE missing = 1 -> {absent}
       [] missing = 2 /\ net >= tracker.volume -> {[w EXCEPT !.tracker = recheck]}
       [] missing = 2 /\ net < tracker.volume /\ net = 0 ->
            EmitAndKeep(absent, Event("CLOSE", 0, 0), Untracked)
       [] missing = 2 /\ net < tracker.volume /\ net > 0 ->
            EmitAndKeep(absent, Event("PARTIAL_CLOSE", net, 0), [recheck EXCEPT !.volume = net])

\* The last change listed is so recent that its transaction may still be on its way.
InFlight == \E i \in 1..Len(queue) : queue[i].n = list.n

Listing == [volume |-> account.volume, sl |-> account.sl, n |-> account.n]

\* The list is behind the account for more than a sweep.
Lags == list # Listing /\ tracker.count > 0

Reconcile ==
  /\ up /\ ~seeding
  /\ Selectable => late \/ ~InFlight
  /\ Ends(CASE Selectable /\ ~Lags -> SweepLive(Now)
            [] Selectable /\ Lags -> UNION {SweepLive(w) : w \in Faulty(Now, "lag")}
            [] ~Selectable /\ tracker.on -> SweepGone(Now, account.volume)
            [] ~Selectable /\ ~tracker.on -> {Now},
          queue)

\* The position has just changed, or its history is not available.
ReconcileLater ==
  /\ up /\ ~seeding /\ tracker.on
  /\ Ends(IF Selectable THEN {Found(Now)} ELSE SweepGone(Now, tracker.volume), queue)

(***************************************************************************)
(* OnInit, OnDeinit                                                        *)
(***************************************************************************)
\* A file that cannot be read counts as none.
Start ==
  /\ ~up
  /\ up' = TRUE
  /\ \/ /\ NoFault
        /\ tracker' = Loaded(saved) /\ seeding' = ~saved.filed
     \/ /\ saved.filed /\ Fault("unreadable")
        /\ tracker' = Untracked /\ seeding' = TRUE
  /\ UNCHANGED <<broker, queue, late, saved, told, stops>>

\* A start without a file adopts what is listed, and tells nobody.
Seed ==
  /\ up /\ seeding
  /\ Becomes(IF Selectable
             THEN Keep(Now, Event("OPEN", list.volume, list.sl), Tracked(list.volume, list.sl))
             ELSE {Now},
             queue)
  /\ seeding' = FALSE
  /\ UNCHANGED <<broker, stops>>

\* The file has the entries of every position, and is written anew after an event of another one.
SaveForAnother == up /\ Ends(SaveTracker(Now), queue)

\* Between two handlers; the transactions of the meantime never come.
Stop ==
  /\ up /\ stops < MaxStops /\ stops' = stops + 1
  /\ up' = FALSE /\ tracker' = Untracked
  /\ queue' = << >> /\ late' = FALSE
  /\ UNCHANGED <<broker, seeding, saved, told, faults>>

(***************************************************************************)
(* The terminal                                                            *)
(***************************************************************************)
Lists ==
  /\ list # Listing \/ resync
  /\ list' = Listing /\ resync' = FALSE
  /\ UNCHANGED <<account, queue, late, up, seeding, tracker, saved, told, stops, faults>>

Offline ==
  /\ ~resync /\ list.n > 0 /\ Fault("offline")
  /\ resync' = TRUE /\ list' = [list EXCEPT !.volume = 0, !.sl = 0]
  /\ queue' = << >> /\ late' = FALSE
  /\ UNCHANGED <<account, up, seeding, tracker, saved, told, stops>>

Lose ==
  /\ queue # << >> /\ Fault("lost")
  /\ queue' = Tail(queue) /\ late' = (late /\ queue' # << >>)
  /\ UNCHANGED <<broker, up, seeding, tracker, saved, told, stops>>

Delay ==
  /\ queue # << >> /\ ~late
  /\ Fault(IF ~tracker.on \/ ~told.opened \/ \E i \in 1..Len(queue) : queue[i].kind = "in"
           THEN "late_open" ELSE "late")
  /\ late' = TRUE
  /\ UNCHANGED <<broker, queue, up, seeding, tracker, saved, told, stops>>

(***************************************************************************)
(* The account                                                             *)
(***************************************************************************)
\* A transaction reaches an EA that runs in a terminal that is synchronised.
Hears == up /\ ~resync

Changes(kind, volume, pos, rush) ==
  /\ account.n < MaxChanges
  /\ account' = [pos EXCEPT !.n = account.n + 1]
  /\ queue' = IF Hears
              THEN Append(queue, [kind |-> kind, volume |-> volume, sl |-> pos.sl, n |-> account.n + 1])
              ELSE queue
  /\ IF rush \/ (Hears /\ seeding) THEN Fault("rush") ELSE NoFault
  /\ UNCHANGED <<list, resync, late, up, seeding, tracker, saved, told, stops>>

Open(sl) ==
  /\ account.n = 0
  /\ Changes("in", Lots, [account EXCEPT !.volume = Lots, !.sl = sl, !.low = Lots], FALSE)

\* Only what the terminal has listed is traded again.
Live == account.volume > 0 /\ list.n > 0

\* The EA, its list and its tracker know the position as it is.
Known ==
  queue = << >> /\ list = Listing /\ tracker.volume = account.volume /\ tracker.sl = account.sl

Fill ==
  /\ Live /\ account.volume < Lots
  /\ Changes("in", 1, [account EXCEPT !.volume = @ + 1, !.grown = TRUE], ~Known)

Shrink(volume) ==
  LET left == account.volume - volume IN
  /\ Live /\ left > 0
  /\ Changes("out", volume, [account EXCEPT !.volume = left, !.low = Least(@, left), !.grown = FALSE],
             account.grown /\ ~Known)

Close ==
  /\ Live
  /\ Changes("out", account.volume, [account EXCEPT !.volume = 0, !.sl = 0, !.low = 0], FALSE)

SetStop(sl) ==
  /\ Live /\ sl # account.sl
  /\ Changes("stop", 0, [account EXCEPT !.sl = sl, !.grown = FALSE], account.grown /\ ~Known)

Init ==
  /\ account = [volume |-> 0, sl |-> 0, n |-> 0, low |-> 0, grown |-> FALSE]
  /\ list = [volume |-> 0, sl |-> 0, n |-> 0] /\ resync = FALSE
  /\ queue = << >> /\ late = FALSE
  /\ up = FALSE /\ seeding = FALSE
  /\ tracker = Untracked
  /\ saved \in [filed : BOOLEAN, on : {FALSE}, volume : {0}, sl : {0}, synced : {0}]
  /\ told = [opened |-> FALSE, first |-> 0, left |-> 0, sl |-> 0]
  /\ stops = 0 /\ faults = 0

Next ==
  \/ OnTransaction \/ Reconcile \/ ReconcileLater
  \/ Start \/ Seed \/ SaveForAnother \/ Stop
  \/ Lists \/ Offline \/ Lose \/ Delay
  \/ Fill \/ Close
  \/ \E sl \in Stops \union {0} : Open(sl) \/ SetStop(sl)
  \/ \E volume \in 1..Lots : Shrink(volume)

Spec == Init /\ [][Next]_vars

\* The terminal runs the EA, its timer and its handlers, and brings its list up to date.
Fairness ==
  /\ WF_vars(OnTransaction) /\ WF_vars(Reconcile)
  /\ WF_vars(Start) /\ WF_vars(Seed) /\ WF_vars(Lists)

FairSpec == Spec /\ Fairness

(***************************************************************************)
(* Properties                                                              *)
(***************************************************************************)
Volumes == 0..Lots
Levels == Stops \union {0}

TypeOK ==
  /\ account \in [volume : Volumes, sl : Levels, n : Nat, low : Volumes, grown : BOOLEAN]
  /\ list \in [volume : Volumes, sl : Levels, n : Nat]
  /\ queue \in Seq([kind : {"in", "out", "stop"}, volume : Volumes, sl : Levels, n : Nat])
  /\ tracker \in [ on : BOOLEAN, volume : Nat, sl : Levels, synced : Nat,
                   missing : 0..2, pending : Volumes, count : 0..2 ]
  /\ saved \in [filed : BOOLEAN, on : BOOLEAN, volume : Nat, sl : Levels, synced : Nat]
  /\ told \in [opened : BOOLEAN, first : Volumes, left : Volumes, sl : Levels]
  /\ {resync, late, up, seeding} \subseteq BOOLEAN
  /\ stops \in Nat /\ faults \in Nat

(* The events never close more of a position than the account did: what    *)
(* they leave is no less than the least the position has been, or was      *)
(* opened with.  A deal is counted once, by its transaction or by the      *)
(* sweep, and absence alone closes nothing (SourceHandler.mqh:17-24).      *)
NeverToldLess == told.opened => told.left >= Least(account.low, told.first)

(* What the events say is open is tracked, in memory while the EA runs and *)
(* on disk while it does not: its close cannot be missed                   *)
(* (SourceHandler.mqh:6-9, 14-15).                                         *)
NeverForgotten ==
  told.opened /\ told.left > 0 => IF up THEN tracker.on ELSE saved.on

(* Whatever was lost, the sweep brings the reader of the events in line:   *)
(* once the account is quiet he knows of no more than is open, and its     *)
(* stop (SourceHandler.mqh:474-639).                                       *)
CatchesUp ==
  <>[](told.opened => /\ told.left <= account.volume
                      /\ account.volume > 0 => told.sl = account.sl)
=============================================================================
