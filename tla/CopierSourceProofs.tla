--------------------------- MODULE CopierSourceProofs ---------------------------
(***************************************************************************)
(* The types of CopierSource, that what its events say is open is tracked, *)
(* and that they never close more than the account did, for every volume,  *)
(* stop, number of changes, stops and faults.                              *)
(***************************************************************************)
EXTENDS CopierSource, TLAPS

EntryType ==
  [ on : BOOLEAN, volume : Nat, sl : Levels, synced : Nat,
    missing : 0..2, pending : Volumes, count : 0..2 ]
FileType == [filed : BOOLEAN, on : BOOLEAN, volume : Nat, sl : Levels, synced : Nat]
ToldType == [opened : BOOLEAN, first : Volumes, left : Volumes, sl : Levels]
EaType == [up : BOOLEAN, tracker : EntryType, saved : FileType, told : ToldType, faults : Nat]
TransactionType == [kind : {"in", "out", "stop"}, volume : Volumes, sl : Levels, n : Nat]

EventTypes == {"OPEN", "PARTIAL_CLOSE", "CLOSE", "MODIFY"}
Events ==
  { e \in [type : EventTypes, volume : Nat, sl : Levels] :
      /\ e.type = "OPEN" => e.volume \in Volumes
      /\ e.type = "CLOSE" => e.volume = 0 }

LEMMA Constants ==
  Lots \in Nat \ {0} /\ Volumes = 0..Lots /\ 0 \in Volumes /\ Volumes \subseteq Nat /\ 0 \in Levels /\ Levels \subseteq Nat
  BY CopierAssumption DEF Volumes, Levels

LEMMA LeastType ==
  ASSUME NEW a \in Volumes, NEW b \in Nat
  PROVE  Least(a, b) \in Volumes /\ Least(a, b) <= a /\ Least(a, b) <= b
  BY Constants DEF Least

LEMMA EventIn ==
  ASSUME NEW volume \in Nat, NEW sl \in Levels, NEW type \in EventTypes,
         type = "OPEN" => volume \in Volumes, type = "CLOSE" => volume = 0
  PROVE  Event(type, volume, sl) \in Events /\ Event(type, volume, sl).type = type
  BY DEF Event, Events

LEMMA EntryTypes ==
  /\ Untracked \in EntryType
  /\ \A volume \in Nat, sl \in Levels : Tracked(volume, sl) \in EntryType /\ Tracked(volume, sl).on
  /\ \A entry \in EntryType : OnDisk(entry) \in FileType /\ OnDisk(entry).on = entry.on
  /\ \A file \in FileType : Loaded(file) \in EntryType /\ Loaded(file).on = file.on
<1>1. Untracked \in EntryType
  BY Constants DEF Untracked, EntryType
<1>2. ASSUME NEW volume \in Nat, NEW sl \in Levels
      PROVE  /\ Tracked(volume, sl) \in EntryType
             /\ Tracked(volume, sl) = [Untracked EXCEPT !.on = TRUE, !.volume = volume, !.sl = sl]
  BY <1>1 DEF Tracked, EntryType
<1>3. ASSUME NEW volume \in Nat, NEW sl \in Levels
      PROVE  Tracked(volume, sl).on = TRUE
  BY DEF Tracked, Untracked
<1>4. \A entry \in EntryType : OnDisk(entry) \in FileType /\ OnDisk(entry).on = entry.on
  BY DEF OnDisk, EntryType, FileType
<1>5. ASSUME NEW file \in FileType
      PROVE  Loaded(file) \in EntryType /\ Loaded(file).on = file.on
  <2>1. Tracked(file.volume, file.sl) \in EntryType
    BY <1>2 DEF FileType
  <2> QED
    BY <2>1 DEF Loaded, EntryType, FileType
<1> QED
  BY <1>1, <1>2, <1>3, <1>4, <1>5

(***************************************************************************)
(* A line, and what is kept after it                                       *)
(***************************************************************************)
\* What the events say is open.
Open_(t) == t.opened /\ t.left > 0

\* What the events say is open is on disk, and in memory of an EA that runs.
Remembers(w) == Open_(w.told) => w.saved.on /\ (w.up => w.tracker.on)

LEMMA TellType ==
  ASSUME NEW t \in ToldType, NEW e \in Events
  PROVE  /\ Tell(t, e) \in ToldType
         /\ e.type # "OPEN" /\ Open_(Tell(t, e)) => Open_(t)
         /\ e.type = "CLOSE" => ~Open_(Tell(t, e))
<1>1. e.type \in EventTypes /\ e.volume \in Nat /\ e.sl \in Levels /\ t.left \in Volumes
  BY DEF Events, ToldType
<1>2. CASE e.type = "OPEN"
  BY <1>1, <1>2 DEF Tell, ToldType, Events
<1>3. CASE e.type \in {"PARTIAL_CLOSE", "CLOSE"}
  <2>1. Least(t.left, e.volume) \in Volumes /\ Least(t.left, e.volume) <= t.left /\ Least(t.left, e.volume) <= e.volume
    BY <1>1, LeastType
  <2>2. Tell(t, e) = IF t.opened THEN [t EXCEPT !.left = Least(t.left, e.volume)] ELSE t
    BY <1>3 DEF Tell
  <2>3. e.type = "CLOSE" => e.volume = 0
    BY DEF Events
  <2> QED
    BY <1>1, <1>3, <2>1, <2>2, <2>3, Constants DEF ToldType, Open_
<1>4. CASE e.type = "MODIFY"
  BY <1>1, <1>4 DEF Tell, ToldType, Open_
<1> QED
  BY <1>1, <1>2, <1>3, <1>4 DEF EventTypes

LEMMA FaultyType ==
  ASSUME NEW w \in EaType, NEW kind, NEW x \in Faulty(w, kind)
  PROVE  /\ x \in EaType /\ kind \in Faults
         /\ x.up = w.up /\ x.tracker = w.tracker /\ x.saved = w.saved /\ x.told = w.told
  BY DEF Faulty, EaType

LEMMA OrDiesOutcome ==
  ASSUME NEW S, \A u \in S : u \in EaType, NEW x \in OrDies(S)
  PROVE  \E u \in S : /\ x \in EaType /\ x.told = u.told /\ x.saved = u.saved
                      /\ \/ x.up = u.up /\ x.tracker = u.tracker
                         \/ x.up = FALSE /\ x.tracker = Untracked
<1>1. CASE x \in S
  BY <1>1
<1>2. CASE \E u \in S : x = [u EXCEPT !.up = FALSE, !.tracker = Untracked]
  <2>1. PICK u \in S : x = [u EXCEPT !.up = FALSE, !.tracker = Untracked]
    BY <1>2
  <2>2. x \in EaType /\ x.up = FALSE /\ x.tracker = Untracked /\ x.told = u.told /\ x.saved = u.saved
    BY <2>1, EntryTypes DEF EaType
  <2> QED
    BY <2>2
<1> QED
  BY <1>1, <1>2 DEF OrDies

\* The file has the entry, unless it is torn.
LEMMA SaveOutcome ==
  ASSUME NEW w \in EaType, NEW x \in SaveTracker(w)
  PROVE  /\ x \in EaType /\ x.told = w.told
         /\ x.saved = OnDisk(w.tracker) \/ "torn" \in Faults
         /\ \/ x.up = w.up /\ x.tracker = w.tracker
            \/ x.up = FALSE /\ x.tracker = Untracked
<1>1. w.tracker \in EntryType
  BY DEF EaType
<1>2. CASE x = [w EXCEPT !.saved = OnDisk(w.tracker)]
  BY <1>1, <1>2, EntryTypes DEF EaType
<1>3. CASE x \in OrDies(Torn(w))
  <2>1. ASSUME NEW u \in Torn(w)
        PROVE  /\ u \in EaType /\ "torn" \in Faults
               /\ u.told = w.told /\ u.up = w.up /\ u.tracker = w.tracker
    <3>1. PICK y \in Faulty(w, "torn") :
            \/ u = [y EXCEPT !.saved = OnDisk(Untracked)]
            \/ u = [y EXCEPT !.saved = [OnDisk(y.tracker) EXCEPT !.synced = 0]]
      BY <2>1 DEF Torn
    <3>2. /\ y \in EaType /\ "torn" \in Faults
          /\ y.up = w.up /\ y.tracker = w.tracker /\ y.told = w.told
      BY FaultyType
    <3>3. OnDisk(Untracked) \in FileType /\ OnDisk(y.tracker) \in FileType
      BY <1>1, <3>2, EntryTypes
    <3>4. [OnDisk(y.tracker) EXCEPT !.synced = 0] \in FileType
      BY <3>3 DEF FileType
    <3> QED
      BY <3>1, <3>2, <3>3, <3>4 DEF EaType
  <2>2. PICK u \in Torn(w) :
          /\ x \in EaType /\ x.told = u.told
          /\ \/ x.up = u.up /\ x.tracker = u.tracker
             \/ x.up = FALSE /\ x.tracker = Untracked
    BY <1>3, <2>1, OrDiesOutcome
  <2> QED
    BY <2>1, <2>2
<1> QED
  BY <1>2, <1>3 DEF SaveTracker

Kept(x, w, e, entry) ==
  /\ x \in EaType /\ x.told = w.told
  /\ \/ x.saved = OnDisk(entry)
     \/ x.saved = w.saved /\ (e.type \in {"OPEN", "MODIFY"} => "unsaved_open" \in Faults)
     \/ "torn" \in Faults
  /\ \/ x.up = w.up /\ x.tracker = entry
     \/ x.up = FALSE /\ x.tracker = Untracked

\* After its line a handler keeps the entry, unless the file is not written or the EA dies.
LEMMA KeepOutcome ==
  ASSUME NEW w \in EaType, NEW e, NEW entry \in EntryType, NEW x \in Keep(w, e, entry)
  PROVE  Kept(x, w, e, entry)
<1> DEFINE kept == [w EXCEPT !.tracker = entry]
           kind == IF e.type \in {"OPEN", "MODIFY"} THEN "unsaved_open" ELSE "unsaved"
<1>1. /\ kept \in EaType
      /\ kept.told = w.told /\ kept.saved = w.saved /\ kept.tracker = entry /\ kept.up = w.up
  BY DEF EaType
<1>2. x \in SaveTracker(kept) \union OrDies(Faulty(kept, kind))
  BY DEF Keep
<1>3. e.type \in {"OPEN", "MODIFY"} => kind = "unsaved_open"
  OBVIOUS
<1> HIDE DEF kept, kind
<1>4. CASE x \in SaveTracker(kept)
  BY <1>1, <1>4, SaveOutcome DEF Kept
<1>5. CASE x \in OrDies(Faulty(kept, kind))
  <2>1. ASSUME NEW u \in Faulty(kept, kind)
        PROVE  /\ u \in EaType /\ kind \in Faults
               /\ u.told = w.told /\ u.saved = w.saved /\ u.tracker = entry /\ u.up = w.up
    BY <1>1, <2>1, FaultyType
  <2>2. PICK u \in Faulty(kept, kind) :
          /\ x \in EaType /\ x.told = u.told /\ x.saved = u.saved
          /\ \/ x.up = u.up /\ x.tracker = u.tracker
             \/ x.up = FALSE /\ x.tracker = Untracked
    BY <1>5, <2>1, OrDiesOutcome
  <2> QED
    BY <1>3, <2>1, <2>2 DEF Kept
<1> QED
  BY <1>2, <1>4, <1>5

LEMMA EmitOutcome ==
  ASSUME NEW w \in EaType, NEW e \in Events, NEW x \in Emit(w, e)
  PROVE  /\ x \in EaType
         /\ e.type # "OPEN" /\ Remembers(w) => Remembers(x)
<1>1. Tell(w.told, e) \in ToldType /\ (e.type # "OPEN" /\ Open_(Tell(w.told, e)) => Open_(w.told))
  BY TellType DEF EaType
<1>2. CASE x = [w EXCEPT !.told = Tell(w.told, e)]
  BY <1>1, <1>2 DEF EaType, Remembers
<1>3. CASE x \in Faulty(w, "append")
  BY <1>3, FaultyType DEF Remembers
<1> QED
  BY <1>2, <1>3 DEF Emit

\* The tracker's file is written whole after an opening and a changed stop, and can be read.
FileKept == {"unsaved_open", "torn", "unreadable"} \cap Faults = {}

\* The line comes before the tracker, so what a line opens is tracked when it was written.
LEMMA EmitAndKeepOutcome ==
  ASSUME NEW w \in EaType, NEW e \in Events, NEW entry \in EntryType, NEW x \in EmitAndKeep(w, e, entry)
  PROVE  /\ x \in EaType
         /\ (Remembers(w) /\ FileKept /\ (e.type = "CLOSE" \/ entry.on)) => Remembers(x)
         /\ e.type # "OPEN" /\ ~Open_(w.told) => ~Open_(x.told)
<1> DEFINE said == [w EXCEPT !.told = Tell(w.told, e)]
<1>1. /\ Tell(w.told, e) \in ToldType
      /\ e.type # "OPEN" /\ Open_(Tell(w.told, e)) => Open_(w.told)
      /\ e.type = "CLOSE" => ~Open_(Tell(w.told, e))
  BY TellType DEF EaType
<1>2. said \in EaType /\ said.told = Tell(w.told, e) /\ said.saved = w.saved
  BY <1>1 DEF EaType
<1>0. EmitAndKeep(w, e, entry) = Keep(said, e, entry) \union Faulty(w, "append")
  BY DEF EmitAndKeep
<1> HIDE DEF said
<1>3. CASE x \in Keep(said, e, entry)
  <2>1. /\ x \in EaType /\ x.told = said.told
        /\ \/ x.saved = OnDisk(entry)
           \/ x.saved = said.saved /\ (e.type \in {"OPEN", "MODIFY"} => "unsaved_open" \in Faults)
           \/ "torn" \in Faults
        /\ x.up => x.tracker = entry
    BY <1>2, <1>3, KeepOutcome DEF Kept
  <2>2. OnDisk(entry).on = entry.on
    BY EntryTypes
  <2> QED
    BY <1>1, <1>2, <2>1, <2>2 DEF Remembers, FileKept
<1>4. CASE x \in Faulty(w, "append")
  BY <1>4, FaultyType DEF Remembers
<1> QED
  BY <1>0, <1>3, <1>4

(***************************************************************************)
(* What a handler makes of the EA                                          *)
(***************************************************************************)
Outcomes(w, S) ==
  \A x \in S : x \in EaType /\ (Remembers(w) /\ FileKept => Remembers(x))

LEMMA EmitAndKeepOutcomes ==
  ASSUME NEW w \in EaType, NEW e \in Events, NEW entry \in EntryType,
         \/ e.type = "CLOSE"
         \/ entry.on
         \/ e.type # "OPEN" /\ w.up /\ entry.on = w.tracker.on
  PROVE  Outcomes(w, EmitAndKeep(w, e, entry))
<1>1. ASSUME NEW x \in EmitAndKeep(w, e, entry)
      PROVE  x \in EaType
  BY <1>1, EmitAndKeepOutcome
<1>2. ASSUME NEW x \in EmitAndKeep(w, e, entry), Remembers(w), FileKept
      PROVE  Remembers(x)
  <2>1. CASE e.type = "CLOSE" \/ entry.on
    BY <1>2, <2>1, EmitAndKeepOutcome
  <2>2. CASE e.type # "OPEN" /\ w.up /\ entry.on = w.tracker.on /\ ~entry.on
    <3>1. ~Open_(w.told)
      BY <1>2, <2>2 DEF Remembers
    <3>2. ~Open_(x.told)
      BY <1>2, <2>2, <3>1, EmitAndKeepOutcome
    <3> QED
      BY <3>2 DEF Remembers
  <2> QED
    BY <2>1, <2>2
<1> QED
  BY <1>1, <1>2 DEF Outcomes

LEMMA SameOutcomes ==
  ASSUME NEW w \in EaType, NEW v \in EaType, v.told = w.told, v.saved = w.saved, v.up = w.up,
         v.tracker.on = w.tracker.on
  PROVE  Outcomes(w, {v}) /\ \A S : Outcomes(v, S) => Outcomes(w, S)
  BY DEF Outcomes, Remembers

LEMMA NowType == TypeOK => Now \in EaType /\ list.volume \in Volumes /\ list.sl \in Levels /\ list.n \in Nat
  BY DEF TypeOK, Now, EaType, EntryType, FileType, ToldType

\* A handler may begin with a failed look into the history.
Current(w) == w \in EaType /\ w.up = up /\ w.tracker = tracker

LEMMA OnDealAsOutcomes ==
  ASSUME TypeOK, up, NEW w, Current(w), NEW t \in TransactionType, NEW entry \in {"in", "out"}
  PROVE  Outcomes(w, OnDealAs(entry, w, t))
<1>1. /\ w \in EaType /\ tracker \in EntryType /\ w.tracker = tracker /\ w.up
      /\ list.volume \in Volumes /\ list.sl \in Levels /\ ListedSl \in Levels
      /\ t.volume \in Volumes /\ t.volume \in Nat /\ list.volume \in Nat
  BY NowType, Constants DEF Current, TransactionType, ListedSl, EaType
<1>2. CASE entry = "in"
  <2> DEFINE grown == IF Selectable THEN list.volume ELSE tracker.volume + t.volume
             next == IF tracker.on THEN [tracker EXCEPT !.volume = grown, !.sl = ListedSl] ELSE Tracked(t.volume, ListedSl)
  <2>1. grown \in Nat
    BY <1>1 DEF EntryType
  <2>2. next \in EntryType /\ next.on
    BY <1>1, <2>1, EntryTypes DEF EntryType
  <2>3. Event("OPEN", t.volume, ListedSl) \in Events
    BY <1>1, EventIn DEF EventTypes
  <2>4. OnDealAs(entry, w, t) = EmitAndKeep(w, Event("OPEN", t.volume, ListedSl), next)
    BY <1>2 DEF OnDealAs, OnDealIn
  <2> QED
    BY <1>1, <2>2, <2>3, <2>4, EmitAndKeepOutcomes
<1>3. CASE entry = "out" /\ tracker.on
  <2> DEFINE remaining == tracker.volume - t.volume
  <2>1. Event("CLOSE", 0, 0) \in Events /\ Event("CLOSE", 0, 0).type = "CLOSE" /\ Untracked \in EntryType
    BY EventIn, EntryTypes, Constants DEF EventTypes
  <2>2. CASE FullyClosed(remaining)
    BY <1>1, <1>3, <2>1, <2>2, EmitAndKeepOutcomes DEF OnDealAs, OnDealOutTracked
  <2>3. CASE ~FullyClosed(remaining)
    <3>1. remaining \in Nat
      BY <1>1, <2>3 DEF FullyClosed, EntryType
    <3>2. Event("PARTIAL_CLOSE", remaining, 0) \in Events
      BY <3>1, EventIn, Constants DEF EventTypes
    <3>3. [tracker EXCEPT !.volume = remaining] \in EntryType /\ [tracker EXCEPT !.volume = remaining].on = tracker.on
      BY <1>1, <3>1 DEF EntryType
    <3> QED
      BY <1>1, <1>3, <2>3, <3>2, <3>3, EmitAndKeepOutcomes DEF OnDealAs, OnDealOutTracked
  <2> QED
    BY <2>2, <2>3
<1>4. CASE entry = "out" /\ ~tracker.on
  <2>1. CASE Selectable
    <3>1. Event("PARTIAL_CLOSE", list.volume, 0) \in Events
      BY <1>1, EventIn, Constants DEF EventTypes
    <3>2. Tracked(list.volume, list.sl) \in EntryType /\ Tracked(list.volume, list.sl).on
      BY <1>1, EntryTypes
    <3> QED
      BY <1>1, <1>4, <2>1, <3>1, <3>2, EmitAndKeepOutcomes DEF OnDealAs, OnDealOutUntracked
  <2>2. CASE ~Selectable
    <3>1. Event("CLOSE", 0, 0) \in Events /\ Event("CLOSE", 0, 0).type = "CLOSE"
      BY EventIn, Constants DEF EventTypes
    <3> QED
      BY <1>1, <1>4, <2>2, <3>1, EmitOutcome DEF OnDealAs, OnDealOutUntracked, Outcomes
  <2> QED
    BY <2>1, <2>2
<1> QED
  BY <1>2, <1>3, <1>4

LEMMA FaultyCurrent ==
  ASSUME TypeOK, NEW kind, NEW w \in Faulty(Now, kind)
  PROVE  Current(w) /\ \A S : Outcomes(w, S) => Outcomes(Now, S)
<1>1. Now \in EaType /\ Now.up = up /\ Now.tracker = tracker
  BY NowType DEF Now
<1>2. w \in EaType /\ w.up = Now.up /\ w.tracker = Now.tracker /\ w.saved = Now.saved /\ w.told = Now.told
  BY <1>1, FaultyType
<1> QED
  BY <1>1, <1>2, SameOutcomes DEF Current

LEMMA NowCurrent == TypeOK => Current(Now)
  BY NowType DEF Current, Now

LEMMA DealNotInHistory ==
  ASSUME TypeOK, up, NEW t \in TransactionType, NEW kind
  PROVE  Outcomes(Now, UNION {OnDealAs(Guess, w, t) : w \in Faulty(Now, kind)})
<1>1. ASSUME NEW w \in Faulty(Now, kind)
      PROVE  Outcomes(Now, OnDealAs(Guess, w, t))
  BY <1>1, FaultyCurrent, OnDealAsOutcomes DEF Guess
<1> QED
  BY <1>1 DEF Outcomes

LEMMA PositionChange ==
  ASSUME TypeOK, up, NEW t \in TransactionType
  PROVE  Outcomes(Now, CASE tracker.on /\ tracker.sl = t.sl -> {Now}
                         [] tracker.on /\ tracker.sl # t.sl ->
                              EmitAndKeep(Now, Event("MODIFY", 0, t.sl), [tracker EXCEPT !.sl = t.sl])
                         [] ~tracker.on -> Emit(Now, Event("MODIFY", 0, t.sl)))
<1>1. Now \in EaType /\ tracker \in EntryType /\ Now.tracker = tracker /\ Now.up = up /\ t.sl \in Levels
  BY NowType DEF Now, EaType, TransactionType
<1>2. Event("MODIFY", 0, t.sl) \in Events /\ Event("MODIFY", 0, t.sl).type = "MODIFY"
  BY <1>1, EventIn DEF EventTypes
<1>3. [tracker EXCEPT !.sl = t.sl] \in EntryType /\ [tracker EXCEPT !.sl = t.sl].on = tracker.on
  BY <1>1 DEF EntryType
<1>4. Outcomes(Now, {Now})
  BY <1>1, SameOutcomes
<1>5. Outcomes(Now, EmitAndKeep(Now, Event("MODIFY", 0, t.sl), [tracker EXCEPT !.sl = t.sl]))
  BY <1>1, <1>2, <1>3, EmitAndKeepOutcomes
<1>6. Outcomes(Now, Emit(Now, Event("MODIFY", 0, t.sl)))
  BY <1>1, <1>2, EmitOutcome DEF Outcomes
<1>7. tracker.on \in BOOLEAN
  BY <1>1 DEF EntryType
<1> QED
  BY <1>4, <1>5, <1>6, <1>7

\* The changes a sweep makes to an entry leave it tracked or not as it was.
LEMMA EntryChanges ==
  ASSUME NEW x \in EntryType
  PROVE  /\ \A c \in 0..2 : [x EXCEPT !.count = c] \in EntryType /\ [x EXCEPT !.count = c].on = x.on
         /\ \A c \in 0..2 : [x EXCEPT !.missing = c] \in EntryType /\ [x EXCEPT !.missing = c].on = x.on
         /\ \A v \in Volumes : [x EXCEPT !.pending = v] \in EntryType /\ [x EXCEPT !.pending = v].on = x.on
         /\ \A v \in Nat : [x EXCEPT !.volume = v] \in EntryType /\ [x EXCEPT !.volume = v].on = x.on
         /\ \A n \in Nat : [x EXCEPT !.synced = n] \in EntryType /\ [x EXCEPT !.synced = n].on = x.on
         /\ \A l \in Levels : [x EXCEPT !.sl = l] \in EntryType /\ [x EXCEPT !.sl = l].on = x.on
  BY DEF EntryType

(***************************************************************************)
(* The sweep                                                               *)
(***************************************************************************)
\* A sweep of a position that is listed works on an entry that is tracked.
LEMMA SweepVolumeOutcomes ==
  ASSUME TypeOK, NEW w \in EaType, w.tracker.on
  PROVE  Outcomes(w, SweepVolume(w))
<1> DEFINE entry == w.tracker
           count == IF entry.count > 0 /\ entry.pending = list.volume THEN 2 ELSE 1
           waiting == [entry EXCEPT !.pending = list.volume, !.count = count]
           waits == [w EXCEPT !.tracker = waiting]
           e == IF list.volume < entry.volume THEN Event("PARTIAL_CLOSE", list.volume, 0)
                ELSE Event("OPEN", list.volume - entry.volume, list.sl)
           seen == [entry EXCEPT !.volume = list.volume, !.synced = list.n, !.count = 0]
           level == [w EXCEPT !.tracker.count = 0]
<1>1. /\ list.volume \in Volumes /\ list.volume \in Nat /\ list.sl \in Levels /\ list.n \in Nat
      /\ entry \in EntryType /\ entry.volume \in Nat /\ count \in {1, 2} /\ count \in 0..2 /\ 0 \in 0..2
  BY NowType, Constants DEF EaType, EntryType
<1> HIDE DEF entry, count
<1>2. waiting \in EntryType /\ waiting.on = entry.on
  <2> DEFINE listed == [entry EXCEPT !.pending = list.volume]
  <2>1. listed \in EntryType /\ listed.on = entry.on
    BY <1>1, EntryChanges
  <2>2. waiting = [listed EXCEPT !.count = count]
    OBVIOUS
  <2> HIDE DEF listed, waiting
  <2> QED
    BY <1>1, <2>1, <2>2, EntryChanges
<1>3. waits \in EaType /\ waits.told = w.told /\ waits.saved = w.saved /\ waits.up = w.up /\ waits.tracker = waiting
  BY <1>2 DEF EaType
<1>4. level \in EaType /\ level.told = w.told /\ level.saved = w.saved /\ level.up = w.up /\ level.tracker.on = w.tracker.on
  <2>1. level = [w EXCEPT !.tracker = [entry EXCEPT !.count = 0]] /\ w.tracker = entry
    BY DEF EaType, entry
  <2>2. [entry EXCEPT !.count = 0] \in EntryType /\ [entry EXCEPT !.count = 0].on = entry.on
    BY <1>1, EntryChanges, Zenon
  <2> QED
    BY <2>1, <2>2 DEF EaType
<1>5. seen \in EntryType /\ seen.on = entry.on
  <2> DEFINE sized == [entry EXCEPT !.volume = list.volume]
             marked == [sized EXCEPT !.synced = list.n]
  <2>1. sized \in EntryType /\ sized.on = entry.on
    BY <1>1, EntryChanges
  <2>2. seen = [marked EXCEPT !.count = 0]
    OBVIOUS
  <2> HIDE DEF sized
  <2>3. marked \in EntryType /\ marked.on = entry.on
    BY <1>1, <2>1, EntryChanges
  <2> HIDE DEF marked, seen
  <2> QED
    BY <1>1, <2>2, <2>3, EntryChanges
<1>6. ASSUME list.volume # entry.volume PROVE e \in Events
  <2>1. CASE list.volume < entry.volume
    BY <1>1, <2>1, EventIn, Constants DEF EventTypes
  <2>2. CASE ~(list.volume < entry.volume)
    <3>1. list.volume - entry.volume \in Volumes /\ list.volume - entry.volume \in Nat
      BY <1>1, <2>2, Constants
    <3> QED
      BY <1>1, <2>2, <3>1, EventIn DEF EventTypes
  <2> QED
    BY <2>1, <2>2
<1>7. SweepVolume(w) = CASE list.volume = entry.volume -> {level}
                         [] list.volume # entry.volume /\ count = 1 -> {waits}
                         [] list.volume # entry.volume /\ count = 2 -> EmitAndKeep(waits, e, seen)
  BY DEF SweepVolume, entry, count
<1> HIDE DEF waits, waiting, count, seen, level, e
<1>8. Outcomes(w, {level}) /\ Outcomes(w, {waits})
  BY <1>2, <1>3, <1>4, SameOutcomes DEF entry
<1>9. ASSUME list.volume # entry.volume PROVE Outcomes(w, EmitAndKeep(waits, e, seen))
  <2>1. Outcomes(waits, EmitAndKeep(waits, e, seen))
    <3>1. seen.on
      BY <1>5 DEF entry
    <3> QED
      BY <1>3, <1>5, <1>6, <1>9, <3>1, EmitAndKeepOutcomes
  <2> QED
    BY <1>2, <1>3, <2>1, SameOutcomes DEF entry
<1> QED
  BY <1>1, <1>7, <1>8, <1>9

LEMMA SweepStopOutcomes ==
  ASSUME TypeOK, NEW w \in EaType
  PROVE  Outcomes(w, SweepStop(w))
<1>1. w.tracker \in EntryType /\ list.sl \in Levels
  BY NowType DEF EaType
<1>2. Event("MODIFY", 0, list.sl) \in Events /\ Event("MODIFY", 0, list.sl).type = "MODIFY"
  BY <1>1, EventIn DEF EventTypes
<1> DEFINE moved == [w.tracker EXCEPT !.sl = list.sl]
<1>3. moved \in EntryType /\ moved.on = w.tracker.on
  BY <1>1, EntryChanges
<1>4. SweepStop(w) = IF ~w.up \/ w.tracker.sl = list.sl THEN {w}
                     ELSE EmitAndKeep(w, Event("MODIFY", 0, list.sl), moved)
  BY DEF SweepStop
<1> HIDE DEF moved
<1>5. w.up => Outcomes(w, EmitAndKeep(w, Event("MODIFY", 0, list.sl), moved))
  BY <1>2, <1>3, EmitAndKeepOutcomes
<1>6. Outcomes(w, {w})
  BY SameOutcomes
<1> QED
  BY <1>4, <1>5, <1>6

LEMMA SweepLiveOutcomes ==
  ASSUME TypeOK, NEW w, Current(w)
  PROVE  Outcomes(w, SweepLive(w))
<1>1. w \in EaType /\ w.tracker = tracker /\ tracker \in EntryType /\ list.volume \in Volumes /\ list.sl \in Levels
      /\ list.volume \in Nat
  BY NowType, Constants DEF Current, EaType
<1>2. CASE ~tracker.on
  <2>1. Event("OPEN", list.volume, list.sl) \in Events
    BY <1>1, EventIn DEF EventTypes
  <2>2. Tracked(list.volume, list.sl) \in EntryType /\ Tracked(list.volume, list.sl).on
    BY <1>1, EntryTypes
  <2>3. SweepLive(w) = EmitAndKeep(w, Event("OPEN", list.volume, list.sl), Tracked(list.volume, list.sl))
    BY <1>2 DEF SweepLive
  <2> QED
    BY <1>1, <2>1, <2>2, <2>3, EmitAndKeepOutcomes
<1>3. CASE tracker.on
  <2> DEFINE found == Found(w)
  <2>0. 0 \in 0..2
    OBVIOUS
  <2>1. [tracker EXCEPT !.missing = 0] \in EntryType /\ [tracker EXCEPT !.missing = 0].on = tracker.on
    BY <1>1, <2>0, EntryChanges, Zenon
  <2>2. found = [w EXCEPT !.tracker = [tracker EXCEPT !.missing = 0]]
    BY <1>1 DEF Found, EaType
  <2>3. /\ found \in EaType /\ found.told = w.told /\ found.saved = w.saved /\ found.up = w.up
        /\ found.tracker.on = w.tracker.on
    BY <1>1, <2>1, <2>2 DEF EaType
  <2>4. SweepLive(w) = UNION {SweepStop(v) : v \in SweepVolume(found)}
    BY <1>3 DEF SweepLive
  <2> HIDE DEF found
  <2>5. Outcomes(found, SweepVolume(found))
    BY <1>1, <1>3, <2>3, SweepVolumeOutcomes
  <2>6. \A v \in SweepVolume(found) : Outcomes(v, SweepStop(v))
    BY <2>5, SweepStopOutcomes DEF Outcomes
  <2>7. Outcomes(found, UNION {SweepStop(v) : v \in SweepVolume(found)})
    BY <2>5, <2>6 DEF Outcomes
  <2> QED
    BY <1>1, <2>3, <2>4, <2>7, SameOutcomes
<1> QED
  BY <1>2, <1>3

\* Absence alone leaves the entry tracked.
LEMMA SweepGoneOutcomes ==
  ASSUME TypeOK, tracker.on, NEW net \in Nat
  PROVE  Outcomes(Now, SweepGone(Now, net))
<1>1. Now \in EaType /\ Now.tracker = tracker /\ tracker \in EntryType /\ tracker.volume \in Nat
  BY NowType DEF Now, EaType, EntryType
<1> DEFINE missing == IF tracker.missing = 0 THEN 1 ELSE 2
           gone == [tracker EXCEPT !.missing = missing]
           absent == [Now EXCEPT !.tracker.missing = missing]
           recheck == [tracker EXCEPT !.missing = 1]
           again == [Now EXCEPT !.tracker = recheck]
           rest == [recheck EXCEPT !.volume = net]
<1>2. missing \in 0..2 /\ 1 \in 0..2
  OBVIOUS
<1>3. SweepGone(Now, net) =
        CASE missing = 1 -> {absent}
          [] missing = 2 /\ net >= tracker.volume -> {again}
          [] missing = 2 /\ net < tracker.volume /\ net = 0 -> EmitAndKeep(absent, Event("CLOSE", 0, 0), Untracked)
          [] missing = 2 /\ net < tracker.volume /\ net > 0 -> EmitAndKeep(absent, Event("PARTIAL_CLOSE", net, 0), rest)
  BY DEF SweepGone
<1>4. missing \in {1, 2}
  OBVIOUS
<1>5. absent = [Now EXCEPT !.tracker = gone]
  BY <1>1 DEF EaType
<1> HIDE DEF missing
<1>6. gone \in EntryType /\ gone.on = tracker.on /\ recheck \in EntryType /\ recheck.on = tracker.on
  BY <1>1, <1>2, EntryChanges
<1> HIDE DEF recheck
<1>7. rest \in EntryType /\ rest.on = tracker.on
  BY <1>6, EntryChanges
<1> HIDE DEF gone, absent, rest
<1>8. /\ absent \in EaType /\ absent.told = Now.told /\ absent.saved = Now.saved /\ absent.up = Now.up
      /\ absent.tracker.on = Now.tracker.on
  BY <1>1, <1>5, <1>6 DEF EaType
<1>9. /\ again \in EaType /\ again.told = Now.told /\ again.saved = Now.saved /\ again.up = Now.up
      /\ again.tracker.on = Now.tracker.on
  BY <1>1, <1>6 DEF EaType
<1>10. Outcomes(Now, {absent}) /\ Outcomes(Now, {again})
  BY <1>1, <1>8, <1>9, SameOutcomes
<1> DEFINE Follows == \A S : Outcomes(absent, S) => Outcomes(Now, S)
<1>0. Follows
  BY <1>1, <1>8, SameOutcomes, Zenon
<1>11. Outcomes(Now, EmitAndKeep(absent, Event("CLOSE", 0, 0), Untracked))
  <2>1. Event("CLOSE", 0, 0) \in Events /\ Event("CLOSE", 0, 0).type = "CLOSE" /\ Untracked \in EntryType
    BY EventIn, EntryTypes, Constants DEF EventTypes
  <2>2. Outcomes(absent, EmitAndKeep(absent, Event("CLOSE", 0, 0), Untracked))
    BY <1>8, <2>1, EmitAndKeepOutcomes
  <2> QED
    BY <1>0, <2>2, Zenon
<1>12. Outcomes(Now, EmitAndKeep(absent, Event("PARTIAL_CLOSE", net, 0), rest))
  <2>1. Event("PARTIAL_CLOSE", net, 0) \in Events
    BY EventIn, Constants DEF EventTypes
  <2>2. rest.on
    BY <1>7
  <2>3. Outcomes(absent, EmitAndKeep(absent, Event("PARTIAL_CLOSE", net, 0), rest))
    BY <1>7, <1>8, <2>1, <2>2, EmitAndKeepOutcomes
  <2> QED
    BY <1>0, <2>3, Zenon
<1> HIDE DEF again
<1> QED
  BY <1>1, <1>3, <1>4, <1>10, <1>11, <1>12

(***************************************************************************)
(* The steps                                                               *)
(***************************************************************************)
\* The inductive form of NeverForgotten: on disk all the time, so that a death changes nothing.
Remembered == told.opened /\ told.left > 0 => saved.on /\ (up => tracker.on)

Sound == TypeOK' /\ (Remembered /\ FileKept => Remembered')

LEMMA BecomesSound ==
  ASSUME TypeOK, NEW S, Outcomes(Now, S), NEW left \in Seq(TransactionType), Becomes(S, left),
         UNCHANGED <<broker, stops>>, seeding' \in BOOLEAN
  PROVE  Sound
<1>1. PICK w \in S : /\ up' = w.up /\ tracker' = w.tracker /\ saved' = w.saved
                     /\ told' = w.told /\ faults' = w.faults
                     /\ queue' = IF w.up THEN left ELSE << >>
  BY DEF Becomes
<1>2. w \in EaType /\ (Remembers(Now) /\ FileKept => Remembers(w))
  BY DEF Outcomes
<1>3. UNCHANGED <<account, list, resync, stops>> /\ seeding' \in BOOLEAN /\ late' \in BOOLEAN
  BY DEF Becomes, broker
<1>4. queue' \in Seq(TransactionType)
  BY <1>1
<1>5. TypeOK'
  BY <1>1, <1>2, <1>3, <1>4 DEF TypeOK, EaType, EntryType, FileType, ToldType, TransactionType
<1>6. Remembered <=> Remembers(Now)
  BY DEF Remembered, Remembers, Now, Open_
<1>7. Remembers(w) => Remembered'
  BY <1>1 DEF Remembered, Remembers, Open_
<1> QED
  BY <1>2, <1>5, <1>6, <1>7 DEF Sound

LEMMA EndsSound ==
  ASSUME TypeOK, NEW S, Outcomes(Now, S), NEW left \in Seq(TransactionType), Ends(S, left)
  PROVE  Sound
<1>1. Becomes(S, left) /\ UNCHANGED <<broker, stops>> /\ seeding' \in BOOLEAN
  BY DEF Ends, TypeOK
<1> QED
  BY <1>1, BecomesSound

LEMMA QueueType ==
  ASSUME TypeOK
  PROVE  /\ queue \in Seq(TransactionType)
         /\ queue # << >> => Head(queue) \in TransactionType /\ Tail(queue) \in Seq(TransactionType)
<1>1. queue \in Seq(TransactionType)
  BY DEF TypeOK, TransactionType
<1> QED
  BY <1>1

LEMMA TransactionSound == ASSUME TypeOK, OnTransaction PROVE Sound
<1> DEFINE t == Head(queue)
<1>1. up /\ queue # << >> /\ t \in TransactionType /\ Tail(queue) \in Seq(TransactionType)
  BY QueueType DEF OnTransaction
<1>2. CASE OnDeal(t)
  <2>1. Outcomes(Now, {Now})
    BY NowType, SameOutcomes
  <2>2. t.kind \in {"in", "out"} => Outcomes(Now, OnDealAs(t.kind, Now, t))
    BY <1>1, NowCurrent, OnDealAsOutcomes
  <2>3. Outcomes(Now, IF t.kind = "out" /\ Reflected(t) THEN {Now} ELSE OnDealAs(t.kind, Now, t))
    BY <1>2, <2>1, <2>2 DEF OnDeal
  <2> QED
    BY <1>1, <1>2, <2>3, EndsSound DEF OnDeal
<1>3. CASE OnDealNotInHistory(t)
  <2> DEFINE kind == IF Guess = t.kind THEN "history" ELSE "misread"
  <2>1. Ends(UNION {OnDealAs(Guess, w, t) : w \in Faulty(Now, kind)}, Tail(queue))
    BY <1>3 DEF OnDealNotInHistory
  <2> HIDE DEF kind
  <2>2. Outcomes(Now, UNION {OnDealAs(Guess, w, t) : w \in Faulty(Now, kind)})
    BY <1>1, DealNotInHistory
  <2> QED
    BY <1>1, <2>1, <2>2, EndsSound
<1>4. CASE OnPositionChange(t)
  <2> DEFINE S == CASE tracker.on /\ tracker.sl = t.sl -> {Now}
                    [] tracker.on /\ tracker.sl # t.sl ->
                         EmitAndKeep(Now, Event("MODIFY", 0, t.sl), [tracker EXCEPT !.sl = t.sl])
                    [] ~tracker.on -> Emit(Now, Event("MODIFY", 0, t.sl))
  <2>1. Ends(S, Tail(queue))
    BY <1>4 DEF OnPositionChange
  <2>2. Outcomes(Now, S)
    BY <1>1, PositionChange
  <2> HIDE DEF S
  <2> QED
    BY <1>1, <2>1, <2>2, EndsSound
<1> QED
  BY <1>2, <1>3, <1>4 DEF OnTransaction

LEMMA SweepSound == ASSUME TypeOK, Reconcile \/ ReconcileLater PROVE Sound
<1>1. queue \in Seq(TransactionType)
  BY QueueType
<1>2. Now \in EaType /\ Now.tracker = tracker /\ tracker \in EntryType /\ tracker.volume \in Nat /\ tracker.on \in BOOLEAN
      /\ account.volume \in Nat
  BY NowType, Constants DEF Now, EaType, EntryType, TypeOK
<1>3. Outcomes(Now, {Now})
  BY <1>2, SameOutcomes
<1>4. Outcomes(Now, SweepLive(Now))
  BY NowCurrent, SweepLiveOutcomes
<1>5. Outcomes(Now, UNION {SweepLive(w) : w \in Faulty(Now, "lag")})
  <2>1. ASSUME NEW w \in Faulty(Now, "lag")
        PROVE  Outcomes(Now, SweepLive(w))
    BY <2>1, FaultyCurrent, SweepLiveOutcomes
  <2> QED
    BY <2>1 DEF Outcomes
<1>6. tracker.on => Outcomes(Now, SweepGone(Now, account.volume)) /\ Outcomes(Now, SweepGone(Now, tracker.volume))
  BY <1>2, SweepGoneOutcomes
<1>7. Outcomes(Now, {Found(Now)})
  <2>0. 0 \in 0..2
    OBVIOUS
  <2>1. [tracker EXCEPT !.missing = 0] \in EntryType /\ [tracker EXCEPT !.missing = 0].on = tracker.on
    BY <1>2, <2>0, EntryChanges, Zenon
  <2>2. Found(Now) = [Now EXCEPT !.tracker = [tracker EXCEPT !.missing = 0]]
    BY <1>2 DEF Found, EaType
  <2>3. /\ Found(Now) \in EaType /\ Found(Now).told = Now.told /\ Found(Now).saved = Now.saved /\ Found(Now).up = Now.up
        /\ Found(Now).tracker.on = Now.tracker.on
    BY <1>2, <2>1, <2>2 DEF EaType
  <2> QED
    BY <1>2, <2>3, SameOutcomes
<1>8. CASE Reconcile
  <2> DEFINE S == CASE Selectable /\ ~Lags -> SweepLive(Now)
                    [] Selectable /\ Lags -> UNION {SweepLive(w) : w \in Faulty(Now, "lag")}
                    [] ~Selectable /\ tracker.on -> SweepGone(Now, account.volume)
                    [] ~Selectable /\ ~tracker.on -> {Now}
  <2>1. Ends(S, queue)
    BY <1>8 DEF Reconcile
  <2>2. Outcomes(Now, S)
    BY <1>2, <1>3, <1>4, <1>5, <1>6
  <2> HIDE DEF S
  <2> QED
    BY <1>1, <2>1, <2>2, EndsSound
<1>9. CASE ReconcileLater
  <2> DEFINE S == IF Selectable THEN {Found(Now)} ELSE SweepGone(Now, tracker.volume)
  <2>1. Ends(S, queue) /\ tracker.on
    BY <1>9 DEF ReconcileLater
  <2>2. Outcomes(Now, S)
    BY <1>6, <1>7, <2>1
  <2> HIDE DEF S
  <2> QED
    BY <1>1, <2>1, <2>2, EndsSound
<1> QED
  BY <1>8, <1>9

\* What the EA has in memory is what it saves.
LEMMA SaveOutcomes == ASSUME TypeOK, up PROVE Outcomes(Now, SaveTracker(Now))
<1>1. Now \in EaType /\ Now.up = up /\ Now.tracker \in EntryType
  BY NowType DEF Now, EaType
<1>2. ASSUME NEW x \in SaveTracker(Now)
      PROVE  x \in EaType /\ (Remembers(Now) /\ FileKept => Remembers(x))
  <2>1. /\ x \in EaType /\ x.told = Now.told
        /\ x.saved = OnDisk(Now.tracker) \/ "torn" \in Faults
        /\ x.up => x.tracker = Now.tracker
    BY <1>1, SaveOutcome
  <2>2. OnDisk(Now.tracker).on = Now.tracker.on
    BY <1>1, EntryTypes
  <2> QED
    BY <1>1, <2>1, <2>2 DEF Remembers, FileKept
<1> QED
  BY <1>2 DEF Outcomes

LEMMA SeedOutcomes ==
  ASSUME TypeOK
  PROVE  Outcomes(Now, Keep(Now, Event("OPEN", list.volume, list.sl), Tracked(list.volume, list.sl)))
<1> DEFINE e == Event("OPEN", list.volume, list.sl)
           entry == Tracked(list.volume, list.sl)
<1>1. Now \in EaType /\ entry \in EntryType /\ entry.on /\ e.type = "OPEN"
  BY NowType, EntryTypes, Constants DEF Event
<1> HIDE DEF e, entry
<1>2. ASSUME NEW x \in Keep(Now, e, entry)
      PROVE  x \in EaType /\ (Remembers(Now) /\ FileKept => Remembers(x))
  <2>0. Kept(x, Now, e, entry)
    BY <1>1, <1>2, KeepOutcome
  <2>1. /\ x \in EaType
        /\ x.saved = OnDisk(entry) \/ ~FileKept
        /\ x.up => x.tracker = entry
    BY <1>1, <2>0 DEF Kept, FileKept
  <2>2. OnDisk(entry).on = entry.on
    BY <1>1, EntryTypes
  <2> QED
    BY <1>1, <2>1, <2>2 DEF Remembers
<1>3. Outcomes(Now, Keep(Now, e, entry))
  BY <1>2 DEF Outcomes
<1> QED
  BY <1>3 DEF e, entry

LEMMA ServiceSound == ASSUME TypeOK, Start \/ Seed \/ SaveForAnother \/ Stop PROVE Sound
<1>1. /\ saved \in FileType /\ tracker \in EntryType /\ list.volume \in Nat /\ list.sl \in Levels
      /\ queue \in Seq(TransactionType) /\ faults \in Nat
  BY NowType, QueueType, Constants DEF TypeOK, FileType, EntryType
<1>2. CASE Start
  <2>1. /\ tracker' \in EntryType /\ seeding' \in BOOLEAN /\ faults' \in Nat
        /\ tracker'.on = saved.on \/ "unreadable" \in Faults
    <3>1. CASE NoFault /\ tracker' = Loaded(saved) /\ seeding' = ~saved.filed
      BY <1>1, <3>1, EntryTypes DEF NoFault, FileType
    <3>2. CASE Fault("unreadable") /\ tracker' = Untracked /\ seeding' = TRUE
      BY <1>1, <3>2, EntryTypes DEF Fault
    <3> QED
      BY <1>2, <3>1, <3>2 DEF Start
  <2>2. up' = TRUE /\ UNCHANGED <<account, list, resync, queue, late, saved, told, stops>>
    BY <1>2 DEF Start, broker
  <2>3. TypeOK'
    <3>1. up' \in BOOLEAN
      BY <2>2, Zenon
    <3> QED
      BY <2>1, <2>2, <3>1 DEF TypeOK, EntryType
  <2> QED
    BY <2>1, <2>2, <2>3 DEF Sound, Remembered, FileKept
<1>3. CASE Seed
  <2> DEFINE S == IF Selectable
                  THEN Keep(Now, Event("OPEN", list.volume, list.sl), Tracked(list.volume, list.sl))
                  ELSE {Now}
  <2>1. Becomes(S, queue) /\ UNCHANGED <<broker, stops>> /\ seeding' = FALSE
    BY <1>3 DEF Seed
  <2>2. Outcomes(Now, S)
    BY NowType, SeedOutcomes, SameOutcomes
  <2>3. seeding' \in BOOLEAN
    BY <2>1, Zenon
  <2> HIDE DEF S
  <2> QED
    BY <1>1, <2>1, <2>2, <2>3, BecomesSound
<1>5. CASE SaveForAnother
  BY <1>1, <1>5, SaveOutcomes, EndsSound DEF SaveForAnother
<1>4. CASE Stop
  <2>1. Untracked \in EntryType /\ << >> \in Seq(TransactionType)
    BY EntryTypes
  <2>2. tracker' \in EntryType /\ queue' \in Seq(TransactionType) /\ up' \in BOOLEAN /\ late' \in BOOLEAN /\ stops' \in Nat
    <3>1. tracker' = Untracked /\ queue' = << >> /\ up' = FALSE /\ late' = FALSE /\ stops' = stops + 1
      BY <1>4 DEF Stop
    <3>2. stops \in Nat
      BY DEF TypeOK
    <3>3. up' \in BOOLEAN /\ late' \in BOOLEAN
      BY <3>1, Zenon
    <3> QED
      BY <2>1, <3>1, <3>2, <3>3
  <2>3. UNCHANGED <<account, list, resync, seeding, saved, told, faults>>
    BY <1>4 DEF Stop, broker
  <2>4. TypeOK'
    BY <2>2, <2>3 DEF TypeOK, EntryType, TransactionType
  <2> QED
    BY <1>4, <2>4 DEF Stop, Sound, Remembered
<1> QED
  BY <1>2, <1>3, <1>4, <1>5

\* The terminal and the account do not touch what the EA remembers.
LEMMA TerminalSound == ASSUME TypeOK, Lists \/ Offline \/ Lose \/ Delay PROVE Sound
<1>1. UNCHANGED <<up, seeding, tracker, saved, told, stops, account>>
  BY DEF Lists, Offline, Lose, Delay, broker
<1>2. faults' \in Nat
  BY DEF Lists, Offline, Lose, Delay, Fault, TypeOK
<1>3. queue' \in Seq(TransactionType)
  <2>1. queue' = queue \/ queue' = << >> \/ (queue # << >> /\ queue' = Tail(queue))
    BY DEF Lists, Offline, Lose, Delay
  <2>2. << >> \in Seq(TransactionType)
    OBVIOUS
  <2> QED
    BY <2>1, <2>2, QueueType
<1>4. list' \in [volume : Volumes, sl : Levels, n : Nat]
  <2>1. list' = list \/ list' = Listing \/ list' = [list EXCEPT !.volume = 0, !.sl = 0]
    BY DEF Lists, Offline, Lose, Delay, broker
  <2>2. Listing \in [volume : Volumes, sl : Levels, n : Nat] /\ list \in [volume : Volumes, sl : Levels, n : Nat]
    BY DEF Listing, TypeOK
  <2>3. [list EXCEPT !.volume = 0, !.sl = 0] \in [volume : Volumes, sl : Levels, n : Nat]
    BY <2>2, Constants
  <2> QED
    BY <2>1, <2>2, <2>3
<1>5. resync' \in BOOLEAN /\ late' \in BOOLEAN
  BY DEF Lists, Offline, Lose, Delay, TypeOK, broker
<1> QED
  BY <1>1, <1>2, <1>3, <1>4, <1>5 DEF TypeOK, TransactionType, Sound, Remembered

LEMMA ChangesSound ==
  ASSUME TypeOK, NEW kind \in {"in", "out", "stop"}, NEW volume \in Volumes, NEW rush,
         NEW pos \in [volume : Volumes, sl : Levels, n : Nat, low : Volumes, grown : BOOLEAN],
         Changes(kind, volume, pos, rush)
  PROVE  Sound
<1>1. UNCHANGED <<list, resync, late, up, seeding, tracker, saved, told, stops>>
  BY DEF Changes
<1>2. faults' \in Nat
  BY SMTT(30) DEF Changes, Fault, NoFault, TypeOK
<1>3. account' \in [volume : Volumes, sl : Levels, n : Nat, low : Volumes, grown : BOOLEAN] /\ account.n + 1 \in Nat
  <2>1. account.n + 1 \in Nat
    BY DEF TypeOK
  <2>2. account' = [pos EXCEPT !.n = account.n + 1]
    BY DEF Changes
  <2> QED
    BY <2>1, <2>2
<1>4. [kind |-> kind, volume |-> volume, sl |-> pos.sl, n |-> account.n + 1] \in TransactionType
  BY <1>3 DEF TransactionType
<1>5. queue' \in Seq(TransactionType)
  BY <1>4, QueueType DEF Changes
<1> QED
  BY <1>1, <1>2, <1>3, <1>5 DEF TypeOK, TransactionType, Sound, Remembered

LEMMA AccountSound ==
  ASSUME TypeOK,
         \/ Fill \/ Close
         \/ \E sl \in Stops \union {0} : Open(sl) \/ SetStop(sl)
         \/ \E volume \in 1..Lots : Shrink(volume)
  PROVE  Sound
<1> DEFINE Pos == [volume : Volumes, sl : Levels, n : Nat, low : Volumes, grown : BOOLEAN]
<1>1. /\ account \in Pos /\ account.volume \in 0..Lots /\ account.low \in Volumes
      /\ Lots \in Nat /\ Volumes = 0..Lots /\ 0 \in Volumes /\ 0 \in Levels
  BY Constants DEF TypeOK
<1>2. CASE Fill
  <2>1. account.volume + 1 \in Volumes
    BY <1>1, <1>2 DEF Fill
  <2>2. [account EXCEPT !.volume = account.volume + 1, !.grown = TRUE] \in Pos
    BY <1>1, <2>1
  <2>3. 1 \in Volumes
    BY Constants
  <2> QED
    BY <1>2, <2>2, <2>3, ChangesSound DEF Fill
<1>3. CASE Close
  <2>1. [account EXCEPT !.volume = 0, !.sl = 0, !.low = 0] \in Pos /\ account.volume \in Volumes
    BY <1>1
  <2> QED
    BY <1>3, <2>1, ChangesSound DEF Close
<1>4. ASSUME NEW sl \in Levels, Open(sl)
      PROVE  Sound
  <2>0. Lots \in Volumes
    BY <1>1
  <2>1. [account EXCEPT !.volume = Lots, !.sl = sl, !.low = Lots] \in Pos
    BY <1>1, <2>0
  <2> QED
    BY <1>4, <2>0, <2>1, ChangesSound DEF Open
<1>5. ASSUME NEW sl \in Levels, SetStop(sl)
      PROVE  Sound
  <2>1. [account EXCEPT !.sl = sl, !.grown = FALSE] \in Pos
    BY <1>1
  <2> QED
    BY <1>1, <1>5, <2>1, ChangesSound DEF SetStop
<1>6. ASSUME NEW volume \in 1..Lots, Shrink(volume)
      PROVE  Sound
  <2> DEFINE left == account.volume - volume
  <2>0. left > 0 /\ volume \in 1..Lots /\ account.volume \in 0..Lots /\ Volumes = 0..Lots /\ Lots \in Nat
    BY <1>1, <1>6 DEF Shrink
  <2>1. left \in Volumes /\ left \in Nat /\ volume \in Volumes
    BY <2>0
  <2>2. Least(account.low, left) \in Volumes
    BY <1>1, <2>1, LeastType
  <2>3. [account EXCEPT !.volume = left, !.low = Least(account.low, left), !.grown = FALSE] \in Pos
    BY <1>1, <2>1, <2>2
  <2> QED
    BY <1>6, <2>1, <2>3, ChangesSound DEF Shrink
<1> QED
  BY <1>2, <1>3, <1>4, <1>5, <1>6 DEF Levels

LEMMA InitSound == Init => TypeOK /\ Remembered
<1> SUFFICES ASSUME Init PROVE TypeOK /\ Remembered
  OBVIOUS
<1>1. Untracked \in EntryType /\ << >> \in Seq(TransactionType)
  BY EntryTypes
<1>2. saved \in FileType
  BY Constants DEF Init, FileType
<1>3. /\ account \in [volume : Volumes, sl : Levels, n : Nat, low : Volumes, grown : BOOLEAN]
      /\ list \in [volume : Volumes, sl : Levels, n : Nat]
      /\ told \in ToldType /\ ~told.opened
  BY Constants DEF Init, ToldType
<1> QED
  BY <1>1, <1>2, <1>3 DEF Init, TypeOK, EntryType, FileType, ToldType, TransactionType, Remembered

LEMMA NextSound == TypeOK /\ [Next]_vars => Sound
<1> SUFFICES ASSUME TypeOK, [Next]_vars PROVE Sound
  OBVIOUS
<1>1. CASE UNCHANGED vars
  BY <1>1 DEF vars, broker, TypeOK, Sound, Remembered
<1>2. CASE OnTransaction
  BY <1>2, TransactionSound
<1>3. CASE Reconcile \/ ReconcileLater
  BY <1>3, SweepSound
<1>4. CASE Start \/ Seed \/ SaveForAnother \/ Stop
  BY <1>4, ServiceSound
<1>5. CASE Lists \/ Offline \/ Lose \/ Delay
  BY <1>5, TerminalSound
<1>6. CASE \/ Fill \/ Close
           \/ \E sl \in Stops \union {0} : Open(sl) \/ SetStop(sl)
           \/ \E volume \in 1..Lots : Shrink(volume)
  BY <1>6, AccountSound
<1> QED
  BY <1>1, <1>2, <1>3, <1>4, <1>5, <1>6 DEF Next

(* Every variable keeps its type, whatever fails: volumes and stops that   *)
(* are told were those of the account at some time, or a smaller volume    *)
(* (SourceHandler.mqh).                                                    *)
THEOREM CopierTypes == Spec => []TypeOK
<1>1. TypeOK /\ [Next]_vars => TypeOK'
  BY NextSound DEF Sound
<1> QED
  BY <1>1, InitSound, PTL DEF Spec

(* What the events say is open is tracked, whatever else fails, as long as *)
(* the tracker's file is opened after an opening and after a changed stop, *)
(* gets its lines whenever it is opened, and can be read at a start: lost, *)
(* late and misread transactions, event lines that cannot be written,      *)
(* deaths between two handlers and before the file is opened after a       *)
(* close, a position list that lags or is empty (SourceHandler.mqh:6-9,    *)
(* 14-15).  SaveTracker empties the file before it writes it, and a death  *)
(* in between, or a full disk, is what the assumption sets aside: the EA   *)
(* then forgets (SourceHandler.mqh:371-387).                               *)
THEOREM NothingForgotten ==
  ASSUME {"unsaved_open", "torn", "unreadable"} \cap Faults = {}
  PROVE  Spec => []NeverForgotten
<1>1. TypeOK /\ Remembered /\ [Next]_vars => Remembered'
  BY NextSound DEF Sound, FileKept
<1>2. Remembered => NeverForgotten
  BY DEF Remembered, NeverForgotten
<1> QED
  BY <1>1, <1>2, CopierTypes, InitSound, PTL DEF Spec

(***************************************************************************)
(* The events never close more than the account did                        *)
(***************************************************************************)
\* What the position is at the least while a fill of it may not have been told.
Level == IF account.grown = TRUE THEN account.volume - 1 ELSE account.volume

\* What a position was after each of its changes.
Heights == [Nat -> Nat]

\* V[k] stands for what the position was, without its fills, after change k: each closing deal took its volume.
Falls(V) ==
  /\ \A j, k \in 0..account.n : j <= k => V[j] >= V[k]
  /\ V[account.n] >= account.low
  /\ \A i \in 1..Len(queue) : queue[i].kind = "out" =>
       queue[i].n > 1 /\ V[queue[i].n - 1] >= V[queue[i].n] + queue[i].volume
  /\ \A i \in 1..Len(queue) : queue[i].kind = "in" /\ queue[i].n = 1 => queue[i].volume >= V[1]
  /\ list.volume > 0 => list.volume >= V[list.n]

\* The entry is the position of change K: of what is left to handle it counts later deals only.
Counts(V, K, entry, left) ==
  /\ K \in 0..account.n /\ entry.volume >= V[K]
  /\ \A i \in 1..Len(left) : left[i].kind = "out" /\ left[i].n > entry.synced => left[i].n > K

Owed(V, entry, left) == \E K \in 0..account.n : Counts(V, K, entry, left)

\* An entry and what is left to handle go together: an opening deal waits alone, or before there is an entry.
Fine(entry, left) ==
  /\ entry.on = FALSE => entry.volume = 0
  /\ entry.synced <= account.n
  /\ "history" \in Faults => \A i \in 1..Len(left) : left[i].n > entry.synced
  /\ \A i \in 1..Len(left) : left[i].kind = "in" =>
       \/ left[i].n = 1 /\ i = 1 /\ entry.on = FALSE
       \/ Len(left) = 1 /\ account.grown = TRUE /\ entry.on = TRUE

\* A reader who was told of the position is owed by the entry on disk and by the one in memory.
Owns(w, left, V) ==
  /\ Fine(w.tracker, left)
  /\ w.up = FALSE => w.tracker.on = FALSE /\ left = << >>
  /\ w.saved.on = FALSE => w.saved.volume = 0
  /\ w.saved.synced <= account.n
  /\ w.told.opened = TRUE =>
       /\ w.told.left >= Least(account.low, w.told.first)
       /\ w.saved.on = TRUE /\ w.saved.volume >= V[account.n]
       /\ w.up = TRUE => w.tracker.on = TRUE /\ w.saved.volume >= w.tracker.volume /\ Owed(V, w.tracker, left)

Base ==
  /\ account.volume > 0 /\ account.low > 0 /\ account.n > 0
  /\ list.n <= account.n
  /\ list.n = 0 => list.volume = 0 /\ account.n <= 1 /\ account.grown = FALSE
  /\ list.n > 0 /\ resync = FALSE => list.volume > 0
  /\ Len(queue) <= account.n
  /\ \A i \in 1..Len(queue) : queue[i].n = account.n - Len(queue) + i
  /\ resync = TRUE => queue = << >>
  /\ up = TRUE /\ seeding = TRUE => queue = << >>
  /\ late = TRUE => queue # << >> /\ "late" \in Faults /\ told.opened = TRUE

\* Before the position is opened nothing is known of it.
Fresh ==
  /\ account.volume = 0 /\ account.low = 0 /\ account.grown = FALSE
  /\ list.volume = 0 /\ list.n = 0 /\ resync = FALSE
  /\ queue = << >> /\ late = FALSE
  /\ tracker.on = FALSE /\ tracker.volume = 0 /\ tracker.synced = 0
  /\ saved.on = FALSE /\ saved.volume = 0 /\ saved.synced = 0
  /\ told.opened = FALSE

\* The inductive form of NeverToldLess.
Held(V, level) == V \in Heights /\ Falls(V) /\ V[account.n] = level /\ Owns(Now, queue, V)

LessInv ==
  /\ account.n = 0 => Fresh
  /\ account.low = 0 => account.volume = 0
  /\ account.low > 0 => Base /\ \E V : Held(V, Level)

\* Faults under which the events may close more than the account did (see the README).
Safe ==
  /\ FileKept
  /\ {"late_open", "misread", "rush"} \cap Faults = {}
  /\ "history" \notin Faults \/ "late" \notin Faults

LEMMA HeightsAt == ASSUME NEW V \in Heights, NEW k \in Nat PROVE V[k] \in Nat
  BY DEF Heights

(***************************************************************************)
(* A line and what is kept after it                                        *)
(***************************************************************************)
\* What one line does to what a reader was told.
LEMMA TellLeft ==
  ASSUME NEW t \in ToldType, NEW e \in Events, NEW low \in Nat,
         t.opened = TRUE => t.left >= Least(low, t.first),
         t.opened = TRUE => e.type # "CLOSE" /\ (e.type = "PARTIAL_CLOSE" => e.volume >= low)
  PROVE  /\ Tell(t, e).opened = TRUE => Tell(t, e).left >= Least(low, Tell(t, e).first)
         /\ t.opened = TRUE => Tell(t, e).opened = TRUE
         /\ Tell(t, e).opened = TRUE => t.opened = TRUE \/ e.type = "OPEN"
<1>1. e.type \in EventTypes /\ e.volume \in Nat /\ t.left \in Nat /\ t.first \in Nat /\ t.opened \in BOOLEAN
  BY Constants DEF Events, ToldType
<1>2. CASE e.type = "OPEN" /\ t.opened = FALSE
  <2>1. Tell(t, e) = [opened |-> TRUE, first |-> e.volume, left |-> e.volume, sl |-> e.sl]
    BY <1>2 DEF Tell
  <2> QED
    BY <1>1, <1>2, <2>1 DEF Least
<1>3. CASE e.type = "PARTIAL_CLOSE" /\ t.opened = TRUE
  <2>1. Tell(t, e) = [t EXCEPT !.left = Least(t.left, e.volume)]
    BY <1>3 DEF Tell
  <2>2. Tell(t, e).left = Least(t.left, e.volume) /\ Tell(t, e).first = t.first /\ Tell(t, e).opened = TRUE
    BY <1>3, <2>1 DEF ToldType
  <2> QED
    BY <1>1, <1>3, <2>2 DEF Least
<1>4. CASE e.type = "MODIFY" /\ t.opened = TRUE
  <2>1. Tell(t, e) = [t EXCEPT !.sl = e.sl]
    BY <1>4 DEF Tell
  <2> QED
    BY <1>4, <2>1 DEF ToldType
<1>5. CASE (e.type # "OPEN" /\ t.opened = FALSE) \/ (e.type = "OPEN" /\ t.opened = TRUE)
  <2>1. Tell(t, e) = t
    BY <1>1, <1>5 DEF Tell, EventTypes
  <2> QED
    BY <1>5, <2>1
<1> QED
  BY <1>1, <1>2, <1>3, <1>4, <1>5 DEF EventTypes

LEMMA SafeFaults ==
  ASSUME Safe
  PROVE  /\ "unsaved_open" \notin Faults /\ "torn" \notin Faults /\ "unreadable" \notin Faults
         /\ "late_open" \notin Faults /\ "misread" \notin Faults /\ "rush" \notin Faults
         /\ "history" \in Faults => "late" \notin Faults
  BY DEF Safe, FileKept

\* Levels never rise, so what was counted once is at least what is there now.
LEMMA FallsTo ==
  ASSUME TypeOK, NEW V \in Heights, Falls(V), NEW k \in 0..account.n
  PROVE  V[k] >= V[account.n] /\ V[k] >= account.low /\ V[k] \in Nat /\ account.low \in Nat /\ account.n \in Nat
<1>1. account.n \in Nat /\ account.low \in Nat
  BY Constants DEF TypeOK
<1>2. account.n \in 0..account.n /\ k <= account.n /\ k \in Nat
  BY <1>1
<1>3. V[k] >= V[account.n] /\ V[account.n] >= account.low
  BY <1>2 DEF Falls
<1>4. V[k] \in Nat /\ V[account.n] \in Nat
  BY <1>2, HeightsAt
<1> QED
  BY <1>1, <1>3, <1>4

\* The outcome of a handler owns what a reader was told.
Good(w, left, V) == w \in EaType /\ (told.opened = TRUE => w.told.opened = TRUE) /\ Owns(w, IF w.up = TRUE THEN left ELSE << >>, V)

\* A line and the entry after it, if the entry is owed by what is left to handle.
Follows(w, e, entry, left, V) ==
  /\ w.up = TRUE /\ e \in Events /\ entry \in EntryType
  /\ Fine(entry, left)
  /\ w.told.opened = TRUE \/ e.type = "OPEN" => entry.on = TRUE /\ Owed(V, entry, left)
  /\ w.told.opened = TRUE =>
       /\ e.type # "CLOSE"
       /\ e.type = "PARTIAL_CLOSE" => e.volume >= account.low /\ entry.volume <= w.tracker.volume

LEMMA OwedLevel ==
  ASSUME TypeOK, NEW V \in Heights, Falls(V), NEW entry \in EntryType, NEW left, Owed(V, entry, left)
  PROVE  entry.volume >= V[account.n] /\ entry.volume \in Nat /\ V[account.n] \in Nat
<1>1. PICK K \in 0..account.n : entry.volume >= V[K]
  BY DEF Owed, Counts
<1>2. V[K] >= V[account.n] /\ V[K] \in Nat /\ account.n \in Nat
  BY FallsTo
<1>3. V[account.n] \in Nat /\ entry.volume \in Nat
  BY <1>2, HeightsAt DEF EntryType
<1> QED
  BY <1>1, <1>2, <1>3

LEMMA FineNothing ==
  ASSUME TypeOK, NEW left, NEW entry, Fine(entry, left)
  PROVE  Fine(entry, << >>) /\ Fine(Untracked, << >>)
<1>1. account.n \in Nat
  BY DEF TypeOK
<1>2. \A i : i \notin 1..Len(<< >>)
  OBVIOUS
<1> QED
  BY <1>1, <1>2 DEF Fine, Untracked

LEMMA KeepGood ==
  ASSUME Safe, TypeOK, NEW V \in Heights, Falls(V), NEW w \in EaType, NEW left, NEW e \in Events, NEW entry,
         Owns(w, left, V), Follows(w, e, entry, left, V),
         NEW x \in EmitAndKeep(w, e, entry), told.opened = TRUE => w.told.opened = TRUE
  PROVE  Good(x, left, V)
<1> DEFINE said == [w EXCEPT !.told = Tell(w.told, e)]
<1>0. EmitAndKeep(w, e, entry) = Keep(said, e, entry) \union Faulty(w, "append")
  BY DEF EmitAndKeep
<1>1. /\ entry \in EntryType /\ w.up = TRUE /\ Fine(entry, left)
      /\ w.told \in ToldType /\ w.saved \in FileType /\ w.tracker \in EntryType /\ account.low \in Nat /\ account.n \in Nat
      /\ entry.synced <= account.n /\ (entry.on = FALSE => entry.volume = 0)
  BY Constants DEF Follows, EaType, TypeOK, Fine
<1>2. /\ Tell(w.told, e) \in ToldType
      /\ Tell(w.told, e).opened = TRUE => Tell(w.told, e).left >= Least(account.low, Tell(w.told, e).first)
      /\ w.told.opened = TRUE => Tell(w.told, e).opened = TRUE
      /\ Tell(w.told, e).opened = TRUE => w.told.opened = TRUE \/ e.type = "OPEN"
  <2>1. w.told.opened = TRUE => w.told.left >= Least(account.low, w.told.first)
    BY DEF Owns
  <2>2. w.told.opened = TRUE => e.type # "CLOSE" /\ (e.type = "PARTIAL_CLOSE" => e.volume >= account.low)
    BY DEF Follows
  <2> QED
    BY <1>1, <2>1, <2>2, TellLeft, TellType
<1>3. said \in EaType /\ said.told = Tell(w.told, e) /\ said.saved = w.saved /\ said.up = TRUE
  BY <1>1, <1>2 DEF EaType
<1> HIDE DEF said
<1>4. CASE x \in Keep(said, e, entry)
  <2>0. Kept(x, said, e, entry)
    BY <1>1, <1>3, <1>4, KeepOutcome
  <2>1. /\ x \in EaType /\ x.told = said.told
        /\ \/ x.saved = OnDisk(entry)
           \/ x.saved = said.saved /\ (e.type \in {"OPEN", "MODIFY"} => "unsaved_open" \in Faults)
    BY <2>0, SafeFaults DEF Kept
  <2>2. \/ x.up = TRUE /\ x.tracker = entry
        \/ x.up = FALSE /\ x.tracker = Untracked
    BY <1>3, <2>0 DEF Kept
  <2>3. /\ OnDisk(entry).on = entry.on /\ OnDisk(entry).volume = entry.volume /\ OnDisk(entry).synced = entry.synced
    BY DEF OnDisk
  <2>4. /\ Fine(x.tracker, IF x.up = TRUE THEN left ELSE << >>)
        /\ x.up = FALSE => x.tracker.on = FALSE /\ (IF x.up = TRUE THEN left ELSE << >>) = << >>
    <3>1. Fine(Untracked, << >>) /\ Untracked.on = FALSE
      BY <1>1, FineNothing DEF Untracked
    <3> QED
      BY <1>1, <2>2, <3>1
  <2>5. (x.saved.on = FALSE => x.saved.volume = 0) /\ x.saved.synced <= account.n
    <3>1. (w.saved.on = FALSE => w.saved.volume = 0) /\ w.saved.synced <= account.n
      BY DEF Owns
    <3> QED
      BY <1>1, <1>3, <2>1, <2>3, <3>1
  <2>6. ASSUME x.told.opened = TRUE
        PROVE  /\ x.told.left >= Least(account.low, x.told.first)
               /\ x.saved.on = TRUE /\ x.saved.volume >= V[account.n]
               /\ x.up = TRUE => x.tracker.on = TRUE /\ x.saved.volume >= x.tracker.volume /\ Owed(V, x.tracker, left)
    <3>1. w.told.opened = TRUE \/ e.type = "OPEN"
      BY <1>2, <1>3, <2>1, <2>6
    <3>2. entry.on = TRUE /\ Owed(V, entry, left)
      BY <3>1 DEF Follows
    <3>3. entry.volume >= V[account.n] /\ entry.volume \in Nat /\ V[account.n] \in Nat
      BY <1>1, <3>2, OwedLevel
    <3>4. CASE x.saved = OnDisk(entry)
      BY <1>2, <1>3, <2>1, <2>2, <2>3, <2>6, <3>2, <3>3, <3>4
    <3>5. CASE x.saved = w.saved /\ e.type \notin {"OPEN", "MODIFY"}
      <4>1. w.told.opened = TRUE /\ e.type = "PARTIAL_CLOSE"
        BY <3>1, <3>5 DEF Follows, Events, EventTypes
      <4>2. /\ w.saved.on = TRUE /\ w.saved.volume >= V[account.n]
            /\ w.saved.volume >= w.tracker.volume
        BY <1>1, <4>1 DEF Owns
      <4>3. entry.volume <= w.tracker.volume
        BY <4>1 DEF Follows
      <4>4. w.saved.volume >= entry.volume
        BY <1>1, <3>3, <4>2, <4>3 DEF EntryType, FileType
      <4> QED
        BY <1>2, <1>3, <2>1, <2>2, <2>6, <3>2, <3>3, <3>5, <4>2, <4>4
    <3> QED
      BY <1>3, <2>1, <3>4, <3>5, SafeFaults
  <2>7. told.opened = TRUE => x.told.opened = TRUE
    BY <1>2, <1>3, <2>1
  <2>8. x.up = TRUE => (IF x.up = TRUE THEN left ELSE << >>) = left
    OBVIOUS
  <2> HIDE DEF Good
  <2>9. Owns(x, IF x.up = TRUE THEN left ELSE << >>, V)
    BY <2>4, <2>5, <2>6, <2>8 DEF Owns
  <2> QED
    BY <2>1, <2>7, <2>9 DEF Good
<1>5. CASE x \in Faulty(w, "append")
  <2>1. x \in EaType /\ x.up = w.up /\ x.tracker = w.tracker /\ x.saved = w.saved /\ x.told = w.told
    BY <1>5, FaultyType
  <2>2. Owns(x, left, V)
    BY <2>1 DEF Owns
  <2> QED
    BY <1>1, <2>1, <2>2 DEF Good
<1> QED
  BY <1>0, <1>4, <1>5

(***************************************************************************)
(* What a handler begins and ends with                                     *)
(***************************************************************************)
SameEntry(a, b) == a.on = b.on /\ a.volume = b.volume /\ a.synced = b.synced

LEMMA SameOwns ==
  ASSUME NEW V, NEW left, NEW w, NEW x, Owns(w, left, V), SameEntry(x.tracker, w.tracker),
         x.up = w.up, x.saved = w.saved, x.told = w.told
  PROVE  Owns(x, left, V)
<1>1. Fine(x.tracker, left)
  BY DEF Owns, Fine, SameEntry
<1>2. Owed(V, w.tracker, left) => Owed(V, x.tracker, left)
  BY DEF Owed, Counts, SameEntry
<1> QED
  BY <1>1, <1>2 DEF Owns, SameEntry

\* The first transaction is handled: what is left is later, and opens nothing.
LEMMA TailFacts ==
  ASSUME TypeOK, Base, queue # << >>
  PROVE  /\ Tail(queue) \in Seq(TransactionType) /\ Head(queue) \in TransactionType
         /\ Len(Tail(queue)) = Len(queue) - 1 /\ Len(queue) \in Nat \ {0}
         /\ Head(queue) = queue[1] /\ Head(queue).n = account.n - Len(queue) + 1
         /\ \A i \in 1..Len(Tail(queue)) :
              Tail(queue)[i] = queue[i + 1] /\ i + 1 \in 1..Len(queue) /\ Tail(queue)[i].n = Head(queue).n + i
         /\ Head(queue).n >= 1 /\ Head(queue).n <= account.n
<1>1. queue \in Seq(TransactionType) /\ account.n \in Nat
  BY QueueType DEF TypeOK
<1>2. Len(queue) \in Nat \ {0} /\ Head(queue) = queue[1] /\ Len(Tail(queue)) = Len(queue) - 1
  BY <1>1
<1>3. \A i \in 1..Len(Tail(queue)) : Tail(queue)[i] = queue[i + 1] /\ i + 1 \in 1..Len(queue)
  BY <1>1, <1>2
<1>4. \A i \in 1..Len(queue) : queue[i].n = account.n - Len(queue) + i
  BY DEF Base
<1>5. Head(queue).n = account.n - Len(queue) + 1 /\ Len(queue) <= account.n
  BY <1>2, <1>4 DEF Base
<1>6. ASSUME NEW i \in 1..Len(Tail(queue))
      PROVE  Tail(queue)[i].n = Head(queue).n + i
  <2>1. Tail(queue)[i] = queue[i + 1] /\ i + 1 \in 1..Len(queue) /\ i \in Nat
    BY <1>2, <1>3
  <2>2. queue[i + 1].n = account.n - Len(queue) + (i + 1)
    BY <1>4, <2>1
  <2> QED
    BY SMTT(30), <1>1, <1>2, <1>5, <2>1, <2>2
<1> QED
  BY <1>1, <1>2, <1>3, <1>5, <1>6, QueueType

LEMMA TailFine ==
  ASSUME TypeOK, Base, queue # << >>, NEW entry, Fine(entry, queue), NEW next \in EntryType,
         next.on = FALSE => next.volume = 0, next.synced = entry.synced \/ next.synced = 0
  PROVE  Fine(next, Tail(queue)) /\ \A i \in 1..Len(Tail(queue)) : Tail(queue)[i].kind # "in"
<1>1. /\ Len(Tail(queue)) = Len(queue) - 1 /\ Len(queue) \in Nat \ {0} /\ account.n \in Nat
      /\ \A i \in 1..Len(Tail(queue)) :
           Tail(queue)[i] = queue[i + 1] /\ i + 1 \in 1..Len(queue) /\ Tail(queue)[i].n = Head(queue).n + i
      /\ Head(queue).n >= 1 /\ Head(queue).n \in Nat
  BY TailFacts DEF TypeOK, TransactionType
<1>2. ASSUME NEW i \in 1..Len(Tail(queue)), Tail(queue)[i].kind = "in"
      PROVE  FALSE
  <2>1. Tail(queue)[i] = queue[i + 1] /\ i + 1 \in 1..Len(queue) /\ i + 1 # 1 /\ Len(queue) # 1
    BY <1>1
  <2> QED
    BY <1>2, <2>1 DEF Fine
<1>3. ASSUME "history" \in Faults, NEW i \in 1..Len(Tail(queue))
      PROVE  Tail(queue)[i].n > next.synced
  <2>1. Tail(queue)[i].n > entry.synced
    BY <1>1, <1>3 DEF Fine
  <2>2. Tail(queue)[i].n > 0
    <3>1. i \in Nat /\ i >= 1
      BY <1>1
    <3>2. Tail(queue)[i].n = Head(queue).n + i
      BY <1>1
    <3> QED
      BY <1>1, <3>1, <3>2
  <2> QED
    BY <2>1, <2>2
<1>4. next.synced <= account.n
  BY <1>1 DEF Fine
<1> QED
  BY <1>2, <1>3, <1>4 DEF Fine

LEMMA TailOwns ==
  ASSUME TypeOK, Base, queue # << >>, NEW V, NEW w \in EaType, Owns(w, queue, V)
  PROVE  Owns(w, Tail(queue), V)
<1>1. w.tracker \in EntryType /\ Fine(w.tracker, queue)
  BY DEF EaType, Owns
<1>2. Fine(w.tracker, Tail(queue))
  <2>1. w.tracker.on = FALSE => w.tracker.volume = 0
    BY <1>1 DEF Fine
  <2> QED
    BY <1>1, <2>1, TailFine
<1>3. w.up # FALSE
  BY DEF Owns
<1>4. ASSUME Owed(V, w.tracker, queue)
      PROVE  Owed(V, w.tracker, Tail(queue))
  <2>1. PICK K \in 0..account.n : Counts(V, K, w.tracker, queue)
    BY <1>4 DEF Owed
  <2>2. \A i \in 1..Len(Tail(queue)) : Tail(queue)[i] = queue[i + 1] /\ i + 1 \in 1..Len(queue)
    BY TailFacts
  <2>3. Counts(V, K, w.tracker, Tail(queue))
    BY <2>1, <2>2 DEF Counts
  <2> QED
    BY <2>3 DEF Owed
<1> QED
  BY <1>2, <1>3, <1>4 DEF Owns

Holds(V) == Base /\ Held(V, Level)

LEMMA NowParts ==
  /\ Now.up = up /\ Now.tracker = tracker /\ Now.saved = saved /\ Now.told = told /\ Now.faults = faults
  /\ Now'.up = up' /\ Now'.tracker = tracker' /\ Now'.saved = saved' /\ Now'.told = told' /\ Now'.faults = faults'
  BY DEF Now

LEMMA BecomesHeld ==
  ASSUME TypeOK, NEW V, Holds(V), NEW S, NEW left, Becomes(S, left),
         UNCHANGED broker, seeding' = seeding \/ seeding' = FALSE,
         left = queue \/ (queue # << >> /\ left = Tail(queue)),
         up = TRUE, \A x \in S : Good(x, left, V)
  PROVE  Base' /\ Held(V, Level)'
<1>1. PICK w \in S : /\ up' = w.up /\ tracker' = w.tracker /\ saved' = w.saved
                     /\ told' = w.told /\ faults' = w.faults
                     /\ queue' = IF w.up THEN left ELSE << >>
  BY DEF Becomes
<1>2. w \in EaType /\ (told.opened = TRUE => w.told.opened = TRUE) /\ Owns(w, IF w.up = TRUE THEN left ELSE << >>, V)
  BY DEF Good
<1>3. w.up \in BOOLEAN /\ queue' = IF w.up = TRUE THEN left ELSE << >>
  BY <1>1, <1>2 DEF EaType
<1>4. account' = account /\ list' = list /\ resync' = resync /\ late' = (late /\ queue' # << >>)
  BY DEF Becomes, broker
<1>5. Base /\ V \in Heights /\ Falls(V) /\ V[account.n] = Level
  BY DEF Holds, Held
<1>6. queue' = << >> \/ queue' = queue \/ (queue # << >> /\ queue' = Tail(queue))
  BY <1>3
<1>7. queue \in Seq(TransactionType) /\ account.n \in Nat /\ Len(queue) \in Nat
  BY QueueType DEF TypeOK
<1>8. Base'
  <2>1. Len(queue') <= account.n /\ \A i \in 1..Len(queue') : queue'[i].n = account.n - Len(queue') + i
    <3>1. CASE queue' = << >>
      BY <1>7, <3>1
    <3>2. CASE queue' = queue
      BY <1>5, <3>2 DEF Base
    <3>3. CASE queue # << >> /\ queue' = Tail(queue)
      <4>1. /\ Len(Tail(queue)) = Len(queue) - 1 /\ Head(queue).n = account.n - Len(queue) + 1
            /\ \A i \in 1..Len(Tail(queue)) : Tail(queue)[i].n = Head(queue).n + i
        BY <1>5, <3>3, TailFacts
      <4>2. Len(queue) <= account.n
        BY <1>5 DEF Base
      <4>3. ASSUME NEW i \in 1..Len(Tail(queue))
            PROVE  Tail(queue)[i].n = account.n - Len(Tail(queue)) + i
        <5>1. Tail(queue)[i].n = Head(queue).n + i /\ i \in Nat
          BY <1>7, <4>1
        <5> QED
          BY <1>7, <4>1, <5>1
      <4> QED
        BY <1>7, <3>3, <4>1, <4>2, <4>3
    <3> QED
      BY <1>6, <3>1, <3>2, <3>3
  <2>2. resync' = TRUE => queue' = << >>
    BY <1>4, <1>5, <1>6 DEF Base
  <2>3. up' = TRUE /\ seeding' = TRUE => queue' = << >>
    BY <1>4, <1>5, <1>6 DEF Base
  <2>4. late' = TRUE => queue' # << >> /\ "late" \in Faults /\ told'.opened = TRUE
    <3>1. late \in BOOLEAN
      BY DEF TypeOK
    <3> QED
      BY <1>1, <1>2, <1>4, <1>5, <3>1 DEF Base
  <2> QED
    BY <1>4, <1>5, <2>1, <2>2, <2>3, <2>4 DEF Base
<1>9. Falls(V)'
  <2>1. \A i \in 1..Len(queue') : \E j \in 1..Len(queue) : queue'[i] = queue[j]
    <3>1. CASE queue' = << >>
      BY <3>1
    <3>2. CASE queue' = queue
      BY <3>2
    <3>3. CASE queue # << >> /\ queue' = Tail(queue)
      <4>1. \A i \in 1..Len(Tail(queue)) : Tail(queue)[i] = queue[i + 1] /\ i + 1 \in 1..Len(queue)
        BY <1>5, <3>3, TailFacts
      <4> QED
        BY <3>3, <4>1
    <3> QED
      BY <1>6, <3>1, <3>2, <3>3
  <2> QED
    BY <1>4, <1>5, <2>1 DEF Falls
<1>10. Owns(Now, queue, V)'
  <2>1. Owns(w, queue', V)
    BY <1>2, <1>3
  <2> QED
    BY <1>1, <1>4, <2>1, NowParts DEF Owns, Fine, Owed, Counts
<1>11. Level' = Level
  BY <1>4 DEF Level
<1> QED
  BY <1>4, <1>5, <1>8, <1>9, <1>10, <1>11 DEF Held

LEMMA EndsHeld ==
  ASSUME TypeOK, NEW V, Holds(V), NEW S, NEW left, Ends(S, left),
         left = queue \/ (queue # << >> /\ left = Tail(queue)),
         up = TRUE, \A x \in S : Good(x, left, V)
  PROVE  Base' /\ Held(V, Level)'
<1>1. Becomes(S, left) /\ UNCHANGED broker /\ seeding' = seeding
  BY DEF Ends
<1> QED
  BY <1>1, BecomesHeld

\* The EA as a handler finds it, perhaps after a fault.
AsFound(w) == w \in EaType /\ w.up = up /\ w.tracker = tracker /\ w.saved = saved /\ w.told = told

LEMMA FoundNow == ASSUME TypeOK PROVE AsFound(Now) /\ \A kind : \A w \in Faulty(Now, kind) : AsFound(w)
<1>1. Now \in EaType
  BY NowType
<1>2. ASSUME NEW kind, NEW w \in Faulty(Now, kind) PROVE AsFound(w)
  BY <1>1, <1>2, FaultyType, NowParts DEF AsFound
<1> QED
  BY <1>1, <1>2, NowParts DEF AsFound

LEMMA HeldFacts ==
  ASSUME TypeOK, NEW V, Holds(V), NEW w, AsFound(w)
  PROVE  /\ V \in Heights /\ Falls(V) /\ Base /\ w \in EaType /\ V[account.n] = Level
         /\ Owns(w, queue, V) /\ Fine(tracker, queue)
         /\ tracker \in EntryType /\ tracker.volume \in Nat /\ tracker.on \in BOOLEAN /\ tracker.synced \in Nat
         /\ account.n \in Nat /\ account.low \in Nat /\ list.n \in Nat /\ list.volume \in Nat /\ list.volume \in Volumes
         /\ list.sl \in Levels /\ ListedSl \in Levels
         /\ w.tracker = tracker /\ w.up = up /\ w.told = told
<1>1. V \in Heights /\ Falls(V) /\ Base /\ Owns(Now, queue, V) /\ V[account.n] = Level
  BY DEF Holds, Held
<1>2. w \in EaType /\ w.up = up /\ w.tracker = tracker /\ w.saved = saved /\ w.told = told
  BY DEF AsFound
<1>3. Owns(w, queue, V)
  BY <1>1, <1>2, NowParts, SameOwns DEF SameEntry
<1>4. Fine(tracker, queue)
  BY <1>2, <1>3 DEF Owns
<1>5. tracker \in EntryType /\ tracker.volume \in Nat /\ tracker.on \in BOOLEAN /\ tracker.synced \in Nat
  BY <1>2 DEF EaType, EntryType
<1>6. /\ account.n \in Nat /\ account.low \in Nat /\ list.n \in Nat /\ list.volume \in Nat /\ list.volume \in Volumes
      /\ list.sl \in Levels /\ ListedSl \in Levels
  BY NowType, Constants DEF TypeOK, ListedSl
<1> QED
  BY <1>1, <1>2, <1>3, <1>4, <1>5, <1>6

\* While a transaction waits, the terminal lists the position unless it has just been opened.
LEMMA ListedWhileWaiting ==
  ASSUME TypeOK, Base, queue # << >>, account.n > 1 \/ account.grown = TRUE
  PROVE  Selectable /\ list.volume > 0 /\ list.n > 0 /\ list.n <= account.n
<1>1. resync = FALSE /\ list.n \in Nat /\ account.n \in Nat
  BY DEF Base, TypeOK
<1>2. list.n # 0
  BY <1>1 DEF Base
<1> QED
  BY <1>1, <1>2 DEF Base, Selectable

LEMMA DealInGood ==
  ASSUME Safe, TypeOK, NEW V, Holds(V), NEW w, AsFound(w), up = TRUE, queue # << >>, Head(queue).kind = "in",
         NEW x \in OnDealIn(w, Head(queue))
  PROVE  Good(x, Tail(queue), V)
<1> DEFINE t == Head(queue)
           grown == IF Selectable THEN list.volume ELSE tracker.volume + t.volume
           next == IF tracker.on THEN [tracker EXCEPT !.volume = grown, !.sl = ListedSl] ELSE Tracked(t.volume, ListedSl)
           e == Event("OPEN", t.volume, ListedSl)
<1>1. /\ V \in Heights /\ Falls(V) /\ Base /\ w \in EaType /\ Owns(w, queue, V) /\ Fine(tracker, queue)
      /\ tracker \in EntryType /\ tracker.volume \in Nat /\ tracker.on \in BOOLEAN
      /\ account.n \in Nat /\ list.n \in Nat /\ list.volume \in Nat /\ ListedSl \in Levels
      /\ w.tracker = tracker /\ w.up = TRUE /\ w.told = told
  BY HeldFacts
<1>2. /\ t \in TransactionType /\ t = queue[1] /\ 1 \in 1..Len(queue) /\ t.n = account.n - Len(queue) + 1
      /\ Len(Tail(queue)) = Len(queue) - 1 /\ Len(queue) \in Nat \ {0}
      /\ \A i \in 1..Len(Tail(queue)) : Tail(queue)[i].n = t.n + i
      /\ t.n >= 1 /\ t.n <= account.n
  <2>1. Base
    BY <1>1
  <2> HIDE DEF next, e
  <2>2. Len(queue) \in Nat \ {0} => 1 \in 1..Len(queue)
    OBVIOUS
  <2> QED
    BY <2>1, <2>2, TailFacts
<1>3. t.volume \in Volumes /\ t.volume \in Nat /\ t.n \in Nat /\ t.kind = "in"
  BY <1>2, Constants DEF TransactionType
<1>4. e \in Events /\ e.type = "OPEN"
  <2>1. ListedSl \in Levels /\ t.volume \in Volumes /\ t.volume \in Nat
    BY <1>1, <1>3
  <2> HIDE DEF t, next
  <2> QED
    BY <2>1, EventIn DEF EventTypes
<1>10. account.n \in Nat /\ t.n \in Nat /\ t.n >= 1 /\ t.n <= account.n /\ t = queue[1] /\ 1 \in 1..Len(queue)
  BY <1>1, <1>2, <1>3
<1>11. \A i \in 1..Len(Tail(queue)) : Tail(queue)[i].n = t.n + i
  BY <1>2
<1>12. Len(Tail(queue)) = Len(queue) - 1 /\ Len(queue) \in Nat
  BY <1>2
<1>13. Falls(V) /\ V \in Heights
  BY <1>1
<1>5. \/ t.n = 1 /\ tracker.on = FALSE
      \/ Len(queue) = 1 /\ account.grown = TRUE /\ tracker.on = TRUE
  BY <1>1, <1>2, <1>3 DEF Fine
<1>6. OnDealIn(w, t) = EmitAndKeep(w, e, next)
  BY DEF OnDealIn
<1>7. Owns(w, Tail(queue), V)
  BY <1>1, TailOwns
<1> HIDE DEF e, t
<1>8. CASE t.n = 1 /\ tracker.on = FALSE
  <2>1. next = Tracked(t.volume, ListedSl)
    BY <1>8
  <2>2. next \in EntryType /\ next.on = TRUE /\ next.volume = t.volume /\ next.synced = 0
    BY <1>1, <1>3, <2>1, EntryTypes DEF Tracked, Untracked
  <2> HIDE DEF next
  <2>3. Fine(next, Tail(queue))
    BY <1>1, <2>2, TailFine
  <2>4. Counts(V, 1, next, Tail(queue))
    <3>1. t.volume >= V[1]
      BY <1>3, <1>8, <1>10, <1>13 DEF Falls
    <3>2. \A i \in 1..Len(Tail(queue)) : Tail(queue)[i].n > 1
      BY <1>8, <1>11
    <3>3. 1 \in 0..account.n
      BY <1>10
    <3> QED
      BY <2>2, <3>1, <3>2, <3>3 DEF Counts
  <2>5. told.opened # TRUE
    BY <1>1, <1>8 DEF Owns
  <2>6. Follows(w, e, next, Tail(queue), V)
    <3>1. Owed(V, next, Tail(queue))
      BY <1>1, <1>2, <2>4 DEF Owed
    <3> QED
      BY <1>1, <1>4, <2>2, <2>3, <2>5, <3>1 DEF Follows
  <2> QED
    BY <1>1, <1>4, <1>6, <1>7, <2>6, KeepGood DEF t
<1>9. CASE Len(queue) = 1 /\ account.grown = TRUE /\ tracker.on = TRUE
  <2>1. Selectable /\ list.volume > 0 /\ list.n > 0 /\ list.n <= account.n
    BY <1>1, <1>9, ListedWhileWaiting
  <2>2. next = [tracker EXCEPT !.volume = list.volume, !.sl = ListedSl]
    BY <1>9, <2>1
  <2>3. next \in EntryType /\ next.on = TRUE /\ next.volume = list.volume /\ next.synced = tracker.synced
    BY <1>1, <1>9, <2>2 DEF EntryType
  <2> HIDE DEF next
  <2>4. Fine(next, Tail(queue))
    BY <1>1, <2>3, TailFine
  <2>5. Counts(V, list.n, next, Tail(queue))
    <3>1. list.volume >= V[list.n] /\ list.n \in 0..account.n
      BY <1>1, <2>1 DEF Falls
    <3>2. \A i \in 1..Len(Tail(queue)) : FALSE
      <4>1. Len(Tail(queue)) = 0
        BY <1>9, <1>12
      <4>2. 1..0 = {}
        OBVIOUS
      <4> QED
        BY <4>1, <4>2
    <3> QED
      BY <2>3, <3>1, <3>2 DEF Counts
  <2>6. Follows(w, e, next, Tail(queue), V)
    <3>1. Owed(V, next, Tail(queue))
      BY <2>5 DEF Owed, Counts
    <3> QED
      BY <1>1, <1>4, <2>3, <2>4, <3>1 DEF Follows
  <2> QED
    BY <1>1, <1>4, <1>6, <1>7, <2>6, KeepGood DEF t
<1> QED
  BY <1>5, <1>8, <1>9

LEMMA DealOutGood ==
  ASSUME Safe, TypeOK, NEW V, Holds(V), NEW w, AsFound(w), up = TRUE, queue # << >>, Head(queue).kind = "out",
         tracker.on = TRUE => Head(queue).n > tracker.synced,
         NEW x \in OnDealAs("out", w, Head(queue))
  PROVE  Good(x, Tail(queue), V)
<1> DEFINE t == Head(queue)
           left == Tail(queue)
<1>1. /\ V \in Heights /\ Falls(V) /\ Base /\ w \in EaType /\ Owns(w, queue, V) /\ Fine(tracker, queue)
      /\ tracker \in EntryType /\ tracker.volume \in Nat /\ tracker.on \in BOOLEAN /\ V[account.n] = Level
      /\ account.n \in Nat /\ account.low \in Nat /\ list.n \in Nat /\ list.volume \in Nat /\ list.sl \in Levels
      /\ w.tracker = tracker /\ w.up = TRUE /\ w.told = told
  BY HeldFacts
<1>2. /\ t \in TransactionType /\ t = queue[1] /\ 1 \in 1..Len(queue)
      /\ \A i \in 1..Len(left) : left[i].n = t.n + i
      /\ t.n >= 1 /\ t.n <= account.n
  <2>1. Base
    BY <1>1
  <2>2. Len(queue) \in Nat \ {0} => 1 \in 1..Len(queue)
    OBVIOUS
  <2> QED
    BY <2>1, <2>2, TailFacts
<1>3. t.volume \in Nat /\ t.n \in Nat /\ t.kind = "out"
  BY <1>2, Constants DEF TransactionType
<1>10. account.n \in Nat /\ t.n >= 1 /\ t.n <= account.n /\ t = queue[1] /\ 1 \in 1..Len(queue)
  BY <1>1, <1>2
<1>11. \A i \in 1..Len(left) : left[i].n = t.n + i
  BY <1>2
<1>12. Falls(V) /\ V \in Heights /\ Base /\ account.low \in Nat
  BY <1>1
<1>4. t.n > 1 /\ V[t.n - 1] >= V[t.n] + t.volume
  BY <1>3, <1>10, <1>12 DEF Falls
<1>13. t.n > 1 /\ account.n > 1
  BY <1>3, <1>4, <1>10
<1>14. tracker.volume \in Nat /\ (tracker.on = TRUE => t.n > tracker.synced)
  BY <1>1
<1>5. Selectable /\ list.volume > 0 /\ list.n > 0 /\ list.n <= account.n
  <2> QED
    BY <1>12, <1>13, ListedWhileWaiting
<1>6. Owns(w, left, V)
  BY <1>1, TailOwns
<1> HIDE DEF t, left
<1>7. CASE tracker.on = TRUE
  <2> DEFINE remaining == tracker.volume - t.volume
  <2>1. OnDealAs("out", w, t) = OnDealOutTracked(w, t)
    BY <1>7 DEF OnDealAs
  <2>2. told.opened = TRUE => remaining >= V[t.n] /\ remaining >= account.low /\ remaining > 0
    <3> SUFFICES ASSUME told.opened = TRUE PROVE remaining >= V[t.n] /\ remaining >= account.low /\ remaining > 0
      OBVIOUS
    <3>1. PICK K \in 0..account.n : Counts(V, K, tracker, queue)
      BY <1>1 DEF Owns, Owed
    <3>2. K < t.n /\ K \in Nat /\ tracker.volume >= V[K]
      BY <1>3, <1>7, <1>10, <1>14, <3>1 DEF Counts
    <3>3. t.n - 1 \in 0..account.n /\ K <= t.n - 1 /\ t.n \in 0..account.n
      BY <1>3, <1>10, <1>13, <3>2
    <3>4. V[K] >= V[t.n - 1] /\ V[K] \in Nat /\ V[t.n - 1] \in Nat
      <4>1. \A j, k \in 0..account.n : j <= k => V[j] >= V[k]
        BY <1>12 DEF Falls
      <4>2. t.n - 1 \in Nat
        BY <1>3, <1>13
      <4> QED
        BY <1>12, <3>2, <3>3, <4>1, <4>2, HeightsAt
    <3>5. V[t.n] >= account.low /\ V[t.n] \in Nat
      BY <1>12, <3>3, FallsTo
    <3>6. account.low > 0
      BY <1>12 DEF Base
    <3>7. V[t.n - 1] >= V[t.n] + t.volume
      BY <1>4
    <3>8. t.volume \in Nat /\ tracker.volume \in Nat /\ account.low \in Nat
      BY <1>3, <1>12, <1>14
    <3> HIDE DEF t
    <3> QED
      BY SMTT(30), <3>2, <3>4, <3>5, <3>6, <3>7, <3>8
  <2>3. CASE FullyClosed(remaining)
    <3>1. told.opened # TRUE
      <4>1. remaining <= 0
        BY <1>5, <2>3 DEF FullyClosed
      <4>2. remaining \in Int
        BY <1>3, <1>14
      <4> HIDE DEF remaining
      <4>3. ~(remaining > 0)
        BY <4>1, <4>2
      <4> QED
        BY <2>2, <4>3
    <3>2. OnDealAs("out", w, t) = EmitAndKeep(w, Event("CLOSE", 0, 0), Untracked)
      BY <2>1, <2>3 DEF OnDealOutTracked
    <3>3. Event("CLOSE", 0, 0) \in Events /\ Event("CLOSE", 0, 0).type = "CLOSE" /\ Untracked \in EntryType
      BY EventIn, EntryTypes, Constants DEF EventTypes
    <3>4. Fine(Untracked, left)
      BY <1>1, <3>3, TailFine DEF Untracked, left
    <3>5. Follows(w, Event("CLOSE", 0, 0), Untracked, left, V)
      BY <1>1, <3>1, <3>3, <3>4 DEF Follows
    <3> QED
      BY <1>1, <1>6, <3>2, <3>3, <3>5, KeepGood DEF t, left
  <2>4. CASE ~FullyClosed(remaining)
    <3> DEFINE next == [tracker EXCEPT !.volume = remaining]
               e == Event("PARTIAL_CLOSE", remaining, 0)
    <3>1. remaining \in Nat /\ remaining > 0 /\ remaining <= tracker.volume
      BY <1>3, <1>14, <2>4 DEF FullyClosed
    <3>2. OnDealAs("out", w, t) = EmitAndKeep(w, e, next)
      BY <2>1, <2>4 DEF OnDealOutTracked
    <3>3. e \in Events /\ e.type = "PARTIAL_CLOSE" /\ e.volume = remaining
      BY <3>1, EventIn, Constants DEF EventTypes, Event
    <3>4. next \in EntryType /\ next.on = TRUE /\ next.volume = remaining /\ next.synced = tracker.synced
      BY <1>1, <1>7, <3>1 DEF EntryType
    <3> HIDE DEF e, next
    <3>5. Fine(next, left)
      BY <1>1, <3>4, TailFine DEF left
    <3>6. told.opened = TRUE => Owed(V, next, left)
      <4>1. \A i \in 1..Len(left) : left[i].n > t.n
        BY <1>3, <1>11
      <4>2. t.n \in 0..account.n
        BY <1>3, <1>10
      <4>3. told.opened = TRUE => Counts(V, t.n, next, left)
        BY <2>2, <3>4, <4>1, <4>2 DEF Counts
      <4> QED
        BY <4>3 DEF Owed, Counts
    <3>7. Follows(w, e, next, left, V)
      BY <1>1, <2>2, <3>1, <3>3, <3>4, <3>5, <3>6 DEF Follows
    <3> QED
      BY <1>1, <1>6, <3>2, <3>3, <3>7, KeepGood DEF t, left
  <2> QED
    BY <2>3, <2>4
<1>8. CASE tracker.on = FALSE
  <2> DEFINE e == Event("PARTIAL_CLOSE", list.volume, 0)
             next == Tracked(list.volume, list.sl)
  <2>1. OnDealAs("out", w, t) = EmitAndKeep(w, e, next)
    BY <1>5, <1>8 DEF OnDealAs, OnDealOutUntracked
  <2>2. told.opened # TRUE
    BY <1>1, <1>8 DEF Owns
  <2>3. e \in Events /\ e.type = "PARTIAL_CLOSE"
    <3>1. list.volume \in Nat
      BY <1>1
    <3> QED
      BY <3>1, EventIn, Constants DEF EventTypes
  <2>4. next \in EntryType /\ next.on = TRUE /\ next.synced = 0
    BY <1>1, EntryTypes DEF Tracked, Untracked
  <2> HIDE DEF e, next
  <2>5. Fine(next, left)
    BY <1>1, <2>4, TailFine DEF left
  <2>6. Follows(w, e, next, left, V)
    BY <1>1, <2>2, <2>3, <2>4, <2>5 DEF Follows
  <2> QED
    BY <1>1, <1>6, <2>1, <2>3, <2>6, KeepGood DEF t, left
<1> QED
  BY <1>1, <1>7, <1>8

LEMMA StayGood ==
  ASSUME TypeOK, NEW V, Holds(V), NEW w, AsFound(w), up = TRUE, NEW x \in EaType, SameEntry(x.tracker, w.tracker),
         x.up = w.up, x.saved = w.saved, x.told = w.told
  PROVE  Good(x, queue, V) /\ (queue # << >> => Good(x, Tail(queue), V))
<1>1. Base /\ w \in EaType /\ Owns(w, queue, V) /\ w.up = TRUE /\ w.told = told
  BY HeldFacts
<1>2. Owns(x, queue, V)
  BY <1>1, SameOwns
<1>3. queue # << >> => Owns(x, Tail(queue), V)
  BY <1>1, <1>2, TailOwns
<1> QED
  BY <1>1, <1>2, <1>3 DEF Good

\* A changed stop is told, and noted in an entry that is tracked.
LEMMA ModifyGood ==
  ASSUME Safe, TypeOK, NEW V \in Heights, Falls(V), NEW w \in EaType, NEW left, Owns(w, left, V), w.up = TRUE,
         told.opened = TRUE => w.told.opened = TRUE, NEW sl \in Levels,
         NEW x \in EmitAndKeep(w, Event("MODIFY", 0, sl), [w.tracker EXCEPT !.sl = sl])
  PROVE  Good(x, left, V)
<1> DEFINE next == [w.tracker EXCEPT !.sl = sl]
           e == Event("MODIFY", 0, sl)
<1>1. w.tracker \in EntryType
  BY DEF EaType
<1>2. next \in EntryType /\ SameEntry(next, w.tracker)
  BY <1>1 DEF EntryType, SameEntry
<1>3. e \in Events /\ e.type = "MODIFY"
  BY EventIn DEF EventTypes
<1> HIDE DEF next, e
<1>4. Fine(next, left)
  BY <1>2 DEF Owns, Fine, SameEntry
<1>5. w.told.opened = TRUE => next.on = TRUE /\ Owed(V, next, left)
  BY <1>2 DEF Owns, Owed, Counts, SameEntry
<1>6. Follows(w, e, next, left, V)
  BY <1>2, <1>3, <1>4, <1>5 DEF Follows
<1> QED
  BY <1>3, <1>6, KeepGood DEF next, e

LEMMA EmitUntoldGood ==
  ASSUME TypeOK, NEW V, NEW w \in EaType, NEW left, Owns(w, left, V), w.up = TRUE,
         told.opened = TRUE => w.told.opened = TRUE,
         w.told.opened # TRUE, NEW e \in Events, e.type # "OPEN", NEW x \in Emit(w, e)
  PROVE  Good(x, left, V)
<1>1. w.told.opened = FALSE /\ e.type \in EventTypes
  BY DEF EaType, ToldType, Events
<1>2. Tell(w.told, e) = w.told
  BY <1>1 DEF Tell, EventTypes
<1>3. x = [w EXCEPT !.told = w.told] \/ x \in Faulty(w, "append")
  BY <1>2 DEF Emit
<1>4. x \in EaType /\ x.up = w.up /\ x.tracker = w.tracker /\ x.saved = w.saved /\ x.told = w.told
  BY <1>3, FaultyType DEF EaType
<1>5. Owns(x, left, V)
  BY <1>4, SameOwns DEF SameEntry
<1> QED
  BY <1>4, <1>5 DEF Good

LEMMA TransactionHeld == ASSUME Safe, TypeOK, NEW V, Holds(V), OnTransaction PROVE Base' /\ Held(V, Level)'
<1> DEFINE t == Head(queue)
           left == Tail(queue)
<1>1. up = TRUE /\ queue # << >> /\ t \in TransactionType
  BY QueueType DEF OnTransaction, TypeOK
<1>2. AsFound(Now) /\ \A kind : \A w \in Faulty(Now, kind) : AsFound(w)
  BY FoundNow
<1>3. /\ V \in Heights /\ Falls(V) /\ Base /\ Now \in EaType /\ Owns(Now, queue, V) /\ Fine(tracker, queue)
      /\ Now.tracker = tracker /\ Now.up = up /\ Now.told = told /\ tracker.on \in BOOLEAN /\ tracker \in EntryType
  BY <1>2, HeldFacts
<1>4. Good(Now, left, V)
  BY <1>1, <1>2, <1>3, StayGood DEF SameEntry
<1>5. Owns(Now, left, V)
  BY <1>1, <1>3, TailOwns
<1> HIDE DEF t, left
<1>6. CASE OnDeal(t)
  <2> DEFINE S == IF t.kind = "out" /\ Reflected(t) THEN {Now} ELSE OnDealAs(t.kind, Now, t)
  <2>1. t.kind \in {"in", "out"} /\ Ends(S, left)
    BY <1>6 DEF OnDeal, left
  <2>2. ASSUME NEW x \in S
        PROVE  Good(x, left, V)
    <3>1. CASE t.kind = "in"
      <4>1. x \in OnDealIn(Now, t)
        BY <2>2, <3>1 DEF OnDealAs
      <4> QED
        BY <1>1, <1>2, <3>1, <4>1, DealInGood DEF t, left
    <3>2. CASE t.kind = "out" /\ Reflected(t)
      BY <1>4, <2>2, <3>2
    <3>3. CASE t.kind = "out" /\ ~Reflected(t)
      <4>1. x \in OnDealAs("out", Now, t)
        BY <2>2, <3>3
      <4>2. tracker.on = TRUE => t.n > tracker.synced
        BY <1>1, <1>3, <3>3 DEF Reflected, TransactionType, EntryType
      <4> QED
        BY <1>1, <1>2, <3>3, <4>1, <4>2, DealOutGood DEF t, left
    <3> QED
      BY <2>1, <3>1, <3>2, <3>3
  <2> HIDE DEF S
  <2> QED
    BY <1>1, <2>1, <2>2, EndsHeld DEF left
<1>7. CASE OnDealNotInHistory(t)
  <2> DEFINE kind == IF Guess = t.kind THEN "history" ELSE "misread"
             S == UNION {OnDealAs(Guess, w, t) : w \in Faulty(Now, kind)}
  <2>1. t.kind \in {"in", "out"} /\ Ends(S, left)
    BY <1>7 DEF OnDealNotInHistory, left
  <2>2. ASSUME NEW x \in S
        PROVE  Good(x, left, V)
    <3>1. PICK w \in Faulty(Now, kind) : x \in OnDealAs(Guess, w, t)
      BY <2>2
    <3>2. kind \in Faults
      BY <1>3, <3>1, FaultyType
    <3>3. Guess = t.kind /\ "history" \in Faults
      BY <3>2, SafeFaults
    <3>4. AsFound(w)
      BY <1>2, <3>1
    <3>5. CASE t.kind = "in"
      <4>1. x \in OnDealIn(w, t)
        BY <3>1, <3>3, <3>5 DEF OnDealAs
      <4> QED
        BY <1>1, <3>4, <3>5, <4>1, DealInGood DEF t, left
    <3>6. CASE t.kind = "out"
      <4>1. x \in OnDealAs("out", w, t)
        BY <3>1, <3>3, <3>6
      <4>2. t.n > tracker.synced
        <5>1. t = queue[1] /\ Len(queue) \in Nat \ {0}
          BY <1>1, <1>3, TailFacts DEF t
        <5>2. 1 \in 1..Len(queue)
          BY <5>1
        <5> QED
          BY <1>3, <3>3, <5>1, <5>2 DEF Fine
      <4> QED
        BY <1>1, <3>4, <3>6, <4>1, <4>2, DealOutGood DEF t, left
    <3> QED
      BY <2>1, <3>5, <3>6
  <2> HIDE DEF S
  <2> QED
    BY <1>1, <2>1, <2>2, EndsHeld DEF left
<1>8. CASE OnPositionChange(t)
  <2> DEFINE S == CASE tracker.on /\ tracker.sl = t.sl -> {Now}
                    [] tracker.on /\ tracker.sl # t.sl ->
                         EmitAndKeep(Now, Event("MODIFY", 0, t.sl), [tracker EXCEPT !.sl = t.sl])
                    [] ~tracker.on -> Emit(Now, Event("MODIFY", 0, t.sl))
  <2>1. Ends(S, left)
    BY <1>8 DEF OnPositionChange, left
  <2>2. t.sl \in Levels
    BY <1>1 DEF TransactionType
  <2>3. ASSUME NEW x \in EmitAndKeep(Now, Event("MODIFY", 0, t.sl), [tracker EXCEPT !.sl = t.sl])
        PROVE  Good(x, left, V)
    BY <1>1, <1>3, <1>5, <2>2, <2>3, ModifyGood
  <2>4. ASSUME tracker.on = FALSE, NEW x \in Emit(Now, Event("MODIFY", 0, t.sl))
        PROVE  Good(x, left, V)
    <3>1. told.opened # TRUE
      BY <1>1, <1>3, <2>4 DEF Owns
    <3>2. Event("MODIFY", 0, t.sl) \in Events /\ Event("MODIFY", 0, t.sl).type = "MODIFY"
      BY <2>2, EventIn DEF EventTypes
    <3> QED
      BY <1>1, <1>3, <1>5, <2>4, <3>1, <3>2, EmitUntoldGood
  <2>5. ASSUME NEW x \in S
        PROVE  Good(x, left, V)
    BY <1>3, <1>4, <2>3, <2>4, <2>5
  <2> HIDE DEF S
  <2> QED
    BY <1>1, <2>1, <2>5, EndsHeld DEF left
<1> QED
  BY <1>6, <1>7, <1>8 DEF OnTransaction, t

LEMMA Difference ==
  ASSUME NEW a \in Nat, NEW b \in Nat, b <= a
  PROVE  a - b \in Nat /\ (a - b) + b = a /\ a - b <= a
  OBVIOUS

\* Of the last changes up to n none is the one listed: they are all later.
LEMMA NotListed ==
  ASSUME NEW n \in Nat, NEW size \in Nat, size <= n, NEW at \in 1..n, NEW i \in 1..size,
         \A j \in 1..size : n - size + j # at
  PROVE  n - size + i > at
<1>1. at <= n - size
  <2> SUFFICES ASSUME at > n - size PROVE FALSE
    OBVIOUS
  <2>1. at - (n - size) \in 1..size
    OBVIOUS
  <2>2. n - size + (at - (n - size)) = at
    OBVIOUS
  <2> QED
    BY <2>1, <2>2
<1> QED
  BY <1>1

\* A sweep that may look at a listed position: what it lists is owed.
LEMMA ListedCounts ==
  ASSUME Safe, TypeOK, Base, NEW V \in Heights, Falls(V), Selectable, late \/ ~InFlight,
         NEW entry \in EntryType, entry.volume = list.volume
  PROVE  /\ list.volume \in Nat /\ list.volume > 0 /\ list.volume >= account.low /\ list.volume >= V[account.n]
         /\ list.n \in 1..account.n
         /\ ~late => \A i \in 1..Len(queue) : queue[i].n > list.n
         /\ ~late \/ entry.synced = list.n => Owed(V, entry, queue)
<1>1. list.n \in Nat /\ account.n \in Nat /\ list.volume \in Nat /\ list.volume > 0 /\ account.low \in Nat
  BY Constants DEF TypeOK, Selectable
<1>2. list.n \in 1..account.n /\ list.n \in 0..account.n
  <2>1. list.n <= account.n /\ (list.n = 0 => list.volume = 0)
    BY DEF Base
  <2> QED
    BY <1>1, <2>1
<1>3. list.volume >= V[list.n]
  BY <1>1 DEF Falls
<1>4. V[list.n] >= V[account.n] /\ V[list.n] >= account.low /\ V[list.n] \in Nat /\ V[account.n] \in Nat
  <2>1. account.n \in 0..account.n
    BY <1>1
  <2> QED
    BY <1>1, <1>2, <2>1, FallsTo
<1>5. ASSUME ~late, NEW i \in 1..Len(queue)
      PROVE  queue[i].n > list.n
  <2>1. Len(queue) \in Nat /\ Len(queue) <= account.n
    <3>1. Len(queue) \in Nat
      BY QueueType
    <3> QED
      BY <3>1 DEF Base
  <2>2. \A j \in 1..Len(queue) : queue[j].n = account.n - Len(queue) + j
    BY DEF Base
  <2>3. \A j \in 1..Len(queue) : account.n - Len(queue) + j # list.n
    BY <1>5, <2>2 DEF InFlight
  <2>4. account.n - Len(queue) + i > list.n
    BY <1>1, <1>2, <2>1, <2>3, NotListed
  <2> QED
    BY <2>2, <2>4
<1>6. ASSUME ~late \/ entry.synced = list.n
      PROVE  Owed(V, entry, queue)
  <2>1. \A i \in 1..Len(queue) : queue[i].kind = "out" /\ queue[i].n > entry.synced => queue[i].n > list.n
    BY <1>5, <1>6
  <2>2. Counts(V, list.n, entry, queue)
    BY <1>2, <1>3, <2>1 DEF Counts
  <2> QED
    BY <1>2, <2>2 DEF Owed
<1>7. list.volume >= account.low /\ list.volume >= V[account.n]
  BY <1>1, <1>2, <1>3, <1>4
<1> QED
  BY <1>1, <1>2, <1>5, <1>6, <1>7

LEMMA SweepVolumeGood ==
  ASSUME Safe, TypeOK, Base, NEW V \in Heights, Falls(V), Selectable, late \/ ~InFlight,
         NEW w \in EaType, Owns(w, queue, V), w.up = TRUE, w.tracker.on = TRUE, w.told = told,
         NEW x \in SweepVolume(w)
  PROVE  Good(x, queue, V)
<1> DEFINE entry == w.tracker
           count == IF entry.count > 0 /\ entry.pending = list.volume THEN 2 ELSE 1
           waiting == [entry EXCEPT !.pending = list.volume, !.count = count]
           waits == [w EXCEPT !.tracker = waiting]
           e == IF list.volume < entry.volume THEN Event("PARTIAL_CLOSE", list.volume, 0)
                ELSE Event("OPEN", list.volume - entry.volume, list.sl)
           seen == [entry EXCEPT !.volume = list.volume, !.synced = list.n, !.count = 0]
           level == [w EXCEPT !.tracker.count = 0]
<1>1. /\ list.volume \in Volumes /\ list.volume \in Nat /\ list.sl \in Levels /\ list.n \in Nat /\ account.n \in Nat
      /\ entry \in EntryType /\ entry.volume \in Nat /\ count \in {1, 2} /\ count \in 0..2 /\ 0 \in 0..2
  BY NowType, Constants DEF EaType, EntryType, TypeOK
<1> HIDE DEF entry, count
<1>2. waiting \in EntryType /\ SameEntry(waiting, entry)
  BY <1>1 DEF EntryType, SameEntry
<1>3. waits \in EaType /\ waits.told = w.told /\ waits.saved = w.saved /\ waits.up = w.up /\ waits.tracker = waiting
  BY <1>2 DEF EaType
<1>4. level \in EaType /\ level.told = w.told /\ level.saved = w.saved /\ level.up = w.up /\ SameEntry(level.tracker, w.tracker)
  <2>1. level = [w EXCEPT !.tracker = [entry EXCEPT !.count = 0]] /\ w.tracker = entry
    BY DEF EaType, entry
  <2>2. [entry EXCEPT !.count = 0] \in EntryType /\ SameEntry([entry EXCEPT !.count = 0], entry)
    BY <1>1 DEF EntryType, SameEntry
  <2> QED
    BY <2>1, <2>2 DEF EaType
<1>5. seen \in EntryType /\ seen.on = entry.on /\ seen.volume = list.volume /\ seen.synced = list.n
  BY <1>1 DEF EntryType
<1>6. ASSUME list.volume # entry.volume
      PROVE  /\ e \in Events
             /\ \/ e.type = "PARTIAL_CLOSE" /\ e.volume = list.volume /\ list.volume < entry.volume
                \/ e.type = "OPEN"
  <2>1. CASE list.volume < entry.volume
    BY <1>1, <2>1, EventIn, Constants DEF EventTypes, Event
  <2>2. CASE ~(list.volume < entry.volume)
    <3>1. list.volume - entry.volume \in Volumes /\ list.volume - entry.volume \in Nat
      <4>1. list.volume \in 0..Lots /\ Lots \in Nat /\ Volumes = 0..Lots
        BY <1>1, Constants
      <4>2. entry.volume \in Nat /\ ~(list.volume < entry.volume)
        BY <1>1, <2>2
      <4> DEFINE v == list.volume
                 u == entry.volume
      <4> HIDE DEF u
      <4>3. v \in Nat /\ u \in Nat /\ u <= v /\ v <= Lots
        BY <4>1, <4>2 DEF u
      <4>4. v - u \in Nat /\ v - u <= v
        BY <4>3, Difference
      <4>5. v - u \in 0..Lots
        BY <4>1, <4>3, <4>4
      <4> QED
        BY <4>1, <4>4, <4>5 DEF u
    <3> QED
      BY <1>1, <2>2, <3>1, EventIn DEF EventTypes
  <2> QED
    BY <2>1, <2>2
<1>7. SweepVolume(w) = CASE list.volume = entry.volume -> {level}
                         [] list.volume # entry.volume /\ count = 1 -> {waits}
                         [] list.volume # entry.volume /\ count = 2 -> EmitAndKeep(waits, e, seen)
  BY DEF SweepVolume, entry, count
<1>8. w.tracker = entry /\ entry.on = TRUE
  BY DEF entry
<1> HIDE DEF waits, waiting, count, seen, level, e
<1>9. Owns(level, queue, V) /\ Owns(waits, queue, V)
  BY <1>2, <1>3, <1>4, <1>8, SameOwns
<1>10. ASSUME list.volume # entry.volume, x \in EmitAndKeep(waits, e, seen)
       PROVE  Good(x, queue, V)
  <2>1. /\ list.volume >= account.low /\ list.n \in 1..account.n
        /\ ~late => \A i \in 1..Len(queue) : queue[i].n > list.n
        /\ Owed(V, seen, queue)
    BY <1>5, ListedCounts
  <2>2. Fine(seen, queue)
    <3>1. Fine(entry, queue)
      BY <1>8 DEF Owns
    <3>2. "history" \in Faults => \A i \in 1..Len(queue) : queue[i].n > list.n
      <4>1. "history" \in Faults => ~late
        BY SafeFaults DEF Base, TypeOK
      <4> QED
        BY <2>1, <4>1
    <3>3. list.n <= account.n
      BY DEF Base
    <3> QED
      BY <1>5, <1>8, <3>1, <3>2, <3>3 DEF Fine
  <2>3. Follows(waits, e, seen, queue, V)
    <3>1. waits.told.opened = TRUE =>
             /\ e.type # "CLOSE"
             /\ e.type = "PARTIAL_CLOSE" => e.volume >= account.low /\ seen.volume <= waits.tracker.volume
      <4>1. waits.tracker.volume = entry.volume /\ entry.volume \in Nat /\ list.volume \in Nat
        BY <1>1, <1>2, <1>3 DEF SameEntry
      <4>2. list.volume >= account.low
        BY <2>1
      <4>3. seen.volume = list.volume
        BY <1>5
      <4>4. \/ e.type = "PARTIAL_CLOSE" /\ e.volume = list.volume /\ list.volume < entry.volume
            \/ e.type = "OPEN"
        BY <1>6, <1>10
      <4> QED
        BY <4>1, <4>2, <4>3, <4>4
    <3> QED
      BY <1>3, <1>5, <1>6, <1>8, <1>10, <2>1, <2>2, <3>1 DEF Follows
  <2> QED
    BY <1>3, <1>6, <1>9, <1>10, <2>3, KeepGood
<1>11. Good(level, queue, V) /\ Good(waits, queue, V)
  BY <1>3, <1>4, <1>9 DEF Good
<1> QED
  BY <1>1, <1>7, <1>10, <1>11

LEMMA SweepStopGood ==
  ASSUME Safe, TypeOK, NEW V \in Heights, Falls(V), NEW w, Good(w, queue, V), NEW x \in SweepStop(w)
  PROVE  Good(x, queue, V)
<1>1. w \in EaType /\ w.up \in BOOLEAN /\ list.sl \in Levels /\ (told.opened = TRUE => w.told.opened = TRUE)
  BY NowType DEF Good, EaType
<1>2. CASE x = w
  BY <1>2
<1>3. CASE w.up = TRUE /\ x \in EmitAndKeep(w, Event("MODIFY", 0, list.sl), [w.tracker EXCEPT !.sl = list.sl])
  <2>1. Owns(w, queue, V)
    BY <1>3 DEF Good
  <2> QED
    BY <1>1, <1>3, <2>1, ModifyGood
<1> QED
  BY <1>1, <1>2, <1>3 DEF SweepStop

LEMMA FoundGood ==
  ASSUME TypeOK, NEW V, Holds(V), NEW w, AsFound(w), up = TRUE
  PROVE  /\ Found(w) \in EaType /\ SameEntry(Found(w).tracker, w.tracker) /\ Found(w).up = w.up
         /\ Found(w).saved = w.saved /\ Found(w).told = w.told
         /\ Good(Found(w), queue, V)
<1>1. w \in EaType /\ w.tracker \in EntryType
  BY DEF AsFound, EaType
<1>2. Found(w) = [w EXCEPT !.tracker = [w.tracker EXCEPT !.missing = 0]]
  BY <1>1 DEF Found, EaType
<1>3. [w.tracker EXCEPT !.missing = 0] \in EntryType /\ SameEntry([w.tracker EXCEPT !.missing = 0], w.tracker)
  BY <1>1 DEF EntryType, SameEntry
<1>4. /\ Found(w) \in EaType /\ SameEntry(Found(w).tracker, w.tracker) /\ Found(w).up = w.up
      /\ Found(w).saved = w.saved /\ Found(w).told = w.told
  BY <1>1, <1>2, <1>3 DEF EaType
<1> QED
  BY <1>4, StayGood

LEMMA SweepLiveGood ==
  ASSUME Safe, TypeOK, NEW V, Holds(V), NEW w, AsFound(w), up = TRUE, Selectable, late \/ ~InFlight,
         NEW x \in SweepLive(w)
  PROVE  Good(x, queue, V)
<1>1. /\ V \in Heights /\ Falls(V) /\ Base /\ w \in EaType /\ Owns(w, queue, V) /\ Fine(tracker, queue)
      /\ tracker.on \in BOOLEAN /\ list.volume \in Nat /\ list.volume \in Volumes /\ list.sl \in Levels
      /\ w.tracker = tracker /\ w.up = TRUE /\ w.told = told
  BY HeldFacts
<1>2. CASE tracker.on = FALSE
  <2> DEFINE next == Tracked(list.volume, list.sl)
             e == Event("OPEN", list.volume, list.sl)
  <2>1. e \in Events /\ e.type = "OPEN"
    BY <1>1, EventIn DEF EventTypes
  <2>2. next \in EntryType /\ next.on = TRUE /\ next.volume = list.volume /\ next.synced = 0
    BY <1>1, EntryTypes DEF Tracked, Untracked
  <2>3. SweepLive(w) = EmitAndKeep(w, e, next)
    BY <1>2 DEF SweepLive
  <2> HIDE DEF e, next
  <2>4. told.opened # TRUE /\ ~late
    BY <1>1, <1>2 DEF Owns, Base, TypeOK
  <2>5. /\ list.n \in 1..account.n /\ Owed(V, next, queue)
        /\ \A i \in 1..Len(queue) : queue[i].n > list.n
    BY <1>1, <2>2, <2>4, ListedCounts
  <2>6. \A i \in 1..Len(queue) : queue[i].n > 1 /\ queue[i].n > 0
    <3>1. list.n \in Nat /\ list.n >= 1 /\ \A i \in 1..Len(queue) : queue[i] \in TransactionType
      BY <2>5, QueueType DEF TypeOK
    <3> QED
      BY <2>5, <3>1 DEF TransactionType
  <2>7. Fine(next, queue)
    <3>1. account.n \in Nat
      BY DEF TypeOK
    <3>2. \A i \in 1..Len(queue) : queue[i].kind # "in"
      <4> SUFFICES ASSUME NEW i \in 1..Len(queue), queue[i].kind = "in" PROVE FALSE
        OBVIOUS
      <4>1. queue[i].n = 1 \/ tracker.on = TRUE
        BY <1>1 DEF Fine
      <4> QED
        BY <1>2, <2>6, <4>1
    <3> QED
      BY <2>2, <2>6, <3>1, <3>2 DEF Fine
  <2>8. Follows(w, e, next, queue, V)
    BY <1>1, <2>1, <2>2, <2>4, <2>5, <2>7 DEF Follows
  <2> QED
    BY <1>1, <2>1, <2>3, <2>8, KeepGood
<1>3. CASE tracker.on = TRUE
  <2>1. PICK v \in SweepVolume(Found(w)) : x \in SweepStop(v)
    BY <1>3 DEF SweepLive
  <2>2. /\ Found(w) \in EaType /\ SameEntry(Found(w).tracker, w.tracker) /\ Found(w).up = w.up
        /\ Found(w).saved = w.saved /\ Found(w).told = w.told
    BY FoundGood
  <2>3. Owns(Found(w), queue, V)
    BY <1>1, <2>2, SameOwns
  <2>4. Good(v, queue, V)
    <3>1. Found(w).tracker.on = TRUE /\ Found(w).up = TRUE /\ Found(w).told = told
      BY <1>1, <1>3, <2>2 DEF SameEntry
    <3> QED
      BY <1>1, <2>1, <2>2, <2>3, <3>1, SweepVolumeGood
  <2> QED
    BY <1>1, <2>1, <2>4, SweepStopGood
<1> QED
  BY <1>1, <1>2, <1>3

\* A position that is not listed: nothing is closed that the history still has open.
LEMMA SweepGoneGood ==
  ASSUME Safe, TypeOK, NEW V, Holds(V), up = TRUE, tracker.on = TRUE, ~Selectable,
         NEW net \in Nat, net = account.volume \/ net >= tracker.volume,
         NEW x \in SweepGone(Now, net)
  PROVE  Good(x, queue, V)
<1> DEFINE missing == IF tracker.missing = 0 THEN 1 ELSE 2
           gone == [tracker EXCEPT !.missing = missing]
           absent == [Now EXCEPT !.tracker.missing = missing]
           recheck == [tracker EXCEPT !.missing = 1]
           again == [Now EXCEPT !.tracker = recheck]
           rest == [recheck EXCEPT !.volume = net]
           e == Event("PARTIAL_CLOSE", net, 0)
<1>0. AsFound(Now)
  BY FoundNow
<1>1. /\ V \in Heights /\ Falls(V) /\ Base /\ Now \in EaType /\ Owns(Now, queue, V) /\ Fine(tracker, queue)
      /\ tracker \in EntryType /\ tracker.volume \in Nat /\ V[account.n] = Level
      /\ account.n \in Nat /\ account.low \in Nat /\ Now.tracker = tracker /\ Now.up = up /\ Now.told = told
  BY <1>0, HeldFacts
<1>2. missing \in 0..2 /\ 1 \in 0..2 /\ missing \in {1, 2}
  OBVIOUS
<1>3. SweepGone(Now, net) =
        CASE missing = 1 -> {absent}
          [] missing = 2 /\ net >= tracker.volume -> {again}
          [] missing = 2 /\ net < tracker.volume /\ net = 0 -> EmitAndKeep(absent, Event("CLOSE", 0, 0), Untracked)
          [] missing = 2 /\ net < tracker.volume /\ net > 0 -> EmitAndKeep(absent, e, rest)
  BY DEF SweepGone
<1>4. absent = [Now EXCEPT !.tracker = gone]
  BY <1>1 DEF EaType
<1> HIDE DEF missing
<1>5. /\ gone \in EntryType /\ SameEntry(gone, tracker) /\ recheck \in EntryType /\ SameEntry(recheck, tracker)
      /\ rest \in EntryType /\ rest.on = TRUE /\ rest.synced = tracker.synced /\ rest.volume = net
  BY <1>1, <1>2 DEF EntryType, SameEntry
<1> HIDE DEF gone, recheck, rest, absent
<1>6. /\ absent \in EaType /\ absent.told = Now.told /\ absent.saved = Now.saved /\ absent.up = Now.up
      /\ SameEntry(absent.tracker, Now.tracker)
  BY <1>1, <1>4, <1>5 DEF EaType
<1>7. /\ again \in EaType /\ again.told = Now.told /\ again.saved = Now.saved /\ again.up = Now.up
      /\ SameEntry(again.tracker, Now.tracker)
  BY <1>1, <1>5 DEF EaType
<1> HIDE DEF again
<1>8. Good(absent, queue, V) /\ Good(again, queue, V)
  BY <1>0, <1>6, <1>7, StayGood
<1>9. e \in Events /\ e.type = "PARTIAL_CLOSE" /\ e.volume = net
  BY EventIn, Constants DEF EventTypes, Event
<1> HIDE DEF e
<1>10. ASSUME net < tracker.volume
       PROVE  net > 0 /\ net >= account.low /\ net >= V[account.n]
  <2>1. net = account.volume
    BY <1>1, <1>10
  <2>2. V[account.n] >= account.low /\ V[account.n] \in Nat
    BY <1>1, HeightsAt DEF Falls
  <2>3. Level <= account.volume /\ account.volume > 0
    BY <1>1, <2>1 DEF Level, Base
  <2> QED
    BY <1>1, <2>1, <2>2, <2>3
<1>11. ASSUME net < tracker.volume, x \in EmitAndKeep(absent, e, rest)
       PROVE  Good(x, queue, V)
  <2>1. \A i \in 1..Len(queue) : queue[i].kind # "out"
    <3> SUFFICES ASSUME NEW i \in 1..Len(queue), queue[i].kind = "out" PROVE FALSE
      OBVIOUS
    <3>1. queue # << >> /\ Len(queue) \in Nat /\ queue[i].n \in Nat /\ i <= Len(queue) /\ i \in Nat
      <4>1. queue \in Seq(TransactionType) /\ Len(queue) \in Nat
        BY QueueType
      <4>2. queue[i] \in TransactionType
        BY <4>1
      <4>3. queue # << >>
        BY <4>1
      <4> QED
        BY <4>1, <4>2, <4>3 DEF TransactionType
    <3>2. queue[i].n > 1
      BY <1>1 DEF Falls
    <3>3. queue[i].n = account.n - Len(queue) + i
      BY <1>1 DEF Base
    <3>4. account.n > 1
      <4>1. account.n \in Nat
        BY <1>1
      <4> DEFINE L == Len(queue)
                 m == queue[i].n
      <4>2. L \in Nat /\ m \in Nat /\ i <= L /\ i \in Nat /\ m > 1 /\ m = account.n - L + i
        BY <3>1, <3>2, <3>3
      <4> HIDE DEF L, m
      <4> QED
        BY <4>1, <4>2
    <3> QED
      BY <1>1, <3>1, <3>4, ListedWhileWaiting
  <2>2. Owed(V, rest, queue)
    <3>1. account.n \in 0..account.n
      BY <1>1
    <3>2. Counts(V, account.n, rest, queue)
      BY <1>5, <1>10, <1>11, <2>1, <3>1 DEF Counts
    <3> QED
      BY <3>1, <3>2 DEF Owed
  <2>3. Fine(rest, queue)
    BY <1>1, <1>5 DEF Fine
  <2>4. Follows(absent, e, rest, queue, V)
    <3>1. rest.volume <= absent.tracker.volume
      BY <1>1, <1>5, <1>6, <1>11 DEF SameEntry
    <3> QED
      BY <1>1, <1>5, <1>6, <1>9, <1>10, <1>11, <2>2, <2>3, <3>1 DEF Follows
  <2>5. Owns(absent, queue, V)
    BY <1>1, <1>6, SameOwns
  <2> QED
    BY <1>1, <1>6, <1>9, <1>11, <2>4, <2>5, KeepGood
<1> QED
  BY <1>1, <1>2, <1>3, <1>8, <1>10, <1>11

LEMMA SweepHeld == ASSUME Safe, TypeOK, NEW V, Holds(V), Reconcile \/ ReconcileLater PROVE Base' /\ Held(V, Level)'
<1>1. up = TRUE /\ tracker.on \in BOOLEAN /\ tracker.volume \in Nat /\ account.volume \in Nat /\ AsFound(Now)
  BY FoundNow, Constants DEF Reconcile, ReconcileLater, TypeOK
<1>2. Good(Now, queue, V) /\ Good(Found(Now), queue, V)
  <2>1. Now \in EaType /\ SameEntry(Now.tracker, Now.tracker)
    BY NowType DEF SameEntry
  <2> QED
    BY <1>1, <2>1, StayGood, FoundGood
<1>3. CASE Reconcile
  <2> DEFINE S == CASE Selectable /\ ~Lags -> SweepLive(Now)
                    [] Selectable /\ Lags -> UNION {SweepLive(w) : w \in Faulty(Now, "lag")}
                    [] ~Selectable /\ tracker.on -> SweepGone(Now, account.volume)
                    [] ~Selectable /\ ~tracker.on -> {Now}
  <2>1. Ends(S, queue) /\ (Selectable => late \/ ~InFlight)
    BY <1>3 DEF Reconcile
  <2>2. ASSUME NEW w, AsFound(w), Selectable, NEW x \in SweepLive(w)
        PROVE  Good(x, queue, V)
    BY <1>1, <2>1, <2>2, SweepLiveGood
  <2>3. ASSUME ~Selectable, tracker.on, NEW x \in SweepGone(Now, account.volume)
        PROVE  Good(x, queue, V)
    BY <1>1, <2>3, SweepGoneGood
  <2>4. \A w \in Faulty(Now, "lag") : AsFound(w)
    BY FoundNow
  <2>5. ASSUME NEW x \in S
        PROVE  Good(x, queue, V)
    <3>1. CASE Selectable /\ ~Lags
      BY <1>1, <2>2, <2>5, <3>1
    <3>2. CASE Selectable /\ Lags
      BY <2>2, <2>4, <2>5, <3>2
    <3>3. CASE ~Selectable /\ tracker.on
      BY <2>3, <2>5, <3>3
    <3>4. CASE ~Selectable /\ ~tracker.on
      BY <1>2, <2>5, <3>4
    <3> QED
      BY <1>1, <3>1, <3>2, <3>3, <3>4
  <2> HIDE DEF S
  <2> QED
    BY <1>1, <2>1, <2>5, EndsHeld
<1>4. CASE ReconcileLater
  <2> DEFINE S == IF Selectable THEN {Found(Now)} ELSE SweepGone(Now, tracker.volume)
  <2>1. Ends(S, queue) /\ tracker.on
    BY <1>4 DEF ReconcileLater
  <2>2. ASSUME ~Selectable, NEW x \in SweepGone(Now, tracker.volume)
        PROVE  Good(x, queue, V)
    BY <1>1, <2>1, <2>2, SweepGoneGood
  <2>3. \A x \in S : Good(x, queue, V)
    BY <1>2, <2>2
  <2> HIDE DEF S
  <2> QED
    BY <1>1, <2>1, <2>3, EndsHeld
<1> QED
  BY <1>3, <1>4

(***************************************************************************)
(* The EA starts and stops, the terminal                                   *)
(***************************************************************************)
LEMMA HeldParts ==
  ASSUME TypeOK, NEW V, Holds(V)
  PROVE  /\ V \in Heights /\ Falls(V) /\ V[account.n] = Level /\ Base /\ Owns(Now, queue, V) /\ Fine(tracker, queue)
         /\ tracker \in EntryType /\ saved \in FileType /\ told \in ToldType
         /\ account.n \in Nat /\ list.n \in Nat /\ list.volume \in Nat /\ list.sl \in Levels
<1>1. V \in Heights /\ Falls(V) /\ V[account.n] = Level /\ Base /\ Owns(Now, queue, V)
  BY DEF Holds, Held
<1>2. Fine(tracker, queue)
  BY <1>1, NowParts DEF Owns
<1> QED
  BY <1>1, <1>2, NowType, Constants DEF TypeOK, EntryType, FileType, ToldType

\* The account, the list and what waits are as they were, or nothing waits.
LEMMA FallsSame ==
  ASSUME TypeOK, NEW V, Holds(V), account' = account, list' = list, queue' = queue \/ queue' = << >>
  PROVE  Falls(V)' /\ Level' = Level
<1>1. Falls(V)
  BY HeldParts
<1>2. \A i \in 1..Len(queue') : i \in 1..Len(queue) /\ queue'[i] = queue[i]
  <2>1. CASE queue' = queue
    BY <2>1
  <2>2. CASE queue' = << >>
    BY <2>2
  <2> QED
    BY <2>1, <2>2
<1> QED
  BY <1>1, <1>2 DEF Falls, Level

LEMMA StartHeld == ASSUME Safe, TypeOK, NEW V, Holds(V), Start PROVE Base' /\ Held(V, Level)'
<1>1. /\ V \in Heights /\ Falls(V) /\ V[account.n] = Level /\ Base /\ Owns(Now, queue, V)
      /\ saved \in FileType /\ account.n \in Nat
  BY HeldParts
<1>2. /\ up = FALSE /\ up' = TRUE /\ tracker' = Loaded(saved) /\ UNCHANGED <<account, list, resync, queue, late, saved, told>>
      /\ queue = << >>
  BY <1>1, NowParts, SafeFaults DEF Start, Fault, broker, Owns, TypeOK
<1>3. /\ tracker'.on = saved.on /\ tracker'.volume = saved.volume /\ tracker'.synced = saved.synced
  BY <1>2 DEF Loaded, Tracked, Untracked
<1>4. Falls(V)' /\ Level' = Level
  BY <1>2, FallsSame
<1>5. Base'
  BY <1>1, <1>2 DEF Base
<1>6. Owns(Now, queue, V)'
  <2>1. (saved.on = FALSE => saved.volume = 0) /\ saved.synced <= account.n
    BY <1>1, NowParts DEF Owns
  <2>2. \A i : i \notin 1..Len(queue')
    BY <1>2
  <2>3. Fine(tracker, queue)'
    BY <1>2, <1>3, <2>1, <2>2 DEF Fine
  <2>4. told.opened = TRUE =>
          /\ told.left >= Least(account.low, told.first)
          /\ saved.on = TRUE /\ saved.volume >= V[account.n]
    BY <1>1, NowParts DEF Owns
  <2>5. told.opened = TRUE => Owed(V, tracker, queue)'
    <3>1. account.n \in 0..account.n
      BY <1>1
    <3> QED
      BY <1>2, <1>3, <2>2, <2>4, <3>1 DEF Owed, Counts
  <2>6. saved'.volume >= tracker'.volume
    BY <1>1, <1>2, <1>3 DEF FileType
  <2> QED
    BY <1>2, <1>3, <2>1, <2>3, <2>4, <2>5, <2>6, NowParts DEF Owns
<1> QED
  BY <1>1, <1>2, <1>4, <1>5, <1>6 DEF Held

LEMMA NowGood == ASSUME TypeOK, NEW V, Holds(V), up = TRUE PROVE Good(Now, queue, V)
<1>1. Now \in EaType /\ Owns(Now, queue, V)
  BY NowType, HeldParts
<1> QED
  BY <1>1, NowParts DEF Good

\* What is saved of an entry that is owed is owed after a restart.
LEMMA SavedGood ==
  ASSUME TypeOK, NEW V, Holds(V), NEW entry \in EntryType, NEW x \in EaType,
         x.told = told, x.saved = OnDisk(entry),
         (x.up = TRUE /\ x.tracker = entry) \/ (x.up = FALSE /\ x.tracker = Untracked),
         Fine(entry, queue), told.opened = TRUE => entry.on = TRUE /\ Owed(V, entry, queue)
  PROVE  Good(x, queue, V)
<1> DEFINE left == IF x.up = TRUE THEN queue ELSE << >>
<1>1. V \in Heights /\ Falls(V) /\ Owns(Now, queue, V)
  BY HeldParts
<1>2. /\ x.saved.on = entry.on /\ x.saved.volume = entry.volume /\ x.saved.synced = entry.synced
      /\ entry.volume \in Nat
  BY DEF OnDisk, EntryType
<1>3. /\ entry.on = FALSE => entry.volume = 0
      /\ entry.synced <= account.n
  BY DEF Fine
<1>4. Fine(x.tracker, left) /\ (x.up = FALSE => x.tracker.on = FALSE /\ left = << >>)
  <2>1. Fine(Untracked, << >>) /\ Untracked.on = FALSE
    BY FineNothing DEF Untracked
  <2> QED
    BY <2>1
<1>5. ASSUME x.told.opened = TRUE
      PROVE  /\ x.told.left >= Least(account.low, x.told.first)
             /\ x.saved.on = TRUE /\ x.saved.volume >= V[account.n]
             /\ x.up = TRUE => x.tracker.on = TRUE /\ x.saved.volume >= x.tracker.volume /\ Owed(V, x.tracker, left)
  <2>1. told.left >= Least(account.low, told.first)
    BY <1>1, <1>5, NowParts DEF Owns
  <2>2. entry.volume >= V[account.n] /\ entry.on = TRUE /\ Owed(V, entry, queue)
    BY <1>1, <1>5, OwedLevel
  <2> QED
    BY <1>2, <2>1, <2>2
<1>6. Owns(x, left, V)
  BY <1>2, <1>3, <1>4, <1>5 DEF Owns
<1> QED
  BY <1>6 DEF Good

\* A start without a file that finds the position listed has told nobody of it.
LEMMA SeedHeld == ASSUME Safe, TypeOK, NEW V, Holds(V), Seed PROVE Base' /\ Held(V, Level)'
<1> DEFINE e == Event("OPEN", list.volume, list.sl)
           entry == Tracked(list.volume, list.sl)
           S == IF Selectable THEN Keep(Now, e, entry) ELSE {Now}
<1>1. /\ V \in Heights /\ Falls(V) /\ Base /\ account.n \in Nat /\ list.n \in Nat /\ list.volume \in Nat
      /\ list.sl \in Levels
  BY HeldParts
<1>2. up = TRUE /\ seeding = TRUE /\ queue = << >>
  BY <1>1 DEF Seed, Base, TypeOK
<1>3. Becomes(S, queue) /\ UNCHANGED broker /\ seeding' = FALSE
  BY DEF Seed
<1>4. \A i : i \notin 1..Len(queue)
  BY <1>2
<1>5. ASSUME Selectable, NEW x \in Keep(Now, e, entry)
      PROVE  Good(x, queue, V)
  <2>1. /\ entry \in EntryType /\ entry.on = TRUE /\ entry.volume = list.volume /\ entry.synced = 0
        /\ e.type = "OPEN"
    BY <1>1, EntryTypes DEF Tracked, Untracked, Event
  <2>2. Now \in EaType
    BY NowType
  <2> HIDE DEF e, entry
  <2>3. /\ x \in EaType /\ x.told = Now.told /\ x.saved = OnDisk(entry)
        /\ \/ x.up = Now.up /\ x.tracker = entry
           \/ x.up = FALSE /\ x.tracker = Untracked
    <3>1. Kept(x, Now, e, entry)
      BY <1>5, <2>1, <2>2, KeepOutcome
    <3> QED
      BY <2>1, <3>1, SafeFaults DEF Kept
  <2>4. list.volume >= V[list.n] /\ list.n \in 0..account.n
    BY <1>1, <1>5 DEF Falls, Selectable, Base
  <2>5. Fine(entry, queue)
    BY <1>1, <1>4, <2>1 DEF Fine
  <2>6. Owed(V, entry, queue)
    BY <1>4, <2>1, <2>4 DEF Owed, Counts
  <2> QED
    BY <1>2, <2>1, <2>3, <2>5, <2>6, NowParts, SavedGood
<1>6. Good(Now, queue, V)
  BY <1>2, FoundNow, NowGood
<1>7. \A x \in S : Good(x, queue, V)
  BY <1>5, <1>6
<1> HIDE DEF S
<1> QED
  BY <1>2, <1>3, <1>7, BecomesHeld

LEMMA SaveForAnotherHeld == ASSUME Safe, TypeOK, NEW V, Holds(V), SaveForAnother PROVE Base' /\ Held(V, Level)'
<1>1. /\ up = TRUE /\ Ends(SaveTracker(Now), queue)
      /\ Now \in EaType /\ tracker \in EntryType /\ Fine(tracker, queue) /\ Owns(Now, queue, V)
  BY HeldParts, NowType DEF SaveForAnother, TypeOK
<1>2. told.opened = TRUE => tracker.on = TRUE /\ Owed(V, tracker, queue)
  BY <1>1, NowParts DEF Owns
<1>3. ASSUME NEW x \in SaveTracker(Now)
      PROVE  Good(x, queue, V)
  <2>1. /\ x \in EaType /\ x.told = Now.told /\ x.saved = OnDisk(Now.tracker)
        /\ \/ x.up = Now.up /\ x.tracker = Now.tracker
           \/ x.up = FALSE /\ x.tracker = Untracked
    BY <1>1, SaveOutcome, SafeFaults
  <2> QED
    BY <1>1, <1>2, <2>1, NowParts, SavedGood
<1> QED
  BY <1>1, <1>3, EndsHeld

LEMMA StopHeld == ASSUME TypeOK, NEW V, Holds(V), Stop PROVE Base' /\ Held(V, Level)'
<1>1. /\ V \in Heights /\ Falls(V) /\ V[account.n] = Level /\ Base /\ Owns(Now, queue, V) /\ account.n \in Nat
  BY HeldParts
<1>2. /\ up' = FALSE /\ queue' = << >> /\ late' = FALSE /\ tracker' = Untracked
      /\ UNCHANGED <<account, list, resync, saved, told, seeding>>
  BY DEF Stop, broker
<1>3. Falls(V)' /\ Level' = Level
  BY <1>2, FallsSame
<1>4. \A i : i \notin 1..Len(queue')
  BY <1>2
<1>5. Base'
  <2>1. Len(queue') = 0
    BY <1>2
  <2>2. Len(queue') <= account.n
    BY <1>1, <2>1
  <2> QED
    BY <1>1, <1>2, <1>4, <2>2 DEF Base
<1>6. Fine(tracker, queue)'
  BY <1>1, <1>2, <1>4 DEF Fine, Untracked
<1>7. Owns(Now, queue, V)'
  <2>1. tracker'.on = FALSE
    BY <1>2 DEF Untracked
  <2> QED
    BY <1>1, <1>2, <1>6, <2>1, NowParts DEF Owns
<1> QED
  BY <1>1, <1>2, <1>3, <1>5, <1>7 DEF Held

\* Of the EA only what waits for it is changed: it is all there, shorter, or gone.
LEMMA TerminalOwns ==
  ASSUME TypeOK, NEW V, Holds(V), UNCHANGED <<account, up, tracker, saved, told>>,
         queue' = queue \/ queue' = << >> \/ (queue # << >> /\ queue' = Tail(queue))
  PROVE  Owns(Now, queue, V)'
<1>1. /\ Base /\ Owns(Now, queue, V) /\ Now \in EaType /\ Fine(tracker, queue)
  BY HeldParts, NowType
<1>2. Owns(Now, queue', V)
  <2>1. CASE queue' = queue
    BY <1>1, <2>1
  <2>2. CASE queue' = << >>
    <3>1. \A i : i \notin 1..Len(<< >>)
      OBVIOUS
    <3>2. Fine(Now.tracker, << >>)
      BY <1>1, <3>1 DEF Owns, Fine
    <3>3. Owed(V, Now.tracker, queue) => Owed(V, Now.tracker, << >>)
      BY <3>1 DEF Owed, Counts
    <3> QED
      BY <1>1, <2>2, <3>2, <3>3 DEF Owns
  <2>3. CASE queue # << >> /\ queue' = Tail(queue)
    BY <1>1, <2>3, TailOwns
  <2> QED
    BY <2>1, <2>2, <2>3
<1> QED
  BY <1>2, NowParts DEF Owns, Fine, Owed, Counts

LEMMA ListsHeld == ASSUME TypeOK, NEW V, Holds(V), Lists PROVE Base' /\ Held(V, Level)'
<1>1. /\ V \in Heights /\ Falls(V) /\ V[account.n] = Level /\ Base /\ account.n \in Nat
  BY HeldParts
<1>2. /\ list'.volume = account.volume /\ list'.n = account.n /\ resync' = FALSE
      /\ UNCHANGED <<account, queue, late, up, seeding, tracker, saved, told>>
  BY DEF Lists, Listing
<1>3. Owns(Now, queue, V)'
  BY <1>2, TerminalOwns
<1>4. Base'
  <2>1. account.n > 0 /\ account.volume > 0
    BY <1>1 DEF Base
  <2>2. list'.n <= account.n /\ list'.n # 0
    BY <1>1, <1>2, <2>1
  <2> QED
    BY <1>1, <1>2, <2>1, <2>2 DEF Base
<1>5. account.volume >= Level
  BY Constants DEF Level, TypeOK
<1>6. Falls(V)' /\ Level' = Level
  BY <1>1, <1>2, <1>5 DEF Falls, Level
<1> QED
  BY <1>1, <1>2, <1>3, <1>4, <1>6 DEF Held

LEMMA OfflineHeld == ASSUME TypeOK, NEW V, Holds(V), Offline PROVE Base' /\ Held(V, Level)'
<1>1. /\ V \in Heights /\ Falls(V) /\ V[account.n] = Level /\ Base /\ account.n \in Nat
      /\ list \in [volume : Volumes, sl : Levels, n : Nat]
  BY HeldParts DEF TypeOK
<1>2. /\ list'.volume = 0 /\ list'.n = list.n /\ list.n > 0 /\ resync' = TRUE /\ queue' = << >> /\ late' = FALSE
      /\ UNCHANGED <<account, up, seeding, tracker, saved, told>>
  BY <1>1 DEF Offline
<1>3. Owns(Now, queue, V)'
  BY <1>2, TerminalOwns
<1>4. \A i : i \notin 1..Len(queue')
  BY <1>2
<1>5. Base'
  <2>1. Len(queue') <= account.n
    <3>1. Len(queue') = 0
      BY <1>2
    <3> QED
      BY <1>1, <3>1
  <2> QED
    BY <1>1, <1>2, <1>4, <2>1 DEF Base
<1>6. Falls(V)' /\ Level' = Level
  BY <1>1, <1>2, <1>4 DEF Falls, Level
<1> QED
  BY <1>1, <1>2, <1>3, <1>5, <1>6 DEF Held

LEMMA OneLess ==
  ASSUME NEW n \in Nat, NEW size \in Nat, size <= n
  PROVE  size - 1 <= n /\ \A i \in Nat : n - size + (i + 1) = n - (size - 1) + i
  OBVIOUS

LEMMA LoseHeld == ASSUME TypeOK, NEW V, Holds(V), Lose PROVE Base' /\ Held(V, Level)'
<1>1. /\ V \in Heights /\ Falls(V) /\ V[account.n] = Level /\ Base /\ account.n \in Nat
  BY HeldParts
<1>2. /\ queue # << >> /\ queue' = Tail(queue) /\ late' = (late /\ queue' # << >>)
      /\ UNCHANGED <<account, list, resync, up, seeding, tracker, saved, told>>
  BY DEF Lose, broker
<1>3. Owns(Now, queue, V)'
  BY <1>2, TerminalOwns
<1>4. \A i \in 1..Len(queue') : queue'[i] = queue[i + 1] /\ i + 1 \in 1..Len(queue) /\ i \in Nat
  BY <1>1, <1>2, TailFacts
<1>5. Len(queue') = Len(queue) - 1 /\ Len(queue) \in Nat /\ Len(queue) <= account.n
  BY <1>1, <1>2, TailFacts DEF Base
<1>6. Base'
  <2>0. Len(queue) - 1 <= account.n /\ \A i \in Nat : account.n - Len(queue) + (i + 1) = account.n - (Len(queue) - 1) + i
    BY <1>1, <1>5, OneLess
  <2>1. Len(queue') <= account.n
    BY <1>5, <2>0
  <2>2. ASSUME NEW i \in 1..Len(queue')
        PROVE  queue'[i].n = account.n - Len(queue') + i
    <3>1. queue'[i].n = account.n - Len(queue) + (i + 1) /\ i \in Nat
      BY <1>1, <1>4 DEF Base
    <3> QED
      BY <1>5, <2>0, <3>1
  <2>3. late' = TRUE => queue' # << >> /\ "late" \in Faults /\ told'.opened = TRUE
    BY <1>1, <1>2 DEF Base, TypeOK
  <2>4. (resync' = TRUE => queue' = << >>) /\ (up' = TRUE /\ seeding' = TRUE => queue' = << >>)
    BY <1>1, <1>2 DEF Base
  <2> QED
    BY <1>1, <1>2, <2>1, <2>2, <2>3, <2>4 DEF Base
<1>7. Falls(V)' /\ Level' = Level
  BY <1>1, <1>2, <1>4 DEF Falls, Level
<1> QED
  BY <1>1, <1>2, <1>3, <1>6, <1>7 DEF Held

\* Only a position that was told of is late, without the faults of "late_open".
LEMMA DelayHeld == ASSUME Safe, TypeOK, NEW V, Holds(V), Delay PROVE Base' /\ Held(V, Level)'
<1>1. /\ V \in Heights /\ Falls(V) /\ V[account.n] = Level /\ Base /\ account.n \in Nat
  BY HeldParts
<1>2. /\ queue # << >> /\ late' = TRUE
      /\ UNCHANGED <<account, list, resync, queue, up, seeding, tracker, saved, told>>
  BY DEF Delay, broker
<1>3. told.opened = TRUE /\ "late" \in Faults
  BY SafeFaults DEF Delay, Fault, TypeOK
<1>4. Owns(Now, queue, V)'
  BY <1>2, TerminalOwns
<1>5. Falls(V)' /\ Level' = Level
  BY <1>2, FallsSame
<1>6. Base'
  BY <1>1, <1>2, <1>3 DEF Base
<1> QED
  BY <1>1, <1>2, <1>4, <1>5, <1>6 DEF Held

LEMMA TerminalHeld ==
  ASSUME Safe, TypeOK, NEW V, Holds(V),
         Start \/ Seed \/ SaveForAnother \/ Stop \/ Lists \/ Offline \/ Lose \/ Delay
  PROVE  Base' /\ Held(V, Level)'
  BY StartHeld, SeedHeld, SaveForAnotherHeld, StopHeld, ListsHeld, OfflineHeld, LoseHeld, DelayHeld

(***************************************************************************)
(* The account                                                             *)
(***************************************************************************)
Pos == [volume : Volumes, sl : Levels, n : Nat, low : Volumes, grown : BOOLEAN]

\* Without "rush" the account trades on after a fill only once it is known as it is.
LEMMA KnownMeans ==
  ASSUME TypeOK, NEW V, Holds(V), Known
  PROVE  /\ queue = << >> /\ up = TRUE /\ tracker.on = TRUE
         /\ list.volume = account.volume /\ tracker.volume = account.volume
<1>1. Fine(tracker, queue) /\ Owns(Now, queue, V) /\ account.volume > 0 /\ account.volume \in Nat
  BY HeldParts, Constants DEF Base, TypeOK
<1>2. queue = << >> /\ list.volume = account.volume /\ tracker.volume = account.volume
  BY DEF Known, Listing
<1>3. tracker.on # FALSE
  <2>1. tracker.on = FALSE => tracker.volume = 0
    BY <1>1 DEF Fine
  <2>2. account.volume # 0
    BY <1>1
  <2> QED
    BY <1>2, <2>1, <2>2
<1>4. up # FALSE
  BY <1>1, <1>3, NowParts DEF Owns
<1> QED
  BY <1>2, <1>3, <1>4 DEF TypeOK

LEMMA Settled ==
  ASSUME TypeOK, NEW V, Holds(V), account.grown = TRUE => Known
  PROVE  \E U \in Heights : Falls(U) /\ U[account.n] = account.volume /\ Owns(Now, queue, U)
<1>1. /\ V \in Heights /\ Falls(V) /\ V[account.n] = Level /\ Base /\ Owns(Now, queue, V) /\ Fine(tracker, queue)
      /\ tracker \in EntryType /\ saved \in FileType /\ account.n \in Nat
  BY HeldParts
<1>2. account.volume \in Nat /\ account.low \in Nat
  BY Constants DEF TypeOK
<1>3. CASE account.grown = TRUE
  <2> DEFINE U == [k \in Nat |-> account.volume]
  <2>1. /\ queue = << >> /\ up = TRUE /\ tracker.on = TRUE
        /\ list.volume = account.volume /\ tracker.volume = account.volume
    BY <1>3, KnownMeans
  <2>2. U \in Heights /\ \A k \in Nat : U[k] = account.volume
    BY <1>2 DEF Heights
  <2> HIDE DEF U
  <2>3. account.volume >= account.low
    <3>1. V[account.n] >= account.low /\ V[account.n] = account.volume - 1
      BY <1>1, <1>3 DEF Falls, Level
    <3> QED
      BY <1>2, <3>1
  <2>4. \A i : i \notin 1..Len(queue)
    BY <2>1
  <2>5. list.n \in Nat /\ \A k \in 0..account.n : k \in Nat
    BY <1>1 DEF TypeOK
  <2>6. Falls(U)
    <3>1. \A j, k \in 0..account.n : U[j] >= U[k]
      BY <1>2, <2>2, <2>5
    <3>2. U[account.n] >= account.low
      BY <1>1, <2>2, <2>3
    <3>3. list.volume > 0 => list.volume >= U[list.n]
      BY <1>2, <2>1, <2>2, <2>5
    <3> QED
      BY <2>4, <3>1, <3>2, <3>3 DEF Falls
  <2>7. Owed(U, tracker, queue)
    <3>1. account.n \in 0..account.n /\ tracker.volume >= U[account.n]
      BY <1>1, <1>2, <2>1, <2>2
    <3> QED
      BY <2>4, <3>1 DEF Owed, Counts
  <2>8. Owns(Now, queue, U)
    <3>1. told.opened = TRUE => saved.volume >= U[account.n]
      <4>1. told.opened = TRUE => saved.volume >= tracker.volume
        BY <1>1, <2>1, NowParts DEF Owns
      <4> QED
        BY <1>1, <2>1, <2>2, <4>1
    <3> QED
      BY <1>1, <2>7, <3>1, NowParts DEF Owns
  <2>9. U[account.n] = account.volume
    BY <1>1, <2>2
  <2> QED
    BY <2>2, <2>6, <2>8, <2>9
<1>4. CASE account.grown # TRUE
  BY <1>1, <1>4 DEF Level
<1> QED
  BY <1>3, <1>4

LEMMA OneMore ==
  ASSUME NEW n \in Nat, NEW size \in Nat, size <= n
  PROVE  size + 1 <= n + 1 /\ \A i \in Nat : n - size + i = (n + 1) - (size + 1) + i
  OBVIOUS

\* What a change of a position that is known at its volume, or had no fill, does to what waits for the EA.
LEMMA ChangeQueue ==
  ASSUME Safe, TypeOK, Base, NEW V, Owns(Now, queue, V), NEW kind, NEW volume, NEW pos, NEW rush,
         Changes(kind, volume, pos, rush)
  PROVE  /\ UNCHANGED <<list, resync, late, up, seeding, tracker, saved, told>>
         /\ account' = [pos EXCEPT !.n = account.n + 1]
         /\ Len(queue) \in Nat
         /\ \/ queue = << >> /\ queue' = << >>
            \/ /\ up = TRUE /\ resync = FALSE /\ seeding = FALSE
               /\ queue' # << >> /\ Len(queue') = Len(queue) + 1
               /\ queue'[Len(queue) + 1].n = account.n + 1
               /\ queue'[Len(queue) + 1].kind = kind /\ queue'[Len(queue) + 1].volume = volume
               /\ \A i \in 1..Len(queue) : queue'[i] = queue[i]
<1>1. UNCHANGED <<list, resync, late, up, seeding, tracker, saved, told>> /\ account' = [pos EXCEPT !.n = account.n + 1]
  BY DEF Changes
<1>2. queue \in Seq(TransactionType) /\ Len(queue) \in Nat
  BY QueueType
<1> DEFINE t == [kind |-> kind, volume |-> volume, sl |-> pos.sl, n |-> account.n + 1]
<1>3. queue' = IF Hears THEN Append(queue, t) ELSE queue
  BY DEF Changes
<1>4. ~(Hears /\ seeding)
  BY SafeFaults DEF Changes, Fault
<1>5. t.n = account.n + 1 /\ t.kind = kind /\ t.volume = volume
  OBVIOUS
<1> HIDE DEF t
<1>6. CASE ~Hears
  <2>1. queue = << >>
    BY <1>6, NowParts DEF Hears, Owns, Base, TypeOK
  <2> QED
    BY <1>1, <1>2, <1>3, <1>6, <2>1
<1>7. CASE Hears
  <2>1. up = TRUE /\ resync = FALSE /\ seeding = FALSE
    BY <1>4, <1>7 DEF Hears, TypeOK
  <2>2. queue' = Append(queue, t)
    BY <1>3, <1>7
  <2>3. Len(queue') = Len(queue) + 1 /\ queue'[Len(queue) + 1] = t /\ \A i \in 1..Len(queue) : queue'[i] = queue[i]
    BY <1>2, <2>2
  <2>4. queue' # << >>
    BY <1>2, <2>3
  <2> QED
    BY <1>1, <1>2, <1>5, <2>1, <2>3, <2>4
<1> QED
  BY <1>6, <1>7

\* What the changes of an open position have in common: its level U does not rise, and it is known after a fill.
Slight(U, kind, volume, pos, level) ==
  /\ U \in Heights /\ Falls(U) /\ U[account.n] = account.volume /\ Owns(Now, queue, U)
  /\ volume \in Nat /\ pos \in Pos /\ level \in Nat /\ level <= account.volume
  /\ level = IF pos.grown = TRUE THEN pos.volume - 1 ELSE pos.volume
  /\ pos.volume > 0 /\ pos.low > 0 /\ pos.low <= account.low /\ pos.low <= level /\ list.n > 0
  /\ kind = "out" => level + volume <= account.volume
  /\ kind = "in" => queue = << >> /\ pos.grown = TRUE /\ tracker.on = TRUE
  /\ account.grown = TRUE => queue = << >>

LEMMA ChangeHeld ==
  ASSUME Safe, TypeOK, Base, NEW U, NEW kind, NEW volume, NEW pos, NEW rush, NEW level,
         Slight(U, kind, volume, pos, level), Changes(kind, volume, pos, rush)
  PROVE  Base' /\ \E V : Held(V, Level)'
<1>a. /\ U \in Heights /\ Falls(U) /\ U[account.n] = account.volume /\ Owns(Now, queue, U)
      /\ volume \in Nat /\ pos \in Pos /\ level \in Nat /\ level <= account.volume
      /\ level = IF pos.grown = TRUE THEN pos.volume - 1 ELSE pos.volume
      /\ pos.volume > 0 /\ pos.low > 0 /\ pos.low <= account.low /\ pos.low <= level /\ list.n > 0
      /\ kind = "out" => level + volume <= account.volume
      /\ kind = "in" => queue = << >> /\ pos.grown = TRUE /\ tracker.on = TRUE
      /\ account.grown = TRUE => queue = << >>
  BY DEF Slight
<1> USE <1>a
<1>0. PICK V : V = [U EXCEPT ![account.n + 1] = level]
  OBVIOUS
<1> DEFINE last == Len(queue) + 1
<1>1. account.n \in Nat /\ account.n + 1 \in Nat /\ account.volume \in Nat /\ account.low \in Nat /\ list.n \in Nat
      /\ account.n > 0 /\ list.n <= account.n /\ pos.low \in Nat /\ pos.volume \in Nat
  <2>1. account.n > 0 /\ list.n <= account.n
    BY DEF Base
  <2>2. account.n \in Nat /\ account.volume \in Nat /\ account.low \in Nat /\ list.n \in Nat
    BY Constants DEF TypeOK
  <2>3. pos.low \in Nat /\ pos.volume \in Nat
    BY Constants DEF Pos
  <2> QED
    BY <2>1, <2>2, <2>3
<1>2. /\ UNCHANGED <<list, resync, late, up, seeding, tracker, saved, told>>
      /\ account' = [pos EXCEPT !.n = account.n + 1]
      /\ Len(queue) \in Nat
      /\ \/ queue = << >> /\ queue' = << >>
         \/ /\ up = TRUE /\ resync = FALSE /\ seeding = FALSE
            /\ queue' # << >> /\ Len(queue') = last
            /\ queue'[last].n = account.n + 1 /\ queue'[last].kind = kind /\ queue'[last].volume = volume
            /\ \A i \in 1..Len(queue) : queue'[i] = queue[i]
  BY ChangeQueue
<1>3. /\ account'.n = account.n + 1 /\ account'.volume = pos.volume /\ account'.low = pos.low
      /\ account'.grown = pos.grown
  BY <1>2 DEF Pos
<1>4. V \in Heights /\ V[account.n + 1] = level /\ \A k \in 0..account.n : V[k] = U[k] /\ k \in Nat /\ k <= account.n
  <2>1. V \in Heights /\ V[account.n + 1] = level
    BY <1>0, <1>1 DEF Heights
  <2>2. ASSUME NEW k \in 0..account.n
        PROVE  V[k] = U[k] /\ k \in Nat /\ k <= account.n
    <3>1. k \in Nat /\ k <= account.n /\ k # account.n + 1
      BY <1>1
    <3> QED
      BY <1>0, <3>1 DEF Heights
  <2> QED
    BY <2>1, <2>2
\* What waits is as it was, or the change that was made.
<1>5. ASSUME NEW i \in 1..Len(queue')
      PROVE  \/ i \in 1..Len(queue) /\ queue'[i] = queue[i]
             \/ /\ i = last /\ Len(queue') = last
                /\ queue'[i].n = account.n + 1 /\ queue'[i].kind = kind /\ queue'[i].volume = volume
  <2>1. CASE queue' = << >>
    BY <2>1
  <2>2. CASE Len(queue') = last
    <3>1. i \in 1..Len(queue) \/ i = last
      BY <1>2, <2>2
    <3> QED
      BY <1>2, <2>2, <3>1
  <2> QED
    BY <1>2, <2>1, <2>2
<1>6. \A i \in 1..Len(queue) : queue[i].n = account.n - Len(queue) + i /\ queue[i].n \in Nat /\ queue[i].n <= account.n
  <2>1. queue \in Seq(TransactionType)
    BY QueueType
  <2> SUFFICES ASSUME NEW i \in 1..Len(queue)
               PROVE  queue[i].n = account.n - Len(queue) + i /\ queue[i].n \in Nat /\ queue[i].n <= account.n
    OBVIOUS
  <2>2. queue[i].n = account.n - Len(queue) + i /\ queue[i] \in TransactionType /\ i \in Nat /\ i <= Len(queue)
    BY <1>2, <2>1 DEF Base
  <2>3. account.n - Len(queue) + i <= account.n
    BY <1>1, <1>2, <2>2
  <2> QED
    BY <2>2, <2>3 DEF TransactionType
<1>7. Base'
  <2>1. Len(queue') <= account'.n /\ \A i \in 1..Len(queue') : queue'[i].n = account'.n - Len(queue') + i
    <3>1. CASE queue' = << >>
      <4>1. Len(queue') = 0 /\ \A i : i \notin 1..Len(queue')
        BY <3>1
      <4> QED
        BY <1>1, <1>3, <4>1
    <3>2. CASE Len(queue') = last
      <4>1. /\ Len(queue) + 1 <= account.n + 1
            /\ \A i \in Nat : account.n - Len(queue) + i = (account.n + 1) - (Len(queue) + 1) + i
        <5>1. account.n \in Nat /\ Len(queue) \in Nat /\ Len(queue) <= account.n
          BY <1>1, <1>2 DEF Base
        <5> QED
          BY <5>1, OneMore, Zenon
      <4>2. ASSUME NEW i \in 1..Len(queue')
            PROVE  queue'[i].n = (account.n + 1) - (Len(queue) + 1) + i
        <5>1. CASE i \in 1..Len(queue) /\ queue'[i] = queue[i]
          <6>1. i \in Nat
            BY <1>2, <5>1
          <6> QED
            BY <1>6, <4>1, <5>1, <6>1
        <5>2. CASE i = last /\ queue'[i].n = account.n + 1
          BY <1>1, <1>2, <5>2
        <5> QED
          BY <1>5, <5>1, <5>2
      <4> QED
        BY <1>3, <3>2, <4>1, <4>2
    <3> QED
      BY <1>2, <3>1, <3>2
  <2>2. list.n <= account.n + 1 /\ account.n + 1 > 0
    BY <1>1
  <2>3. /\ list.n > 0 /\ resync = FALSE => list.volume > 0
        /\ resync = TRUE => queue' = << >>
        /\ up = TRUE /\ seeding = TRUE => queue' = << >>
        /\ late = TRUE => queue' # << >> /\ "late" \in Faults /\ told.opened = TRUE
    BY <1>2 DEF Base
  <2>4. list.n # 0
    BY <1>1
  <2> QED
    BY <1>2, <1>3, <2>1, <2>2, <2>3, <2>4 DEF Base
<1>8. Falls(V)'
  <2>1. ASSUME NEW j \in 0..account.n + 1, NEW k \in 0..account.n + 1, j <= k
        PROVE  V[j] >= V[k]
    <3>1. CASE k \in 0..account.n /\ j \in 0..account.n
      BY <1>4, <2>1, <3>1 DEF Falls
    <3>2. CASE k = account.n + 1 /\ j \in 0..account.n
      <4>1. U[j] >= U[account.n] /\ U[j] \in Nat
        BY <3>2, FallsTo
      <4> QED
        BY <1>1, <1>4, <3>2, <4>1
    <3>3. CASE k = account.n + 1 /\ j = account.n + 1
      BY <1>1, <1>4, <3>3
    <3> QED
      BY <1>1, <2>1, <3>1, <3>2, <3>3
  <2>2. V[account'.n] >= account'.low
    BY <1>1, <1>3, <1>4
  <2>3. ASSUME NEW i \in 1..Len(queue'), queue'[i].kind = "out"
        PROVE  queue'[i].n > 1 /\ V[queue'[i].n - 1] >= V[queue'[i].n] + queue'[i].volume
    <3>1. CASE i \in 1..Len(queue) /\ queue'[i] = queue[i]
      <4>1. queue[i].n > 1 /\ U[queue[i].n - 1] >= U[queue[i].n] + queue[i].volume /\ queue[i].n \in Nat /\ queue[i].n <= account.n
        BY <1>6, <2>3, <3>1 DEF Falls
      <4>2. queue[i].n \in 0..account.n /\ queue[i].n - 1 \in 0..account.n
        <5>1. queue[i].n \in Nat /\ queue[i].n > 1 /\ queue[i].n <= account.n /\ account.n \in Nat
          BY <1>1, <4>1
        <5> DEFINE m == queue[i].n
        <5>2. m \in Nat /\ m > 1 /\ m <= account.n
          BY <5>1
        <5> HIDE DEF m
        <5>3. m \in 0..account.n /\ m - 1 \in 0..account.n
          BY <5>1, <5>2
        <5> QED
          BY <5>3 DEF m
      <4> QED
        BY <1>4, <3>1, <4>1, <4>2
    <3>2. CASE queue'[i].n = account.n + 1 /\ queue'[i].kind = kind /\ queue'[i].volume = volume
      <4>1. level + volume <= account.volume
        BY <2>3, <3>2
      <4>2. account.n \in 0..account.n /\ account.n + 1 - 1 = account.n /\ account.n + 1 > 1
        BY SMTT(30), <1>1
      <4>3. V[account.n] = account.volume /\ V[account.n + 1] = level
        BY <1>4, <4>2
      <4> QED
        BY <1>1, <3>2, <4>1, <4>2, <4>3
    <3> QED
      BY <1>5, <3>1, <3>2
  <2>4. ASSUME NEW i \in 1..Len(queue'), queue'[i].kind = "in", queue'[i].n = 1
        PROVE  queue'[i].volume >= V[1]
    <3>1. account.n + 1 # 1 /\ 1 \in 0..account.n
      BY <1>1
    <3>2. i \in 1..Len(queue) /\ queue'[i] = queue[i]
      BY <1>5, <2>4, <3>1
    <3> QED
      BY <1>4, <2>4, <3>1, <3>2 DEF Falls
  <2>5. list.volume > 0 => list.volume >= V[list.n]
    <3>1. list.n \in 0..account.n
      BY <1>1
    <3> QED
      BY <1>4, <3>1 DEF Falls
  <2>6. \A j, k \in 0..account'.n : j <= k => V[j] >= V[k]
    BY <1>3, <2>1
  <2>7. list' = list
    BY <1>2
  <2> QED
    BY <2>2, <2>3, <2>4, <2>5, <2>6, <2>7 DEF Falls
<1>9. Fine(tracker, queue)'
  <2>0. Fine(tracker, queue) /\ tracker.synced \in Nat
    BY NowParts DEF Owns, TypeOK
  <2>1. tracker.synced <= account.n + 1 /\ account.n + 1 > tracker.synced
    <3>1. tracker.synced <= account.n
      BY <2>0 DEF Fine
    <3> QED
      BY <1>1, <2>0, <3>1
  <2>2. ASSUME "history" \in Faults, NEW i \in 1..Len(queue')
        PROVE  queue'[i].n > tracker.synced
    BY <1>5, <2>0, <2>1, <2>2 DEF Fine
  <2>3. ASSUME NEW i \in 1..Len(queue'), queue'[i].kind = "in"
        PROVE  \/ queue'[i].n = 1 /\ i = 1 /\ tracker.on = FALSE
               \/ Len(queue') = 1 /\ pos.grown = TRUE /\ tracker.on = TRUE
    <3>1. CASE i \in 1..Len(queue) /\ queue'[i] = queue[i]
      <4>1. account.grown # TRUE
        <5>1. queue # << >>
          BY <3>1
        <5> QED
          BY <5>1
      <4> QED
        BY <2>0, <2>3, <3>1, <4>1 DEF Fine
    <3>2. CASE i = last /\ Len(queue') = last /\ queue'[i].kind = kind
      <4>1. queue = << >> /\ pos.grown = TRUE /\ tracker.on = TRUE
        BY <2>3, <3>2
      <4>2. Len(queue') = 1
        BY <3>2, <4>1
      <4> QED
        BY <4>1, <4>2
    <3> QED
      BY <1>5, <3>1, <3>2
  <2>4. tracker.on = FALSE => tracker.volume = 0
    BY <2>0 DEF Fine
  <2> QED
    BY <1>2, <1>3, <2>1, <2>2, <2>3, <2>4 DEF Fine
<1>10. Owns(Now, queue, V)'
  <2>1. up = FALSE => tracker.on = FALSE /\ queue' = << >>
    BY <1>2, NowParts DEF Owns
  <2>2. (saved.on = FALSE => saved.volume = 0) /\ saved.synced <= account.n + 1
    <3>1. (saved.on = FALSE => saved.volume = 0) /\ saved.synced <= account.n /\ saved.synced \in Nat
      BY NowParts DEF Owns, TypeOK
    <3> QED
      BY <1>1, <3>1
  <2>3. ASSUME told.opened = TRUE
        PROVE  /\ told.left >= Least(pos.low, told.first)
               /\ saved.on = TRUE /\ saved.volume >= level
               /\ up = TRUE => tracker.on = TRUE /\ saved.volume >= tracker.volume /\ Owed(V, tracker, queue)'
    <3>1. /\ told.left >= Least(account.low, told.first)
          /\ saved.on = TRUE /\ saved.volume >= account.volume
          /\ up = TRUE => tracker.on = TRUE /\ saved.volume >= tracker.volume /\ Owed(U, tracker, queue)
      BY <2>3, NowParts DEF Owns
    <3>2. told.left \in Nat /\ told.first \in Nat /\ saved.volume \in Nat
      BY Constants DEF TypeOK
    <3>3. told.left >= Least(pos.low, told.first)
      BY SMTT(30), <1>1, <3>1, <3>2 DEF Least
    <3>4. saved.volume >= level
      BY <1>1, <3>1, <3>2
    <3>5. ASSUME up = TRUE
          PROVE  Owed(V, tracker, queue)'
      <4>1. PICK K \in 0..account.n : Counts(U, K, tracker, queue)
        BY <3>1, <3>5 DEF Owed
      <4>2. K \in 0..account.n + 1 /\ K < account.n + 1 /\ V[K] = U[K]
        BY <1>1, <1>4
      <4>3. \A i \in 1..Len(queue') : queue'[i].kind = "out" /\ queue'[i].n > tracker.synced => queue'[i].n > K
        BY <1>5, <4>1, <4>2 DEF Counts
      <4>4. tracker' = tracker /\ tracker.volume >= V[K] /\ K \in 0..account'.n
        BY <1>2, <1>3, <4>1, <4>2 DEF Counts
      <4>5. Counts(V, K, tracker, queue)'
        BY <4>3, <4>4 DEF Counts
      <4> QED
        BY <4>4, <4>5 DEF Owed
    <3> QED
      BY <3>1, <3>3, <3>4, <3>5
  <2>4. V[account.n + 1] = level
    BY <1>4
  <2>5. /\ tracker' = tracker /\ saved' = saved /\ told' = told /\ up' = up
        /\ account'.n = account.n + 1 /\ account'.low = pos.low
    BY <1>2, <1>3
  <2> QED
    BY <1>9, <2>1, <2>2, <2>3, <2>4, <2>5, NowParts DEF Owns
<1>11. V[account'.n] = Level'
  BY <1>3, <1>4 DEF Level
<1>12. Held(V, Level)'
  <2>1. V \in Heights
    BY <1>4
  <2> QED
    BY <1>8, <1>10, <1>11, <2>1 DEF Held
<1> QED
  BY <1>7, <1>12

LEMMA LowLess == ASSUME NEW a \in Nat, NEW b \in Nat PROVE Least(a, b) \in Nat /\ Least(a, b) <= a /\ Least(a, b) <= b
                                                           /\ (a > 0 /\ b > 0 => Least(a, b) > 0)
  BY DEF Least

LEMMA AccountFacts ==
  ASSUME TypeOK, NEW V, Holds(V)
  PROVE  /\ account \in Pos /\ account.volume \in Nat /\ account.low \in Nat /\ account.n \in Nat
         /\ account.volume > 0 /\ account.low > 0 /\ account.low <= account.volume /\ Base
<1>1. account \in Pos /\ account.volume \in Nat /\ account.low \in Nat /\ account.n \in Nat
  BY Constants DEF TypeOK, Pos
<1>2. Base /\ V[account.n] >= account.low /\ V[account.n] = Level
  BY HeldParts DEF Falls
<1>3. Level <= account.volume /\ Level \in Int
  BY <1>1 DEF Level
<1>4. account.low <= account.volume
  BY <1>1, <1>2, <1>3
<1> QED
  BY <1>1, <1>2, <1>4 DEF Base

LEMMA FillHeld == ASSUME Safe, TypeOK, NEW V, Holds(V), Fill PROVE Base' /\ \E W : Held(W, Level)'
<1> DEFINE pos == [account EXCEPT !.volume = account.volume + 1, !.grown = TRUE]
<1>1. /\ account \in Pos /\ account.volume \in Nat /\ account.low \in Nat
      /\ account.volume > 0 /\ account.low > 0 /\ account.low <= account.volume /\ Base
  BY AccountFacts
<1>2. Changes("in", 1, pos, ~Known) /\ list.n > 0 /\ account.volume < Lots
  BY DEF Fill, Live
<1>3. Known
  BY <1>2, SafeFaults DEF Changes, Fault
<1>4. queue = << >> /\ tracker.on = TRUE
  BY <1>3, KnownMeans
<1>5. PICK U \in Heights : Falls(U) /\ U[account.n] = account.volume /\ Owns(Now, queue, U)
  BY <1>3, Settled
<1>6. /\ pos \in Pos /\ pos.volume = account.volume + 1 /\ pos.grown = TRUE /\ pos.low = account.low
  <2>1. account.volume + 1 \in Volumes
    BY <1>1, <1>2, Constants
  <2> QED
    BY <1>1, <2>1 DEF Pos
<1> HIDE DEF pos
<1>7. account.volume = pos.volume - 1 /\ pos.volume > 0 /\ pos.low > 0 /\ pos.low <= account.low /\ pos.low <= account.volume
  BY <1>1, <1>6
<1>8. account.volume = IF pos.grown = TRUE THEN pos.volume - 1 ELSE pos.volume
  BY <1>6, <1>7
<1>9. account.volume <= account.volume /\ 1 \in Nat
  BY <1>1
<1>10. Slight(U, "in", 1, pos, account.volume)
  BY <1>1, <1>2, <1>4, <1>5, <1>6, <1>7, <1>8, <1>9 DEF Slight
<1> QED
  BY <1>1, <1>2, <1>10, ChangeHeld

LEMMA ShrinkHeld ==
  ASSUME Safe, TypeOK, NEW V, Holds(V), NEW volume \in 1..Lots, Shrink(volume)
  PROVE  Base' /\ \E W : Held(W, Level)'
<1> DEFINE left == account.volume - volume
           pos == [account EXCEPT !.volume = left, !.low = Least(account.low, left), !.grown = FALSE]
<1>1. /\ account \in Pos /\ account.volume \in Nat /\ account.volume \in Volumes /\ account.low \in Nat /\ account.low \in Volumes
      /\ account.volume > 0 /\ account.low > 0 /\ account.low <= account.volume /\ Base
  BY AccountFacts DEF Pos
<1>2. Changes("out", volume, pos, account.grown /\ ~Known) /\ list.n > 0 /\ left > 0
  BY DEF Shrink, Live
<1>3. account.grown = TRUE => Known
  BY <1>2, SafeFaults DEF Changes, Fault
<1>4. account.grown = TRUE => queue = << >>
  BY <1>3, KnownMeans
<1>5. PICK U \in Heights : Falls(U) /\ U[account.n] = account.volume /\ Owns(Now, queue, U)
  BY <1>3, Settled
<1>6. left \in Nat /\ left \in Volumes /\ left <= account.volume /\ left + volume = account.volume /\ volume \in Nat
  <2>1. volume \in Nat /\ volume > 0 /\ Volumes = 0..Lots /\ Lots \in Nat
    BY Constants
  <2> QED
    BY <1>1, <1>2, <2>1
<1> HIDE DEF left
<1>7. Least(account.low, left) \in Nat /\ Least(account.low, left) <= account.low /\ Least(account.low, left) <= left
      /\ Least(account.low, left) > 0
  BY <1>1, <1>2, <1>6, LowLess
<1>8. Least(account.low, left) \in Volumes
  BY <1>1, <1>6, LeastType
<1>9. pos \in Pos /\ pos.volume = left /\ pos.grown = FALSE /\ pos.low = Least(account.low, left)
  BY <1>1, <1>6, <1>8 DEF Pos
<1> HIDE DEF pos
<1>10. left = IF pos.grown = TRUE THEN pos.volume - 1 ELSE pos.volume
  BY <1>9
<1>11. left + volume <= account.volume
  BY <1>1, <1>6
<1>12. Slight(U, "out", volume, pos, left)
  BY <1>1, <1>2, <1>4, <1>5, <1>6, <1>7, <1>9, <1>10, <1>11 DEF Slight
<1> QED
  BY <1>1, <1>2, <1>12, ChangeHeld

LEMMA SetStopHeld ==
  ASSUME Safe, TypeOK, NEW V, Holds(V), NEW sl \in Levels, SetStop(sl)
  PROVE  Base' /\ \E W : Held(W, Level)'
<1> DEFINE pos == [account EXCEPT !.sl = sl, !.grown = FALSE]
<1>1. /\ account \in Pos /\ account.volume \in Nat /\ account.low \in Nat
      /\ account.volume > 0 /\ account.low > 0 /\ account.low <= account.volume /\ Base
  BY AccountFacts
<1>2. Changes("stop", 0, pos, account.grown /\ ~Known) /\ list.n > 0
  BY DEF SetStop, Live
<1>3. account.grown = TRUE => Known
  BY <1>2, SafeFaults DEF Changes, Fault
<1>4. account.grown = TRUE => queue = << >>
  BY <1>3, KnownMeans
<1>5. PICK U \in Heights : Falls(U) /\ U[account.n] = account.volume /\ Owns(Now, queue, U)
  BY <1>3, Settled
<1>6. pos \in Pos /\ pos.volume = account.volume /\ pos.grown = FALSE /\ pos.low = account.low
  BY <1>1 DEF Pos
<1> HIDE DEF pos
<1>7. account.volume = IF pos.grown = TRUE THEN pos.volume - 1 ELSE pos.volume
  BY <1>6
<1>8. account.volume <= account.volume /\ account.low <= account.low /\ 0 \in Nat
  BY <1>1
<1>9. Slight(U, "stop", 0, pos, account.volume)
  BY <1>1, <1>2, <1>4, <1>5, <1>6, <1>7, <1>8 DEF Slight
<1> QED
  BY <1>1, <1>2, <1>9, ChangeHeld

\* The opening: the EA knows nothing, and what it is to handle comes first.
LEMMA OpenHeld ==
  ASSUME Safe, TypeOK, Fresh, NEW sl \in Levels, Open(sl)
  PROVE  account'.n > 0 /\ account'.low > 0 /\ Base' /\ \E W : Held(W, Level)'
<1> DEFINE pos == [account EXCEPT !.volume = Lots, !.sl = sl, !.low = Lots]
           t == [kind |-> "in", volume |-> Lots, sl |-> pos.sl, n |-> account.n + 1]
<1>0. PICK V : V = [k \in Nat |-> Lots]
  OBVIOUS
<1>1. Lots \in Nat /\ Lots > 0 /\ account \in Pos
  BY Constants DEF TypeOK, Pos
<1>2. V \in Heights /\ \A k \in Nat : V[k] = Lots
  BY <1>0, <1>1 DEF Heights
<1>3. account.n = 0 /\ Changes("in", Lots, pos, FALSE)
  BY DEF Open
<1>4. /\ UNCHANGED <<list, resync, late, up, seeding, tracker, saved, told>>
      /\ account' = [pos EXCEPT !.n = 1]
      /\ queue' = IF Hears THEN Append(queue, t) ELSE queue
  BY <1>3 DEF Changes
<1>5. /\ account'.n = 1 /\ account'.volume = Lots /\ account'.low = Lots /\ account'.grown = FALSE
  BY <1>1, <1>4 DEF Pos, Fresh
<1>6. ~(Hears /\ seeding)
  BY <1>3, SafeFaults DEF Changes, Fault
<1>7. t.n = 1 /\ t.kind = "in" /\ t.volume = Lots
  BY <1>3
<1> HIDE DEF t, pos
<1>8. /\ queue' # << >> => up = TRUE /\ seeding = FALSE /\ Len(queue') = 1 /\ queue'[1] = t
      /\ Len(queue') \in {0, 1} /\ (Len(queue') = 1 => queue' # << >>)
      /\ \A i \in 1..Len(queue') : i = 1
  <2>1. CASE Hears
    <3>1. queue' = << t >>
      BY <1>4, <2>1 DEF Fresh
    <3>2. up = TRUE /\ seeding = FALSE
      BY <1>6, <2>1 DEF Hears, TypeOK
    <3> QED
      BY <3>1, <3>2
  <2>2. CASE ~Hears
    BY <1>4, <2>2 DEF Fresh
  <2> QED
    BY <2>1, <2>2
<1>9. \A i \in 1..Len(queue') : i = 1 /\ Len(queue') = 1 /\ queue'[i].n = 1 /\ queue'[i].kind = "in" /\ queue'[i].volume = Lots
  <2> SUFFICES ASSUME NEW i \in 1..Len(queue')
               PROVE  i = 1 /\ Len(queue') = 1 /\ queue'[i].n = 1 /\ queue'[i].kind = "in" /\ queue'[i].volume = Lots
    OBVIOUS
  <2>1. i = 1 /\ queue' # << >>
    BY <1>8
  <2> QED
    BY <1>7, <1>8, <2>1
<1>10. Base'
  <2>1. \A i \in 1..Len(queue') : queue'[i].n = 1 - Len(queue') + i
    BY <1>9
  <2>2. Len(queue') <= 1 /\ 1 <= 1 /\ 1 > 0 /\ 0 <= 1
    BY <1>8
  <2>3. list.n = 0 /\ list.volume = 0 /\ resync = FALSE /\ late = FALSE
    BY DEF Fresh
  <2>4. up = TRUE /\ seeding = TRUE => queue' = << >>
    BY <1>8
  <2> QED
    BY <1>1, <1>4, <1>5, <2>1, <2>2, <2>3, <2>4 DEF Base
<1>11. Falls(V)'
  <2>1. \A j, k \in 0..1 : j <= k => V[j] >= V[k]
    BY <1>1, <1>2
  <2>2. V[1] >= Lots /\ V[1] = Lots
    BY <1>1, <1>2
  <2>3. list'.volume = 0
    BY <1>4 DEF Fresh
  <2> QED
    BY <1>1, <1>5, <1>9, <2>1, <2>2, <2>3 DEF Falls
<1>12. Fine(tracker, queue)'
  <2>1. tracker'.on = FALSE /\ tracker'.volume = 0 /\ tracker'.synced = 0
    BY <1>4 DEF Fresh
  <2> QED
    BY <1>5, <1>9, <2>1 DEF Fine
<1>13. Owns(Now, queue, V)'
  <2>1. tracker'.on = FALSE /\ saved'.volume = 0 /\ saved'.synced = 0 /\ told'.opened = FALSE /\ up' = up
    BY <1>4 DEF Fresh
  <2>2. up = FALSE => queue' = << >>
    BY <1>8
  <2> QED
    BY <1>5, <1>12, <2>1, <2>2, NowParts DEF Owns
<1>14. Level' = Lots /\ V[1] = Lots
  BY <1>1, <1>2, <1>5 DEF Level
<1>15. Held(V, Level)'
  BY <1>2, <1>5, <1>11, <1>13, <1>14 DEF Held
<1> QED
  BY <1>1, <1>5, <1>10, <1>15

(***************************************************************************)
(* NeverToldLess                                                           *)
(***************************************************************************)
EaStep ==
  \/ OnTransaction \/ Reconcile \/ ReconcileLater
  \/ Start \/ Seed \/ SaveForAnother \/ Stop
  \/ Lists \/ Offline \/ Lose \/ Delay

LEMMA EaStepAccount == ASSUME EaStep PROVE account' = account
  BY DEF EaStep, OnTransaction, OnDeal, OnDealNotInHistory, OnPositionChange, Reconcile, ReconcileLater, Ends,
         Start, Seed, SaveForAnother, Stop, Lists, Offline, Lose, Delay, broker

\* Nothing is known of the position.
Blank(x) ==
  /\ x.tracker.on = FALSE /\ x.tracker.volume = 0 /\ x.tracker.synced = 0
  /\ x.saved.on = FALSE /\ x.saved.volume = 0 /\ x.saved.synced = 0
  /\ x.told = told

LEMMA FreshBecomes ==
  ASSUME Fresh, NEW S, Becomes(S, queue), UNCHANGED broker, \A x \in S : Blank(x)
  PROVE  Fresh'
<1>1. PICK w \in S : /\ tracker' = w.tracker /\ saved' = w.saved /\ told' = w.told
                     /\ queue' = IF w.up THEN queue ELSE << >>
  BY DEF Becomes
<1>2. queue' = << >> /\ late' = FALSE
  BY <1>1 DEF Becomes, Fresh
<1>3. account' = account /\ list' = list /\ resync' = resync
  BY DEF broker
<1>4. /\ tracker'.on = FALSE /\ tracker'.volume = 0 /\ tracker'.synced = 0
      /\ saved'.on = FALSE /\ saved'.volume = 0 /\ saved'.synced = 0 /\ told' = told
  BY <1>1 DEF Blank
<1> QED
  BY <1>2, <1>3, <1>4 DEF Fresh

\* Before the opening nothing happens to the position, and nobody hears of it.
LEMMA FreshKept == ASSUME Safe, TypeOK, Fresh, account.n = 0, EaStep PROVE Fresh'
<1>0. account' = account
  BY EaStepAccount
<1>1. queue = << >> /\ tracker.on = FALSE /\ ~Selectable /\ list.n = 0
  BY DEF Fresh, Selectable
<1>2. ~OnTransaction /\ ~ReconcileLater /\ ~Offline /\ ~Lose /\ ~Delay
  BY <1>1 DEF OnTransaction, ReconcileLater, Offline, Lose, Delay
<1>3. \A x \in {Now} : Blank(x)
  BY NowParts DEF Fresh, Blank
<1>4. CASE Reconcile
  <2>1. Becomes({Now}, queue) /\ UNCHANGED broker
    BY <1>1, <1>4 DEF Reconcile, Ends
  <2> QED
    BY <1>3, <2>1, FreshBecomes
<1>5. CASE Start \/ Seed
  <2>1. CASE Start
    <3>1. /\ tracker' = Loaded(saved)
          /\ UNCHANGED <<list, resync, queue, late, saved, told>>
      BY <2>1, SafeFaults DEF Start, Fault, broker
    <3>2. tracker'.on = FALSE /\ tracker'.volume = 0 /\ tracker'.synced = 0
      BY <3>1 DEF Fresh, Loaded, Tracked, Untracked
    <3> QED
      BY <1>0, <3>1, <3>2 DEF Fresh
  <2>2. CASE Seed
    <3>1. Becomes({Now}, queue) /\ UNCHANGED broker
      BY <1>1, <2>2 DEF Seed
    <3> QED
      BY <1>3, <3>1, FreshBecomes
  <2> QED
    BY <1>5, <2>1, <2>2
<1>8. CASE SaveForAnother
  <2>1. Becomes(SaveTracker(Now), queue) /\ UNCHANGED broker /\ Now \in EaType
    BY <1>8, NowType DEF SaveForAnother, Ends
  <2>2. ASSUME NEW x \in SaveTracker(Now)
        PROVE  Blank(x)
    <3>1. /\ x.told = told /\ x.saved = OnDisk(tracker)
          /\ x.tracker = tracker \/ x.tracker = Untracked
      BY <2>1, <2>2, SaveOutcome, SafeFaults, NowParts
    <3> QED
      BY <3>1 DEF Fresh, Blank, OnDisk, Untracked
  <2> QED
    BY <2>1, <2>2, FreshBecomes
<1>6. CASE Stop
  BY <1>6 DEF Stop, Fresh, broker, Untracked
<1>7. CASE Lists
  BY <1>7 DEF Lists, Fresh, Listing
<1> QED
  BY <1>2, <1>4, <1>5, <1>6, <1>7, <1>8 DEF EaStep

LEMMA EaStepHeld == ASSUME Safe, TypeOK, NEW V, Holds(V), EaStep PROVE Base' /\ Held(V, Level)'
<1>1. CASE OnTransaction
  BY <1>1, TransactionHeld
<1>2. CASE Reconcile \/ ReconcileLater
  BY <1>2, SweepHeld
<1>3. CASE Start \/ Seed \/ SaveForAnother \/ Stop \/ Lists \/ Offline \/ Lose \/ Delay
  BY <1>3, TerminalHeld
<1> QED
  BY <1>1, <1>2, <1>3 DEF EaStep

LEMMA NextLess == ASSUME Safe, TypeOK, LessInv, [Next]_vars PROVE LessInv'
<1>1. account.low > 0 => \E V : Holds(V)
  BY DEF LessInv, Holds
<1>2. account.n = 0 => Fresh /\ account.low = 0
  BY DEF LessInv, Fresh
<1>3. account.low \in Nat /\ account.n \in Nat
  BY Constants DEF TypeOK
<1>4. CASE UNCHANGED vars
  BY <1>4 DEF vars, broker, LessInv, Fresh, Base, Held, Falls, Owns, Fine, Owed, Counts, Level, Now
<1>5. CASE EaStep
  <2>1. account' = account
    BY <1>5, EaStepAccount
  <2>2. account.n = 0 => Fresh'
    BY <1>2, <1>5, FreshKept
  <2>3. account.low > 0 => Base' /\ \E V : Held(V, Level)'
    BY <1>1, <1>5, EaStepHeld
  <2> QED
    BY <2>1, <2>2, <2>3 DEF LessInv
<1>6. ASSUME account'.n > 0, account'.low > 0 => Base' /\ \E V : Held(V, Level)', account'.low = 0 => account'.volume = 0
      PROVE  LessInv'
  BY <1>6 DEF LessInv
<1>7. CASE Close
  <2>1. account' = [[account EXCEPT !.volume = 0, !.sl = 0, !.low = 0] EXCEPT !.n = account.n + 1]
    BY <1>7 DEF Close, Changes
  <2>2. account'.n = account.n + 1 /\ account'.low = 0 /\ account'.volume = 0
    BY <2>1 DEF TypeOK
  <2> QED
    BY <1>3, <1>6, <2>2
<1>8. ASSUME Fill \/ (\E sl \in Stops \union {0} : SetStop(sl)) \/ (\E volume \in 1..Lots : Shrink(volume))
      PROVE  LessInv'
  <2>1. account.volume > 0 /\ account.low > 0
    <3>1. account.volume > 0
      BY <1>8 DEF Fill, SetStop, Shrink, Live
    <3>2. account.low = 0 => account.volume = 0
      BY DEF LessInv
    <3> QED
      BY <1>3, <3>1, <3>2
  <2>2. PICK V : Holds(V)
    BY <1>1, <2>1
  <2>3. Base' /\ \E W : Held(W, Level)'
    BY <1>8, <2>2, FillHeld, SetStopHeld, ShrinkHeld DEF Levels
  <2> QED
    <3>1. account'.n > 0 /\ account'.low > 0
      BY <2>3 DEF Base
    <3>2. account'.n # 0 /\ account'.low # 0
      BY <3>1
    <3> QED
      BY <2>3, <3>2 DEF LessInv
<1>9. ASSUME NEW sl \in Stops \union {0}, Open(sl)
      PROVE  LessInv'
  <2>1. account.n = 0
    BY <1>9 DEF Open
  <2>2. sl \in Levels
    BY DEF Levels
  <2> QED
    BY <1>2, <1>6, <1>9, <2>1, <2>2, OpenHeld
<1> QED
  BY <1>4, <1>5, <1>7, <1>8, <1>9 DEF Next, EaStep

LEMMA InitLess == Init => LessInv
<1> SUFFICES ASSUME Init PROVE LessInv
  OBVIOUS
<1>1. account.n = 0 /\ account.volume = 0 /\ account.low = 0 /\ account.grown = FALSE
  BY DEF Init
<1>2. saved.on = FALSE /\ saved.volume = 0 /\ saved.synced = 0 /\ told.opened = FALSE
  BY DEF Init
<1>3. Fresh
  BY <1>1, <1>2 DEF Init, Fresh, Untracked
<1> QED
  BY <1>1, <1>3 DEF LessInv

(* The events never close more of a position than the account did, for    *)
(* every volume and number of changes and whatever else fails: lines that *)
(* cannot be written, a tracker's file not opened after a close, lost     *)
(* transactions, late ones or deals the history does not have yet, a list *)
(* that lags or is empty, an EA that stops or dies at any time            *)
(* (SourceHandler.mqh:17-24).  Not so under the faults of the assumption: *)
(* a reader can then be told of a close twice.                            *)
THEOREM NeverTellsLess ==
  ASSUME {"unsaved_open", "torn", "unreadable", "late_open", "misread", "rush"} \cap Faults = {},
         "history" \notin Faults \/ "late" \notin Faults
  PROVE  Spec => []NeverToldLess
<1>1. Safe
  BY DEF Safe, FileKept
<1>2. TypeOK /\ LessInv => NeverToldLess
  <2> SUFFICES ASSUME TypeOK, LessInv, told.opened PROVE told.left >= Least(account.low, told.first)
    BY DEF NeverToldLess
  <2>1. told.left \in Nat /\ told.first \in Nat /\ account.low \in Nat /\ told.opened = TRUE
    BY Constants DEF TypeOK
  <2>2. CASE account.low = 0
    BY <2>1, <2>2 DEF Least
  <2>3. CASE account.low > 0
    BY <2>1, <2>3, NowParts DEF LessInv, Held, Owns
  <2> QED
    BY <2>1, <2>2, <2>3
<1>3. TypeOK /\ LessInv /\ [Next]_vars => LessInv'
  BY <1>1, NextLess
<1> QED
  BY <1>2, <1>3, InitLess, CopierTypes, PTL DEF Spec
=============================================================================
