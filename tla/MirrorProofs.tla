---------------------------- MODULE MirrorProofs ----------------------------
(***************************************************************************)
(* Proofs about Mirror: for any number of positions, any sizes and stops,  *)
(* and any faults.                                                         *)
(***************************************************************************)
EXTENDS Mirror, SequenceTheorems, TLAPS

(***************************************************************************)
(* Types of the rows                                                       *)
(***************************************************************************)
Events == [pos : Positions, type : {"OPEN", "CLOSE", "PARTIAL_CLOSE", "MODIFY"},
           volume : Volumes, sl : Levels]
Lines == [pos : Positions, cmd : CmdType]
Shown == [volume : Nat, sl : Levels, deals : BOOLEAN]
DestPositions == [st : {"none", "open", "closed", "twice"}, volume : Nat, sl : Levels, deals : BOOLEAN]

LEMMA LevelsType == Levels \subseteq Nat /\ 0 \in Levels
BY MirrorAssumption DEF Levels

LEMMA NoCmdType == NoCmd \in CmdType
BY LevelsType DEF NoCmd, CmdType

LEMMA SendingType ==
  ASSUME NEW row \in RowType, NEW kind \in {"open", "close", "partial", "sltp"},
         NEW volume \in Nat, NEW sl \in Levels
  PROVE  Sending(row, kind, volume, sl) \in RowType
<1> DEFINE cmd == [n |-> row.seq + 1, kind |-> kind, volume |-> volume, sl |-> sl]
<1>1. row.seq + 1 \in Nat
  BY DEF RowType
<1>2. cmd \in CmdType
  BY <1>1 DEF CmdType
<1>3. Sending(row, kind, volume, sl) = [row EXCEPT !.seq = row.seq + 1, !.inflight = cmd]
  BY DEF Sending
<1> HIDE DEF cmd
<1> QED
  BY <1>1, <1>2, <1>3 DEF RowType

LEMMA NotMirroredType == NotMirrored \in RowType
BY NoCmdType, LevelsType, MirrorAssumption DEF NotMirrored, RowType, Live, Volumes

LEMMA NewRowType ==
  ASSUME NEW e \in Events, e.volume # 0
  PROVE  NewRow(e) \in RowType /\ NewRow(e).inflight \in CmdType
<1>1. /\ e.volume \in 1..SourceLots /\ e.volume \in Volumes
      /\ MirrorVolume[e.volume] \in Nat /\ MirrorVolume[e.volume] \in Lots
      /\ Copied(e.sl) \in Levels
  BY MirrorAssumption, LevelsType DEF Events, Volumes, Lots, Copied
<1> DEFINE fresh == [NotMirrored EXCEPT
             !.state = "OPENING",
             !.source_volume_open = e.volume, !.source_volume = e.volume,
             !.dest_volume_open = MirrorVolume[e.volume],
             !.sl = Copied(e.sl), !.want_sl = Copied(e.sl)]
<1>2. fresh \in RowType
  BY <1>1, NotMirroredType DEF RowType, Live
<1> HIDE DEF fresh
<1>3. Sending(fresh, "open", MirrorVolume[e.volume], Copied(e.sl)) \in RowType
  BY <1>1, <1>2, SendingType
<1>4. NewRow(e) = Sending(fresh, "open", MirrorVolume[e.volume], Copied(e.sl))
  BY DEF NewRow, fresh
<1> QED
  BY <1>3, <1>4 DEF RowType

LEMMA TargetType ==
  ASSUME NEW row \in RowType, NEW source_volume \in Volumes
  PROVE  Target(row, source_volume) \in Nat
<1> DEFINE o == row.source_volume_open
           rounded == (2 * row.dest_volume_open * source_volume + o) \div (2 * o)
<1>1. o \in Nat /\ source_volume \in Nat /\ row.dest_volume_open \in Nat
  BY MirrorAssumption DEF RowType, Volumes, Lots
<1>2. ASSUME source_volume # 0, ~(source_volume >= o) PROVE rounded \in Nat
  <2>1. 2 * o \in Nat \ {0}
    BY <1>1, <1>2
  <2>2. 2 * row.dest_volume_open * source_volume + o \in Nat
    BY <1>1
  <2> QED
    BY <2>1, <2>2
<1> QED
  BY <1>1, <1>2 DEF Target

LEMMA FollowedType ==
  ASSUME NEW row \in RowType, NEW e \in Events, e.type # "OPEN"
  PROVE  Followed(row, e) \in RowType
BY DEF Followed, RowType, Events

LEMMA SucceededType ==
  ASSUME NEW row \in RowType, row.inflight.kind # "none"
  PROVE  Succeeded(row) \in RowType
<1>1. /\ row.inflight \in CmdType /\ row.dest_volume \in Nat /\ row.dest_volume_open \in Nat
  BY MirrorAssumption DEF RowType, Lots
<1>2. row.inflight.volume \in Nat /\ row.inflight.sl \in Levels
      /\ row.inflight.kind \in {"open", "close", "partial", "sltp"}
  BY <1>1 DEF CmdType
<1> DEFINE done == [row EXCEPT !.inflight = NoCmd]
           left == row.dest_volume - row.inflight.volume
<1>3. done \in RowType
  BY NoCmdType DEF RowType
<1>4. left > 0 => left \in Nat
  BY <1>1, <1>2
<1>5. [done EXCEPT !.state = "OPEN", !.dest_volume = row.dest_volume_open] \in RowType
  BY <1>1, <1>3 DEF RowType, Live
<1>6. [done EXCEPT !.sl = row.inflight.sl] \in RowType
  BY <1>2, <1>3 DEF RowType
<1>7. [done EXCEPT !.state = "CLOSED", !.dest_volume = 0] \in RowType
  BY <1>3 DEF RowType
<1>8. left > 0 => [done EXCEPT !.dest_volume = left] \in RowType
  BY <1>3, <1>4 DEF RowType
<1> QED
  BY <1>2, <1>5, <1>6, <1>7, <1>8 DEF Succeeded

LEMMA FailedType ==
  ASSUME NEW row \in RowType
  PROVE  Failed(row) \in RowType
<1> DEFINE attention == row.attention \/ row.failures + 1 >= MaxFailures
<1>1. row.failures + 1 \in Nat
  BY DEF RowType
<1>2. attention \in BOOLEAN
  OBVIOUS
<1>3. [row EXCEPT !.inflight = NoCmd, !.state = "FAILED"] \in RowType
  BY NoCmdType DEF RowType
<1> HIDE DEF attention
<1>4. [row EXCEPT !.inflight = NoCmd, !.failures = row.failures + 1, !.attention = attention] \in RowType
  BY <1>1, <1>2, NoCmdType DEF RowType
<1> QED
  BY <1>3, <1>4 DEF Failed, attention

LEMMA AdoptType ==
  ASSUME NEW row \in RowType, NEW pos \in Shown
  PROVE  Adopt(row, pos) \in RowType
BY NoCmdType DEF Adopt, RowType, Shown, Live

LEMMA WatchType ==
  ASSUME NEW row \in RowType, NEW pos \in Shown
  PROVE  Watch(row, pos) \in RowType
<1>1. pos.volume > 0 \/ pos.volume = 0
  BY DEF Shown
<1> QED
  BY <1>1, NoCmdType DEF Watch, RowType, Live

LEMMA AlignType ==
  ASSUME NEW row \in RowType
  PROVE  Align(row) \in RowType
<1> DEFINE target == Target(row, row.source_volume)
<1>1. row.source_volume \in Volumes /\ row.dest_volume \in Nat /\ row.want_sl \in Levels
  BY DEF RowType
<1>2. target \in Nat
  BY <1>1, TargetType
<1>3. Sending(row, "close", 0, 0) \in RowType
  BY SendingType, LevelsType
<1>4. Sending(row, "sltp", 0, row.want_sl) \in RowType
  BY <1>1, SendingType
<1>5. row.dest_volume > target => Sending(row, "partial", row.dest_volume - target, 0) \in RowType
  <2> HIDE DEF target
  <2>1. row.dest_volume > target => row.dest_volume - target \in Nat
    BY <1>1, <1>2
  <2> QED
    BY <2>1, SendingType, LevelsType
<1> QED
  BY <1>3, <1>4, <1>5 DEF Align

(***************************************************************************)
(* The numbers of the commands: an opening is the first of its position,   *)
(* and what is in flight has a number.                                     *)
(***************************************************************************)
Numbered(cmd) == (cmd.kind = "none" <=> cmd.n = 0) /\ (cmd.kind = "open" => cmd.n = 1)

Rows == {row \in RowType : Numbered(row.inflight)}

LEMMA NoCmdNumbered == Numbered(NoCmd)
BY DEF Numbered, NoCmd

LEMMA SendingNumbered ==
  ASSUME NEW row \in RowType, NEW kind \in {"open", "close", "partial", "sltp"},
         NEW volume \in Nat, NEW sl \in Levels,
         kind = "open" => row.seq = 0
  PROVE  Sending(row, kind, volume, sl) \in Rows
<1> DEFINE cmd == [n |-> row.seq + 1, kind |-> kind, volume |-> volume, sl |-> sl]
<1>1. row.seq \in Nat
  BY DEF RowType
<1>2. Numbered(cmd)
  BY <1>1 DEF Numbered
<1>3. Sending(row, kind, volume, sl).inflight = cmd
  BY DEF Sending, RowType
<1> QED
  BY <1>2, <1>3, SendingType DEF Rows

LEMMA NewRowNumbered ==
  ASSUME NEW e \in Events, e.volume # 0
  PROVE  NewRow(e) \in Rows /\ NewRow(e).inflight.n = 1 /\ NewRow(e).inflight.kind = "open"
<1>1. NewRow(e).inflight.n = 1 /\ NewRow(e).inflight.kind = "open"
  BY DEF NewRow, Sending, NotMirrored
<1> QED
  BY <1>1, NewRowType DEF Rows, Numbered

LEMMA FollowedNumbered ==
  ASSUME NEW row \in Rows, NEW e \in Events, e.type # "OPEN"
  PROVE  Followed(row, e) \in Rows
<1>1. Followed(row, e).inflight = row.inflight
  BY DEF Followed, Rows, RowType, Events
<1> QED
  BY <1>1, FollowedType DEF Rows

LEMMA SucceededNumbered ==
  ASSUME NEW row \in Rows, row.inflight.n # 0
  PROVE  Succeeded(row) \in Rows
<1>1. row \in RowType /\ row.inflight.kind \in {"open", "close", "partial", "sltp"}
  BY DEF Rows, RowType, CmdType, Numbered
<1>2. Succeeded(row).inflight = NoCmd
  BY <1>1 DEF Succeeded, RowType
<1> QED
  BY <1>1, <1>2, SucceededType, NoCmdNumbered DEF Rows

LEMMA FailedNumbered ==
  ASSUME NEW row \in Rows
  PROVE  Failed(row) \in Rows
<1>1. Failed(row).inflight = NoCmd
  BY DEF Failed, Rows, RowType
<1> QED
  BY <1>1, FailedType, NoCmdNumbered DEF Rows

LEMMA SeenNumbered ==
  ASSUME NEW row \in Rows, NEW pos \in Shown
  PROVE  Watch(Adopt(row, pos), pos) \in Rows
<1>1. Adopt(row, pos) \in Rows
  <2>1. Adopt(row, pos).inflight \in {row.inflight, NoCmd}
    BY DEF Adopt, Rows, RowType
  <2> QED
    BY <2>1, AdoptType, NoCmdNumbered DEF Rows
<1> DEFINE seen == Adopt(row, pos)
<1> HIDE DEF seen
<1>2. seen \in Rows
  BY <1>1 DEF seen
<1>3. Watch(seen, pos).inflight \in {seen.inflight, NoCmd}
  <2>1. pos.volume > 0 \/ pos.volume = 0
    BY DEF Shown
  <2> QED
    BY <1>2, <2>1 DEF Watch, Rows, RowType
<1> QED
  BY <1>2, <1>3, WatchType, NoCmdNumbered DEF seen, Rows

LEMMA AlignNumbered ==
  ASSUME NEW row \in Rows
  PROVE  /\ Align(row) \in Rows
         /\ Align(row).seq # row.seq =>
              Align(row).inflight.n # 0 /\ Align(row).inflight.kind # "open"
<1> DEFINE target == Target(row, row.source_volume)
<1>1. /\ row \in RowType /\ row.source_volume \in Volumes /\ row.dest_volume \in Nat
      /\ row.want_sl \in Levels /\ row.seq \in Nat
  BY DEF Rows, RowType
<1>2. target \in Nat
  BY <1>1, TargetType
<1>3. Align(row) = row
      \/ \E kind \in {"close", "partial", "sltp"}, volume \in Nat, sl \in Levels :
           Align(row) = Sending(row, kind, volume, sl)
  <2> HIDE DEF target
  <2>1. row.dest_volume > target => row.dest_volume - target \in Nat
    BY <1>1, <1>2
  <2>2. Align(row) \in {row, Sending(row, "close", 0, 0), Sending(row, "sltp", 0, row.want_sl)}
        \/ (row.dest_volume > target /\ Align(row) = Sending(row, "partial", row.dest_volume - target, 0))
    BY <1>1, <1>2 DEF Align, target
  <2> QED
    BY <1>1, <2>1, <2>2, LevelsType
<1>4. ASSUME NEW kind \in {"close", "partial", "sltp"}, NEW volume \in Nat, NEW sl \in Levels
      PROVE  /\ Sending(row, kind, volume, sl) \in Rows
             /\ Sending(row, kind, volume, sl).inflight.n # 0
             /\ Sending(row, kind, volume, sl).inflight.kind # "open"
  <2>1. Sending(row, kind, volume, sl) \in Rows
    BY <1>1, SendingNumbered
  <2>2. /\ Sending(row, kind, volume, sl).inflight.n = row.seq + 1
        /\ Sending(row, kind, volume, sl).inflight.kind = kind
    BY <1>1 DEF Sending, RowType
  <2> QED
    BY <1>1, <2>1, <2>2
<1> QED
  BY <1>3, <1>4

(***************************************************************************)
(* The state                                                               *)
(***************************************************************************)
SourcePositions ==
  {pos \in [st : {"none", "open", "closed"}, volume : Volumes, sl : Levels] :
     pos.st = "open" => pos.volume # 0}
Reported == {e \in Events : e.type = "OPEN" => e.volume # 0}
Sent == {line \in Lines : Numbered(line.cmd) /\ line.cmd.n # 0}
Results == {x \in [pos : Positions, n : Nat, ok : BOOLEAN] : x.n # 0}

TypeInv ==
  /\ source \in [Positions -> SourcePositions]
  /\ events \in Seq(Reported)
  /\ table \in [Positions -> Rows]
  /\ commands \in Seq(Sent)
  /\ answered \in SUBSET (Positions \X Nat)
  /\ results \in SUBSET Results
  /\ dest \in [Positions -> DestPositions]
  /\ state \in [Positions -> Shown]
  /\ modifies \in Nat /\ faults \in Nat

LEMMA TypeInvImplies == TypeInv => TypeOK
<1> SUFFICES ASSUME TypeInv PROVE TypeOK
  OBVIOUS
<1>1. events \in Seq(Events)
  BY SeqMonotonic DEF TypeInv, Reported
<1>2. commands \in Seq(Lines)
  BY SeqMonotonic DEF TypeInv, Sent
<1>3. table \in [Positions -> RowType]
  BY DEF TypeInv, Rows
<1>4. source \in [Positions -> [st : {"none", "open", "closed"}, volume : Volumes, sl : Levels]]
  BY DEF TypeInv, SourcePositions
<1>5. results \in SUBSET [pos : Positions, n : Nat, ok : BOOLEAN]
  BY DEF TypeInv, Results
<1> QED
  BY <1>1, <1>2, <1>3, <1>4, <1>5 DEF TypeInv, TypeOK, Events, Lines, DestPositions, Shown

LEMMA TypeInit == Init => TypeInv
<1> SUFFICES ASSUME Init PROVE TypeInv
  OBVIOUS
<1>1. NotMirrored \in Rows
  BY NotMirroredType, NoCmdNumbered DEF Rows, NotMirrored
<1>2. table \in [Positions -> Rows]
  BY <1>1 DEF Init
<1>3. [st |-> "none", volume |-> 0, sl |-> 0] \in SourcePositions
  BY LevelsType, MirrorAssumption DEF SourcePositions, Volumes
<1>4. source \in [Positions -> SourcePositions]
  BY <1>3 DEF Init
<1>5. dest \in [Positions -> DestPositions]
  BY LevelsType DEF Init, DestPositions
<1>6. state \in [Positions -> Shown]
  BY LevelsType DEF Init, Shown
<1>7. /\ events = << >> /\ commands = << >> /\ answered = {} /\ results = {}
      /\ modifies = 0 /\ faults = 0
  BY DEF Init
<1> QED
  BY <1>2, <1>4, <1>5, <1>6, <1>7 DEF TypeInv

(***************************************************************************)
(* Steps                                                                   *)
(***************************************************************************)
LEMMA HeadEvent ==
  ASSUME TypeInv, NEW e, NextEvent(e)
  PROVE  /\ e \in Events /\ (e.type = "OPEN" => e.volume # 0)
         /\ e.pos \in Positions /\ table[e.pos] \in Rows
         /\ Tail(events) \in Seq(Reported)
<1>1. e \in Reported /\ Tail(events) \in Seq(Reported)
  BY HeadTailProperties DEF TypeInv, NextEvent
<1> QED
  BY <1>1 DEF TypeInv, Reported, Events

LEMMA HandledType ==
  ASSUME TypeInv, NEW e, NextEvent(e), Handled
  PROVE  events' \in Seq(Reported) /\ faults' \in Nat
<1>1. Tail(events) \in Seq(Reported)
  BY HeadEvent
<1>2. events' \in {events, Tail(events)} /\ faults' \in {faults, faults + 1}
  BY DEF Handled, Fault, NoFault
<1>3. events \in Seq(Reported) /\ faults \in Nat
  BY DEF TypeInv
<1> QED
  BY <1>1, <1>2, <1>3

LEMMA LineType ==
  ASSUME NEW p \in Positions, NEW row \in Rows, row.inflight.n # 0
  PROVE  Line(p, row.inflight) \in Sent
<1>1. row.inflight \in CmdType /\ Numbered(row.inflight)
  BY DEF Rows, RowType
<1> QED
  BY <1>1 DEF Line, Sent, Lines

LEMMA OpenEventType ==
  ASSUME TypeInv, NEW e, OpenEvent(e)
  PROVE  TypeInv'
<1> DEFINE row == NewRow(e)
<1>1. NextEvent(e) /\ e.type = "OPEN"
  BY DEF OpenEvent
<1>2. e \in Events /\ e.volume # 0 /\ e.pos \in Positions
  BY <1>1, HeadEvent
<1>3. row \in Rows /\ row.inflight.n = 1
  BY <1>2, NewRowNumbered
<1>4. Line(e.pos, row.inflight) \in Sent
  BY <1>2, <1>3, LineType
<1>5. [row EXCEPT !.state = "FAILED", !.inflight = NoCmd] \in Rows
  BY <1>3, NoCmdType, NoCmdNumbered DEF Rows, RowType
<1> HIDE DEF row
<1>6. table' \in [Positions -> Rows]
  BY <1>2, <1>3, <1>5 DEF OpenEvent, TypeInv, row
<1>7. commands' \in Seq(Sent)
  <2>1. commands \in Seq(Sent)
    BY DEF TypeInv
  <2>2. Append(commands, Line(e.pos, row.inflight)) \in Seq(Sent)
    BY <1>4, <2>1, AppendProperties
  <2> QED
    BY <2>1, <2>2 DEF OpenEvent, row
<1>8. events' \in Seq(Reported) /\ faults' \in Nat
  <2>1. /\ events \in Seq(Reported) /\ faults \in Nat
        /\ Tail(events) \in Seq(Reported)
    BY <1>1, HeadEvent DEF TypeInv
  <2>2. CASE Handled
    BY <1>1, <2>2, HandledType
  <2>3. CASE ~Handled
    <3>1. events' \in {events, Tail(events)} /\ faults' = faults + 1
      BY <2>3 DEF OpenEvent, Fault
    <3> QED
      BY <2>1, <3>1
  <2> QED
    BY <2>2, <2>3
<1> QED
  BY <1>6, <1>7, <1>8 DEF OpenEvent, TypeInv

LEMMA ResendEventType ==
  ASSUME TypeInv, NEW e, ResendEvent(e)
  PROVE  TypeInv'
<1>1. NextEvent(e) /\ e.pos \in Positions /\ table[e.pos] \in Rows
  BY HeadEvent DEF ResendEvent
<1>2. table[e.pos].inflight.n # 0
  BY <1>1 DEF ResendEvent, Rows, Numbered
<1>3. Line(e.pos, table[e.pos].inflight) \in Sent
  BY <1>1, <1>2, LineType
<1>4. commands' \in Seq(Sent)
  BY <1>3, AppendProperties DEF ResendEvent, TypeInv
<1>5. events' \in Seq(Reported) /\ faults' \in Nat
  BY <1>1, HandledType DEF ResendEvent
<1> QED
  BY <1>4, <1>5 DEF ResendEvent, TypeInv

LEMMA FollowEventType ==
  ASSUME TypeInv, NEW e, FollowEvent(e)
  PROVE  TypeInv'
<1>1. NextEvent(e) /\ e.type # "OPEN" /\ e \in Events /\ e.pos \in Positions /\ table[e.pos] \in Rows
  BY HeadEvent DEF FollowEvent
<1>2. Followed(table[e.pos], e) \in Rows
  BY <1>1, FollowedNumbered
<1>3. table' \in [Positions -> Rows]
  BY <1>2 DEF FollowEvent, TypeInv
<1>4. events' \in Seq(Reported) /\ faults' \in Nat
  BY <1>1, HandledType DEF FollowEvent
<1> QED
  BY <1>3, <1>4 DEF FollowEvent, TypeInv, bridge

LEMMA ApplyResultType ==
  ASSUME TypeInv, ApplyResult
  PROVE  TypeInv'
<1>1. PICK x \in results :
        /\ table' = [table EXCEPT ![x.pos] = IF @.inflight.n # x.n THEN @
                                             ELSE IF x.ok THEN Succeeded(@) ELSE Failed(@)]
        /\ results' \in {results, results \ {x}}
        /\ faults' \in {faults, faults + 1}
  BY DEF ApplyResult, Fault, NoFault
<1>2. x.pos \in Positions /\ x.n # 0 /\ table[x.pos] \in Rows
  BY DEF TypeInv, Results
<1>3. table[x.pos].inflight.n = x.n => Succeeded(table[x.pos]) \in Rows
  BY <1>2, SucceededNumbered
<1>4. Failed(table[x.pos]) \in Rows
  BY <1>2, FailedNumbered
<1>5. table' \in [Positions -> Rows]
  BY <1>1, <1>2, <1>3, <1>4 DEF TypeInv
<1> QED
  BY <1>1, <1>5 DEF ApplyResult, TypeInv

LEMMA SyncType ==
  ASSUME TypeInv, NEW p \in Positions, NEW armed \in BOOLEAN, Sync(p, armed)
  PROVE  TypeInv'
<1> DEFINE seen == Watch(Adopt(table[p], state[p]), state[p])
           next == IF armed /\ MaySend(seen, state[p]) THEN Align(seen) ELSE seen
<1>1. table[p] \in Rows /\ state[p] \in Shown
  BY DEF TypeInv
<1>2. seen \in Rows
  BY <1>1, SeenNumbered
<1> HIDE DEF seen
<1>3. next \in Rows /\ (next.seq # seen.seq => next.inflight.n # 0)
  BY <1>2, AlignNumbered
<1> HIDE DEF next
<1>4. /\ \/ table' = [table EXCEPT ![p] = next]
         \/ table' = [table EXCEPT ![p] = [next EXCEPT !.inflight = NoCmd, !.failures = next.failures + 1]]
      /\ \/ commands' = commands
         \/ next.seq # seen.seq /\ commands' = Append(commands, Line(p, next.inflight))
      /\ faults' \in {faults, faults + 1}
      /\ UNCHANGED <<source, events, answered, results, dest, state, modifies>>
  BY DEF Sync, seen, next, Fault, NoFault
<1>5. [next EXCEPT !.inflight = NoCmd, !.failures = next.failures + 1] \in Rows
  <2>1. next \in RowType /\ next.failures + 1 \in Nat
    BY <1>3 DEF Rows, RowType
  <2> DEFINE failed == [next EXCEPT !.inflight = NoCmd, !.failures = next.failures + 1]
  <2>2. failed \in RowType /\ failed.inflight = NoCmd
    BY <2>1, NoCmdType DEF RowType
  <2> QED
    BY <2>2, NoCmdNumbered DEF Rows
<1>6. table' \in [Positions -> Rows]
  BY <1>3, <1>4, <1>5 DEF TypeInv
<1>7. next.seq # seen.seq => Line(p, next.inflight) \in Sent
  BY <1>3, LineType
<1>8. commands' \in Seq(Sent)
  <2>1. commands \in Seq(Sent)
    BY DEF TypeInv
  <2>2. next.seq # seen.seq => Append(commands, Line(p, next.inflight)) \in Seq(Sent)
    BY <1>7, <2>1, AppendProperties
  <2> QED
    BY <1>4, <2>1, <2>2
<1> QED
  BY <1>4, <1>6, <1>8 DEF TypeInv

LEMMA DoneType ==
  ASSUME TypeInv, NEW c \in Sent
  PROVE  Done(c) \in DestPositions
<1>1. dest[c.pos] \in DestPositions /\ c.cmd \in CmdType
  BY DEF TypeInv, Sent, Lines
<1>2. c.cmd.volume \in Nat /\ c.cmd.sl \in Levels
  BY <1>1 DEF CmdType
<1>3. c.cmd.volume < dest[c.pos].volume => dest[c.pos].volume - c.cmd.volume \in Nat
  BY <1>1, <1>2 DEF DestPositions
<1>4. [dest[c.pos] EXCEPT !.sl = c.cmd.sl] \in DestPositions
  BY <1>1, <1>2 DEF DestPositions
<1>5. c.cmd.volume < dest[c.pos].volume =>
        [dest[c.pos] EXCEPT !.volume = dest[c.pos].volume - c.cmd.volume, !.deals = TRUE] \in DestPositions
  BY <1>1, <1>3 DEF DestPositions
<1>6. /\ [st |-> IF dest[c.pos].st = "none" THEN "open" ELSE "twice",
          volume |-> c.cmd.volume, sl |-> c.cmd.sl, deals |-> FALSE] \in DestPositions
      /\ [st |-> "closed", volume |-> 0, sl |-> 0, deals |-> TRUE] \in DestPositions
  BY <1>2, LevelsType DEF DestPositions
<1> QED
  BY <1>4, <1>5, <1>6 DEF Done

LEMMA HeadCommand ==
  ASSUME TypeInv, NEW c, Takes(c)
  PROVE  /\ c \in Sent /\ c.pos \in Positions /\ c.cmd.n \in Nat \ {0}
         /\ commands' \in Seq(Sent)
         /\ answered' = answered \union {Id(c)} /\ Id(c) = <<c.pos, c.cmd.n>>
         /\ UNCHANGED <<source, events, table, state, modifies>>
<1>1. c \in Sent /\ commands' \in Seq(Sent)
  BY HeadTailProperties DEF TypeInv, Takes
<1>2. c.pos \in Positions /\ c.cmd.n \in Nat \ {0}
  BY <1>1 DEF Sent, Lines, CmdType
<1> QED
  BY <1>1, <1>2 DEF Takes, Id

LEMMA AnswerType ==
  ASSUME TypeInv, NEW c, SkipCommand(c) \/ ExecuteCommand(c) \/ RefuseCommand(c)
  PROVE  TypeInv'
<1>1. Takes(c)
  BY DEF SkipCommand, ExecuteCommand, RefuseCommand
<1>2. /\ c \in Sent /\ c.pos \in Positions /\ c.cmd.n \in Nat \ {0}
      /\ commands' \in Seq(Sent)
      /\ answered' = answered \union {Id(c)} /\ Id(c) = <<c.pos, c.cmd.n>>
      /\ UNCHANGED <<source, events, table, state, modifies>>
  BY <1>1, HeadCommand
<1>3. answered' \in SUBSET (Positions \X Nat)
  BY <1>2 DEF TypeInv
<1>4. ASSUME NEW ok \in BOOLEAN PROVE Result(c, ok) \in Results
  BY <1>2 DEF Result, Results
<1>5. /\ results' \in {results, results \union {Result(c, TRUE)}, results \union {Result(c, FALSE)}}
      /\ faults' \in {faults, faults + 1}
      /\ dest' \in {dest, [dest EXCEPT ![c.pos] = Done(c)]}
  BY DEF SkipCommand, ExecuteCommand, RefuseCommand, Fault, NoFault
<1>6. results' \in SUBSET Results
  <2>1. results \subseteq Results
    BY DEF TypeInv
  <2>2. Result(c, TRUE) \in Results /\ Result(c, FALSE) \in Results
    BY <1>4
  <2> QED
    BY <1>5, <2>1, <2>2
<1>7. dest' \in [Positions -> DestPositions]
  BY <1>2, <1>5, DoneType DEF TypeInv
<1> QED
  BY <1>2, <1>3, <1>5, <1>6, <1>7 DEF TypeInv

LEMMA DestType ==
  ASSUME TypeInv, NEW p \in Positions, DestCloses(p) \/ DealsAge(p)
  PROVE  TypeInv'
<1>1. dest[p] \in DestPositions
  BY DEF TypeInv
<1>2. /\ [st |-> "closed", volume |-> 0, sl |-> 0, deals |-> TRUE] \in DestPositions
      /\ [dest[p] EXCEPT !.deals = FALSE] \in DestPositions
  BY <1>1, LevelsType DEF DestPositions
<1>3. dest' \in [Positions -> DestPositions]
  BY <1>2 DEF DestCloses, DealsAge, TypeInv
<1>4. faults' \in {faults, faults + 1}
  BY DEF DestCloses, DealsAge, Fault
<1> QED
  BY <1>3, <1>4 DEF DestCloses, DealsAge, TypeInv, bridge

LEMMA WriteStateType ==
  ASSUME TypeInv, WriteState
  PROVE  TypeInv'
<1>1. ASSUME NEW p \in Positions PROVE Snapshot(p) \in Shown
  BY DEF Snapshot, Shown, TypeInv, DestPositions
<1>2. state' \in [Positions -> Shown]
  BY <1>1 DEF WriteState
<1> QED
  BY <1>2 DEF WriteState, TypeInv, bridge

LEMMA GraceOverType ==
  ASSUME TypeInv, NEW p \in Positions, GraceOver(p)
  PROVE  TypeInv'
<1>1. [table[p] EXCEPT !.missing_since = "due"] \in Rows
  <2>1. table[p] \in RowType /\ Numbered(table[p].inflight)
    BY DEF TypeInv, Rows
  <2> DEFINE due == [table[p] EXCEPT !.missing_since = "due"]
  <2>2. due \in RowType /\ due.inflight = table[p].inflight
    BY <2>1 DEF RowType
  <2> QED
    BY <2>1, <2>2 DEF Rows
<1>2. table' \in [Positions -> Rows]
  BY <1>1 DEF GraceOver, TypeInv
<1>3. faults' \in {faults, faults + 1}
  BY DEF GraceOver, Fault, NoFault
<1> QED
  BY <1>2, <1>3 DEF GraceOver, TypeInv, bridge

LEMMA ReportsType ==
  ASSUME TypeInv, NEW p \in Positions, NEW pos \in SourcePositions,
         NEW type \in {"OPEN", "CLOSE", "PARTIAL_CLOSE", "MODIFY"},
         type = "OPEN" => pos.volume # 0,
         Reports(p, pos, type), modifies' \in Nat, faults' \in Nat
  PROVE  TypeInv'
<1>1. Event(p, type, pos.volume, pos.sl) \in Reported
  BY DEF Event, Reported, Events, SourcePositions
<1>2. events \in Seq(Reported)
  BY DEF TypeInv
<1>3. events' \in Seq(Reported)
  BY <1>1, <1>2, AppendProperties DEF Reports
<1>4. source' \in [Positions -> SourcePositions]
  BY DEF Reports, TypeInv
<1> QED
  BY <1>3, <1>4 DEF Reports, TypeInv, bridge

LEMMA SourceType ==
  ASSUME TypeInv, NEW p \in Positions,
         \/ \E sl \in OpenStops : SourceOpen(p, sl)
         \/ \E sl \in Stops \union {0} : SourceModify(p, sl)
         \/ \E volume \in 1..SourceLots : SourcePartial(p, volume)
         \/ SourceClose(p) \/ SourceRepeats(p)
  PROVE  TypeInv'
<1>1. source[p] \in SourcePositions /\ modifies \in Nat /\ faults \in Nat
  BY DEF TypeInv
<1>2. OpenStops \subseteq Levels /\ Stops \union {0} = Levels
  BY MirrorAssumption DEF Levels
<1>3. ASSUME NEW sl \in OpenStops, SourceOpen(p, sl) PROVE TypeInv'
  <2>1. [st |-> "open", volume |-> SourceLots, sl |-> sl] \in SourcePositions /\ SourceLots # 0
    BY <1>2, MirrorAssumption DEF SourcePositions, Volumes
  <2> QED
    BY <1>1, <1>3, <2>1, ReportsType DEF SourceOpen, NoFault
<1>4. ASSUME NEW sl \in Levels, SourceModify(p, sl) PROVE TypeInv'
  <2>1. [source[p] EXCEPT !.sl = sl] \in SourcePositions
    BY <1>1 DEF SourcePositions
  <2> QED
    BY <1>1, <1>4, <2>1, ReportsType DEF SourceModify, NoFault
<1>5. ASSUME NEW volume \in 1..SourceLots, SourcePartial(p, volume) PROVE TypeInv'
  <2>1. volume \in Volumes /\ volume # 0
    BY MirrorAssumption DEF Volumes
  <2>2. [source[p] EXCEPT !.volume = volume] \in SourcePositions
    BY <1>1, <2>1 DEF SourcePositions
  <2> QED
    BY <1>1, <1>5, <2>2, ReportsType DEF SourcePartial, NoFault
<1>6. CASE SourceClose(p)
  <2>1. [st |-> "closed", volume |-> 0, sl |-> 0] \in SourcePositions
    BY LevelsType, MirrorAssumption DEF SourcePositions, Volumes
  <2> QED
    BY <1>1, <1>6, <2>1, ReportsType DEF SourceClose, NoFault
<1>7. CASE SourceRepeats(p)
  <2>1. modifies' \in Nat /\ faults' \in Nat
    BY <1>1, <1>7 DEF SourceRepeats, Fault
  <2>2. CASE source[p].st = "closed" /\ Reports(p, source[p], "CLOSE")
    BY <1>1, <2>1, <2>2, ReportsType
  <2>3. ASSUME NEW type \in {"OPEN", "PARTIAL_CLOSE", "MODIFY"}, source[p].st = "open",
               Reports(p, source[p], type)
        PROVE  TypeInv'
    <3>1. source[p].volume # 0
      BY <1>1, <2>3 DEF SourcePositions
    <3> QED
      BY <1>1, <2>1, <2>3, <3>1, ReportsType
  <2> QED
    BY <1>7, <2>2, <2>3 DEF SourceRepeats
<1> QED
  BY <1>2, <1>3, <1>4, <1>5, <1>6, <1>7

LEMMA TypeStep == TypeInv /\ [Next]_vars => TypeInv'
<1> SUFFICES ASSUME TypeInv, [Next]_vars PROVE TypeInv'
  OBVIOUS
<1>1. CASE HandleEvent
  <2> DEFINE e == Head(events)
  <2>1. OpenEvent(e) \/ RejectEvent(e) \/ ResendEvent(e) \/ FollowEvent(e) \/ IgnoreEvent(e)
    BY <1>1 DEF HandleEvent
  <2>2. CASE RejectEvent(e) \/ IgnoreEvent(e)
    <3>1. events' \in Seq(Reported)
      BY <2>2, HeadEvent DEF RejectEvent, IgnoreEvent
    <3> QED
      BY <2>2, <3>1 DEF RejectEvent, IgnoreEvent, TypeInv, bridge
  <2> QED
    BY <2>1, <2>2, OpenEventType, ResendEventType, FollowEventType
<1>2. CASE ApplyResult
  BY <1>2, ApplyResultType
<1>3. CASE Answer
  BY <1>3, AnswerType DEF Answer
<1>4. CASE WriteState
  BY <1>4, WriteStateType
<1>5. ASSUME NEW p \in Positions, NEW armed \in BOOLEAN, Sync(p, armed) PROVE TypeInv'
  BY <1>5, SyncType
<1>6. ASSUME NEW p \in Positions, DestCloses(p) \/ DealsAge(p) PROVE TypeInv'
  BY <1>6, DestType
<1>7. ASSUME NEW p \in Positions, GraceOver(p) PROVE TypeInv'
  BY <1>7, GraceOverType
<1>8. ASSUME NEW p \in Positions,
             \/ \E sl \in OpenStops : SourceOpen(p, sl)
             \/ \E sl \in Stops \union {0} : SourceModify(p, sl)
             \/ \E volume \in 1..SourceLots : SourcePartial(p, volume)
             \/ SourceClose(p) \/ SourceRepeats(p)
      PROVE  TypeInv'
  BY <1>8, SourceType
<1>9. CASE UNCHANGED vars
  BY <1>9 DEF vars, bridge, TypeInv
<1> QED
  BY <1>1, <1>2, <1>3, <1>4, <1>5, <1>6, <1>7, <1>8, <1>9 DEF Next

(* Every variable keeps its type: no volume or command number leaves its   *)
(* range whatever is lost, repeated or refused (mirror.py:82-117,          *)
(* 187-196).                                                               *)
THEOREM MirrorTypes == Spec => []TypeOK
<1> QED
  BY TypeInit, TypeStep, TypeInvImplies, PTL DEF Spec

(***************************************************************************)
(* A source position is opened once                                        *)
(***************************************************************************)

\* A position that exists was opened by the first command of its row, and the EA has answered that.
OpenedInv ==
  \A p \in Positions :
    dest[p].st # "none" => dest[p].st # "twice" /\ <<p, 1>> \in answered

LEMMA OpenedInit == Init => OpenedInv
BY DEF Init, OpenedInv

LEMMA OpenedStep == TypeInv /\ OpenedInv /\ [Next]_vars => OpenedInv'
<1> SUFFICES ASSUME TypeInv, OpenedInv, [Next]_vars PROVE OpenedInv'
  OBVIOUS
<1>1. ASSUME NEW c, ExecuteCommand(c) PROVE OpenedInv'
  <2>1. /\ c \in Sent /\ c.pos \in Positions
        /\ answered' = answered \union {Id(c)} /\ Id(c) = <<c.pos, c.cmd.n>>
    BY <1>1, HeadCommand DEF ExecuteCommand
  <2>2. dest' = [dest EXCEPT ![c.pos] = Done(c)] /\ Id(c) \notin answered /\ CanDo(c)
    BY <1>1 DEF ExecuteCommand
  <2>3. Done(c).st # "twice" /\ <<c.pos, 1>> \in answered'
    <3>1. CASE c.cmd.kind = "open"
      <4>1. c.cmd.n = 1
        BY <2>1, <3>1 DEF Sent, Numbered
      <4>2. dest[c.pos].st = "none"
        BY <2>1, <2>2, <4>1 DEF OpenedInv
      <4>3. Done(c).st = "open"
        BY <3>1, <4>2 DEF Done
      <4> QED
        BY <2>1, <4>1, <4>3
    <3>2. CASE c.cmd.kind # "open"
      <4>1. dest[c.pos].st = "open" /\ dest[c.pos] \in DestPositions
        BY <2>1, <2>2, <3>2 DEF CanDo, TypeInv
      <4>2. Done(c).st \in {"open", "closed"}
        BY <3>2, <4>1 DEF Done, DestPositions
      <4> QED
        BY <2>1, <4>1, <4>2 DEF OpenedInv
    <3> QED
      BY <3>1, <3>2
  <2>4. dest \in [Positions -> DestPositions]
    BY DEF TypeInv
  <2> QED
    BY <2>1, <2>2, <2>3, <2>4 DEF OpenedInv
<1>2. ASSUME NEW p \in Positions, DestCloses(p) \/ DealsAge(p) PROVE OpenedInv'
  <2>1. dest \in [Positions -> DestPositions] /\ answered' = answered
    BY <1>2 DEF TypeInv, DestCloses, DealsAge, bridge
  <2>2. \/ dest[p].st = "open"
           /\ dest' = [dest EXCEPT ![p] = [st |-> "closed", volume |-> 0, sl |-> 0, deals |-> TRUE]]
        \/ dest' = [dest EXCEPT ![p].deals = FALSE]
    BY <1>2 DEF DestCloses, DealsAge
  <2>3. dest'[p].st # "none" => dest[p].st # "none" /\ dest'[p].st \in {dest[p].st, "closed"}
    BY <2>1, <2>2 DEF DestPositions
  <2>4. \A q \in Positions \ {p} : dest'[q] = dest[q]
    BY <2>1, <2>2
  <2> QED
    BY <2>1, <2>3, <2>4 DEF OpenedInv
<1>3. ASSUME UNCHANGED dest, answered \subseteq answered' PROVE OpenedInv'
  BY <1>3 DEF OpenedInv
<1>4. ASSUME NEW c, SkipCommand(c) \/ RefuseCommand(c) PROVE OpenedInv'
  BY <1>3, <1>4 DEF SkipCommand, RefuseCommand, Takes
<1>5. CASE HandleEvent
  BY <1>3, <1>5 DEF HandleEvent, OpenEvent, RejectEvent, ResendEvent, FollowEvent, IgnoreEvent, bridge
<1>6. CASE ApplyResult \/ WriteState
  BY <1>3, <1>6 DEF ApplyResult, WriteState, bridge
<1>7. ASSUME NEW p \in Positions, NEW armed \in BOOLEAN, Sync(p, armed) \/ GraceOver(p) PROVE OpenedInv'
  BY <1>3, <1>7 DEF Sync, GraceOver, bridge
<1>8. ASSUME NEW p \in Positions,
             \/ \E sl \in OpenStops : SourceOpen(p, sl)
             \/ \E sl \in Stops \union {0} : SourceModify(p, sl)
             \/ \E volume \in 1..SourceLots : SourcePartial(p, volume)
             \/ SourceClose(p) \/ SourceRepeats(p)
      PROVE  OpenedInv'
  BY <1>3, <1>8 DEF SourceOpen, SourceModify, SourcePartial, SourceClose, SourceRepeats, Reports, bridge
<1>9. CASE UNCHANGED vars
  BY <1>3, <1>9 DEF vars, bridge
<1> QED
  BY <1>1, <1>2, <1>4, <1>5, <1>6, <1>7, <1>8, <1>9 DEF Next, Answer

(* However often events are replayed, results read again, commands lost or *)
(* the terminal frozen, no source position is opened twice                 *)
(* (mirror.py:13-16, 571-634).                                             *)
THEOREM MirrorOpensOnce == Spec => []OpenedOnce
<1>1. OpenedInv => OpenedOnce
  BY DEF OpenedInv, OpenedOnce
<1> QED
  BY <1>1, TypeInit, TypeStep, OpenedInit, OpenedStep, PTL DEF Spec

(***************************************************************************)
(* A row, its position at the destination and the commands between them    *)
(***************************************************************************)
Cmds == {cmd \in CmdType : Numbered(cmd) /\ cmd.n # 0}

\* Of the commands cmds in the file, those numbered in ans are answered; res are the results unread.
NumbersFit(row, cmds, ans, res) ==
  /\ row.state = "none" => row.seq = 0
  /\ row.inflight # NoCmd => row.inflight.n = row.seq /\ row.inflight.n # 0 /\ row.state \in Live
  /\ row.state = "OPENING" => row.inflight.kind = "open"
  /\ row.state # "OPENING" => row.inflight.kind # "open"
  /\ \A c \in cmds : /\ c.n <= row.seq
                     /\ c.n = row.inflight.n => c = row.inflight
                     /\ c.n \notin ans => (row.state \in Live => c = row.inflight)
                     /\ c.n \notin ans => (c.n = 1 => row.state = "OPENING")
  /\ \A n \in ans : n <= row.seq
  /\ \A x \in res : x.n \in ans

\* Whether the position d exists, as far as the row and the snapshot tell.
ExistsFit(row, d, shown, ans) ==
  /\ d.st \in {"none", "open", "closed"}
  /\ d.st = "open" <=> d.volume > 0
  /\ d.deals = TRUE => d.st # "none"
  /\ d.st # "none" => row.state # "none" /\ 1 \in ans
  /\ row.state \in {"OPEN", "CLOSED"} => d.st # "none"
  /\ row.state = "FAILED" => d.st = "none"
  /\ row.missing_since # "off" => row.state \in {"OPEN", "CLOSED"}
  /\ shown.volume > 0 => d.st # "none"
  /\ shown.deals = TRUE /\ shown.volume = 0 => d.st = "closed"

\* The volume and the stop of an open position.
Agrees(row, d) == row.dest_volume = d.volume /\ row.sl = d.sl

ContentsFit(row, d, shown, ans) ==
  /\ row.state = "OPENING" => /\ row.inflight.volume = row.dest_volume_open /\ row.inflight.volume > 0
                              /\ row.inflight.sl = row.sl
  /\ row.state = "OPENING" /\ d.st = "open" =>
       /\ d.volume = row.inflight.volume /\ d.sl = row.inflight.sl
       /\ shown.volume > 0 => shown.volume = d.volume /\ shown.sl = d.sl
  /\ row.state = "OPEN" /\ d.st = "open" /\ (row.inflight = NoCmd \/ row.inflight.n \notin ans) => Agrees(row, d)

\* The result ok of the command a row waits for.
ResultFits(row, d, ok) ==
  /\ ok = TRUE =>
       /\ row.inflight.kind = "open" => d.st # "none"
       /\ row.inflight.kind = "sltp" /\ d.st = "open" => d.sl = row.inflight.sl /\ d.volume = row.dest_volume
       /\ row.inflight.kind = "close" => d.st = "closed"
       /\ row.inflight.kind = "partial" /\ d.st = "open" =>
            d.volume = row.dest_volume - row.inflight.volume /\ d.sl = row.sl
  /\ ok = FALSE =>
       /\ row.inflight.kind = "open" => d.st = "none"
       /\ row.inflight.kind # "open" /\ d.st = "open" => Agrees(row, d)

ResultsFit(row, d, res) == \A x \in res : x.n = row.inflight.n => ResultFits(row, d, x.ok)

Fits(row, d, shown, cmds, ans, res) ==
  /\ NumbersFit(row, cmds, ans, res)
  /\ ExistsFit(row, d, shown, ans)
  /\ ContentsFit(row, d, shown, ans)
  /\ ResultsFit(row, d, res)

AskedOf(p) == {cmd \in Cmds : \E i \in 1..Len(commands) : commands[i] = Line(p, cmd)}
AnsweredOf(p) == {n \in Nat : <<p, n>> \in answered}
ResultsOf(p) == {x \in results : x.pos = p}

FitsAt(p) == Fits(table[p], dest[p], state[p], AskedOf(p), AnsweredOf(p), ResultsOf(p))
FitsInv == \A p \in Positions : FitsAt(p)

LEMMA FitsNew ==
  ASSUME NEW row \in Rows, NEW d \in DestPositions, NEW shown \in Shown,
         NEW cmds \in SUBSET Cmds, NEW ans \in SUBSET Nat, NEW res \in SUBSET Results,
         Fits(row, d, shown, cmds, ans, res),
         NEW e \in Events, e.volume # 0, row.state = "none"
  PROVE  LET new == NewRow(e) IN
         /\ Fits(new, d, shown, cmds, ans, res)
         /\ Fits(new, d, shown, cmds \union {new.inflight}, ans, res)
         /\ Fits([new EXCEPT !.state = "FAILED", !.inflight = NoCmd], d, shown, cmds, ans, res)
<1> DEFINE new == NewRow(e)
           failed == [new EXCEPT !.state = "FAILED", !.inflight = NoCmd]
<1>1. row.seq = 0 /\ d.st = "none" /\ ~(shown.volume > 0)
  BY DEF Fits, NumbersFit, ExistsFit
<1>2. cmds = {} /\ res = {} /\ 1 \notin ans /\ \A n \in ans : n <= 1
  <2>1. \A c \in Cmds : c.n \in Nat \ {0}
    BY DEF Cmds, CmdType
  <2>2. \A x \in Results : x.n \in Nat \ {0}
    BY DEF Results
  <2> QED
    BY <1>1, <2>1, <2>2 DEF Fits, NumbersFit
<1>3. /\ new \in Rows /\ new.state = "OPENING" /\ new.seq = 1 /\ new.missing_since = "off"
      /\ new.inflight = [n |-> 1, kind |-> "open", volume |-> MirrorVolume[e.volume], sl |-> Copied(e.sl)]
      /\ new.dest_volume_open = MirrorVolume[e.volume] /\ new.sl = Copied(e.sl)
      /\ MirrorVolume[e.volume] > 0
  <2>1. e.volume \in 1..SourceLots
    BY MirrorAssumption DEF Events, Volumes
  <2>2. MirrorVolume[e.volume] \in Nat \ {0}
    BY <2>1, MirrorAssumption
  <2>3. MirrorVolume[e.volume] > 0
    BY <2>2
  <2> QED
    BY ZenonT(40), <2>3, NewRowNumbered DEF NewRow, Sending, NotMirrored
<1>4. /\ failed.state = "FAILED" /\ failed.seq = 1 /\ failed.missing_since = "off" /\ failed.inflight = NoCmd
  BY <1>3 DEF Rows, RowType
<1> HIDE DEF new, failed
<1>5. Fits(failed, d, shown, cmds, ans, res)
  BY <1>1, <1>2, <1>4 DEF Fits, NumbersFit, ExistsFit, ContentsFit, ResultsFit, NoCmd
<1>6. new.inflight # NoCmd /\ new.inflight.n = 1 /\ new.inflight.kind = "open"
  BY <1>3 DEF NoCmd
<1>7. ASSUME NEW all \in SUBSET {new.inflight} PROVE Fits(new, d, shown, all, ans, res)
  <2>1. NumbersFit(new, all, ans, res)
    <3>1. new.state = "OPENING" /\ new.seq = 1
      BY <1>3
    <3>2. ASSUME NEW c \in all
          PROVE  c = new.inflight /\ c.n <= new.seq
      BY <1>6, <3>1
    <3>3. /\ \A n \in ans : n <= new.seq
          /\ \A x \in res : x.n \in ans
      BY <1>2, <3>1
    <3>4. new.state \in Live /\ new.inflight.n = new.seq /\ new.inflight.n # 0
      BY <1>6, <3>1 DEF Live
    <3> QED
      BY <1>6, <3>1, <3>2, <3>3, <3>4 DEF NumbersFit
  <2>2. ExistsFit(new, d, shown, ans)
    BY <1>1, <1>3 DEF Fits, ExistsFit
  <2>3. ContentsFit(new, d, shown, ans) /\ ResultsFit(new, d, res)
    BY <1>1, <1>2, <1>3 DEF ContentsFit, ResultsFit
  <2> QED
    BY <2>1, <2>2, <2>3 DEF Fits
<1> QED
  BY <1>2, <1>5, <1>7 DEF new, failed

LEMMA FitsResend ==
  ASSUME NEW row \in Rows, NEW d, NEW shown, NEW cmds, NEW ans, NEW res,
         Fits(row, d, shown, cmds, ans, res), row.state = "OPENING"
  PROVE  Fits(row, d, shown, cmds \union {row.inflight}, ans, res)
<1>1. row.inflight # NoCmd /\ row.seq \in Nat
  BY DEF Fits, NumbersFit, NoCmd, Rows, RowType
<1>2. NumbersFit(row, cmds \union {row.inflight}, ans, res)
  BY <1>1 DEF Fits, NumbersFit
<1> QED
  BY <1>2 DEF Fits

\* What the source's side of the mirror leaves of a row.
KeepsDest(old, new) ==
  /\ new.state = old.state /\ new.seq = old.seq /\ new.inflight = old.inflight
  /\ new.dest_volume = old.dest_volume /\ new.dest_volume_open = old.dest_volume_open
  /\ new.sl = old.sl /\ new.missing_since = old.missing_since

LEMMA FitsKept ==
  ASSUME NEW old, NEW new, NEW d, NEW shown, NEW cmds, NEW ans, NEW res,
         Fits(old, d, shown, cmds, ans, res), KeepsDest(old, new)
  PROVE  Fits(new, d, shown, cmds, ans, res)
<1>1. NumbersFit(new, cmds, ans, res)
  BY DEF Fits, NumbersFit, KeepsDest
<1>2. ExistsFit(new, d, shown, ans)
  BY DEF Fits, ExistsFit, KeepsDest
<1>3. ContentsFit(new, d, shown, ans)
  BY DEF Fits, ContentsFit, Agrees, KeepsDest
<1>4. ResultsFit(new, d, res)
  BY DEF Fits, ResultsFit, ResultFits, Agrees, KeepsDest
<1> QED
  BY <1>1, <1>2, <1>3, <1>4 DEF Fits

LEMMA FitsFewer ==
  ASSUME NEW row, NEW d, NEW shown, NEW cmds, NEW ans, NEW res, NEW fewer, NEW unread,
         Fits(row, d, shown, cmds, ans, res), fewer \subseteq cmds, unread \subseteq res
  PROVE  Fits(row, d, shown, fewer, ans, unread)
<1>1. NumbersFit(row, fewer, ans, unread)
  BY DEF Fits, NumbersFit
<1>2. ResultsFit(row, d, unread)
  BY DEF Fits, ResultsFit
<1> QED
  BY <1>1, <1>2 DEF Fits

\* A row that stops waiting.
LEMMA NumbersFitDone ==
  ASSUME NEW row \in Rows, NEW new \in Rows, NEW cmds \in SUBSET Cmds, NEW ans \in SUBSET Nat, NEW res,
         NumbersFit(row, cmds, ans, res), new.seq = row.seq, new.inflight = NoCmd,
         row.state # "none", new.state \in {"OPEN", "CLOSED", "FAILED"},
         new.state \in Live => row.state \in Live /\ (row.inflight = NoCmd \/ row.inflight.n \in ans),
         row.state = "OPENING" => row.inflight.n \in ans
  PROVE  NumbersFit(new, cmds, ans, res)
<1>1. \A c \in cmds : c.n # 0 /\ c.n \in Nat
  BY DEF Cmds, CmdType
<1>2. new.inflight.kind = "none" /\ new.inflight.n = 0
  BY DEF NoCmd
<1>3. ASSUME NEW c \in cmds, c.n \notin ans PROVE ~(new.state \in Live) /\ c.n # 1
  <2>1. row.state \in Live => c = row.inflight
    BY <1>3 DEF NumbersFit
  <2>2. c # NoCmd
    BY <1>1 DEF NoCmd
  <2>3. ~(new.state \in Live)
    BY <1>3, <2>1, <2>2
  <2>4. row.state = "OPENING" => FALSE
    BY <1>3, <2>1 DEF Live
  <2>5. c.n # 1
    BY <1>3, <2>4 DEF NumbersFit
  <2> QED
    BY <2>3, <2>5
<1> QED
  BY <1>1, <1>2, <1>3 DEF NumbersFit

LEMMA SucceededFields ==
  ASSUME NEW row \in Rows, row.inflight.n # 0
  PROVE  /\ Succeeded(row) \in Rows /\ Succeeded(row).seq = row.seq /\ Succeeded(row).inflight = NoCmd
         /\ Succeeded(row).missing_since = row.missing_since
         /\ row.inflight.kind \in {"open", "sltp", "close", "partial"}
         /\ row.inflight.kind = "open" =>
              /\ Succeeded(row).state = "OPEN" /\ Succeeded(row).sl = row.sl
              /\ Succeeded(row).dest_volume = row.dest_volume_open
         /\ row.inflight.kind = "sltp" =>
              /\ Succeeded(row).state = row.state /\ Succeeded(row).sl = row.inflight.sl
              /\ Succeeded(row).dest_volume = row.dest_volume
         /\ row.inflight.kind = "close" => Succeeded(row).state = "CLOSED"
         /\ row.inflight.kind = "partial" =>
              IF row.dest_volume - row.inflight.volume > 0
              THEN /\ Succeeded(row).state = row.state /\ Succeeded(row).sl = row.sl
                   /\ Succeeded(row).dest_volume = row.dest_volume - row.inflight.volume
              ELSE Succeeded(row).state = "CLOSED"
<1>1. row \in RowType /\ row.inflight.kind \in {"open", "sltp", "close", "partial"}
  BY DEF Rows, RowType, CmdType, Numbered
<1>2. Succeeded(row) \in Rows
  BY SucceededNumbered
<1>3. CASE row.inflight.kind = "open"
  BY <1>1, <1>2, <1>3 DEF Succeeded, RowType
<1>4. CASE row.inflight.kind = "sltp"
  BY <1>1, <1>2, <1>4 DEF Succeeded, RowType
<1>5. CASE row.inflight.kind = "close"
  BY <1>1, <1>2, <1>5 DEF Succeeded, RowType
<1>6. CASE row.inflight.kind = "partial"
  BY <1>1, <1>2, <1>6 DEF Succeeded, RowType
<1> QED
  BY <1>1, <1>3, <1>4, <1>5, <1>6

LEMMA FitsSucceeded ==
  ASSUME NEW row \in Rows, NEW d \in DestPositions, NEW shown \in Shown,
         NEW cmds \in SUBSET Cmds, NEW ans \in SUBSET Nat, NEW res \in SUBSET Results,
         Fits(row, d, shown, cmds, ans, res),
         NEW x \in res, x.n = row.inflight.n, x.ok = TRUE
  PROVE  Fits(Succeeded(row), d, shown, cmds, ans, res)
<1> DEFINE new == Succeeded(row)
<1>1. row.inflight.n # 0 /\ row.inflight.n \in ans /\ row.inflight # NoCmd
  BY DEF Results, NoCmd, Fits, NumbersFit
<1>2. row.state \in Live /\ (row.state = "OPENING" <=> row.inflight.kind = "open")
  BY <1>1 DEF Fits, NumbersFit
<1>3. ResultFits(row, d, TRUE)
  BY DEF Fits, ResultsFit
<1>4. /\ new \in Rows /\ new.seq = row.seq /\ new.inflight = NoCmd /\ new.missing_since = row.missing_since
      /\ row.inflight.kind \in {"open", "sltp", "close", "partial"}
      /\ row.inflight.kind = "open" =>
           new.state = "OPEN" /\ new.sl = row.sl /\ new.dest_volume = row.dest_volume_open
      /\ row.inflight.kind = "sltp" =>
           new.state = row.state /\ new.sl = row.inflight.sl /\ new.dest_volume = row.dest_volume
      /\ row.inflight.kind = "close" => new.state = "CLOSED"
      /\ row.inflight.kind = "partial" =>
           IF row.dest_volume - row.inflight.volume > 0
           THEN /\ new.state = row.state /\ new.sl = row.sl
                /\ new.dest_volume = row.dest_volume - row.inflight.volume
           ELSE new.state = "CLOSED"
  BY <1>1, SucceededFields
<1> HIDE DEF new
<1>5. new.state \in {"OPEN", "CLOSED"}
  BY <1>2, <1>4 DEF Live
<1>6. NumbersFit(new, cmds, ans, res)
  <2>1. NumbersFit(row, cmds, ans, res) /\ row.state # "none"
    BY <1>2 DEF Fits, Live
  <2>2. new.state \in {"OPEN", "CLOSED", "FAILED"}
    BY <1>5
  <2> QED
    BY <1>1, <1>2, <1>4, <2>1, <2>2, NumbersFitDone
<1>7. d.st # "none"
  <2>1. row.state = "OPEN" => d.st # "none"
    BY DEF Fits, ExistsFit
  <2> QED
    BY <1>2, <1>3, <2>1 DEF ResultFits, Live
<1>8. ExistsFit(new, d, shown, ans)
  <2>1. ExistsFit(row, d, shown, ans)
    BY DEF Fits
  <2>2. new.state \notin {"none", "FAILED"}
    BY <1>5
  <2> QED
    BY <1>4, <1>5, <1>7, <2>1, <2>2 DEF ExistsFit
<1>9. new.state = "OPEN" /\ d.st = "open" => Agrees(new, d)
  <2> SUFFICES ASSUME new.state = "OPEN", d.st = "open" PROVE Agrees(new, d)
    OBVIOUS
  <2>1. CASE row.inflight.kind = "open"
    <3>1. d.volume = row.dest_volume_open /\ d.sl = row.sl
      BY <1>2, <2>1 DEF Fits, ContentsFit
    <3> QED
      BY <1>4, <2>1, <3>1 DEF Agrees
  <2>2. CASE row.inflight.kind # "open"
    <3>1. row.state = "OPEN"
      BY <1>2, <2>2 DEF Live
    <3>2. CASE row.inflight.kind = "sltp"
      BY <1>3, <1>4, <3>2 DEF Agrees, ResultFits
    <3>3. CASE row.inflight.kind = "close"
      BY <1>3, <1>4, <3>3 DEF ResultFits
    <3>4. CASE row.inflight.kind = "partial"
      BY <1>3, <1>4, <3>4 DEF Agrees, ResultFits
    <3> QED
      BY <1>4, <2>2, <3>2, <3>3, <3>4
  <2> QED
    BY <2>1, <2>2
<1>10. ContentsFit(new, d, shown, ans)
  BY <1>5, <1>9 DEF ContentsFit
<1>11. ResultsFit(new, d, res)
  BY <1>4 DEF ResultsFit, Results, NoCmd
<1> QED
  BY <1>6, <1>8, <1>10, <1>11 DEF Fits, new

LEMMA FailedFields ==
  ASSUME NEW row \in Rows
  PROVE  /\ Failed(row) \in Rows /\ Failed(row).seq = row.seq /\ Failed(row).inflight = NoCmd
         /\ Failed(row).missing_since = row.missing_since
         /\ Failed(row).state = IF row.inflight.kind = "open" THEN "FAILED" ELSE row.state
         /\ Failed(row).dest_volume = row.dest_volume /\ Failed(row).sl = row.sl
BY FailedNumbered DEF Failed, Rows, RowType

LEMMA FitsFailed ==
  ASSUME NEW row \in Rows, NEW d \in DestPositions, NEW shown \in Shown,
         NEW cmds \in SUBSET Cmds, NEW ans \in SUBSET Nat, NEW res \in SUBSET Results,
         Fits(row, d, shown, cmds, ans, res),
         NEW x \in res, x.n = row.inflight.n, x.ok = FALSE
  PROVE  Fits(Failed(row), d, shown, cmds, ans, res)
<1> DEFINE new == Failed(row)
<1>1. row.inflight.n # 0 /\ row.inflight.n \in ans /\ row.inflight # NoCmd
  BY DEF Results, NoCmd, Fits, NumbersFit
<1>2. row.state \in Live /\ (row.state = "OPENING" <=> row.inflight.kind = "open")
  BY <1>1 DEF Fits, NumbersFit
<1>3. ResultFits(row, d, FALSE)
  BY DEF Fits, ResultsFit
<1>4. /\ new \in Rows /\ new.seq = row.seq /\ new.inflight = NoCmd /\ new.missing_since = row.missing_since
      /\ new.state = (IF row.inflight.kind = "open" THEN "FAILED" ELSE row.state)
      /\ new.dest_volume = row.dest_volume /\ new.sl = row.sl
  BY FailedFields
<1> HIDE DEF new
<1>5. IF row.inflight.kind = "open" THEN new.state = "FAILED" ELSE new.state = "OPEN" /\ row.state = "OPEN"
  BY <1>2, <1>4 DEF Live
<1>6. NumbersFit(new, cmds, ans, res)
  <2>1. NumbersFit(row, cmds, ans, res) /\ row.state # "none"
    BY <1>2 DEF Fits, Live
  <2>2. new.state \in {"OPEN", "CLOSED", "FAILED"}
    BY <1>5
  <2> QED
    BY <1>1, <1>2, <1>4, <2>1, <2>2, NumbersFitDone
<1>7. ExistsFit(new, d, shown, ans)
  <2>1. ExistsFit(row, d, shown, ans)
    BY DEF Fits
  <2>2. CASE row.inflight.kind = "open"
    <3>1. d.st = "none" /\ new.state = "FAILED" /\ row.state = "OPENING"
      BY <1>2, <1>3, <1>5, <2>2 DEF ResultFits
    <3> QED
      BY <1>4, <2>1, <3>1 DEF ExistsFit
  <2>3. CASE row.inflight.kind # "open"
    <3>1. new.state = "OPEN" /\ row.state = "OPEN"
      BY <1>5, <2>3
    <3> QED
      BY <1>4, <2>1, <3>1 DEF ExistsFit
  <2> QED
    BY <2>2, <2>3
<1>8. ContentsFit(new, d, shown, ans)
  BY <1>3, <1>4, <1>5 DEF ContentsFit, ResultFits, Agrees
<1>9. ResultsFit(new, d, res)
  BY <1>4 DEF ResultsFit, Results, NoCmd
<1> QED
  BY <1>6, <1>7, <1>8, <1>9 DEF Fits, new

LEMMA FitsAdopted ==
  ASSUME NEW row \in Rows, NEW d \in DestPositions, NEW shown \in Shown,
         NEW cmds \in SUBSET Cmds, NEW ans \in SUBSET Nat,
         Fits(row, d, shown, cmds, ans, {})
  PROVE  Adopt(row, shown) \in Rows /\ Fits(Adopt(row, shown), d, shown, cmds, ans, {})
<1> DEFINE new == Adopt(row, shown)
<1>1. CASE row.state = "OPENING" /\ shown.volume > 0
  <2>1. /\ new \in RowType /\ new.seq = row.seq /\ new.inflight = NoCmd /\ new.missing_since = row.missing_since
        /\ new.state = "OPEN" /\ new.dest_volume = shown.volume /\ new.sl = shown.sl
    BY <1>1, AdoptType DEF Adopt, Rows, RowType
  <2>2. new \in Rows
    BY <2>1, NoCmdNumbered DEF Rows
  <2> HIDE DEF new
  <2>3. d.st # "none" /\ 1 \in ans
    BY <1>1 DEF Fits, ExistsFit
  <2>4. row.inflight.n = 1 /\ row.inflight.kind = "open"
    BY <1>1 DEF Fits, NumbersFit, Rows, Numbered
  <2>5. NumbersFit(new, cmds, ans, {})
    <3>1. /\ NumbersFit(row, cmds, ans, {}) /\ row.state # "none" /\ row.state \in Live
          /\ new.state \in {"OPEN", "CLOSED", "FAILED"}
      BY <1>1, <2>1 DEF Fits, Live
    <3> QED
      BY <2>1, <2>2, <2>3, <2>4, <3>1, NumbersFitDone
  <2>6. ExistsFit(new, d, shown, ans)
    BY <1>1, <2>1, <2>3 DEF Fits, ExistsFit
  <2>7. ContentsFit(new, d, shown, ans)
    BY <1>1, <2>1 DEF Fits, ContentsFit, Agrees
  <2>8. ResultsFit(new, d, {})
    BY DEF ResultsFit
  <2> QED
    BY <2>2, <2>5, <2>6, <2>7, <2>8 DEF Fits, new
<1>2. CASE ~(row.state = "OPENING" /\ shown.volume > 0)
  BY <1>2 DEF Adopt
<1> QED
  BY <1>1, <1>2

LEMMA FitsWatched ==
  ASSUME NEW row \in Rows, NEW d \in DestPositions, NEW shown \in Shown,
         NEW cmds \in SUBSET Cmds, NEW ans \in SUBSET Nat,
         Fits(row, d, shown, cmds, ans, {})
  PROVE  Watch(row, shown) \in Rows /\ Fits(Watch(row, shown), d, shown, cmds, ans, {})
<1> DEFINE new == Watch(row, shown)
           over == [row EXCEPT !.state = "CLOSED", !.dest_volume = 0, !.inflight = NoCmd]
<1>1. row \in RowType /\ (shown.volume > 0 \/ shown.volume = 0)
  BY DEF Rows, Shown
<1>2. ASSUME NEW since \in {"on", "off"}, row.state = "OPEN"
      PROVE  /\ [row EXCEPT !.missing_since = since] \in Rows
             /\ Fits([row EXCEPT !.missing_since = since], d, shown, cmds, ans, {})
  <2> DEFINE timed == [row EXCEPT !.missing_since = since]
  <2>1. /\ timed \in RowType /\ timed.state = row.state /\ timed.seq = row.seq /\ timed.inflight = row.inflight
        /\ timed.dest_volume = row.dest_volume /\ timed.dest_volume_open = row.dest_volume_open
        /\ timed.sl = row.sl
    BY <1>1 DEF RowType
  <2>2. timed \in Rows
    BY <2>1 DEF Rows
  <2> HIDE DEF timed
  <2>3. NumbersFit(timed, cmds, ans, {}) /\ ResultsFit(timed, d, {})
    BY <2>1 DEF Fits, NumbersFit, ResultsFit
  <2>4. ExistsFit(timed, d, shown, ans)
    BY <1>2, <2>1 DEF Fits, ExistsFit
  <2>5. ContentsFit(timed, d, shown, ans)
    BY <2>1 DEF Fits, ContentsFit, Agrees
  <2> QED
    BY <2>2, <2>3, <2>4, <2>5 DEF Fits, timed
<1>3. ASSUME row.state = "OPEN" PROVE over \in Rows /\ Fits(over, d, shown, cmds, ans, {})
  <2>1. /\ over \in RowType /\ over.state = "CLOSED" /\ over.seq = row.seq /\ over.inflight = NoCmd
        /\ over.missing_since = row.missing_since
    BY <1>1, NoCmdType DEF RowType, Live
  <2>2. over \in Rows
    BY <2>1, NoCmdNumbered DEF Rows
  <2> HIDE DEF over
  <2>3. NumbersFit(over, cmds, ans, {})
    <3>1. /\ NumbersFit(row, cmds, ans, {}) /\ row.state # "none" /\ row.state # "OPENING"
          /\ over.state \in {"OPEN", "CLOSED", "FAILED"} /\ over.state \notin Live
      BY <1>3, <2>1 DEF Fits, Live
    <3> QED
      BY <2>1, <2>2, <3>1, NumbersFitDone
  <2>4. ExistsFit(over, d, shown, ans)
    BY <1>3, <2>1 DEF Fits, ExistsFit
  <2>5. ContentsFit(over, d, shown, ans) /\ ResultsFit(over, d, {})
    BY <2>1 DEF ContentsFit, ResultsFit
  <2> QED
    BY <2>2, <2>3, <2>4, <2>5 DEF Fits
<1> HIDE DEF over
<1>4. \/ new = row
      \/ row.state = "OPEN" /\ new = over
      \/ row.state = "OPEN" /\ \E since \in {"on", "off"} : new = [row EXCEPT !.missing_since = since]
  BY <1>1 DEF Watch, over
<1> QED
  BY <1>2, <1>3, <1>4

\* The table of an open position that waits for nothing is extended by a command, which may be written,
\* or not, or be given up.
LEMMA FitsSent ==
  ASSUME NEW row \in Rows, NEW d \in DestPositions, NEW shown \in Shown,
         NEW cmds \in SUBSET Cmds, NEW ans \in SUBSET Nat,
         Fits(row, d, shown, cmds, ans, {}), row.state = "OPEN", row.inflight = NoCmd,
         NEW kind \in {"close", "partial", "sltp"}, NEW volume \in Nat, NEW sl \in Levels
  PROVE  LET new == Sending(row, kind, volume, sl) IN
         /\ Fits(new, d, shown, cmds, ans, {})
         /\ Fits(new, d, shown, cmds \union {new.inflight}, ans, {})
         /\ Fits([new EXCEPT !.inflight = NoCmd, !.failures = new.failures + 1], d, shown, cmds, ans, {})
<1> DEFINE new == Sending(row, kind, volume, sl)
           failed == [new EXCEPT !.inflight = NoCmd, !.failures = new.failures + 1]
<1>1. row.seq \in Nat /\ row \in RowType
  BY DEF Rows, RowType
<1>2. /\ new.state = "OPEN" /\ new.seq = row.seq + 1 /\ new.inflight.n = row.seq + 1
      /\ new.inflight.kind = kind /\ new.dest_volume = row.dest_volume /\ new.sl = row.sl
      /\ new.missing_since = row.missing_since
  BY <1>1 DEF Sending, RowType
<1>3. /\ failed.state = "OPEN" /\ failed.seq = row.seq + 1 /\ failed.inflight = NoCmd
      /\ failed.dest_volume = row.dest_volume /\ failed.sl = row.sl
      /\ failed.missing_since = row.missing_since
  BY <1>1, <1>2 DEF Sending, RowType
<1> HIDE DEF new, failed
<1>4. \A c \in cmds : c.n \in ans /\ c.n <= row.seq /\ c.n \in Nat \ {0}
  <2> TAKE c \in cmds
  <2>1. c.n \in Nat \ {0} /\ c # NoCmd
    BY DEF Cmds, CmdType, NoCmd
  <2> QED
    BY <2>1 DEF Fits, NumbersFit, Live
<1>5. \A n \in ans : n <= row.seq /\ n \in Nat
  BY DEF Fits, NumbersFit
<1>6. row.seq + 1 \notin ans
  BY <1>1, <1>5
<1>7. Agrees(row, d) \/ d.st # "open"
  BY DEF Fits, ContentsFit
<1>8. ASSUME NEW any, any.state = "OPEN", any.missing_since = row.missing_since
      PROVE  ExistsFit(any, d, shown, ans)
  BY <1>8 DEF Fits, ExistsFit
<1>9. ASSUME NEW any, any.state = "OPEN", any.dest_volume = row.dest_volume, any.sl = row.sl
      PROVE  ContentsFit(any, d, shown, ans) /\ ResultsFit(any, d, {})
  BY <1>7, <1>9 DEF ContentsFit, ResultsFit, Agrees
<1>10. NumbersFit(failed, cmds, ans, {})
  <2>1. NoCmd.n = 0 /\ NoCmd.kind = "none"
    BY DEF NoCmd
  <2> QED
    BY <1>1, <1>3, <1>4, <1>5, <2>1 DEF NumbersFit
<1>11. NumbersFit(new, cmds \union {new.inflight}, ans, {})
  <2>1. ASSUME NEW c \in cmds \union {new.inflight}
        PROVE  /\ c.n <= row.seq + 1
               /\ c.n = row.seq + 1 => c = new.inflight
               /\ c.n \notin ans => c = new.inflight
               /\ c.n \notin ans => c.n = row.seq + 1
    BY <1>1, <1>2, <1>4
  <2>2. row.seq # 0 /\ row.seq + 1 # 1
    <3>1. 1 \in ans
      BY DEF Fits, ExistsFit
    <3> QED
      BY <1>1, <1>5, <3>1
  <2>3. \A n \in ans : n <= row.seq + 1
    BY <1>1, <1>5
  <2>4. row.seq + 1 # 0
    BY <1>1
  <2> QED
    BY <1>2, <1>4, <2>1, <2>2, <2>3, <2>4 DEF NumbersFit, Live
<1>12. NumbersFit(new, cmds, ans, {})
  BY <1>11 DEF NumbersFit
<1> QED
  BY <1>2, <1>3, <1>8, <1>9, <1>10, <1>11, <1>12 DEF Fits, new, failed

\* What the EA makes of the position d.
After(d, cmd) ==
  CASE cmd.kind = "open" ->
         [st |-> IF d.st = "none" THEN "open" ELSE "twice", volume |-> cmd.volume, sl |-> cmd.sl, deals |-> FALSE]
    [] cmd.kind = "sltp" -> [d EXCEPT !.sl = cmd.sl]
    [] cmd.kind = "partial" /\ cmd.volume < d.volume ->
         [d EXCEPT !.volume = d.volume - cmd.volume, !.deals = TRUE]
    [] OTHER -> [st |-> "closed", volume |-> 0, sl |-> 0, deals |-> TRUE]

LEMMA AfterFields ==
  ASSUME NEW d \in DestPositions, NEW cmd \in CmdType
  PROVE  /\ cmd.kind = "open" /\ d.st = "none" =>
              /\ After(d, cmd).st = "open" /\ After(d, cmd).volume = cmd.volume /\ After(d, cmd).sl = cmd.sl
              /\ After(d, cmd).deals = FALSE
         /\ cmd.kind = "sltp" =>
              /\ After(d, cmd).st = d.st /\ After(d, cmd).volume = d.volume /\ After(d, cmd).sl = cmd.sl
         /\ (cmd.kind = "partial" /\ cmd.volume < d.volume) =>
              /\ After(d, cmd).st = d.st /\ After(d, cmd).volume = d.volume - cmd.volume
              /\ After(d, cmd).sl = d.sl
         /\ (cmd.kind = "close" \/ (cmd.kind = "partial" /\ ~(cmd.volume < d.volume))) =>
              /\ After(d, cmd).st = "closed" /\ After(d, cmd).volume = 0
<1>1. CASE cmd.kind = "open"
  BY <1>1 DEF After
<1>2. CASE cmd.kind = "sltp"
  BY <1>2 DEF After, DestPositions
<1>3. CASE cmd.kind = "close"
  BY <1>3 DEF After
<1>4. CASE cmd.kind = "partial" /\ cmd.volume < d.volume
  BY <1>4 DEF After, DestPositions
<1>5. CASE cmd.kind = "partial" /\ ~(cmd.volume < d.volume)
  BY <1>5 DEF After
<1> QED
  BY <1>1, <1>2, <1>3, <1>4, <1>5

LEMMA NumbersFitAnswered ==
  ASSUME NEW row \in Rows, NEW cmds \in SUBSET Cmds, NEW ans \in SUBSET Nat, NEW res,
         NumbersFit(row, cmds, ans, res), NEW cmd \in cmds, NEW more,
         \A x \in more : x.n = cmd.n
  PROVE  NumbersFit(row, cmds, ans \union {cmd.n}, res \union more)
BY DEF NumbersFit

LEMMA FitsExecuted ==
  ASSUME NEW row \in Rows, NEW d \in DestPositions, NEW shown \in Shown,
         NEW cmds \in SUBSET Cmds, NEW ans \in SUBSET Nat, NEW res \in SUBSET Results,
         Fits(row, d, shown, cmds, ans, res),
         NEW cmd \in cmds, cmd.n \notin ans, cmd.kind = "open" \/ d.st = "open",
         NEW more \in SUBSET Results, \A x \in more : x.n = cmd.n /\ x.ok = TRUE
  PROVE  Fits(row, After(d, cmd), shown, cmds, ans \union {cmd.n}, res \union more)
<1> DEFINE new == After(d, cmd)
           all == ans \union {cmd.n}
<1>1. /\ cmd \in CmdType /\ Numbered(cmd) /\ cmd.n \in Nat \ {0} /\ cmd.volume \in Nat
      /\ cmd.kind \in {"open", "sltp", "close", "partial"}
  BY DEF Cmds, CmdType, Numbered
<1>2. /\ row.state \in Live => cmd = row.inflight
      /\ cmd.n = 1 => row.state = "OPENING"
      /\ row.inflight # NoCmd => row.state \in Live
      /\ row.state # "OPENING" => row.inflight.kind # "open"
      /\ row.state = "OPENING" => row.inflight.kind = "open"
  BY DEF Fits, NumbersFit
<1>3. \A x \in res : x.n # cmd.n
  BY DEF Fits, NumbersFit
<1>4. NumbersFit(row, cmds, all, res \union more)
  BY NumbersFitAnswered DEF Fits
<1>5. CASE cmd.kind = "open"
  <2>1. cmd.n = 1 /\ row.state = "OPENING" /\ cmd = row.inflight
    BY <1>1, <1>2, <1>5 DEF Numbered, Live
  <2>2. d.st = "none" /\ ~(shown.volume > 0) /\ ~(shown.deals = TRUE /\ shown.volume = 0)
    BY <2>1 DEF Fits, ExistsFit
  <2>3. new.st = "open" /\ new.volume = cmd.volume /\ new.sl = cmd.sl /\ new.deals = FALSE
    BY <1>1, <1>5, <2>2, AfterFields
  <2> HIDE DEF new
  <2>4. cmd.volume > 0
    BY <2>1 DEF Fits, ContentsFit
  <2>5. 1 \in all
    BY <2>1
  <2> HIDE DEF all
  <2>6. ExistsFit(row, new, shown, all)
    BY <2>1, <2>2, <2>3, <2>4, <2>5 DEF Fits, ExistsFit
  <2>7. ContentsFit(row, new, shown, all)
    BY <2>1, <2>2, <2>3 DEF Fits, ContentsFit
  <2>8. ResultsFit(row, new, res \union more)
    <3>1. ResultFits(row, new, TRUE)
      BY <1>5, <2>1, <2>3 DEF ResultFits
    <3>2. \A x \in more : x.ok = TRUE
      OBVIOUS
    <3>3. \A x \in res : x.n # row.inflight.n
      BY <1>3, <2>1
    <3> QED
      BY <3>1, <3>2, <3>3 DEF ResultsFit
  <2> QED
    BY <1>4, <2>6, <2>7, <2>8 DEF Fits, new, all
<1>6. CASE cmd.kind # "open"
  <2>1. d.st = "open" /\ d.volume > 0 /\ d.volume \in Nat
    BY <1>6 DEF Fits, ExistsFit, DestPositions
  <2>2. row.state # "OPENING"
    BY <1>2, <1>6 DEF Live
  <2>3. /\ cmd.kind = "sltp" => new.st = "open" /\ new.volume = d.volume /\ new.sl = cmd.sl
        /\ (cmd.kind = "partial" /\ cmd.volume < d.volume) =>
             new.st = "open" /\ new.volume = d.volume - cmd.volume /\ new.sl = d.sl
        /\ (cmd.kind = "close" \/ (cmd.kind = "partial" /\ ~(cmd.volume < d.volume))) =>
             new.st = "closed" /\ new.volume = 0
    BY <1>1, <2>1, AfterFields
  <2> HIDE DEF new
  <2>4. new.st \in {"open", "closed"} /\ (new.st = "open" <=> new.volume > 0)
    <3>1. cmd.volume < d.volume => d.volume - cmd.volume > 0
      BY <1>1, <2>1
    <3>2. CASE cmd.kind = "sltp"
      BY <2>1, <2>3, <3>2
    <3>3. CASE cmd.kind = "partial" /\ cmd.volume < d.volume
      BY <2>3, <3>1, <3>3
    <3>4. CASE cmd.kind = "close" \/ (cmd.kind = "partial" /\ ~(cmd.volume < d.volume))
      BY <2>3, <3>4
    <3> QED
      BY <1>1, <1>6, <3>2, <3>3, <3>4
  <2>5. 1 \in all
    BY <2>1 DEF Fits, ExistsFit
  <2>6. row.state # "none" /\ row.state # "FAILED" /\ ~(shown.deals = TRUE /\ shown.volume = 0)
    BY <2>1 DEF Fits, ExistsFit
  <2>7. ExistsFit(row, new, shown, all)
    BY <2>4, <2>5, <2>6 DEF Fits, ExistsFit
  <2>8. row.state = "OPEN" => cmd = row.inflight /\ cmd # NoCmd /\ Agrees(row, d)
    <3>1. cmd # NoCmd
      BY <1>1 DEF NoCmd
    <3> QED
      BY <1>2, <2>1, <3>1 DEF Fits, ContentsFit, Live
  <2>9. ContentsFit(row, new, shown, all)
    BY <2>2, <2>8 DEF ContentsFit
  <2>10. ASSUME cmd = row.inflight PROVE ResultFits(row, new, TRUE)
    <3>1. row.state = "OPEN"
      <4>1. cmd # NoCmd
        BY <1>1 DEF NoCmd
      <4> QED
        BY <1>2, <2>2, <2>10, <4>1 DEF Live
    <3>2. row.dest_volume = d.volume /\ row.sl = d.sl
      BY <2>8, <3>1 DEF Agrees
    <3>3. CASE cmd.kind = "sltp"
      BY <2>3, <2>10, <3>2, <3>3 DEF ResultFits
    <3>4. CASE cmd.kind = "partial" /\ cmd.volume < d.volume
      BY <2>3, <2>10, <3>2, <3>4 DEF ResultFits
    <3>5. CASE cmd.kind = "close" \/ (cmd.kind = "partial" /\ ~(cmd.volume < d.volume))
      BY <2>3, <2>10, <3>2, <3>5 DEF ResultFits
    <3> QED
      BY <1>1, <1>6, <3>3, <3>4, <3>5
  <2>11. ResultsFit(row, new, res \union more)
    <3>1. \A x \in more : x.n = cmd.n /\ x.ok = TRUE
      OBVIOUS
    <3>2. cmd.n = row.inflight.n => cmd = row.inflight
      BY DEF Fits, NumbersFit
    <3>3. ASSUME NEW x \in res, x.n = row.inflight.n PROVE ResultFits(row, new, x.ok)
      <4>1. cmd # row.inflight
        BY <1>3, <3>3
      <4>2. row.inflight = NoCmd
        BY <1>2, <4>1
      <4> QED
        BY <3>3, <4>2 DEF Results, NoCmd
    <3> QED
      BY <2>10, <3>1, <3>2, <3>3 DEF ResultsFit
  <2> QED
    BY <1>4, <2>7, <2>9, <2>11 DEF Fits, new, all
<1> QED
  BY <1>5, <1>6

LEMMA FitsRefused ==
  ASSUME NEW row \in Rows, NEW d \in DestPositions, NEW shown \in Shown,
         NEW cmds \in SUBSET Cmds, NEW ans \in SUBSET Nat, NEW res \in SUBSET Results,
         Fits(row, d, shown, cmds, ans, res),
         NEW cmd \in cmds, cmd.n \notin ans,
         NEW more \in SUBSET Results, \A x \in more : x.n = cmd.n /\ x.ok = FALSE
  PROVE  Fits(row, d, shown, cmds, ans \union {cmd.n}, res \union more)
<1> DEFINE all == ans \union {cmd.n}
<1>1. cmd \in CmdType /\ Numbered(cmd) /\ cmd # NoCmd
  BY DEF Cmds, NoCmd
<1>2. /\ row.state \in Live => cmd = row.inflight
      /\ cmd.n = 1 => row.state = "OPENING"
      /\ cmd.n = row.inflight.n => cmd = row.inflight
      /\ row.inflight # NoCmd => row.state \in Live
      /\ row.state # "OPENING" => row.inflight.kind # "open"
  BY DEF Fits, NumbersFit
<1>3. NumbersFit(row, cmds, all, res \union more)
  BY NumbersFitAnswered DEF Fits
<1>4. ExistsFit(row, d, shown, all)
  BY DEF Fits, ExistsFit
<1>5. ContentsFit(row, d, shown, all)
  BY DEF Fits, ContentsFit
<1>6. ASSUME cmd = row.inflight PROVE ResultFits(row, d, FALSE)
  <2>1. row.inflight.kind = "open" => d.st = "none"
    <3>1. row.inflight.kind = "open" => cmd.n = 1
      BY <1>1, <1>6 DEF Numbered
    <3> QED
      BY <3>1 DEF Fits, ExistsFit
  <2>2. row.inflight.kind # "open" /\ d.st = "open" => Agrees(row, d)
    <3> SUFFICES ASSUME row.inflight.kind # "open", d.st = "open" PROVE Agrees(row, d)
      OBVIOUS
    <3>1. row.state = "OPEN"
      BY <1>1, <1>2, <1>6 DEF Live, Fits, NumbersFit
    <3> QED
      BY <1>6, <3>1 DEF Fits, ContentsFit
  <2> QED
    BY <2>1, <2>2 DEF ResultFits
<1>7. ResultsFit(row, d, res \union more)
  <2>1. \A x \in more : x.n = cmd.n /\ x.ok = FALSE
    OBVIOUS
  <2> QED
    BY <1>2, <1>6, <2>1 DEF Fits, ResultsFit
<1> QED
  BY <1>3, <1>4, <1>5, <1>7 DEF Fits, all

\* state.json is written.
LEMMA FitsShown ==
  ASSUME NEW row \in Rows, NEW d \in DestPositions, NEW shown, NEW cmds, NEW ans, NEW res,
         Fits(row, d, shown, cmds, ans, res)
  PROVE  Fits(row, d, [volume |-> d.volume, sl |-> d.sl, deals |-> d.deals], cmds, ans, res)
<1> DEFINE now == [volume |-> d.volume, sl |-> d.sl, deals |-> d.deals]
<1>1. now.volume = d.volume /\ now.sl = d.sl /\ now.deals = d.deals /\ d.volume \in Nat
  BY DEF DestPositions
<1> HIDE DEF now
<1>2. ExistsFit(row, d, now, ans)
  BY <1>1 DEF Fits, ExistsFit
<1>3. ContentsFit(row, d, now, ans)
  BY <1>1 DEF Fits, ContentsFit
<1> QED
  BY <1>2, <1>3 DEF Fits, now

\* The position closes by itself, or its deal is too old to be listed.
LEMMA FitsClosed ==
  ASSUME NEW row, NEW d, NEW shown, NEW cmds, NEW ans, NEW res,
         Fits(row, d, shown, cmds, ans, res), d.st = "open"
  PROVE  Fits(row, [st |-> "closed", volume |-> 0, sl |-> 0, deals |-> TRUE], shown, cmds, ans, res)
<1> DEFINE over == [st |-> "closed", volume |-> 0, sl |-> 0, deals |-> TRUE]
<1>1. over.st = "closed" /\ over.volume = 0 /\ over.deals = TRUE
  OBVIOUS
<1> HIDE DEF over
<1>2. ExistsFit(row, over, shown, ans)
  BY <1>1 DEF Fits, ExistsFit
<1>3. ContentsFit(row, over, shown, ans)
  BY <1>1 DEF Fits, ContentsFit
<1>4. ResultsFit(row, over, res)
  BY <1>1 DEF Fits, ResultsFit, ResultFits
<1> QED
  BY <1>2, <1>3, <1>4 DEF Fits, over

LEMMA FitsAged ==
  ASSUME NEW row, NEW d \in DestPositions, NEW shown, NEW cmds, NEW ans, NEW res,
         Fits(row, d, shown, cmds, ans, res)
  PROVE  Fits(row, [d EXCEPT !.deals = FALSE], shown, cmds, ans, res)
<1> DEFINE aged == [d EXCEPT !.deals = FALSE]
<1>1. aged.st = d.st /\ aged.volume = d.volume /\ aged.sl = d.sl /\ aged.deals = FALSE
  BY DEF DestPositions
<1> HIDE DEF aged
<1>2. ExistsFit(row, aged, shown, ans)
  BY <1>1 DEF Fits, ExistsFit
<1>3. ContentsFit(row, aged, shown, ans)
  BY <1>1 DEF Fits, ContentsFit, Agrees
<1>4. ResultsFit(row, aged, res)
  BY <1>1 DEF Fits, ResultsFit, ResultFits, Agrees
<1> QED
  BY <1>2, <1>3, <1>4 DEF Fits, aged

LEMMA FitsDue ==
  ASSUME NEW row \in Rows, NEW d, NEW shown, NEW cmds, NEW ans, NEW res,
         Fits(row, d, shown, cmds, ans, res), row.missing_since = "on"
  PROVE  Fits([row EXCEPT !.missing_since = "due"], d, shown, cmds, ans, res)
<1> DEFINE due == [row EXCEPT !.missing_since = "due"]
<1>1. /\ due.state = row.state /\ due.seq = row.seq /\ due.inflight = row.inflight
      /\ due.dest_volume = row.dest_volume /\ due.dest_volume_open = row.dest_volume_open
      /\ due.sl = row.sl /\ due.missing_since = "due"
  BY DEF Rows, RowType
<1> HIDE DEF due
<1>2. NumbersFit(due, cmds, ans, res)
  BY <1>1 DEF Fits, NumbersFit
<1>3. ExistsFit(due, d, shown, ans)
  BY <1>1 DEF Fits, ExistsFit
<1>4. ContentsFit(due, d, shown, ans)
  BY <1>1 DEF Fits, ContentsFit, Agrees
<1>5. ResultsFit(due, d, res)
  BY <1>1 DEF Fits, ResultsFit, ResultFits, Agrees
<1> QED
  BY <1>2, <1>3, <1>4, <1>5 DEF Fits, due

(***************************************************************************)
(* The steps                                                               *)
(***************************************************************************)
LEMMA SentIsCmd == \A line \in Sent : line.pos \in Positions /\ line.cmd \in Cmds /\ line = Line(line.pos, line.cmd)
BY DEF Sent, Lines, Cmds, Line

LEMMA LineInjective ==
  \A p, q, a, b : Line(p, a) = Line(q, b) => p = q /\ a = b
<1> SUFFICES ASSUME NEW p, NEW q, NEW a, NEW b, Line(p, a) = Line(q, b) PROVE p = q /\ a = b
  OBVIOUS
<1>1. Line(p, a).pos = p /\ Line(p, a).cmd = a /\ Line(q, b).pos = q /\ Line(q, b).cmd = b
  BY DEF Line
<1> QED
  BY <1>1

LEMMA AskedAppend ==
  ASSUME commands \in Seq(Sent), NEW p \in Positions, NEW cmd \in Cmds,
         commands' = Append(commands, Line(p, cmd)), NEW q \in Positions
  PROVE  AskedOf(q)' = IF q = p THEN AskedOf(q) \union {cmd} ELSE AskedOf(q)
<1>1. Line(p, cmd) \in Sent
  BY DEF Line, Sent, Lines, Cmds
<1>2. /\ Len(commands) \in Nat /\ Len(commands') = Len(commands) + 1
      /\ \A i \in 1..Len(commands) : commands'[i] = commands[i]
      /\ commands'[Len(commands) + 1] = Line(p, cmd)
  BY <1>1, AppendProperties, LenProperties
<1>3. ASSUME NEW c \in Cmds
      PROVE  (\E i \in 1..Len(commands') : commands'[i] = Line(q, c))
             <=> (\E i \in 1..Len(commands) : commands[i] = Line(q, c)) \/ (q = p /\ c = cmd)
  <2>1. ASSUME NEW i \in 1..Len(commands'), commands'[i] = Line(q, c)
        PROVE  (\E j \in 1..Len(commands) : commands[j] = Line(q, c)) \/ (q = p /\ c = cmd)
    <3>1. CASE i = Len(commands) + 1
      BY <1>2, <2>1, <3>1, LineInjective
    <3>2. CASE i # Len(commands) + 1
      <4>1. i \in 1..Len(commands)
        BY <1>2, <3>2
      <4> QED
        BY <1>2, <2>1, <4>1
    <3> QED
      BY <3>1, <3>2
  <2>2. ASSUME NEW i \in 1..Len(commands), commands[i] = Line(q, c)
        PROVE  \E j \in 1..Len(commands') : commands'[j] = Line(q, c)
    <3>1. i \in 1..Len(commands')
      BY <1>2
    <3> QED
      BY <1>2, <2>2, <3>1
  <2>3. ASSUME q = p, c = cmd PROVE \E j \in 1..Len(commands') : commands'[j] = Line(q, c)
    <3>1. Len(commands) + 1 \in 1..Len(commands')
      BY <1>2
    <3> QED
      BY <1>2, <2>3, <3>1
  <2> QED
    BY <2>1, <2>2, <2>3
<1> QED
  BY <1>3 DEF AskedOf

LEMMA AskedTail ==
  ASSUME commands \in Seq(Sent), commands # << >>, commands' = Tail(commands)
  PROVE  /\ \A q \in Positions : AskedOf(q)' \subseteq AskedOf(q)
         /\ Head(commands) \in Sent
         /\ Head(commands).cmd \in AskedOf(Head(commands).pos)
<1>1. /\ Len(commands) \in Nat \ {0} /\ Head(commands) \in Sent /\ Head(commands) = commands[1]
      /\ Len(commands') = Len(commands) - 1
      /\ \A i \in 1..Len(commands') : commands'[i] = commands[i + 1]
  BY HeadTailProperties, EmptySeq, LenProperties
<1>2. \A i \in 1..Len(commands') : i + 1 \in 1..Len(commands)
  BY <1>1
<1>3. ASSUME NEW q \in Positions PROVE AskedOf(q)' \subseteq AskedOf(q)
  BY <1>1, <1>2 DEF AskedOf
<1>4. Head(commands).cmd \in AskedOf(Head(commands).pos)
  <2>1. 1 \in 1..Len(commands)
    BY <1>1
  <2> QED
    BY <1>1, <2>1, SentIsCmd DEF AskedOf
<1> QED
  BY <1>1, <1>3, <1>4

LEMMA AskedSame ==
  ASSUME UNCHANGED commands, NEW q \in Positions PROVE AskedOf(q)' = AskedOf(q)
BY DEF AskedOf

LEMMA FitsTypes ==
  ASSUME TypeInv, NEW p \in Positions
  PROVE  /\ table[p] \in Rows /\ dest[p] \in DestPositions /\ state[p] \in Shown
         /\ AskedOf(p) \in SUBSET Cmds /\ AnsweredOf(p) \in SUBSET Nat /\ ResultsOf(p) \in SUBSET Results
BY DEF TypeInv, AskedOf, AnsweredOf, ResultsOf

\* A position that a step does not concern.
LEMMA FitsElsewhere ==
  ASSUME NEW q \in Positions, FitsAt(q),
         table'[q] = table[q], dest'[q] = dest[q], state'[q] = state[q],
         AskedOf(q)' \subseteq AskedOf(q), AnsweredOf(q)' = AnsweredOf(q), ResultsOf(q)' \subseteq ResultsOf(q)
  PROVE  FitsAt(q)'
BY FitsFewer DEF FitsAt

LEMMA FitsInit == Init => FitsInv
<1> SUFFICES ASSUME Init, NEW p \in Positions PROVE FitsAt(p)
  BY DEF FitsInv
<1>1. /\ table[p].state = "none" /\ table[p].seq = 0 /\ table[p].inflight = NoCmd
      /\ table[p].missing_since = "off"
      /\ dest[p].st = "none" /\ dest[p].volume = 0 /\ dest[p].deals = FALSE
      /\ state[p].volume = 0 /\ state[p].deals = FALSE
  BY DEF Init, NotMirrored
<1>2. commands = << >> /\ answered = {} /\ results = {}
  BY DEF Init
<1>3. AskedOf(p) = {} /\ AnsweredOf(p) = {} /\ ResultsOf(p) = {}
  BY <1>2 DEF AskedOf, AnsweredOf, ResultsOf
<1>4. NumbersFit(table[p], {}, {}, {})
  BY <1>1 DEF NumbersFit, NoCmd
<1>5. ExistsFit(table[p], dest[p], state[p], {})
  BY <1>1 DEF ExistsFit
<1>6. ContentsFit(table[p], dest[p], state[p], {}) /\ ResultsFit(table[p], dest[p], {})
  BY <1>1 DEF ContentsFit, ResultsFit
<1> QED
  BY <1>3, <1>4, <1>5, <1>6 DEF FitsAt, Fits

LEMMA FitsOpenEvent ==
  ASSUME TypeInv, FitsInv, NEW e, OpenEvent(e)
  PROVE  FitsInv'
<1> DEFINE p == e.pos
           new == NewRow(e)
           failed == [new EXCEPT !.state = "FAILED", !.inflight = NoCmd]
<1>1. NextEvent(e) /\ e.type = "OPEN" /\ table[p].state = "none"
  BY DEF OpenEvent
<1>2. e \in Events /\ e.volume # 0 /\ p \in Positions
  BY <1>1, HeadEvent
<1>3. /\ Fits(new, dest[p], state[p], AskedOf(p), AnsweredOf(p), ResultsOf(p))
      /\ Fits(new, dest[p], state[p], AskedOf(p) \union {new.inflight}, AnsweredOf(p), ResultsOf(p))
      /\ Fits(failed, dest[p], state[p], AskedOf(p), AnsweredOf(p), ResultsOf(p))
  BY <1>1, <1>2, FitsNew, FitsTypes DEF FitsInv, FitsAt
<1>4. new.inflight \in Cmds
  BY <1>2, NewRowNumbered, NewRowType DEF Rows, Cmds
<1> HIDE DEF new, failed
<1>5. /\ UNCHANGED <<answered, results, dest, state>>
      /\ \/ table' = [table EXCEPT ![p] = new] /\ commands' = Append(commands, Line(p, new.inflight))
         \/ table' = [table EXCEPT ![p] = new] /\ UNCHANGED commands
         \/ table' = [table EXCEPT ![p] = failed] /\ UNCHANGED commands
  BY DEF OpenEvent, new, failed
<1>6. /\ \A q \in Positions : AnsweredOf(q)' = AnsweredOf(q) /\ ResultsOf(q)' = ResultsOf(q)
      /\ commands \in Seq(Sent) /\ table \in [Positions -> Rows]
  BY <1>5 DEF AnsweredOf, ResultsOf, TypeInv
<1>7. ASSUME NEW q \in Positions, q # p PROVE FitsAt(q)'
  <2>1. AskedOf(q)' = AskedOf(q)
    BY <1>2, <1>4, <1>5, <1>6, <1>7, AskedAppend, AskedSame
  <2> QED
    BY <1>2, <1>5, <1>6, <1>7, <2>1, FitsElsewhere DEF FitsInv
<1>8. FitsAt(p)'
  <2>1. \/ table'[p] = new /\ AskedOf(p)' = AskedOf(p) \union {new.inflight}
        \/ table'[p] = new /\ AskedOf(p)' = AskedOf(p)
        \/ table'[p] = failed /\ AskedOf(p)' = AskedOf(p)
    BY <1>2, <1>4, <1>5, <1>6, AskedAppend, AskedSame
  <2> QED
    BY <1>2, <1>3, <1>5, <1>6, <2>1 DEF FitsAt
<1> QED
  BY <1>7, <1>8 DEF FitsInv

LEMMA FitsResendEvent ==
  ASSUME TypeInv, FitsInv, NEW e, ResendEvent(e)
  PROVE  FitsInv'
<1> DEFINE p == e.pos
<1>1. NextEvent(e) /\ p \in Positions /\ table[p] \in Rows /\ table[p].state = "OPENING"
  BY HeadEvent DEF ResendEvent
<1>2. table[p].inflight \in Cmds
  <2>1. table[p].inflight.kind = "open"
    BY DEF ResendEvent
  <2>2. table[p].inflight \in CmdType /\ Numbered(table[p].inflight)
    BY <1>1 DEF Rows, RowType
  <2>3. table[p].inflight.n = 1
    BY <2>1, <2>2 DEF Numbered
  <2> QED
    BY <2>2, <2>3 DEF Cmds
<1>3. /\ UNCHANGED <<table, answered, results, dest, state>>
      /\ commands' = Append(commands, Line(p, table[p].inflight)) /\ commands \in Seq(Sent)
  BY DEF ResendEvent, TypeInv
<1>4. ASSUME NEW q \in Positions PROVE FitsAt(q)'
  <2>1. AskedOf(q)' = IF q = p THEN AskedOf(q) \union {table[p].inflight} ELSE AskedOf(q)
    BY <1>1, <1>2, <1>3, AskedAppend
  <2>2. AnsweredOf(q)' = AnsweredOf(q) /\ ResultsOf(q)' = ResultsOf(q)
    BY <1>3 DEF AnsweredOf, ResultsOf
  <2>3. Fits(table[q], dest[q], state[q], AskedOf(q), AnsweredOf(q), ResultsOf(q))
    BY DEF FitsInv, FitsAt
  <2> QED
    BY <1>1, <1>3, <2>1, <2>2, <2>3, FitsResend DEF FitsAt
<1> QED
  BY <1>4 DEF FitsInv

\* A step that changes one row and none of the commands.
LEMMA FitsRowOnly ==
  ASSUME TypeInv, FitsInv, NEW p \in Positions, NEW row,
         table' = [table EXCEPT ![p] = row], UNCHANGED <<commands, answered, dest, state>>,
         results' \subseteq results,
         Fits(row, dest[p], state[p], AskedOf(p), AnsweredOf(p), ResultsOf(p))
  PROVE  FitsInv'
<1>1. \A q \in Positions : /\ AskedOf(q)' = AskedOf(q) /\ AnsweredOf(q)' = AnsweredOf(q)
                           /\ ResultsOf(q)' \subseteq ResultsOf(q)
  BY DEF AskedOf, AnsweredOf, ResultsOf
<1>2. table \in [Positions -> Rows]
  BY DEF TypeInv
<1>3. ASSUME NEW q \in Positions, q # p PROVE FitsAt(q)'
  BY <1>1, <1>2, <1>3, FitsElsewhere DEF FitsInv
<1>4. FitsAt(p)'
  BY <1>1, <1>2, FitsFewer DEF FitsAt
<1> QED
  BY <1>3, <1>4 DEF FitsInv

LEMMA FollowedKeeps ==
  ASSUME NEW row \in Rows, NEW e \in Events, e.type # "OPEN"
  PROVE  KeepsDest(row, Followed(row, e))
BY DEF KeepsDest, Followed, Rows, RowType, Events

LEMMA FitsFollowEvent ==
  ASSUME TypeInv, FitsInv, NEW e, FollowEvent(e)
  PROVE  FitsInv'
<1>1. NextEvent(e) /\ e.type # "OPEN" /\ e \in Events /\ e.pos \in Positions /\ table[e.pos] \in Rows
  BY HeadEvent DEF FollowEvent
<1>2. Fits(Followed(table[e.pos], e), dest[e.pos], state[e.pos], AskedOf(e.pos), AnsweredOf(e.pos), ResultsOf(e.pos))
  BY <1>1, FollowedKeeps, FitsKept DEF FitsInv, FitsAt
<1>3. /\ table' = [table EXCEPT ![e.pos] = Followed(table[e.pos], e)]
      /\ UNCHANGED <<commands, answered, dest, state, results>>
  BY DEF FollowEvent, bridge
<1> QED
  BY <1>1, <1>2, <1>3, FitsRowOnly

LEMMA FitsApplyResult ==
  ASSUME TypeInv, FitsInv, ApplyResult
  PROVE  FitsInv'
<1>1. PICK x \in results :
        /\ table' = [table EXCEPT ![x.pos] = IF @.inflight.n # x.n THEN @
                                             ELSE IF x.ok THEN Succeeded(@) ELSE Failed(@)]
        /\ results' \in {results, results \ {x}}
  BY DEF ApplyResult
<1> DEFINE p == x.pos
           row == IF table[p].inflight.n # x.n THEN table[p]
                  ELSE IF x.ok THEN Succeeded(table[p]) ELSE Failed(table[p])
<1>2. p \in Positions /\ x \in ResultsOf(p) /\ x.ok \in BOOLEAN
  BY DEF TypeInv, Results, ResultsOf
<1>3. Fits(table[p], dest[p], state[p], AskedOf(p), AnsweredOf(p), ResultsOf(p))
  BY <1>2 DEF FitsInv, FitsAt
<1>4. Fits(row, dest[p], state[p], AskedOf(p), AnsweredOf(p), ResultsOf(p))
  <2>1. CASE table[p].inflight.n # x.n
    BY <1>3, <2>1
  <2>2. CASE table[p].inflight.n = x.n /\ x.ok = TRUE
    <3>1. Fits(Succeeded(table[p]), dest[p], state[p], AskedOf(p), AnsweredOf(p), ResultsOf(p))
      BY <1>2, <1>3, <2>2, FitsSucceeded, FitsTypes
    <3> QED
      BY <2>2, <3>1
  <2>3. CASE table[p].inflight.n = x.n /\ x.ok = FALSE
    <3>1. Fits(Failed(table[p]), dest[p], state[p], AskedOf(p), AnsweredOf(p), ResultsOf(p))
      BY <1>2, <1>3, <2>3, FitsFailed, FitsTypes
    <3> QED
      BY <2>3, <3>1
  <2> QED
    BY <1>2, <2>1, <2>2, <2>3
<1>5. /\ table' = [table EXCEPT ![p] = row]
      /\ UNCHANGED <<commands, answered, dest, state>> /\ results' \subseteq results
  BY <1>1 DEF ApplyResult
<1> HIDE DEF row
<1> QED
  BY <1>2, <1>4, <1>5, FitsRowOnly

\* What a tick finds of a position, and the command it may send.
LEMMA SyncOutcomes ==
  ASSUME TypeInv, NEW p \in Positions, NEW armed \in BOOLEAN, Sync(p, armed)
  PROVE  LET seen == Watch(Adopt(table[p], state[p]), state[p])
             sends(new) == \E kind \in {"close", "partial", "sltp"}, volume \in Nat, sl \in Levels :
                             /\ seen.state = "OPEN" /\ seen.inflight = NoCmd /\ state[p].volume > 0
                             /\ new = Align(seen) /\ new = Sending(seen, kind, volume, sl)
         IN /\ seen \in Rows /\ results = {} /\ table[p].state \in Live
            /\ UNCHANGED <<source, events, answered, results, dest, state, modifies>>
            /\ \/ table' = [table EXCEPT ![p] = seen] /\ UNCHANGED commands
               \/ \E new \in Rows : /\ sends(new) /\ table' = [table EXCEPT ![p] = new]
                                    /\ commands' = Append(commands, Line(p, new.inflight))
               \/ \E new \in Rows : /\ sends(new) /\ UNCHANGED commands
                                    /\ table' = [table EXCEPT ![p] = new]
               \/ \E new \in Rows : /\ sends(new) /\ UNCHANGED commands
                                    /\ table' = [table EXCEPT ![p] = [new EXCEPT !.inflight = NoCmd, !.failures = new.failures + 1]]
<1> DEFINE seen == Watch(Adopt(table[p], state[p]), state[p])
           next == IF armed /\ MaySend(seen, state[p]) THEN Align(seen) ELSE seen
           target == Target(seen, seen.source_volume)
           sends(new) == \E kind \in {"close", "partial", "sltp"}, volume \in Nat, sl \in Levels :
                           /\ seen.state = "OPEN" /\ seen.inflight = NoCmd /\ state[p].volume > 0
                           /\ new = Align(seen) /\ new = Sending(seen, kind, volume, sl)
<1>1. seen \in Rows
  BY FitsTypes, SeenNumbered
<1>2. /\ results = {} /\ table[p].state \in Live
      /\ UNCHANGED <<source, events, answered, results, dest, state, modifies>>
      /\ \/ /\ table' = [table EXCEPT ![p] = next]
            /\ commands' = IF next.seq = seen.seq THEN commands ELSE Append(commands, Line(p, next.inflight))
         \/ /\ next.seq # seen.seq /\ UNCHANGED commands
            /\ table' = [table EXCEPT ![p] = [next EXCEPT !.inflight = NoCmd, !.failures = next.failures + 1]]
         \/ /\ next.seq # seen.seq /\ UNCHANGED commands
            /\ table' = [table EXCEPT ![p] = next]
  BY DEF Sync
<1> HIDE DEF seen
<1>3. /\ seen.source_volume \in Volumes /\ seen.dest_volume \in Nat /\ seen.want_sl \in Levels
      /\ seen.seq \in Nat /\ seen \in RowType
  BY <1>1 DEF Rows, RowType
<1>4. target \in Nat
  BY <1>3, TargetType
<1>5. Align(seen) = seen
      \/ \E kind \in {"close", "partial", "sltp"}, volume \in Nat, sl \in Levels :
           Align(seen) = Sending(seen, kind, volume, sl)
  <2> HIDE DEF target
  <2>1. seen.dest_volume > target => seen.dest_volume - target \in Nat
    BY <1>3, <1>4
  <2>2. Align(seen) \in {seen, Sending(seen, "close", 0, 0), Sending(seen, "sltp", 0, seen.want_sl)}
        \/ (seen.dest_volume > target /\ Align(seen) = Sending(seen, "partial", seen.dest_volume - target, 0))
    BY <1>3, <1>4 DEF Align, target
  <2> QED
    BY <1>3, <2>1, <2>2, LevelsType
<1>6. Align(seen) \in Rows
  BY <1>1, AlignNumbered
<1>7. ASSUME NEW kind, NEW volume, NEW sl PROVE Sending(seen, kind, volume, sl).seq = seen.seq + 1
  BY <1>3 DEF Sending, RowType
<1>8. \/ next = seen /\ next.seq = seen.seq
      \/ next.seq # seen.seq /\ next \in Rows /\ sends(next)
  <2>1. CASE armed /\ MaySend(seen, state[p])
    <3>1. next = Align(seen)
      BY <2>1
    <3>2. seen.state = "OPEN" /\ seen.inflight = NoCmd /\ state[p].volume > 0
      BY <2>1 DEF MaySend
    <3>3. CASE next = seen
      BY <3>3
    <3>4. CASE next # seen
      <4>1. PICK kind \in {"close", "partial", "sltp"}, volume \in Nat, sl \in Levels :
              Align(seen) = Sending(seen, kind, volume, sl)
        BY <1>5, <3>1, <3>4
      <4>2. next.seq # seen.seq
        BY <1>3, <1>7, <3>1, <4>1
      <4> QED
        BY <1>6, <3>1, <3>2, <4>1, <4>2
    <3> QED
      BY <3>3, <3>4
  <2>2. CASE ~(armed /\ MaySend(seen, state[p]))
    BY <2>2
  <2> QED
    BY <2>1, <2>2
<1> HIDE DEF next, sends
<1>9. \/ table' = [table EXCEPT ![p] = seen] /\ UNCHANGED commands
      \/ \E new \in Rows : /\ sends(new) /\ table' = [table EXCEPT ![p] = new]
                           /\ commands' = Append(commands, Line(p, new.inflight))
      \/ \E new \in Rows : /\ sends(new) /\ UNCHANGED commands
                           /\ table' = [table EXCEPT ![p] = new]
      \/ \E new \in Rows : /\ sends(new) /\ UNCHANGED commands
                           /\ table' = [table EXCEPT ![p] = [new EXCEPT !.inflight = NoCmd, !.failures = new.failures + 1]]
  BY <1>2, <1>8
<1> QED
  BY <1>1, <1>2, <1>9 DEF seen, sends

\* A step that changes one row and asks for one more command.
LEMMA FitsAsked ==
  ASSUME TypeInv, FitsInv, NEW p \in Positions, NEW row, NEW cmd \in Cmds,
         table' = [table EXCEPT ![p] = row], commands' = Append(commands, Line(p, cmd)),
         UNCHANGED <<answered, results, dest, state>>,
         Fits(row, dest[p], state[p], AskedOf(p) \union {cmd}, AnsweredOf(p), ResultsOf(p))
  PROVE  FitsInv'
<1>1. \A q \in Positions : AnsweredOf(q)' = AnsweredOf(q) /\ ResultsOf(q)' = ResultsOf(q)
  BY DEF AnsweredOf, ResultsOf
<1>2. table \in [Positions -> Rows] /\ commands \in Seq(Sent)
  BY DEF TypeInv
<1>3. \A q \in Positions : AskedOf(q)' = IF q = p THEN AskedOf(q) \union {cmd} ELSE AskedOf(q)
  BY <1>2, AskedAppend
<1>4. ASSUME NEW q \in Positions, q # p PROVE FitsAt(q)'
  BY <1>1, <1>2, <1>3, <1>4, FitsElsewhere DEF FitsInv
<1>5. FitsAt(p)'
  BY <1>1, <1>2, <1>3 DEF FitsAt
<1> QED
  BY <1>4, <1>5 DEF FitsInv

LEMMA FitsSync ==
  ASSUME TypeInv, FitsInv, NEW p \in Positions, NEW armed \in BOOLEAN, Sync(p, armed)
  PROVE  FitsInv'
<1> DEFINE adopted == Adopt(table[p], state[p])
           seen == Watch(adopted, state[p])
           sends(new) == \E kind \in {"close", "partial", "sltp"}, volume \in Nat, sl \in Levels :
                           /\ seen.state = "OPEN" /\ seen.inflight = NoCmd /\ state[p].volume > 0
                           /\ new = Align(seen) /\ new = Sending(seen, kind, volume, sl)
           failed(new) == [new EXCEPT !.inflight = NoCmd, !.failures = new.failures + 1]
<1>1. /\ seen \in Rows /\ results = {} /\ UNCHANGED <<answered, results, dest, state>>
      /\ \/ table' = [table EXCEPT ![p] = seen] /\ UNCHANGED commands
         \/ \E new \in Rows : /\ sends(new) /\ table' = [table EXCEPT ![p] = new]
                              /\ commands' = Append(commands, Line(p, new.inflight))
         \/ \E new \in Rows : /\ sends(new) /\ UNCHANGED commands
                              /\ table' = [table EXCEPT ![p] = new]
         \/ \E new \in Rows : /\ sends(new) /\ UNCHANGED commands
                              /\ table' = [table EXCEPT ![p] = failed(new)]
  BY SyncOutcomes
<1>2. /\ table[p] \in Rows /\ dest[p] \in DestPositions /\ state[p] \in Shown
      /\ AskedOf(p) \in SUBSET Cmds /\ AnsweredOf(p) \in SUBSET Nat
      /\ ResultsOf(p) = {}
  BY <1>1, FitsTypes DEF ResultsOf
<1>3. Fits(table[p], dest[p], state[p], AskedOf(p), AnsweredOf(p), {})
  BY <1>2 DEF FitsInv, FitsAt
<1>4. adopted \in Rows /\ Fits(adopted, dest[p], state[p], AskedOf(p), AnsweredOf(p), {})
  BY <1>2, <1>3, FitsAdopted
<1> HIDE DEF adopted
<1>5. Fits(seen, dest[p], state[p], AskedOf(p), AnsweredOf(p), {})
  BY <1>2, <1>4, FitsWatched
<1> HIDE DEF seen
<1>6. ASSUME NEW new \in Rows, sends(new)
      PROVE  /\ new.inflight \in Cmds
             /\ Fits(new, dest[p], state[p], AskedOf(p), AnsweredOf(p), {})
             /\ Fits(new, dest[p], state[p], AskedOf(p) \union {new.inflight}, AnsweredOf(p), {})
             /\ Fits(failed(new), dest[p], state[p], AskedOf(p), AnsweredOf(p), {})
  <2>1. PICK kind \in {"close", "partial", "sltp"}, volume \in Nat, sl \in Levels :
          seen.state = "OPEN" /\ seen.inflight = NoCmd /\ new = Sending(seen, kind, volume, sl)
    BY <1>6
  <2>2. /\ Fits(new, dest[p], state[p], AskedOf(p), AnsweredOf(p), {})
        /\ Fits(new, dest[p], state[p], AskedOf(p) \union {new.inflight}, AnsweredOf(p), {})
        /\ Fits(failed(new), dest[p], state[p], AskedOf(p), AnsweredOf(p), {})
    BY ZenonT(40), <1>1, <1>2, <1>5, <2>1, FitsSent
  <2>3. new.inflight.kind = kind
    BY <1>1, <2>1 DEF Sending, Rows, RowType
  <2>4. new.inflight \in CmdType /\ Numbered(new.inflight)
    BY DEF Rows, RowType
  <2>5. new.inflight \in Cmds
    BY <2>3, <2>4 DEF Cmds, Numbered
  <2> QED
    BY <2>2, <2>5
<1> HIDE DEF sends, failed
<1>11. ASSUME NEW row, table' = [table EXCEPT ![p] = row], UNCHANGED commands,
              Fits(row, dest[p], state[p], AskedOf(p), AnsweredOf(p), {})
       PROVE  FitsInv'
  <2>1. UNCHANGED <<commands, answered, dest, state>> /\ results' \subseteq results
    BY <1>1, <1>11
  <2>2. Fits(row, dest[p], state[p], AskedOf(p), AnsweredOf(p), ResultsOf(p))
    BY <1>2, <1>11
  <2> QED
    BY <1>11, <2>1, <2>2, FitsRowOnly
<1>7. CASE table' = [table EXCEPT ![p] = seen] /\ UNCHANGED commands
  BY <1>5, <1>7, <1>11
<1>8. ASSUME NEW new \in Rows, sends(new), table' = [table EXCEPT ![p] = new],
             commands' = Append(commands, Line(p, new.inflight))
      PROVE  FitsInv'
  <2>1. /\ new.inflight \in Cmds
        /\ Fits(new, dest[p], state[p], AskedOf(p) \union {new.inflight}, AnsweredOf(p), ResultsOf(p))
    BY <1>2, <1>6, <1>8
  <2>2. UNCHANGED <<answered, results, dest, state>>
    BY <1>1
  <2> QED
    BY <1>8, <2>1, <2>2, FitsAsked
<1>9. ASSUME NEW new \in Rows, sends(new), table' = [table EXCEPT ![p] = new], UNCHANGED commands
      PROVE  FitsInv'
  BY <1>6, <1>9, <1>11
<1>10. ASSUME NEW new \in Rows, sends(new), table' = [table EXCEPT ![p] = failed(new)], UNCHANGED commands
       PROVE  FitsInv'
  BY <1>6, <1>10, <1>11
<1> QED
  BY <1>1, <1>7, <1>8, <1>9, <1>10

LEMMA DoneIsAfter ==
  ASSUME NEW c PROVE Done(c) = After(dest[c.pos], c.cmd)
BY DEF Done, After

LEMMA FitsAnswer ==
  ASSUME TypeInv, FitsInv, NEW c, SkipCommand(c) \/ ExecuteCommand(c) \/ RefuseCommand(c)
  PROVE  FitsInv'
<1>1. Takes(c) /\ commands # << >> /\ c = Head(commands) /\ commands' = Tail(commands)
  BY DEF SkipCommand, ExecuteCommand, RefuseCommand, Takes
<1> DEFINE p == c.pos
           cmd == c.cmd
<1>2. /\ p \in Positions /\ cmd.n \in Nat \ {0} /\ c.cmd \in AskedOf(p)
      /\ \A q \in Positions : AskedOf(q)' \subseteq AskedOf(q)
      /\ answered' = answered \union {<<p, cmd.n>>}
      /\ UNCHANGED <<table, state>>
  BY <1>1, HeadCommand, AskedTail DEF TypeInv
<1>3. /\ AnsweredOf(p)' = AnsweredOf(p) \union {cmd.n}
      /\ \A q \in Positions : q # p => AnsweredOf(q)' = AnsweredOf(q)
      /\ cmd.n \in AnsweredOf(p) <=> Id(c) \in answered
  BY <1>2 DEF AnsweredOf, Id
<1>4. dest \in [Positions -> DestPositions]
  BY DEF TypeInv
<1>5. Fits(table[p], dest[p], state[p], AskedOf(p), AnsweredOf(p), ResultsOf(p))
  BY <1>2 DEF FitsInv, FitsAt
<1>6. /\ table[p] \in Rows /\ dest[p] \in DestPositions /\ state[p] \in Shown
      /\ AskedOf(p) \in SUBSET Cmds /\ AnsweredOf(p) \in SUBSET Nat /\ ResultsOf(p) \in SUBSET Results
  BY <1>2, FitsTypes
<1>7. ASSUME NEW ok \in BOOLEAN
      PROVE  /\ Result(c, ok) \in Results /\ Result(c, ok).n = cmd.n /\ Result(c, ok).ok = ok
             /\ Result(c, ok).pos = p
  BY <1>2 DEF Result, Results
<1>8. ASSUME NEW more \in SUBSET {Result(c, TRUE), Result(c, FALSE)}, results' = results \union more
      PROVE  /\ ResultsOf(p)' = ResultsOf(p) \union more
             /\ \A q \in Positions : q # p => ResultsOf(q)' = ResultsOf(q)
  BY <1>7, <1>8 DEF ResultsOf
<1>9. ASSUME NEW d, dest' = [dest EXCEPT ![p] = d], results' = results
             \/ \E ok \in BOOLEAN : results' = results \union {Result(c, ok)},
             Fits(table[p], d, state[p], AskedOf(p), AnsweredOf(p) \union {cmd.n}, ResultsOf(p)')
      PROVE  FitsInv'
  <2>1. \A q \in Positions : q # p => ResultsOf(q)' = ResultsOf(q)
    BY <1>7, <1>9 DEF ResultsOf
  <2>2. ASSUME NEW q \in Positions, q # p PROVE FitsAt(q)'
    BY <1>2, <1>3, <1>4, <1>9, <2>1, <2>2, FitsElsewhere DEF FitsInv
  <2>3. FitsAt(p)'
    BY <1>2, <1>3, <1>4, <1>9, FitsFewer DEF FitsAt
  <2> QED
    BY <2>2, <2>3 DEF FitsInv
<1>10. CASE SkipCommand(c)
  <2>1. UNCHANGED <<results, dest>> /\ AnsweredOf(p)' = AnsweredOf(p)
    BY <1>2, <1>3, <1>10 DEF SkipCommand
  <2>2. ResultsOf(p)' = ResultsOf(p) /\ dest' = [dest EXCEPT ![p] = dest[p]]
    BY <1>4, <2>1 DEF ResultsOf
  <2> QED
    BY <1>3, <1>5, <1>9, <2>1, <2>2
<1>11. CASE ExecuteCommand(c)
  <2>1. /\ cmd.n \notin AnsweredOf(p) /\ (cmd.kind = "open" \/ dest[p].st = "open")
        /\ dest' = [dest EXCEPT ![p] = After(dest[p], cmd)]
        /\ results' = results \union {Result(c, TRUE)} \/ results' = results
    BY <1>3, <1>11, DoneIsAfter DEF ExecuteCommand, CanDo, NoFault
  <2>2. PICK more \in SUBSET {Result(c, TRUE)} : results' = results \union more
    <3>1. /\ {Result(c, TRUE)} \in SUBSET {Result(c, TRUE)} /\ {} \in SUBSET {Result(c, TRUE)}
          /\ results = results \union {}
      OBVIOUS
    <3> QED
      BY <2>1, <3>1
  <2>3. more \in SUBSET Results /\ \A x \in more : x.n = cmd.n /\ x.ok = TRUE
    BY <1>7
  <2>4. Fits(table[p], After(dest[p], cmd), state[p], AskedOf(p), AnsweredOf(p) \union {cmd.n}, ResultsOf(p) \union more)
    BY <1>2, <1>5, <1>6, <2>1, <2>3, FitsExecuted
  <2>5. ResultsOf(p)' = ResultsOf(p) \union more
    BY <1>8, <2>2
  <2> QED
    BY <1>9, <2>1, <2>4, <2>5
<1>12. CASE RefuseCommand(c)
  <2>1. /\ cmd.n \notin AnsweredOf(p) /\ dest' = dest
        /\ results' = results \union {Result(c, FALSE)}
    BY <1>3, <1>12 DEF RefuseCommand
  <2>2. /\ {Result(c, FALSE)} \in SUBSET Results
        /\ \A x \in {Result(c, FALSE)} : x.n = cmd.n /\ x.ok = FALSE
    BY <1>7
  <2>3. Fits(table[p], dest[p], state[p], AskedOf(p), AnsweredOf(p) \union {cmd.n}, ResultsOf(p) \union {Result(c, FALSE)})
    BY <1>2, <1>5, <1>6, <2>1, <2>2, FitsRefused
  <2>4. ResultsOf(p)' = ResultsOf(p) \union {Result(c, FALSE)} /\ dest' = [dest EXCEPT ![p] = dest[p]]
    BY <1>4, <1>8, <2>1
  <2> QED
    BY <1>9, <2>1, <2>3, <2>4
<1> QED
  BY <1>10, <1>11, <1>12

LEMMA FitsWriteState ==
  ASSUME TypeInv, FitsInv, WriteState
  PROVE  FitsInv'
<1> SUFFICES ASSUME NEW p \in Positions PROVE FitsAt(p)'
  BY DEF FitsInv
<1>1. /\ state'[p] = [volume |-> dest[p].volume, sl |-> dest[p].sl, deals |-> dest[p].deals]
      /\ UNCHANGED <<table, commands, answered, results, dest>>
  BY DEF WriteState, Snapshot, bridge
<1>2. /\ AskedOf(p)' = AskedOf(p) /\ AnsweredOf(p)' = AnsweredOf(p) /\ ResultsOf(p)' = ResultsOf(p)
  BY <1>1 DEF AskedOf, AnsweredOf, ResultsOf
<1>3. Fits(table[p], dest[p], state'[p], AskedOf(p), AnsweredOf(p), ResultsOf(p))
  BY <1>1, FitsShown, FitsTypes DEF FitsInv, FitsAt
<1> QED
  BY <1>1, <1>2, <1>3 DEF FitsAt

LEMMA FitsDest ==
  ASSUME TypeInv, FitsInv, NEW p \in Positions, DestCloses(p) \/ DealsAge(p)
  PROVE  FitsInv'
<1> DEFINE over == [st |-> "closed", volume |-> 0, sl |-> 0, deals |-> TRUE]
           aged == [dest[p] EXCEPT !.deals = FALSE]
<1>1. Fits(table[p], dest[p], state[p], AskedOf(p), AnsweredOf(p), ResultsOf(p)) /\ dest[p] \in DestPositions
  BY FitsTypes DEF FitsInv, FitsAt
<1>2. Fits(table[p], aged, state[p], AskedOf(p), AnsweredOf(p), ResultsOf(p))
  BY <1>1, FitsAged
<1>3. dest[p].st = "open" => Fits(table[p], over, state[p], AskedOf(p), AnsweredOf(p), ResultsOf(p))
  BY <1>1, FitsClosed
<1>4. \/ dest[p].st = "open" /\ dest' = [dest EXCEPT ![p] = over]
      \/ dest' = [dest EXCEPT ![p] = aged]
  BY DEF DestCloses, DealsAge
<1>5. UNCHANGED <<table, commands, answered, results, state>>
  BY DEF DestCloses, DealsAge, bridge
<1> HIDE DEF over, aged
<1>6. Fits(table[p], dest'[p], state[p], AskedOf(p), AnsweredOf(p), ResultsOf(p)) /\ \A q \in Positions : q # p => dest'[q] = dest[q]
  BY <1>2, <1>3, <1>4 DEF TypeInv
<1>7. \A q \in Positions : /\ AskedOf(q)' = AskedOf(q) /\ AnsweredOf(q)' = AnsweredOf(q)
                           /\ ResultsOf(q)' = ResultsOf(q)
  BY <1>5 DEF AskedOf, AnsweredOf, ResultsOf
<1> QED
  BY <1>5, <1>6, <1>7 DEF FitsInv, FitsAt

LEMMA FitsGraceOver ==
  ASSUME TypeInv, FitsInv, NEW p \in Positions, GraceOver(p)
  PROVE  FitsInv'
<1>1. Fits([table[p] EXCEPT !.missing_since = "due"], dest[p], state[p], AskedOf(p), AnsweredOf(p), ResultsOf(p))
  BY FitsDue, FitsTypes DEF FitsInv, FitsAt, GraceOver
<1>2. /\ table' = [table EXCEPT ![p] = [table[p] EXCEPT !.missing_since = "due"]]
      /\ UNCHANGED <<commands, answered, results, dest, state>>
  BY DEF GraceOver, bridge
<1> QED
  BY <1>1, <1>2, FitsRowOnly

LEMMA FitsStep == TypeInv /\ FitsInv /\ [Next]_vars => FitsInv'
<1> SUFFICES ASSUME TypeInv, FitsInv, [Next]_vars PROVE FitsInv'
  OBVIOUS
<1>1. ASSUME UNCHANGED <<table, bridge, dest, state>> PROVE FitsInv'
  BY <1>1 DEF FitsInv, FitsAt, AskedOf, AnsweredOf, ResultsOf, bridge
<1>2. CASE HandleEvent
  <2> DEFINE e == Head(events)
  <2>1. OpenEvent(e) \/ RejectEvent(e) \/ ResendEvent(e) \/ FollowEvent(e) \/ IgnoreEvent(e)
    BY <1>2 DEF HandleEvent
  <2>2. CASE RejectEvent(e) \/ IgnoreEvent(e)
    BY <1>1, <2>2 DEF RejectEvent, IgnoreEvent
  <2> QED
    BY <2>1, <2>2, FitsOpenEvent, FitsResendEvent, FitsFollowEvent
<1>3. CASE ApplyResult
  BY <1>3, FitsApplyResult
<1>4. CASE Answer
  BY <1>4, FitsAnswer DEF Answer
<1>5. CASE WriteState
  BY <1>5, FitsWriteState
<1>6. ASSUME NEW p \in Positions, NEW armed \in BOOLEAN, Sync(p, armed) PROVE FitsInv'
  BY <1>6, FitsSync
<1>7. ASSUME NEW p \in Positions, DestCloses(p) \/ DealsAge(p) PROVE FitsInv'
  BY <1>7, FitsDest
<1>8. ASSUME NEW p \in Positions, GraceOver(p) PROVE FitsInv'
  BY <1>8, FitsGraceOver
<1>9. ASSUME NEW p \in Positions,
             \/ \E sl \in OpenStops : SourceOpen(p, sl)
             \/ \E sl \in Stops \union {0} : SourceModify(p, sl)
             \/ \E volume \in 1..SourceLots : SourcePartial(p, volume)
             \/ SourceClose(p) \/ SourceRepeats(p)
      PROVE  FitsInv'
  BY <1>1, <1>9 DEF SourceOpen, SourceModify, SourcePartial, SourceClose, SourceRepeats, Reports
<1>10. CASE UNCHANGED vars
  BY <1>1, <1>10 DEF vars, bridge
<1>11. CASE Next
  BY <1>2, <1>3, <1>4, <1>5, <1>6, <1>7, <1>8, <1>9, <1>11 DEF Next
<1> QED
  BY <1>10, <1>11

(* With nothing in flight, the volume and the stop the table has for an    *)
(* open position are the destination's own, whatever was lost, refused or  *)
(* replayed before (mirror.py:641-691, 745-757).                           *)
THEOREM MirrorDestIsKnown == Spec => []DestIsKnown
<1>1. FitsInv => DestIsKnown
  BY DEF FitsInv, FitsAt, Fits, ContentsFit, Agrees, DestIsKnown
<1> QED
  BY <1>1, TypeInit, TypeStep, FitsInit, FitsStep, PTL DEF Spec

(***************************************************************************)
(* What the table says of the source                                       *)
(***************************************************************************)
Closings == {"CLOSE", "PARTIAL_CLOSE"}

\* From the i-th event on, some close of p leaves the volume v.
Tells(s, p, i, v) ==
  \E j \in 1..Len(s) : j >= i /\ s[j].pos = p /\ s[j].type \in Closings /\ s[j].volume = v

\* No stop of p is told after the i-th event.
Latest(s, p, i) == \A j \in 1..Len(s) : j > i /\ s[j].pos = p => s[j].type # "MODIFY"

\* The i-th of the events s, whose position is now pos at the source.
EventFits(s, i, pos) ==
  /\ pos.st # "none"
  /\ s[i].volume >= pos.volume
  /\ s[i].type = "OPEN" => s[i].volume = pos.volume \/ Tells(s, s[i].pos, i, pos.volume)
  /\ (pos.st = "open" /\ s[i].type \in {"OPEN", "MODIFY"} /\ Latest(s, s[i].pos, i)) => s[i].sl = pos.sl

\* What a row says of its position, which is now pos at the source, with the events s to come.
RowFits(s, row, p, pos) ==
  /\ row.state # "none" =>
       pos.st # "none" /\ row.source_volume >= pos.volume /\ row.source_volume_open >= pos.volume
  /\ row.state \in Live => row.source_volume = pos.volume \/ Tells(s, p, 1, pos.volume)
  /\ (row.state \in Live /\ pos.st = "open" /\ Latest(s, p, 0)) => row.want_sl = Copied(pos.sl)
  /\ ~CopyStops => row.want_sl = 0

EventsFit(s, src) == \A i \in 1..Len(s) : EventFits(s, i, src[s[i].pos])
RowsFit(s, rows, src) ==
  \A p \in Positions : RowFits(s, rows[p], p, src[p]) /\ (src[p].st = "none" => src[p].volume = 0)

FollowsInv == EventsFit(events, source) /\ RowsFit(events, table, source)

LEMMA TailEvents ==
  ASSUME NEW s \in Seq(Reported), s # << >>
  PROVE  /\ Len(s) \in Nat \ {0} /\ Len(Tail(s)) = Len(s) - 1 /\ Head(s) = s[1]
         /\ \A j \in 1..Len(Tail(s)) : j + 1 \in 1..Len(s) /\ Tail(s)[j] = s[j + 1]
         /\ \A j \in 1..Len(s) : j > 1 => j - 1 \in 1..Len(Tail(s)) /\ Tail(s)[j - 1] = s[j]
<1>1. /\ Len(s) \in Nat \ {0} /\ Len(Tail(s)) \in Nat /\ Len(Tail(s)) = Len(s) - 1
      /\ \A j \in 1..Len(Tail(s)) : Tail(s)[j] = s[j + 1]
  BY HeadTailProperties, LenProperties, EmptySeq
<1>2. \A j \in 1..Len(Tail(s)) : j + 1 \in 1..Len(s)
  BY <1>1
<1>3. \A j \in 1..Len(s) : j > 1 => j - 1 \in 1..Len(Tail(s)) /\ Tail(s)[j - 1] = s[j]
  <2> TAKE j \in 1..Len(s)
  <2> HAVE j > 1
  <2>1. j - 1 \in 1..Len(Tail(s)) /\ (j - 1) + 1 = j
    BY <1>1
  <2> QED
    BY <1>1, <2>1
<1>4. Head(s) = s[1]
  OBVIOUS
<1> QED
  BY <1>1, <1>2, <1>3, <1>4

LEMMA TailTells ==
  ASSUME NEW s \in Seq(Reported), s # << >>, NEW p, NEW i \in Nat, NEW v
  PROVE  /\ i > 0 /\ Tells(s, p, i + 1, v) => Tells(Tail(s), p, i, v)
         /\ Tells(s, p, 1, v) =>
              \/ Tells(Tail(s), p, 1, v)
              \/ s[1].pos = p /\ s[1].type \in Closings /\ s[1].volume = v
         /\ Latest(Tail(s), p, i) => Latest(s, p, i + 1)
         /\ (Latest(Tail(s), p, 0) /\ (s[1].pos = p => s[1].type # "MODIFY")) => Latest(s, p, 0)
<1>1. Len(s) \in Nat /\ Len(Tail(s)) \in Nat
  BY LenProperties, HeadTailProperties
<1>2. \A j \in 1..Len(s) : j > 1 => j - 1 \in 1..Len(Tail(s)) /\ Tail(s)[j - 1] = s[j]
  BY TailEvents
<1>3. ASSUME NEW k \in Nat, NEW j \in 1..Len(s), j > 1, j - 1 >= k, s[j].pos = p,
             s[j].type \in Closings, s[j].volume = v
      PROVE  Tells(Tail(s), p, k, v)
  BY <1>2, <1>3 DEF Tells
<1>4. i > 0 /\ Tells(s, p, i + 1, v) => Tells(Tail(s), p, i, v)
  <2> SUFFICES ASSUME i > 0, NEW j \in 1..Len(s), j >= i + 1, s[j].pos = p,
                      s[j].type \in Closings, s[j].volume = v
               PROVE  Tells(Tail(s), p, i, v)
    BY DEF Tells
  <2>1. j > 1 /\ j - 1 >= i
    BY <1>1
  <2> QED
    BY <1>3, <2>1
<1>5. Tells(s, p, 1, v) =>
        Tells(Tail(s), p, 1, v) \/ (s[1].pos = p /\ s[1].type \in Closings /\ s[1].volume = v)
  <2> SUFFICES ASSUME NEW j \in 1..Len(s), s[j].pos = p, s[j].type \in Closings, s[j].volume = v, j # 1
               PROVE  Tells(Tail(s), p, 1, v)
    BY DEF Tells
  <2>1. j > 1 /\ j - 1 >= 1
    BY <1>1
  <2> QED
    BY <1>3, <2>1
<1>6. Latest(Tail(s), p, i) => Latest(s, p, i + 1)
  <2> SUFFICES ASSUME Latest(Tail(s), p, i), NEW j \in 1..Len(s), j > i + 1, s[j].pos = p
               PROVE  s[j].type # "MODIFY"
    BY DEF Latest
  <2>1. j > 1 /\ j - 1 > i
    BY <1>1
  <2> QED
    BY <1>2, <2>1 DEF Latest
<1>7. (Latest(Tail(s), p, 0) /\ (s[1].pos = p => s[1].type # "MODIFY")) => Latest(s, p, 0)
  <2> SUFFICES ASSUME Latest(Tail(s), p, 0), s[1].pos = p => s[1].type # "MODIFY",
                      NEW j \in 1..Len(s), s[j].pos = p
               PROVE  s[j].type # "MODIFY"
    BY DEF Latest
  <2>1. CASE j > 1
    <3>1. j - 1 \in 1..Len(Tail(s)) /\ j - 1 > 0 /\ Tail(s)[j - 1] = s[j]
      BY <1>1, <1>2, <2>1
    <3> QED
      BY <3>1 DEF Latest
  <2>2. CASE j = 1
    BY <2>2
  <2> QED
    BY <1>1, <2>1, <2>2
<1> QED
  BY <1>4, <1>5, <1>6, <1>7

LEMMA AppendTells ==
  ASSUME NEW s \in Seq(Reported), NEW e \in Reported, NEW p, NEW i \in Nat, NEW v
  PROVE  LET t == Append(s, e) IN
         /\ t \in Seq(Reported) /\ Len(s) \in Nat /\ Len(t) = Len(s) + 1 /\ t[Len(s) + 1] = e
         /\ \A j \in 1..Len(s) : t[j] = s[j]
         /\ Tells(s, p, i, v) => Tells(t, p, i, v)
         /\ (i <= Len(s) + 1 /\ e.pos = p /\ e.type \in Closings /\ e.volume = v) => Tells(t, p, i, v)
         /\ Latest(t, p, i) => Latest(s, p, i)
         /\ (Latest(t, p, i) /\ i <= Len(s) /\ e.pos = p) => e.type # "MODIFY"
<1> DEFINE t == Append(s, e)
<1>1. /\ t \in Seq(Reported) /\ Len(s) \in Nat /\ Len(t) = Len(s) + 1 /\ t[Len(s) + 1] = e
      /\ \A j \in 1..Len(s) : t[j] = s[j]
  BY AppendProperties, LenProperties
<1>2. \A j \in 1..Len(s) : j \in 1..Len(t)
  BY <1>1
<1>3. Len(s) + 1 \in 1..Len(t)
  BY <1>1
<1> HIDE DEF t
<1>4. Tells(s, p, i, v) => Tells(t, p, i, v)
  BY <1>1, <1>2 DEF Tells
<1>5. (i <= Len(s) + 1 /\ e.pos = p /\ e.type \in Closings /\ e.volume = v) => Tells(t, p, i, v)
  BY <1>1, <1>3 DEF Tells
<1>6. Latest(t, p, i) => Latest(s, p, i)
  BY <1>1, <1>2 DEF Latest
<1>7. (Latest(t, p, i) /\ i <= Len(s) /\ e.pos = p) => e.type # "MODIFY"
  <2>1. i <= Len(s) => Len(s) + 1 > i
    BY <1>1
  <2> QED
    BY <1>1, <1>3, <2>1 DEF Latest
<1> QED
  BY <1>1, <1>4, <1>5, <1>6, <1>7 DEF t

\* The first event is left out.
LEMMA EventsFitTail ==
  ASSUME NEW s \in Seq(Reported), s # << >>, NEW src, EventsFit(s, src)
  PROVE  EventsFit(Tail(s), src)
<1> SUFFICES ASSUME NEW j \in 1..Len(Tail(s)) PROVE EventFits(Tail(s), j, src[Tail(s)[j].pos])
  BY DEF EventsFit
<1>1. j \in Nat /\ j > 0 /\ j + 1 \in 1..Len(s) /\ Tail(s)[j] = s[j + 1]
  BY TailEvents
<1>2. EventFits(s, j + 1, src[s[j + 1].pos])
  BY <1>1 DEF EventsFit
<1> QED
  BY <1>1, <1>2, TailTells DEF EventFits

\* The source reports what it has now become: a volume that grew less is told by a close, a stop by a
\* MODIFY.
Reportable(old, pos, type) ==
  \/ old.st = "none" /\ type = "OPEN" /\ pos.st = "open"
  \/ /\ old.st # "none" /\ pos.st # "none"
     /\ pos.volume <= old.volume
     /\ pos.volume # old.volume => type \in Closings
     /\ pos.st = "open" => old.st = "open" /\ (pos.sl # old.sl => type = "MODIFY")

LEMMA EventFitsGrows ==
  ASSUME NEW s \in Seq(Reported), NEW i \in 1..Len(s), NEW old \in SourcePositions, EventFits(s, i, old),
         NEW pos \in SourcePositions, NEW p \in Positions,
         NEW type \in {"OPEN", "CLOSE", "PARTIAL_CLOSE", "MODIFY"},
         Event(p, type, pos.volume, pos.sl) \in Reported,
         s[i].pos = p, Reportable(old, pos, type)
  PROVE  EventFits(Append(s, Event(p, type, pos.volume, pos.sl)), i, pos)
<1> DEFINE e == Event(p, type, pos.volume, pos.sl)
           t == Append(s, e)
<1>1. e.pos = p /\ e.type = type /\ e.volume = pos.volume /\ e.sl = pos.sl /\ e \in Reported
  BY DEF Event
<1>2. i \in Nat /\ Len(s) \in Nat /\ i <= Len(s) /\ i <= Len(s) + 1
  BY LenProperties
<1> HIDE DEF e
<1>3. /\ t[i] = s[i]
      /\ \A v : Tells(s, p, i, v) => Tells(t, p, i, v)
      /\ e.type \in Closings => Tells(t, p, i, pos.volume)
      /\ Latest(t, p, i) => Latest(s, p, i) /\ e.type # "MODIFY"
  BY ZenonT(40), <1>1, <1>2, AppendTells
<1> HIDE DEF t
<1>4. old.st # "none" /\ s[i].volume >= old.volume
  BY DEF EventFits
<1>5. /\ pos.st # "none" /\ pos.volume <= old.volume
      /\ pos.volume # old.volume => type \in Closings
      /\ pos.st = "open" => old.st = "open" /\ (pos.sl # old.sl => type = "MODIFY")
  BY <1>4 DEF Reportable
<1>6. s[i].volume >= pos.volume
  <2>1. s[i] \in Events
    BY ElementOfSeq DEF Reported
  <2> QED
    BY <1>4, <1>5, <2>1, MirrorAssumption DEF SourcePositions, Events, Volumes
<1>7. s[i].type = "OPEN" => s[i].volume = pos.volume \/ Tells(t, p, i, pos.volume)
  BY <1>1, <1>3, <1>5 DEF EventFits
<1>8. (pos.st = "open" /\ s[i].type \in {"OPEN", "MODIFY"} /\ Latest(t, p, i)) => s[i].sl = pos.sl
  BY <1>1, <1>3, <1>5 DEF EventFits
<1>9. EventFits(t, i, pos)
  BY <1>3, <1>5, <1>6, <1>7, <1>8 DEF EventFits
<1> QED
  BY <1>9 DEF t, e

LEMMA NewEventFits ==
  ASSUME NEW s \in Seq(Reported), NEW pos \in SourcePositions, NEW p \in Positions,
         NEW type \in {"OPEN", "CLOSE", "PARTIAL_CLOSE", "MODIFY"},
         Event(p, type, pos.volume, pos.sl) \in Reported, pos.st # "none"
  PROVE  EventFits(Append(s, Event(p, type, pos.volume, pos.sl)), Len(s) + 1, pos)
<1> DEFINE e == Event(p, type, pos.volume, pos.sl)
<1>1. e.volume = pos.volume /\ e.sl = pos.sl /\ pos.volume \in Nat
  BY MirrorAssumption DEF Event, SourcePositions, Volumes
<1>2. Append(s, e)[Len(s) + 1] = e
  BY AppendProperties
<1> QED
  BY <1>1, <1>2 DEF EventFits

LEMMA RowFitsGrows ==
  ASSUME NEW s \in Seq(Reported), NEW old \in SourcePositions, NEW row \in Rows,
         NEW pos \in SourcePositions, NEW p \in Positions,
         NEW type \in {"OPEN", "CLOSE", "PARTIAL_CLOSE", "MODIFY"},
         Event(p, type, pos.volume, pos.sl) \in Reported,
         Reportable(old, pos, type), RowFits(s, row, p, old)
  PROVE  RowFits(Append(s, Event(p, type, pos.volume, pos.sl)), row, p, pos)
<1> DEFINE e == Event(p, type, pos.volume, pos.sl)
           t == Append(s, e)
<1>1. e.pos = p /\ e.type = type /\ e.volume = pos.volume /\ e.sl = pos.sl /\ e \in Reported
  BY DEF Event
<1>2. Len(s) \in Nat /\ 0 <= Len(s) /\ 1 <= Len(s) + 1
  BY LenProperties
<1> HIDE DEF e
<1>3. /\ \A v : Tells(s, p, 1, v) => Tells(t, p, 1, v)
      /\ e.type \in Closings => Tells(t, p, 1, pos.volume)
      /\ Latest(t, p, 0) => Latest(s, p, 0) /\ e.type # "MODIFY"
  <2>1. 0 \in Nat /\ 1 \in Nat
    OBVIOUS
  <2> QED
    BY <1>1, <1>2, <2>1, AppendTells
<1> HIDE DEF t
<1>4. ~CopyStops => row.want_sl = 0
  BY DEF RowFits
<1>5. CASE row.state = "none"
  BY <1>4, <1>5 DEF RowFits, Live, t, e
<1>6. CASE row.state # "none"
  <2>1. /\ old.st # "none" /\ row.source_volume >= old.volume /\ row.source_volume_open >= old.volume
    BY <1>6 DEF RowFits
  <2>2. /\ pos.st # "none" /\ pos.volume <= old.volume
        /\ pos.volume # old.volume => type \in Closings
        /\ pos.st = "open" => old.st = "open" /\ (pos.sl # old.sl => type = "MODIFY")
    BY <2>1 DEF Reportable
  <2>3. row.source_volume >= pos.volume /\ row.source_volume_open >= pos.volume
    <3>1. /\ row.source_volume \in Volumes /\ row.source_volume_open \in Volumes
          /\ pos.volume \in Volumes /\ old.volume \in Volumes
      BY DEF Rows, RowType, SourcePositions
    <3> QED
      BY <2>1, <2>2, <3>1, MirrorAssumption DEF Volumes
  <2>4. row.state \in Live => row.source_volume = pos.volume \/ Tells(t, p, 1, pos.volume)
    BY <1>1, <1>3, <2>2 DEF RowFits
  <2>5. (row.state \in Live /\ pos.st = "open" /\ Latest(t, p, 0)) => row.want_sl = Copied(pos.sl)
    BY <1>1, <1>3, <2>2 DEF RowFits
  <2> QED
    BY <1>4, <2>2, <2>3, <2>4, <2>5 DEF RowFits, t, e
<1> QED
  BY <1>5, <1>6

\* Another position's event changes nothing.
LEMMA OtherEventFits ==
  ASSUME NEW s \in Seq(Reported), NEW e \in Reported, NEW p, p # e.pos, NEW pos
  PROVE  /\ \A i \in 1..Len(s) : s[i].pos = p /\ EventFits(s, i, pos) => EventFits(Append(s, e), i, pos)
         /\ \A row : RowFits(s, row, p, pos) => RowFits(Append(s, e), row, p, pos)
<1> DEFINE t == Append(s, e)
<1>1. /\ \A j \in 1..Len(s) : t[j] = s[j]
      /\ \A v : \A i \in Nat : Tells(s, p, i, v) => Tells(t, p, i, v)
      /\ \A i \in Nat : Latest(t, p, i) => Latest(s, p, i)
  BY AppendTells
<1>2. 0 \in Nat /\ 1 \in Nat /\ \A i \in 1..Len(s) : i \in Nat
  OBVIOUS
<1> HIDE DEF t
<1>3. ASSUME NEW i \in 1..Len(s), s[i].pos = p, EventFits(s, i, pos) PROVE EventFits(t, i, pos)
  BY <1>1, <1>2, <1>3 DEF EventFits
<1>4. ASSUME NEW row, RowFits(s, row, p, pos) PROVE RowFits(t, row, p, pos)
  BY <1>1, <1>2, <1>4 DEF RowFits
<1> QED
  BY <1>3, <1>4 DEF t

LEMMA ReportsFollow ==
  ASSUME TypeInv, FollowsInv, NEW p \in Positions, NEW pos \in SourcePositions,
         NEW type \in {"OPEN", "CLOSE", "PARTIAL_CLOSE", "MODIFY"},
         type = "OPEN" => pos.volume # 0,
         Reportable(source[p], pos, type), Reports(p, pos, type)
  PROVE  FollowsInv'
<1> DEFINE e == Event(p, type, pos.volume, pos.sl)
<1>1. e \in Reported /\ e.pos = p
  BY DEF Event, Reported, Events, SourcePositions
<1>2. /\ events \in Seq(Reported) /\ source \in [Positions -> SourcePositions] /\ table \in [Positions -> Rows]
      /\ events' = Append(events, e) /\ source' = [source EXCEPT ![p] = pos] /\ table' = table
  BY DEF TypeInv, Reports
<1>3. pos.st # "none" /\ source[p] \in SourcePositions
  BY <1>2 DEF Reportable
<1>4. Len(events) \in Nat /\ Len(events') = Len(events) + 1 /\ events'[Len(events) + 1] = e
      /\ \A i \in 1..Len(events) : events'[i] = events[i] /\ events[i] \in Reported
  BY <1>1, <1>2, AppendProperties, LenProperties, ElementOfSeq
<1>5. ASSUME NEW i \in 1..Len(events') PROVE EventFits(events', i, source'[events'[i].pos])
  <2>1. CASE i = Len(events) + 1
    BY <1>1, <1>2, <1>3, <1>4, <2>1, NewEventFits
  <2>2. CASE i \in 1..Len(events) /\ events[i].pos = p
    <3>1. EventFits(events, i, source[p])
      BY <2>2 DEF FollowsInv, EventsFit
    <3> QED
      BY <1>1, <1>2, <1>3, <1>4, <2>2, <3>1, EventFitsGrows
  <2>3. CASE i \in 1..Len(events) /\ events[i].pos # p
    <3>1. EventFits(events, i, source[events[i].pos]) /\ events[i].pos \in Positions
      BY <1>4, <2>3 DEF FollowsInv, EventsFit, Reported, Events
    <3>2. source'[events[i].pos] = source[events[i].pos]
      BY <1>2, <2>3, <3>1
    <3> QED
      BY <1>1, <1>2, <1>4, <2>3, <3>1, <3>2, OtherEventFits
  <2> QED
    BY <1>4, <2>1, <2>2, <2>3
<1>6. ASSUME NEW q \in Positions
      PROVE  RowFits(events', table'[q], q, source'[q]) /\ (source'[q].st = "none" => source'[q].volume = 0)
  <2>1. RowFits(events, table[q], q, source[q]) /\ (source[q].st = "none" => source[q].volume = 0)
    BY DEF FollowsInv, RowsFit
  <2>2. CASE q = p
    <3>1. source'[p] = pos /\ table[p] \in Rows
      BY <1>2
    <3> QED
      BY <1>1, <1>2, <1>3, <2>1, <2>2, <3>1, RowFitsGrows
  <2>3. CASE q # p
    BY <1>1, <1>2, <2>1, <2>3, OtherEventFits
  <2> QED
    BY <2>2, <2>3
<1> QED
  BY <1>5, <1>6 DEF FollowsInv, EventsFit, RowsFit

(***************************************************************************)
(* The mirror reads an event                                               *)
(***************************************************************************)
LEMMA RowFitsEarlier ==
  ASSUME NEW s \in Seq(Reported), s # << >>, NEW row, NEW p, NEW pos, RowFits(Tail(s), row, p, pos)
  PROVE  RowFits(s, row, p, pos)
<1>1. /\ Len(Tail(s)) \in Nat
      /\ \A j \in 1..Len(Tail(s)) : j + 1 \in 1..Len(s) /\ Tail(s)[j] = s[j + 1]
  BY TailEvents, HeadTailProperties, LenProperties
<1>2. ASSUME NEW v, Tells(Tail(s), p, 1, v) PROVE Tells(s, p, 1, v)
  <2>1. PICK j \in 1..Len(Tail(s)) : /\ Tail(s)[j].pos = p /\ Tail(s)[j].type \in Closings
                                     /\ Tail(s)[j].volume = v
    BY <1>2 DEF Tells
  <2>2. j + 1 \in 1..Len(s) /\ j + 1 >= 1 /\ Tail(s)[j] = s[j + 1]
    BY <1>1
  <2> QED
    BY <2>1, <2>2 DEF Tells
<1>3. ASSUME Latest(s, p, 0) PROVE Latest(Tail(s), p, 0)
  <2> SUFFICES ASSUME NEW j \in 1..Len(Tail(s)), Tail(s)[j].pos = p PROVE Tail(s)[j].type # "MODIFY"
    BY DEF Latest
  <2>1. j + 1 \in 1..Len(s) /\ j + 1 > 0 /\ Tail(s)[j] = s[j + 1]
    BY <1>1
  <2> QED
    BY <1>3, <2>1 DEF Latest
<1> QED
  BY <1>2, <1>3 DEF RowFits

\* An event that a row ignores.
LEMMA RowFitsTail ==
  ASSUME NEW s \in Seq(Reported), s # << >>, NEW row, NEW p, NEW pos, RowFits(s, row, p, pos),
         s[1].pos # p \/ s[1].type = "OPEN" \/ row.state \notin Live
  PROVE  RowFits(Tail(s), row, p, pos)
<1>1. CASE row.state \notin Live
  BY <1>1 DEF RowFits
<1>2. CASE s[1].pos # p \/ s[1].type = "OPEN"
  <2>1. \A v : Tells(s, p, 1, v) => Tells(Tail(s), p, 1, v)
    BY <1>2, TailTells DEF Closings
  <2>2. Latest(Tail(s), p, 0) => Latest(s, p, 0)
    BY <1>2, TailTells
  <2> QED
    BY <2>1, <2>2 DEF RowFits
<1> QED
  BY <1>1, <1>2

LEMMA FollowedFits ==
  ASSUME NEW s \in Seq(Reported), s # << >>, NEW row \in Rows, NEW pos \in SourcePositions,
         s[1].type # "OPEN", RowFits(s, row, s[1].pos, pos), EventFits(s, 1, pos)
  PROVE  RowFits(Tail(s), Followed(row, s[1]), s[1].pos, pos)
<1> DEFINE e == s[1]
           new == Followed(row, e)
<1>1. e \in Events /\ 1 \in 1..Len(s)
  <2>1. 1 \in 1..Len(s)
    BY TailEvents
  <2> QED
    BY <2>1, ElementOfSeq DEF Reported
<1>2. /\ row.source_volume \in Nat /\ row.source_volume_open \in Nat /\ pos.volume \in Nat /\ e.volume \in Nat
  BY <1>1, MirrorAssumption DEF Rows, RowType, SourcePositions, Events, Volumes
<1>3. e.volume >= pos.volume /\ pos.st # "none"
  BY DEF EventFits
<1>4. e.type \in Closings \/ e.type = "MODIFY"
  BY <1>1 DEF Events, Closings
<1>5. /\ new.state = row.state /\ new.source_volume_open = row.source_volume_open
      /\ new.source_volume = IF e.type \in Closings /\ e.volume < row.source_volume THEN e.volume
                             ELSE row.source_volume
      /\ new.want_sl = IF e.type = "MODIFY" /\ CopyStops THEN e.sl ELSE row.want_sl
  BY <1>4 DEF Followed, Closings, Rows, RowType
<1> HIDE DEF new
<1>6. new.state # "none" =>
        pos.st # "none" /\ new.source_volume >= pos.volume /\ new.source_volume_open >= pos.volume
  <2>1. row.state # "none" => row.source_volume >= pos.volume /\ row.source_volume_open >= pos.volume
    BY DEF RowFits
  <2> QED
    BY <1>3, <1>5, <2>1
<1>7. new.state \in Live => new.source_volume = pos.volume \/ Tells(Tail(s), e.pos, 1, pos.volume)
  <2> SUFFICES ASSUME new.state \in Live, ~Tells(Tail(s), e.pos, 1, pos.volume)
               PROVE  new.source_volume = pos.volume
    OBVIOUS
  <2>1. row.source_volume >= pos.volume
    BY <1>5 DEF RowFits, Live
  <2>2. \/ row.source_volume = pos.volume
        \/ e.type \in Closings /\ e.volume = pos.volume
    BY <1>5, TailTells DEF RowFits
  <2> QED
    BY <1>2, <1>3, <1>5, <2>1, <2>2
<1>8. (new.state \in Live /\ pos.st = "open" /\ Latest(Tail(s), e.pos, 0)) => new.want_sl = Copied(pos.sl)
  <2> SUFFICES ASSUME new.state \in Live, pos.st = "open", Latest(Tail(s), e.pos, 0)
               PROVE  new.want_sl = Copied(pos.sl)
    OBVIOUS
  <2>1. CASE e.type = "MODIFY"
    <3>1. Latest(s, e.pos, 1)
      <4>1. 0 \in Nat /\ 0 + 1 = 1
        OBVIOUS
      <4> QED
        BY <4>1, TailTells
    <3>2. e.sl = pos.sl
      BY <2>1, <3>1 DEF EventFits
    <3>3. ~CopyStops => row.want_sl = 0
      BY DEF RowFits
    <3> QED
      BY <1>5, <2>1, <3>2, <3>3 DEF Copied
  <2>2. CASE e.type # "MODIFY"
    <3>1. Latest(s, e.pos, 0)
      BY <2>2, TailTells
    <3> QED
      BY <1>5, <2>2, <3>1 DEF RowFits
  <2> QED
    BY <2>1, <2>2
<1>9. ~CopyStops => new.want_sl = 0
  BY <1>5 DEF RowFits
<1> QED
  BY <1>6, <1>7, <1>8, <1>9 DEF RowFits, new

LEMMA NewRowFits ==
  ASSUME NEW s \in Seq(Reported), s # << >>, NEW pos \in SourcePositions,
         s[1].type = "OPEN", EventFits(s, 1, pos)
  PROVE  RowFits(Tail(s), NewRow(s[1]), s[1].pos, pos)
<1> DEFINE e == s[1]
           row == NewRow(e)
<1>1. /\ row.state = "OPENING" /\ row.source_volume = e.volume /\ row.source_volume_open = e.volume
      /\ row.want_sl = Copied(e.sl)
  BY DEF NewRow, Sending, NotMirrored
<1>2. e.volume >= pos.volume /\ pos.st # "none" /\ (e.volume = pos.volume \/ Tells(s, e.pos, 1, pos.volume))
  BY DEF EventFits
<1> HIDE DEF row
<1>3. e.volume = pos.volume \/ Tells(Tail(s), e.pos, 1, pos.volume)
  BY <1>2, TailTells DEF Closings
<1>4. (pos.st = "open" /\ Latest(Tail(s), e.pos, 0)) => e.sl = pos.sl
  <2>1. 0 \in Nat /\ 0 + 1 = 1
    OBVIOUS
  <2>2. Latest(Tail(s), e.pos, 0) => Latest(s, e.pos, 1)
    BY <2>1, TailTells
  <2> QED
    BY <2>2 DEF EventFits
<1> QED
  BY <1>1, <1>2, <1>3, <1>4 DEF RowFits, Copied, row

LEMMA EventRead ==
  ASSUME TypeInv, FollowsInv, NEW e, NextEvent(e),
         events' \in {events, Tail(events)}, source' = source,
         \A q \in Positions : q # e.pos => table'[q] = table[q],
         RowFits(Tail(events), table'[e.pos], e.pos, source[e.pos])
  PROVE  FollowsInv'
<1>1. events \in Seq(Reported) /\ events # << >> /\ e = events[1] /\ e.pos \in Positions
  BY HeadEvent, TailEvents DEF TypeInv, NextEvent
<1>2. EventsFit(events', source)
  BY <1>1, EventsFitTail DEF FollowsInv
<1>3. ASSUME NEW q \in Positions
      PROVE  RowFits(events', table'[q], q, source[q]) /\ (source[q].st = "none" => source[q].volume = 0)
  <2>1. RowFits(events, table[q], q, source[q]) /\ (source[q].st = "none" => source[q].volume = 0)
    BY DEF FollowsInv, RowsFit
  <2>2. RowFits(Tail(events), table'[q], q, source[q])
    <3>1. CASE q = e.pos
      BY <3>1
    <3>2. CASE q # e.pos
      BY <1>1, <2>1, <3>2, RowFitsTail
    <3> QED
      BY <3>1, <3>2
  <2>3. RowFits(events, table'[q], q, source[q])
    BY <1>1, <2>2, RowFitsEarlier
  <2> QED
    BY <2>1, <2>2, <2>3
<1> QED
  BY <1>2, <1>3 DEF FollowsInv, RowsFit

\* What the destination's side of the mirror does to a row.
KeepsSource(old, new) ==
  /\ new.source_volume = old.source_volume /\ new.source_volume_open = old.source_volume_open
  /\ new.want_sl = old.want_sl
  /\ new.state # "none" => old.state # "none"
  /\ new.state \in Live => old.state \in Live

LEMMA KeptFits ==
  ASSUME NEW s, NEW old, NEW new, NEW p, NEW pos, RowFits(s, old, p, pos), KeepsSource(old, new)
  PROVE  RowFits(s, new, p, pos)
BY DEF RowFits, KeepsSource

LEMMA RowsKept ==
  ASSUME FollowsInv, UNCHANGED <<events, source>>,
         \A q \in Positions : KeepsSource(table[q], table'[q])
  PROVE  FollowsInv'
BY KeptFits DEF FollowsInv, RowsFit

LEMMA AnsweredKeeps ==
  ASSUME NEW row \in Rows, row.inflight.n # 0, row.state \in Live
  PROVE  KeepsSource(row, Succeeded(row)) /\ KeepsSource(row, Failed(row))
<1>1. row \in RowType /\ row.inflight.kind \in {"open", "close", "partial", "sltp"}
  BY DEF Rows, RowType, CmdType, Numbered
<1>2. KeepsSource(row, Failed(row))
  BY <1>1 DEF Failed, KeepsSource, RowType, Live
<1>3. KeepsSource(row, Succeeded(row))
  BY <1>1 DEF Succeeded, KeepsSource, RowType, Live
<1> QED
  BY <1>2, <1>3

LEMMA SeenKeeps ==
  ASSUME NEW row \in Rows, NEW pos \in Shown
  PROVE  KeepsSource(row, Watch(Adopt(row, pos), pos))
<1>1. row \in RowType /\ (pos.volume > 0 \/ pos.volume = 0)
  BY DEF Rows, Shown
<1> DEFINE a == Adopt(row, pos)
<1>2. a \in RowType /\ KeepsSource(row, a)
  BY <1>1, AdoptType DEF Adopt, KeepsSource, Live, RowType
<1> HIDE DEF a
<1>3. KeepsSource(a, Watch(a, pos))
  BY <1>1, <1>2 DEF Watch, KeepsSource, Live, RowType
<1> QED
  BY <1>2, <1>3 DEF KeepsSource, a

LEMMA AlignKeeps ==
  ASSUME NEW row \in Rows
  PROVE  KeepsSource(row, Align(row))
<1>1. ASSUME NEW kind, NEW volume, NEW sl PROVE KeepsSource(row, Sending(row, kind, volume, sl))
  BY DEF KeepsSource, Sending, Rows, RowType
<1>2. KeepsSource(row, row)
  BY DEF KeepsSource
<1> QED
  BY <1>1, <1>2 DEF Align

LEMMA FollowsInit == Init => FollowsInv
<1> SUFFICES ASSUME Init PROVE FollowsInv
  OBVIOUS
<1>1. events = << >> /\ Len(events) = 0
  BY DEF Init
<1>2. EventsFit(events, source)
  BY <1>1 DEF EventsFit
<1>3. ASSUME NEW p \in Positions
      PROVE  RowFits(events, table[p], p, source[p]) /\ (source[p].st = "none" => source[p].volume = 0)
  BY DEF Init, RowFits, NotMirrored, Live
<1> QED
  BY <1>2, <1>3 DEF FollowsInv, RowsFit

LEMMA HandleFollows ==
  ASSUME TypeInv, FollowsInv, HandleEvent
  PROVE  FollowsInv'
<1> DEFINE e == Head(events)
<1>1. /\ NextEvent(e)
      /\ OpenEvent(e) \/ RejectEvent(e) \/ ResendEvent(e) \/ FollowEvent(e) \/ IgnoreEvent(e)
  BY DEF HandleEvent, NextEvent
<1>2. /\ events \in Seq(Reported) /\ events # << >> /\ e = events[1]
      /\ e \in Events /\ e.pos \in Positions /\ table[e.pos] \in Rows
      /\ table \in [Positions -> Rows] /\ source[e.pos] \in SourcePositions
  BY <1>1, HeadEvent, TailEvents DEF TypeInv
<1> HIDE DEF e
<1>3. /\ EventFits(events, 1, source[e.pos]) /\ RowFits(events, table[e.pos], e.pos, source[e.pos])
  <2>1. 1 \in 1..Len(events)
    BY <1>2, TailEvents
  <2> QED
    BY <1>2, <2>1 DEF FollowsInv, EventsFit, RowsFit
<1>4. events' \in {events, Tail(events)} /\ source' = source
  BY <1>1 DEF OpenEvent, RejectEvent, ResendEvent, FollowEvent, IgnoreEvent, Handled
<1>5. \A q \in Positions : q # e.pos => table'[q] = table[q]
  BY <1>1, <1>2 DEF OpenEvent, RejectEvent, ResendEvent, FollowEvent, IgnoreEvent
<1>6. RowFits(Tail(events), table'[e.pos], e.pos, source[e.pos])
  <2>1. CASE OpenEvent(e)
    <3> DEFINE new == NewRow(e)
               failed == [new EXCEPT !.state = "FAILED", !.inflight = NoCmd]
    <3>1. RowFits(Tail(events), new, e.pos, source[e.pos])
      BY <1>2, <1>3, <2>1, NewRowFits DEF OpenEvent
    <3>2. KeepsSource(new, failed)
      BY DEF KeepsSource, Live, NewRow, Sending, NotMirrored
    <3>3. RowFits(Tail(events), failed, e.pos, source[e.pos])
      BY <3>1, <3>2, KeptFits
    <3> HIDE DEF new
    <3>4. table'[e.pos] \in {new, failed}
      BY <1>2, <2>1 DEF OpenEvent, new
    <3> QED
      BY <3>1, <3>3, <3>4
  <2>2. CASE FollowEvent(e)
    <3>1. e.type # "OPEN" /\ table'[e.pos] = Followed(table[e.pos], e)
      BY <1>2, <2>2 DEF FollowEvent
    <3> QED
      BY <1>2, <1>3, <3>1, FollowedFits
  <2>3. CASE RejectEvent(e) \/ ResendEvent(e) \/ IgnoreEvent(e)
    <3>1. table' = table /\ (e.type = "OPEN" \/ table[e.pos].state \notin Live)
      BY <2>3 DEF RejectEvent, ResendEvent, IgnoreEvent
    <3> QED
      BY <1>2, <1>3, <3>1, RowFitsTail
  <2> QED
    BY <1>1, <2>1, <2>2, <2>3
<1> QED
  BY <1>1, <1>4, <1>5, <1>6, EventRead

LEMMA SourceFollows ==
  ASSUME TypeInv, FollowsInv, NEW p \in Positions,
         \/ \E sl \in OpenStops : SourceOpen(p, sl)
         \/ \E sl \in Stops \union {0} : SourceModify(p, sl)
         \/ \E volume \in 1..SourceLots : SourcePartial(p, volume)
         \/ SourceClose(p) \/ SourceRepeats(p)
  PROVE  FollowsInv'
<1>1. source[p] \in SourcePositions /\ source[p].volume \in Volumes /\ source[p].volume \in Nat
  BY MirrorAssumption DEF TypeInv, SourcePositions, Volumes
<1>2. OpenStops \subseteq Levels /\ Stops \union {0} = Levels
  BY MirrorAssumption DEF Levels
<1>3. ASSUME NEW sl \in OpenStops, SourceOpen(p, sl) PROVE FollowsInv'
  <2> DEFINE pos == [st |-> "open", volume |-> SourceLots, sl |-> sl]
  <2>1. pos \in SourcePositions /\ pos.volume # 0 /\ pos.st = "open"
    BY <1>2, MirrorAssumption DEF SourcePositions, Volumes
  <2>2. Reports(p, pos, "OPEN") /\ source[p].st = "none"
    BY <1>3 DEF SourceOpen
  <2> HIDE DEF pos
  <2> QED
    BY <2>1, <2>2, ReportsFollow DEF Reportable
<1>4. ASSUME NEW sl \in Levels, SourceModify(p, sl) PROVE FollowsInv'
  <2> DEFINE pos == [source[p] EXCEPT !.sl = sl]
  <2>1. pos \in SourcePositions /\ pos.st = source[p].st /\ pos.volume = source[p].volume
    BY <1>1 DEF SourcePositions
  <2>2. Reports(p, pos, "MODIFY") /\ source[p].st = "open"
    BY <1>4 DEF SourceModify
  <2> HIDE DEF pos
  <2>3. Reportable(source[p], pos, "MODIFY")
    BY <1>1, <2>1, <2>2 DEF Reportable
  <2> QED
    BY <2>1, <2>2, <2>3, ReportsFollow
<1>5. ASSUME NEW volume \in 1..SourceLots, SourcePartial(p, volume) PROVE FollowsInv'
  <2> DEFINE pos == [source[p] EXCEPT !.volume = volume]
  <2>1. volume \in Volumes /\ volume # 0 /\ volume \in Nat
    BY MirrorAssumption DEF Volumes
  <2>2. /\ pos \in SourcePositions /\ pos.st = source[p].st /\ pos.sl = source[p].sl /\ pos.volume = volume
    BY <1>1, <2>1 DEF SourcePositions
  <2>3. Reports(p, pos, "PARTIAL_CLOSE") /\ source[p].st = "open" /\ volume < source[p].volume
    BY <1>5 DEF SourcePartial
  <2> HIDE DEF pos
  <2>4. Reportable(source[p], pos, "PARTIAL_CLOSE")
    BY <1>1, <2>1, <2>2, <2>3 DEF Reportable, Closings
  <2> QED
    BY <2>2, <2>3, <2>4, ReportsFollow
<1>6. CASE SourceClose(p)
  <2> DEFINE pos == [st |-> "closed", volume |-> 0, sl |-> 0]
  <2>1. pos \in SourcePositions /\ pos.st = "closed" /\ pos.volume = 0
    BY LevelsType, MirrorAssumption DEF SourcePositions, Volumes
  <2>2. Reports(p, pos, "CLOSE") /\ source[p].st = "open"
    BY <1>6 DEF SourceClose
  <2> HIDE DEF pos
  <2>3. Reportable(source[p], pos, "CLOSE")
    BY <1>1, <2>1, <2>2 DEF Reportable, Closings
  <2> QED
    BY <2>1, <2>2, <2>3, ReportsFollow
<1>7. CASE SourceRepeats(p)
  <2>1. ASSUME NEW type \in {"OPEN", "CLOSE", "PARTIAL_CLOSE", "MODIFY"}, source[p].st # "none",
               type = "OPEN" => source[p].st = "open", Reports(p, source[p], type)
        PROVE  FollowsInv'
    <3>1. Reportable(source[p], source[p], type)
      BY <1>1, <2>1 DEF Reportable
    <3>2. type = "OPEN" => source[p].volume # 0
      BY <1>1, <2>1 DEF SourcePositions
    <3> QED
      BY <1>1, <2>1, <3>1, <3>2, ReportsFollow
  <2> QED
    BY <1>7, <2>1 DEF SourceRepeats
<1> QED
  BY <1>2, <1>3, <1>4, <1>5, <1>6, <1>7

LEMMA SyncFollows ==
  ASSUME TypeInv, FollowsInv, NEW p \in Positions, NEW armed \in BOOLEAN, Sync(p, armed)
  PROVE  FollowsInv'
<1> DEFINE seen == Watch(Adopt(table[p], state[p]), state[p])
           sends(new) == \E kind \in {"close", "partial", "sltp"}, volume \in Nat, sl \in Levels :
                           /\ seen.state = "OPEN" /\ seen.inflight = NoCmd /\ state[p].volume > 0
                           /\ new = Align(seen) /\ new = Sending(seen, kind, volume, sl)
           failed(new) == [new EXCEPT !.inflight = NoCmd, !.failures = new.failures + 1]
<1>1. /\ seen \in Rows /\ UNCHANGED <<events, source>>
      /\ \/ table' = [table EXCEPT ![p] = seen]
         \/ \E new \in Rows : sends(new) /\ table' \in {[table EXCEPT ![p] = new], [table EXCEPT ![p] = failed(new)]}
  BY SyncOutcomes
<1>2. table \in [Positions -> Rows] /\ state[p] \in Shown
  BY DEF TypeInv
<1>3. KeepsSource(table[p], seen)
  BY <1>2, SeenKeeps
<1> HIDE DEF seen
<1>4. ASSUME NEW new \in Rows, sends(new)
      PROVE  KeepsSource(table[p], new) /\ KeepsSource(table[p], failed(new))
  <2>1. KeepsSource(seen, new)
    BY <1>1, <1>4, AlignKeeps
  <2>2. KeepsSource(new, failed(new))
    BY DEF KeepsSource, Rows, RowType
  <2> QED
    BY <1>3, <2>1, <2>2 DEF KeepsSource
<1> HIDE DEF sends, failed
<1>5. ASSUME NEW row, KeepsSource(table[p], row), table' = [table EXCEPT ![p] = row] PROVE FollowsInv'
  <2>1. ASSUME NEW q \in Positions PROVE KeepsSource(table[q], table'[q])
    BY <1>2, <1>5 DEF KeepsSource
  <2> QED
    BY <1>1, <2>1, RowsKept
<1> QED
  BY <1>1, <1>3, <1>4, <1>5

LEMMA AnsweredFollows ==
  ASSUME TypeInv, FitsInv, FollowsInv, ApplyResult
  PROVE  FollowsInv'
<1>1. PICK x \in results :
        /\ table' = [table EXCEPT ![x.pos] = IF @.inflight.n # x.n THEN @
                                             ELSE IF x.ok THEN Succeeded(@) ELSE Failed(@)]
        /\ UNCHANGED <<events, source>>
  BY DEF ApplyResult
<1> DEFINE p == x.pos
<1>2. p \in Positions /\ x.n # 0 /\ table \in [Positions -> Rows]
  BY DEF TypeInv, Results
<1>3. KeepsSource(table[p], table'[p])
  <2>1. CASE table[p].inflight.n # x.n
    BY <1>1, <1>2, <2>1 DEF KeepsSource
  <2>2. CASE table[p].inflight.n = x.n
    <3>1. table[p].inflight # NoCmd
      BY <1>2, <2>2 DEF NoCmd
    <3>2. table[p].state \in Live
      BY <1>2, <3>1 DEF FitsInv, FitsAt, Fits, NumbersFit
    <3>3. KeepsSource(table[p], Succeeded(table[p])) /\ KeepsSource(table[p], Failed(table[p]))
      BY <1>2, <2>2, <3>2, AnsweredKeeps
    <3>4. table'[p] \in {Succeeded(table[p]), Failed(table[p])}
      BY <1>1, <1>2, <2>2
    <3> QED
      BY <3>3, <3>4
  <2> QED
    BY <2>1, <2>2
<1>4. ASSUME NEW q \in Positions PROVE KeepsSource(table[q], table'[q])
  BY <1>1, <1>2, <1>3 DEF KeepsSource
<1> QED
  BY <1>1, <1>4, RowsKept

LEMMA FollowsStep == TypeInv /\ FitsInv /\ FollowsInv /\ [Next]_vars => FollowsInv'
<1> SUFFICES ASSUME TypeInv, FitsInv, FollowsInv, [Next]_vars PROVE FollowsInv'
  OBVIOUS
<1>1. ASSUME UNCHANGED <<events, table, source>> PROVE FollowsInv'
  BY <1>1 DEF FollowsInv
<1>2. CASE HandleEvent
  BY <1>2, HandleFollows
<1>3. CASE ApplyResult
  BY <1>3, AnsweredFollows
<1>4. CASE Answer
  BY <1>1, <1>4 DEF Answer, SkipCommand, ExecuteCommand, RefuseCommand, Takes
<1>5. CASE WriteState
  BY <1>1, <1>5 DEF WriteState
<1>6. ASSUME NEW p \in Positions, NEW armed \in BOOLEAN, Sync(p, armed) PROVE FollowsInv'
  BY <1>6, SyncFollows
<1>7. ASSUME NEW p \in Positions, DestCloses(p) \/ DealsAge(p) PROVE FollowsInv'
  BY <1>1, <1>7 DEF DestCloses, DealsAge
<1>8. ASSUME NEW p \in Positions, GraceOver(p) PROVE FollowsInv'
  <2>1. /\ table' = [table EXCEPT ![p] = [table[p] EXCEPT !.missing_since = "due"]]
        /\ UNCHANGED <<events, source>> /\ table \in [Positions -> Rows]
    BY <1>8 DEF GraceOver, TypeInv
  <2>2. KeepsSource(table[p], [table[p] EXCEPT !.missing_since = "due"])
    BY <2>1 DEF KeepsSource, Rows, RowType
  <2>3. ASSUME NEW q \in Positions PROVE KeepsSource(table[q], table'[q])
    BY <2>1, <2>2 DEF KeepsSource
  <2> QED
    BY <2>1, <2>3, RowsKept
<1>9. ASSUME NEW p \in Positions,
             \/ \E sl \in OpenStops : SourceOpen(p, sl)
             \/ \E sl \in Stops \union {0} : SourceModify(p, sl)
             \/ \E volume \in 1..SourceLots : SourcePartial(p, volume)
             \/ SourceClose(p) \/ SourceRepeats(p)
      PROVE  FollowsInv'
  BY <1>9, SourceFollows
<1>10. CASE UNCHANGED vars
  BY <1>1, <1>10 DEF vars
<1>11. CASE Next
  BY <1>2, <1>3, <1>4, <1>5, <1>6, <1>7, <1>8, <1>9, <1>11 DEF Next
<1> QED
  BY <1>10, <1>11

(* With the events read, the table says of the source what is so, whatever *)
(* was replayed and however often the mirror died before it saved the      *)
(* cursor (mirror.py:487-501, 533-556).                                    *)
THEOREM MirrorFollowsSource == Spec => []TableFollowsSource
<1>1. FollowsInv => TableFollowsSource
  <2> SUFFICES ASSUME FollowsInv, events = << >>, NEW p \in Positions, table[p].state \in Live
               PROVE  /\ table[p].source_volume = source[p].volume
                      /\ source[p].st = "open" => table[p].want_sl = Copied(source[p].sl)
    BY DEF TableFollowsSource
  <2>1. RowFits(events, table[p], p, source[p]) /\ Len(events) = 0
    BY DEF FollowsInv, RowsFit
  <2>2. ~Tells(events, p, 1, source[p].volume) /\ Latest(events, p, 0)
    BY <2>1 DEF Tells, Latest
  <2> QED
    BY <2>1, <2>2 DEF RowFits
<1> QED
  BY <1>1, TypeInit, TypeStep, FitsInit, FitsStep, FollowsInit, FollowsStep, PTL DEF Spec

\* What the EA has not answered has been asked of its position.
LEMMA PendingAsked ==
  ASSUME TypeInv, NEW p \in Positions, NEW i \in Pending(p)
  PROVE  /\ i \in 1..Len(commands) /\ commands[i] = Line(p, commands[i].cmd)
         /\ commands[i].cmd \in AskedOf(p) /\ commands[i].cmd.n \notin AnsweredOf(p)
<1>1. i \in 1..Len(commands) /\ commands[i].pos = p /\ Id(commands[i]) \notin answered
  BY DEF Pending
<1>2. commands[i] \in Sent
  BY <1>1, ElementOfSeq DEF TypeInv
<1>3. commands[i].cmd \in Cmds /\ commands[i] = Line(p, commands[i].cmd)
  BY <1>1, <1>2, SentIsCmd
<1> QED
  BY <1>1, <1>3 DEF AskedOf, AnsweredOf, Id

(***************************************************************************)
(* Nothing is left open behind the mirror's back                           *)
(***************************************************************************)
OrphanFits(row, d, shown) ==
  /\ row.missing_since = "due" /\ shown.volume = 0 => d.st # "open"
  /\ row.state \notin Live => d.st # "open"

OrphanInv == \A p \in Positions : OrphanFits(table[p], dest[p], state[p])

LEMMA OrphanInit == Init => OrphanInv
BY DEF Init, OrphanInv, OrphanFits, NotMirrored

\* A step that changes the row of one position at most.
LEMMA OrphanRowOnly ==
  ASSUME TypeInv, OrphanInv, NEW p \in Positions, NEW row, table' = [table EXCEPT ![p] = row],
         UNCHANGED <<dest, state>>, OrphanFits(row, dest[p], state[p])
  PROVE  OrphanInv'
BY DEF TypeInv, OrphanInv

LEMMA OrphanHandle ==
  ASSUME TypeInv, FitsInv, OrphanInv, HandleEvent
  PROVE  OrphanInv'
<1> DEFINE e == Head(events)
<1>1. /\ NextEvent(e)
      /\ OpenEvent(e) \/ RejectEvent(e) \/ ResendEvent(e) \/ FollowEvent(e) \/ IgnoreEvent(e)
  BY DEF HandleEvent, NextEvent
<1>2. e \in Events /\ e.pos \in Positions /\ table[e.pos] \in Rows
  BY <1>1, HeadEvent
<1> HIDE DEF e
<1>3. UNCHANGED <<dest, state>>
  BY <1>1 DEF OpenEvent, RejectEvent, ResendEvent, FollowEvent, IgnoreEvent, bridge
<1>4. CASE OpenEvent(e)
  <2> DEFINE new == NewRow(e)
             failed == [new EXCEPT !.state = "FAILED", !.inflight = NoCmd]
  <2>1. dest[e.pos].st # "open"
    BY <1>2, <1>4 DEF OpenEvent, FitsInv, FitsAt, Fits, ExistsFit
  <2>2. OrphanFits(new, dest[e.pos], state[e.pos]) /\ OrphanFits(failed, dest[e.pos], state[e.pos])
    BY <2>1 DEF OrphanFits
  <2>3. table' = [table EXCEPT ![e.pos] = new] \/ table' = [table EXCEPT ![e.pos] = failed]
    BY <1>4 DEF OpenEvent
  <2> HIDE DEF new, failed
  <2> QED
    BY <1>2, <1>3, <2>2, <2>3, OrphanRowOnly
<1>5. CASE FollowEvent(e)
  <2>1. e.type # "OPEN" /\ table' = [table EXCEPT ![e.pos] = Followed(table[e.pos], e)]
    BY <1>5 DEF FollowEvent
  <2>2. KeepsDest(table[e.pos], Followed(table[e.pos], e))
    BY <1>2, <2>1, FollowedKeeps
  <2>3. OrphanFits(Followed(table[e.pos], e), dest[e.pos], state[e.pos])
    BY <1>2, <2>2 DEF OrphanInv, OrphanFits, KeepsDest
  <2> QED
    BY <1>2, <1>3, <2>1, <2>3, OrphanRowOnly
<1>6. CASE RejectEvent(e) \/ ResendEvent(e) \/ IgnoreEvent(e)
  <2>1. table' = table
    BY <1>6 DEF RejectEvent, ResendEvent, IgnoreEvent
  <2> QED
    BY <1>3, <2>1 DEF OrphanInv
<1> QED
  BY <1>1, <1>4, <1>5, <1>6

\* A row whose wait has ended closes only if its position has.
LEMMA OrphanAnswered ==
  ASSUME NEW row \in Rows, NEW d \in DestPositions, NEW shown \in Shown,
         NEW cmds \in SUBSET Cmds, NEW ans \in SUBSET Nat, NEW res \in SUBSET Results,
         Fits(row, d, shown, cmds, ans, res), OrphanFits(row, d, shown),
         NEW x \in res, x.n = row.inflight.n
  PROVE  /\ x.ok = TRUE => OrphanFits(Succeeded(row), d, shown)
         /\ x.ok = FALSE => OrphanFits(Failed(row), d, shown)
<1>1. row.inflight.n # 0 /\ row.inflight # NoCmd
  BY DEF Results, NoCmd
<1>2. row.state \in Live
  BY <1>1 DEF Fits, NumbersFit
<1>3. d.st = "open" => d.volume > 0 /\ d.volume \in Nat
  BY DEF Fits, ExistsFit, DestPositions
<1>4. ResultFits(row, d, x.ok)
  BY DEF Fits, ResultsFit
<1>5. ASSUME x.ok = TRUE PROVE OrphanFits(Succeeded(row), d, shown)
  <2>1. Succeeded(row).missing_since = row.missing_since
    BY <1>1, SucceededFields
  <2>2. row.inflight.kind \in {"open", "sltp", "close", "partial"}
    BY <1>1, SucceededFields
  <2>3. Succeeded(row).state \notin Live => d.st # "open"
    <3>1. CASE row.inflight.kind = "open"
      BY <1>1, <3>1, SucceededFields DEF Live
    <3>2. CASE row.inflight.kind = "sltp"
      BY <1>1, <1>2, <3>2, SucceededFields
    <3>3. CASE row.inflight.kind = "close"
      BY <1>4, <1>5, <3>3 DEF ResultFits
    <3>4. CASE row.inflight.kind = "partial"
      <4>1. d.st = "open" => row.dest_volume - row.inflight.volume > 0
        BY <1>3, <1>4, <1>5, <3>4 DEF ResultFits
      <4>2. row.dest_volume - row.inflight.volume > 0 => Succeeded(row).state = row.state
        BY <1>1, <3>4, SucceededFields
      <4> QED
        BY <1>2, <4>1, <4>2
    <3> QED
      BY <2>2, <3>1, <3>2, <3>3, <3>4
  <2> QED
    BY <2>1, <2>3 DEF OrphanFits
<1>6. ASSUME x.ok = FALSE PROVE OrphanFits(Failed(row), d, shown)
  <2>1. /\ Failed(row).missing_since = row.missing_since
        /\ Failed(row).state = IF row.inflight.kind = "open" THEN "FAILED" ELSE row.state
    BY FailedFields
  <2>2. row.inflight.kind = "open" => d.st # "open"
    BY <1>4, <1>6 DEF ResultFits
  <2> QED
    BY <1>2, <2>1, <2>2 DEF OrphanFits
<1> QED
  BY <1>5, <1>6

LEMMA OrphanApplyResult ==
  ASSUME TypeInv, FitsInv, OrphanInv, ApplyResult
  PROVE  OrphanInv'
<1>1. PICK x \in results :
        /\ table' = [table EXCEPT ![x.pos] = IF @.inflight.n # x.n THEN @
                                             ELSE IF x.ok THEN Succeeded(@) ELSE Failed(@)]
        /\ UNCHANGED <<dest, state>>
  BY DEF ApplyResult
<1> DEFINE p == x.pos
           row == IF table[p].inflight.n # x.n THEN table[p]
                  ELSE IF x.ok THEN Succeeded(table[p]) ELSE Failed(table[p])
<1>2. p \in Positions /\ x \in ResultsOf(p) /\ x.ok \in BOOLEAN
  BY DEF TypeInv, Results, ResultsOf
<1>3. /\ Fits(table[p], dest[p], state[p], AskedOf(p), AnsweredOf(p), ResultsOf(p))
      /\ OrphanFits(table[p], dest[p], state[p])
  BY <1>2 DEF FitsInv, FitsAt, OrphanInv
<1>4. OrphanFits(row, dest[p], state[p])
  <2>1. CASE table[p].inflight.n # x.n
    BY <1>3, <2>1
  <2>2. CASE table[p].inflight.n = x.n
    <3>1. /\ x.ok = TRUE => OrphanFits(Succeeded(table[p]), dest[p], state[p])
          /\ x.ok = FALSE => OrphanFits(Failed(table[p]), dest[p], state[p])
      BY <1>2, <1>3, <2>2, OrphanAnswered, FitsTypes
    <3>2. CASE x.ok = TRUE
      BY <2>2, <3>1, <3>2
    <3>3. CASE x.ok = FALSE
      BY <2>2, <3>1, <3>3
    <3> QED
      BY <1>2, <3>2, <3>3
  <2> QED
    BY <2>1, <2>2
<1>5. table' = [table EXCEPT ![p] = row]
  BY <1>1
<1> HIDE DEF row
<1> QED
  BY <1>1, <1>2, <1>4, <1>5, OrphanRowOnly

\* A position is taken for closed when its deal is shown, or when a fresh state.json has not shown it.
LEMMA OrphanSeen ==
  ASSUME NEW row \in Rows, NEW d \in DestPositions, NEW shown \in Shown, NEW cmds, NEW ans, NEW res,
         Fits(row, d, shown, cmds, ans, res), OrphanFits(row, d, shown)
  PROVE  OrphanFits(Watch(Adopt(row, shown), shown), d, shown)
<1> DEFINE adopted == Adopt(row, shown)
<1>1. adopted \in RowType /\ adopted.missing_since = row.missing_since
      /\ adopted.state = (IF row.state = "OPENING" /\ shown.volume > 0 THEN "OPEN" ELSE row.state)
  BY AdoptType DEF Adopt, Rows, RowType
<1>2. OrphanFits(adopted, d, shown)
  BY <1>1 DEF OrphanFits, Live
<1> HIDE DEF adopted
<1>3. shown.volume > 0 \/ shown.volume = 0
  BY DEF Shown
<1>4. CASE adopted.state = "OPEN" /\ shown.volume > 0
  <2>1. Watch(adopted, shown) = [adopted EXCEPT !.missing_since = "off"]
    BY <1>4 DEF Watch
  <2>2. Watch(adopted, shown).missing_since = "off" /\ Watch(adopted, shown).state = "OPEN"
    BY <1>1, <1>4, <2>1 DEF RowType
  <2> QED
    BY <2>2 DEF OrphanFits, Live, adopted
<1>5. CASE adopted.state = "OPEN" /\ shown.volume = 0 /\ adopted.inflight.kind # "close"
           /\ (shown.deals \/ adopted.missing_since = "due")
  <2>1. d.st # "open"
    <3>1. shown.deals = TRUE \/ adopted.missing_since = "due"
      BY <1>5
    <3> QED
      BY <1>2, <1>5, <3>1 DEF OrphanFits, Fits, ExistsFit
  <2> QED
    BY <2>1 DEF OrphanFits
<1>6. CASE adopted.state = "OPEN" /\ shown.volume = 0 /\ adopted.inflight.kind # "close"
           /\ ~(shown.deals \/ adopted.missing_since = "due")
  <2>1. Watch(adopted, shown) = [adopted EXCEPT !.missing_since = "on"]
    BY <1>6 DEF Watch
  <2>2. Watch(adopted, shown).missing_since = "on" /\ Watch(adopted, shown).state = "OPEN"
    BY <1>1, <1>6, <2>1 DEF RowType
  <2> QED
    BY <2>2 DEF OrphanFits, Live, adopted
<1>7. CASE adopted.state # "OPEN" \/ (shown.volume = 0 /\ adopted.inflight.kind = "close")
  <2>1. Watch(adopted, shown) = adopted
    BY <1>7 DEF Watch
  <2> QED
    BY <1>2, <2>1 DEF adopted
<1> QED
  BY <1>3, <1>4, <1>5, <1>6, <1>7

LEMMA OrphanSync ==
  ASSUME TypeInv, FitsInv, OrphanInv, NEW p \in Positions, NEW armed \in BOOLEAN, Sync(p, armed)
  PROVE  OrphanInv'
<1> DEFINE seen == Watch(Adopt(table[p], state[p]), state[p])
           sends(new) == \E kind \in {"close", "partial", "sltp"}, volume \in Nat, sl \in Levels :
                           /\ seen.state = "OPEN" /\ seen.inflight = NoCmd /\ state[p].volume > 0
                           /\ new = Align(seen) /\ new = Sending(seen, kind, volume, sl)
           failed(new) == [new EXCEPT !.inflight = NoCmd, !.failures = new.failures + 1]
<1>1. /\ seen \in Rows /\ UNCHANGED <<dest, state>>
      /\ \/ table' = [table EXCEPT ![p] = seen]
         \/ \E new \in Rows : sends(new) /\ table' \in {[table EXCEPT ![p] = new], [table EXCEPT ![p] = failed(new)]}
  BY SyncOutcomes
<1>2. OrphanFits(seen, dest[p], state[p])
  BY OrphanSeen, FitsTypes DEF FitsInv, FitsAt, OrphanInv
<1> HIDE DEF seen
<1>3. ASSUME NEW new \in Rows, sends(new)
      PROVE  OrphanFits(new, dest[p], state[p]) /\ OrphanFits(failed(new), dest[p], state[p])
  <2>1. new.state = seen.state /\ new.missing_since = seen.missing_since
    BY <1>1, <1>3 DEF Sending, Rows, RowType
  <2>2. failed(new).state = seen.state /\ failed(new).missing_since = seen.missing_since
    BY <2>1 DEF Rows, RowType
  <2> QED
    BY <1>2, <2>1, <2>2 DEF OrphanFits
<1> HIDE DEF sends, failed
<1> QED
  BY <1>1, <1>2, <1>3, OrphanRowOnly

LEMMA OrphanAnswer ==
  ASSUME TypeInv, FitsInv, OrphanInv, NEW c, SkipCommand(c) \/ ExecuteCommand(c) \/ RefuseCommand(c)
  PROVE  OrphanInv'
<1>1. Takes(c) /\ commands # << >> /\ c = Head(commands) /\ commands' = Tail(commands)
  BY DEF SkipCommand, ExecuteCommand, RefuseCommand, Takes
<1>2. /\ c.pos \in Positions /\ c \in Sent /\ c.cmd \in AskedOf(c.pos) /\ UNCHANGED <<table, state>>
      /\ dest \in [Positions -> DestPositions]
  BY <1>1, HeadCommand, AskedTail DEF TypeInv
<1>3. CASE SkipCommand(c) \/ RefuseCommand(c)
  <2>1. dest' = dest
    BY <1>3 DEF SkipCommand, RefuseCommand
  <2> QED
    BY <1>2, <2>1 DEF OrphanInv
<1>4. CASE ExecuteCommand(c)
  <2>1. /\ dest' = [dest EXCEPT ![c.pos] = Done(c)] /\ Id(c) \notin answered /\ CanDo(c)
    BY <1>4 DEF ExecuteCommand
  <2>2. OrphanFits(table[c.pos], Done(c), state[c.pos])
    <3>1. CASE c.cmd.kind = "open"
      <4>1. c.cmd.n = 1 /\ c.cmd.n \notin AnsweredOf(c.pos)
        BY <1>2, <2>1, <3>1 DEF Sent, Numbered, AnsweredOf, Id
      <4>2. table[c.pos].state = "OPENING" /\ table[c.pos].missing_since = "off"
        <5>1. FitsAt(c.pos) /\ table[c.pos] \in Rows
          BY <1>2 DEF FitsInv, TypeInv
        <5>2. table[c.pos].state = "OPENING"
          BY <1>2, <4>1, <5>1 DEF FitsAt, Fits, NumbersFit
        <5> QED
          BY <5>1, <5>2 DEF FitsAt, Fits, ExistsFit
      <4> QED
        BY <4>2 DEF OrphanFits, Live
    <3>2. CASE c.cmd.kind # "open"
      <4>1. dest[c.pos].st = "open"
        BY <2>1, <3>2 DEF CanDo
      <4> QED
        BY <1>2, <4>1 DEF OrphanInv, OrphanFits
    <3> QED
      BY <3>1, <3>2
  <2> QED
    BY <1>2, <2>1, <2>2 DEF OrphanInv
<1> QED
  BY <1>3, <1>4

LEMMA OrphanStep ==
  ASSUME "stale" \notin Faults, TypeInv, FitsInv, OrphanInv, [Next]_vars
  PROVE  OrphanInv'
<1>1. ASSUME UNCHANGED <<table, dest, state>> PROVE OrphanInv'
  BY <1>1 DEF OrphanInv
<1>2. CASE HandleEvent
  BY <1>2, OrphanHandle
<1>3. CASE ApplyResult
  BY <1>3, OrphanApplyResult
<1>4. CASE Answer
  BY <1>4, OrphanAnswer DEF Answer
<1>5. CASE WriteState
  <2> SUFFICES ASSUME NEW p \in Positions PROVE OrphanFits(table'[p], dest'[p], state'[p])
    BY DEF OrphanInv
  <2>1. table' = table /\ dest' = dest /\ state'[p].volume = dest[p].volume
    BY <1>5 DEF WriteState, Snapshot
  <2>2. dest[p].st = "open" => dest[p].volume > 0 /\ dest[p].volume \in Nat
    BY DEF FitsInv, FitsAt, Fits, ExistsFit, TypeInv, DestPositions
  <2> QED
    BY <2>1, <2>2 DEF OrphanInv, OrphanFits
<1>6. ASSUME NEW p \in Positions, NEW armed \in BOOLEAN, Sync(p, armed) PROVE OrphanInv'
  BY <1>6, OrphanSync
<1>7. ASSUME NEW p \in Positions, DestCloses(p) \/ DealsAge(p) PROVE OrphanInv'
  <2>1. UNCHANGED <<table, state>> /\ dest \in [Positions -> DestPositions]
    BY <1>7 DEF DestCloses, DealsAge, TypeInv
  <2>2. \A q \in Positions : dest'[q].st = "open" => dest[q].st = "open"
    BY <1>7, <2>1 DEF DestCloses, DealsAge, DestPositions
  <2> QED
    BY <2>1, <2>2 DEF OrphanInv, OrphanFits
<1>8. ASSUME NEW p \in Positions, GraceOver(p) PROVE OrphanInv'
  <2>1. /\ table' = [table EXCEPT ![p] = [table[p] EXCEPT !.missing_since = "due"]]
        /\ UNCHANGED <<dest, state>> /\ state[p] = Snapshot(p) /\ table[p] \in Rows
    BY <1>8 DEF GraceOver, Fault, TypeInv
  <2>2. dest[p].st = "open" => dest[p].volume > 0 /\ dest[p].volume \in Nat
    BY DEF FitsInv, FitsAt, Fits, ExistsFit, TypeInv, DestPositions
  <2>3. dest[p].st = "open" => state[p].volume # 0
    BY <2>1, <2>2 DEF Snapshot
  <2>4. OrphanFits([table[p] EXCEPT !.missing_since = "due"], dest[p], state[p])
    BY <2>1, <2>3 DEF OrphanInv, OrphanFits, Rows, RowType
  <2> QED
    BY <2>1, <2>4, OrphanRowOnly
<1>9. ASSUME NEW p \in Positions,
             \/ \E sl \in OpenStops : SourceOpen(p, sl)
             \/ \E sl \in Stops \union {0} : SourceModify(p, sl)
             \/ \E volume \in 1..SourceLots : SourcePartial(p, volume)
             \/ SourceClose(p) \/ SourceRepeats(p)
      PROVE  OrphanInv'
  BY <1>1, <1>9 DEF SourceOpen, SourceModify, SourcePartial, SourceClose, SourceRepeats, Reports
<1>10. CASE UNCHANGED vars
  BY <1>1, <1>10 DEF vars
<1>11. CASE Next
  BY <1>2, <1>3, <1>4, <1>5, <1>6, <1>7, <1>8, <1>9, <1>11 DEF Next
<1> QED
  BY <1>10, <1>11

(* A row the mirror has given up on has no position at the destination and *)
(* none on its way there, as long as the EA writes state.json within       *)
(* MISSING_GRACE_SEC (mirror.py:558-641, 735-776).                         *)
THEOREM MirrorOrphansNothing ==
  ASSUME "stale" \notin Faults
  PROVE  Spec => []NothingOrphaned
<1>1. TypeInv /\ FitsInv /\ OrphanInv => NothingOrphaned
  <2> SUFFICES ASSUME TypeInv, FitsInv, OrphanInv, NEW p \in Positions, table[p].state \notin Live
               PROVE  /\ dest[p].st # "open"
                      /\ \A i \in Pending(p) : commands[i].cmd.kind # "open"
    BY DEF NothingOrphaned
  <2>1. dest[p].st # "open"
    BY DEF OrphanInv, OrphanFits
  <2>2. ASSUME NEW i \in Pending(p) PROVE commands[i].cmd.kind # "open"
    <3>1. commands[i].cmd \in AskedOf(p) /\ commands[i].cmd.n \notin AnsweredOf(p)
      BY PendingAsked
    <3>2. commands[i].cmd.n # 1
      BY <3>1 DEF FitsInv, FitsAt, Fits, NumbersFit, Live
    <3> QED
      BY <3>1, <3>2 DEF AskedOf, Cmds, Numbered
  <2> QED
    BY <2>1, <2>2
<1>2. TypeInv /\ FitsInv /\ OrphanInv /\ [Next]_vars => OrphanInv'
  BY OrphanStep
<1> QED
  BY <1>1, <1>2, TypeInit, TypeStep, FitsInit, FitsStep, OrphanInit, PTL DEF Spec

(***************************************************************************)
(* The share of a placed volume                                            *)
(***************************************************************************)
LEMMA Quotient ==
  ASSUME NEW n \in Nat, NEW d \in Nat \ {0}
  PROVE  /\ n \div d \in Nat
         /\ d * (n \div d) <= n
         /\ n < d * (n \div d) + d
BY Z3

LEMMA QuotientBelow ==
  ASSUME NEW n \in Nat, NEW d \in Nat \ {0}, NEW q \in Nat, n < d * q + d
  PROVE  n \div d <= q
<1> DEFINE a == n \div d
<1>1. a \in Nat /\ d * a <= n
  BY Quotient
<1> HIDE DEF a
<1>2. SUFFICES ASSUME a >= q + 1 PROVE FALSE
  BY <1>1 DEF a
<1>3. d * a >= d * (q + 1)
  BY <1>1, <1>2, Z3
<1>4. d * (q + 1) = d * q + d
  BY Z3
<1>5. d * q \in Nat /\ d * a \in Nat
  BY <1>1, Z3
<1> QED
  BY <1>1, <1>3, <1>4, <1>5

LEMMA QuotientGrows ==
  ASSUME NEW n \in Nat, NEW m \in Nat, n <= m, NEW d \in Nat \ {0}
  PROVE  n \div d <= m \div d
<1> DEFINE b == m \div d
<1>1. b \in Nat /\ m < d * b + d
  BY Quotient
<1> HIDE DEF b
<1>2. d * b \in Nat
  BY <1>1, Z3
<1>3. n < d * b + d
  BY <1>1, <1>2
<1> QED
  BY <1>1, <1>3, QuotientBelow DEF b

\* The rounded share of what was placed is no more than that, and grows with what the source has left.
LEMMA RoundedShare ==
  ASSUME NEW o \in Nat \ {0}, NEW placed \in Nat, NEW v \in Nat, NEW w \in Nat, v <= w, w < o
  PROVE  LET rounded(x) == (2 * placed * x + o) \div (2 * o) IN
         /\ rounded(v) \in Nat /\ rounded(w) \in Nat
         /\ rounded(v) <= rounded(w) /\ rounded(w) <= placed
<1>1. 2 * o \in Nat \ {0}
  OBVIOUS
<1>2. 2 * placed * v \in Nat /\ 2 * placed * w \in Nat /\ 2 * placed * v <= 2 * placed * w
  <2>1. 2 * placed \in Nat
    OBVIOUS
  <2>2. \A k \in Nat : k * v \in Nat /\ k * w \in Nat /\ k * v <= k * w
    BY Z3
  <2> QED
    BY <2>1, <2>2
<1>3. 2 * placed * v + o \in Nat /\ 2 * placed * w + o \in Nat /\ 2 * placed * v + o <= 2 * placed * w + o
  BY <1>2
<1>4. 2 * placed * w + o < (2 * o) * placed + 2 * o
  <2>1. placed * w <= placed * o
    BY Z3
  <2>2. 2 * placed * w = 2 * (placed * w) /\ (2 * o) * placed = 2 * (placed * o)
    BY Z3
  <2>3. placed * w \in Nat /\ placed * o \in Nat
    BY Z3
  <2> QED
    BY <2>1, <2>2, <2>3
<1> QED
  BY <1>1, <1>3, <1>4, Quotient, QuotientBelow, QuotientGrows

LEMMA TargetShare ==
  ASSUME NEW row \in RowType, NEW v \in Volumes, NEW w \in Volumes, v <= w
  PROVE  /\ Target(row, v) \in Nat /\ Target(row, w) \in Nat
         /\ Target(row, v) <= Target(row, w)
         /\ Target(row, w) <= row.dest_volume_open
<1> DEFINE o == row.source_volume_open
           placed == row.dest_volume_open
           rounded(x) == (2 * placed * x + o) \div (2 * o)
<1>1. o \in Nat /\ placed \in Nat /\ v \in Nat /\ w \in Nat /\ VolumeMin \in Nat
  BY MirrorAssumption DEF RowType, Volumes, Lots
<1>2. \A x \in Volumes : Target(row, x) \in Nat
  BY TargetType
<1>3. ASSUME NEW x \in Nat
      PROVE  /\ x = 0 => Target(row, x) = 0
             /\ (x # 0 /\ x >= o) => Target(row, x) = placed
             /\ (x # 0 /\ ~(x >= o)) => Target(row, x) = IF rounded(x) < VolumeMin THEN 0 ELSE rounded(x)
  <2>1. CASE x = 0
    BY <2>1 DEF Target
  <2>2. CASE x # 0 /\ x >= o
    BY <2>2, Zenon DEF Target
  <2>3. CASE x # 0 /\ ~(x >= o)
    BY <2>3, Zenon DEF Target
  <2> QED
    BY <2>1, <2>2, <2>3
<1>4. ASSUME w < o
      PROVE  /\ rounded(v) \in Nat /\ rounded(w) \in Nat
             /\ rounded(v) <= rounded(w) /\ rounded(w) <= placed
  <2>1. o \in Nat \ {0}
    BY <1>1, <1>4
  <2> QED
    BY <1>1, <1>4, <2>1, RoundedShare
<1>5. ASSUME v < o PROVE rounded(v) \in Nat /\ rounded(v) <= placed
  <2>1. o \in Nat \ {0} /\ v <= v
    BY <1>1, <1>5
  <2> QED
    BY <1>1, <1>5, <2>1, RoundedShare
<1> HIDE DEF rounded, placed, o
<1>6. Target(row, w) <= placed
  BY <1>1, <1>3, <1>4
<1>7. Target(row, v) <= Target(row, w)
  <2>1. CASE v = 0
    BY <1>2, <1>3, <1>1, <2>1
  <2>2. CASE v # 0 /\ w >= o
    BY <1>1, <1>3, <1>5, <2>2
  <2>3. CASE v # 0 /\ ~(w >= o)
    BY <1>1, <1>3, <1>4, <2>3
  <2> QED
    BY <1>1, <2>1, <2>2, <2>3
<1> QED
  BY <1>2, <1>6, <1>7 DEF placed

LEMMA SameShare ==
  ASSUME NEW old, NEW new, NEW v,
         new.source_volume_open = old.source_volume_open, new.dest_volume_open = old.dest_volume_open
  PROVE  Target(new, v) = Target(old, v)
BY DEF Target

(***************************************************************************)
(* The mirror never closes more than the source                            *)
(***************************************************************************)
\* The position d, and what the pending commands leave of it, are no less than the share of the volume v
\* that the source has left. Only the last command of a row is pending.
ShareFits(row, d, v, cmds, ans) ==
  /\ \A c \in cmds : c.n \notin ans => c.n = row.seq
  /\ d.st = "open" =>
       /\ d.volume >= Target(row, v)
       /\ \A c \in cmds : c.n \notin ans =>
            /\ c.kind = "partial" => d.volume - c.volume >= Target(row, v)
            /\ c.kind = "close" => Target(row, v) = 0

ShareAt(p) == ShareFits(table[p], dest[p], source[p].volume, AskedOf(p), AnsweredOf(p))
ShareInv == \A p \in Positions : ShareAt(p)

\* What leaves the share of a row as it is.
KeepsShare(old, new) ==
  /\ new.seq = old.seq
  /\ new.source_volume_open = old.source_volume_open /\ new.dest_volume_open = old.dest_volume_open

LEMMA ShareKept ==
  ASSUME NEW old, NEW new, NEW d, NEW v, NEW cmds, NEW ans, NEW fewer, NEW more,
         ShareFits(old, d, v, cmds, ans), KeepsShare(old, new), fewer \subseteq cmds, ans \subseteq more
  PROVE  ShareFits(new, d, v, fewer, more)
<1>1. Target(new, v) = Target(old, v) /\ new.seq = old.seq
  BY SameShare DEF KeepsShare
<1> QED
  BY <1>1 DEF ShareFits

LEMMA ShareOfNew ==
  ASSUME NEW row, NEW d, NEW v, NEW cmds, NEW ans,
         d.st # "open", \A c \in cmds : c.n = row.seq
  PROVE  ShareFits(row, d, v, cmds, ans)
BY DEF ShareFits

\* The source has less left.
LEMMA ShareOfLess ==
  ASSUME NEW row \in RowType, NEW d \in DestPositions, NEW v \in Volumes, NEW w \in Volumes,
         NEW cmds \in SUBSET Cmds, NEW ans,
         ShareFits(row, d, w, cmds, ans), v <= w \/ d.st # "open"
  PROVE  ShareFits(row, d, v, cmds, ans)
<1>1. CASE d.st # "open"
  BY <1>1 DEF ShareFits
<1>2. CASE v <= w
  <2>1. Target(row, v) \in Nat /\ Target(row, w) \in Nat /\ Target(row, v) <= Target(row, w)
    BY <1>2, TargetShare
  <2>2. d.volume \in Nat /\ \A c \in cmds : c.volume \in Nat
    BY DEF DestPositions, Cmds, CmdType
  <2> QED
    BY <2>1, <2>2 DEF ShareFits
<1> QED
  BY <1>1, <1>2

LEMMA ShareExecuted ==
  ASSUME NEW row \in Rows, NEW d \in DestPositions, NEW shown, NEW v \in Volumes,
         NEW cmds \in SUBSET Cmds, NEW ans, NEW res, Fits(row, d, shown, cmds, ans, res),
         ShareFits(row, d, v, cmds, ans),
         NEW cmd \in cmds, cmd.n \notin ans, cmd.kind = "open" \/ d.st = "open"
  PROVE  ShareFits(row, After(d, cmd), v, cmds, ans \union {cmd.n})
<1> DEFINE new == After(d, cmd)
<1>1. /\ cmd \in CmdType /\ Numbered(cmd) /\ cmd.volume \in Nat /\ d.volume \in Nat
      /\ cmd.kind \in {"open", "sltp", "close", "partial"}
  BY DEF Cmds, CmdType, Numbered, DestPositions
<1>2. \A c \in cmds : c.n \in ans \union {cmd.n}
  BY DEF ShareFits
<1>3. Target(row, v) \in Nat /\ Target(row, v) <= row.dest_volume_open
  <2>1. v <= v
    BY MirrorAssumption DEF Volumes
  <2> QED
    BY <2>1, TargetShare DEF Rows
<1>4. new.st = "open" => new.volume >= Target(row, v)
  <2>1. CASE cmd.kind = "open"
    <3>1. cmd.n = 1 /\ row.state = "OPENING" /\ cmd = row.inflight
      BY <1>1, <2>1 DEF Numbered, Fits, NumbersFit, Live
    <3>2. d.st = "none" /\ cmd.volume = row.dest_volume_open
      BY <3>1 DEF Fits, ExistsFit, ContentsFit
    <3>3. new.volume = cmd.volume
      BY <1>1, <2>1, <3>2, AfterFields
    <3> QED
      BY <1>1, <1>3, <3>2, <3>3
  <2>2. CASE cmd.kind = "sltp"
    <3>1. new.volume = d.volume
      BY <1>1, <2>2, AfterFields
    <3> QED
      BY <2>2, <3>1 DEF ShareFits
  <2>3. CASE cmd.kind = "partial" /\ cmd.volume < d.volume
    <3>1. new.volume = d.volume - cmd.volume
      BY <1>1, <2>3, AfterFields
    <3> QED
      BY <2>3, <3>1 DEF ShareFits
  <2>4. CASE cmd.kind = "close" \/ (cmd.kind = "partial" /\ ~(cmd.volume < d.volume))
    <3>1. new.st = "closed"
      BY <1>1, <2>4, AfterFields
    <3> QED
      BY <3>1
  <2> QED
    BY <1>1, <2>1, <2>2, <2>3, <2>4
<1> HIDE DEF new
<1> QED
  BY <1>2, <1>4 DEF ShareFits, new

\* A command that could not be written.
GivenUp(row) == [row EXCEPT !.inflight = NoCmd, !.failures = row.failures + 1]

\* What Align sends leaves the target, which is no less than the share of what the source has left.
LEMMA ShareSent ==
  ASSUME NEW row \in Rows, NEW d \in DestPositions, NEW shown, NEW v \in Volumes,
         NEW cmds \in SUBSET Cmds, NEW ans,
         Fits(row, d, shown, cmds, ans, {}), row.state = "OPEN", row.inflight = NoCmd,
         ShareFits(row, d, v, cmds, ans), row.source_volume >= v,
         NEW kind \in {"close", "partial", "sltp"}, NEW volume \in Nat, NEW sl \in Levels,
         Align(row) = Sending(row, kind, volume, sl)
  PROVE  LET new == Sending(row, kind, volume, sl) IN
         \A any \in {new, GivenUp(new)} : ShareFits(any, d, v, cmds \union {new.inflight}, ans)
<1> DEFINE new == Sending(row, kind, volume, sl)
           failed == GivenUp(new)
           target == Target(row, row.source_volume)
<1>1. row \in RowType /\ row.seq \in Nat /\ row.source_volume \in Volumes /\ row.dest_volume \in Nat
  BY DEF Rows, RowType
<1>2. /\ new.seq = row.seq + 1 /\ new.inflight.n = row.seq + 1
      /\ new.inflight.kind = kind /\ new.inflight.volume = volume
      /\ new.source_volume_open = row.source_volume_open /\ new.dest_volume_open = row.dest_volume_open
  BY <1>1 DEF Sending, RowType
<1>3. /\ failed.seq = row.seq + 1
      /\ failed.source_volume_open = row.source_volume_open /\ failed.dest_volume_open = row.dest_volume_open
  BY <1>1, <1>2 DEF Sending, RowType, GivenUp
<1>4. Target(row, v) \in Nat /\ target \in Nat /\ Target(row, v) <= target
  <2>1. v <= row.source_volume
    BY <1>1, MirrorAssumption DEF Volumes
  <2> QED
    BY <1>1, <2>1, TargetShare
<1>5. \A c \in cmds : c.n \in ans
  <2>1. \A c \in cmds : c # NoCmd
    BY DEF Cmds, NoCmd
  <2> QED
    BY <2>1 DEF Fits, NumbersFit, Live
<1>6. kind = "close" => target = 0
  <2>1. ASSUME target # 0, kind = "close" PROVE FALSE
    <3>1. Align(row).inflight.kind = "close"
      BY <1>2, <2>1
    <3>2. row.inflight.kind = "none"
      BY DEF NoCmd
    <3>3. \A a, b : /\ Sending(row, "partial", a, b).inflight.kind = "partial"
                    /\ Sending(row, "sltp", a, b).inflight.kind = "sltp"
      BY <1>1 DEF Sending, RowType
    <3>4. \/ Align(row) = Sending(row, "partial", row.dest_volume - target, 0)
          \/ Align(row) = Sending(row, "sltp", 0, row.want_sl)
          \/ Align(row) = row
      BY <1>1, <1>4, <2>1 DEF Align
    <3> QED
      BY <3>1, <3>2, <3>3, <3>4
  <2> QED
    BY <2>1
<1>7. kind = "partial" => row.dest_volume > target /\ volume = row.dest_volume - target
  <2> SUFFICES ASSUME kind = "partial" PROVE row.dest_volume > target /\ volume = row.dest_volume - target
    OBVIOUS
  <2>1. Align(row).inflight.kind = "partial" /\ Align(row).inflight.volume = volume
    BY <1>2
  <2>2. row.inflight.kind = "none"
    BY DEF NoCmd
  <2>3. \A a, b : /\ Sending(row, "close", a, b).inflight.kind = "close"
                  /\ Sending(row, "sltp", a, b).inflight.kind = "sltp"
                  /\ Sending(row, "partial", a, b).inflight.volume = a
    BY <1>1 DEF Sending, RowType
  <2>4. \/ Align(row) = Sending(row, "close", 0, 0)
        \/ Align(row) = Sending(row, "sltp", 0, row.want_sl)
        \/ Align(row) = row
        \/ row.dest_volume > target /\ Align(row) = Sending(row, "partial", row.dest_volume - target, 0)
    BY <1>1, <1>4 DEF Align
  <2> HIDE DEF target, new
  <2> QED
    BY <2>1, <2>2, <2>3, <2>4
<1>8. d.st = "open" => Agrees(row, d)
  BY DEF Fits, ContentsFit
<1>9. Target(new, v) = Target(row, v) /\ Target(failed, v) = Target(row, v)
  BY <1>2, <1>3, SameShare
<1> HIDE DEF new, failed, target
<1>10. ASSUME NEW any \in {new, failed} PROVE ShareFits(any, d, v, cmds \union {new.inflight}, ans)
  <2>1. any.seq = row.seq + 1 /\ Target(any, v) = Target(row, v)
    BY <1>2, <1>3, <1>9
  <2>2. \A c \in cmds \union {new.inflight} : c.n \notin ans => c = new.inflight
    BY <1>5
  <2>3. d.st = "open" => /\ d.volume >= Target(row, v)
                         /\ kind = "partial" => d.volume - volume >= Target(row, v)
                         /\ kind = "close" => Target(row, v) = 0
    BY <1>1, <1>4, <1>6, <1>7, <1>8 DEF Agrees, ShareFits, DestPositions
  <2> QED
    BY <1>2, <2>1, <2>2, <2>3 DEF ShareFits
<1> QED
  BY <1>10 DEF new, failed

LEMMA KeepsShareEverywhere ==
  /\ \A row \in Rows : KeepsShare(row, row)
  /\ \A row \in Rows, e \in Events : e.type # "OPEN" => KeepsShare(row, Followed(row, e))
  /\ \A row \in Rows : KeepsShare(row, Failed(row))
  /\ \A row \in Rows : row.inflight.n # 0 => KeepsShare(row, Succeeded(row))
  /\ \A row \in Rows, pos \in Shown : KeepsShare(row, Watch(Adopt(row, pos), pos))
  /\ \A row \in Rows : KeepsShare(row, [row EXCEPT !.missing_since = "due"])
<1>1. \A row \in Rows : KeepsShare(row, row)
  BY DEF KeepsShare
<1>2. \A row \in Rows, e \in Events : e.type # "OPEN" => KeepsShare(row, Followed(row, e))
  BY DEF KeepsShare, Followed, Rows, RowType, Events
<1>3. \A row \in Rows : KeepsShare(row, Failed(row))
  BY DEF KeepsShare, Failed, Rows, RowType
<1>4. \A row \in Rows : row.inflight.n # 0 => KeepsShare(row, Succeeded(row))
  <2> TAKE row \in Rows
  <2> HAVE row.inflight.n # 0
  <2>1. row \in RowType /\ row.inflight.kind \in {"open", "close", "partial", "sltp"}
    BY DEF Rows, RowType, CmdType, Numbered
  <2> QED
    BY <2>1 DEF KeepsShare, Succeeded, RowType
<1>5. \A row \in Rows, pos \in Shown : KeepsShare(row, Watch(Adopt(row, pos), pos))
  <2> TAKE row \in Rows, pos \in Shown
  <2> DEFINE a == Adopt(row, pos)
  <2>1. a \in RowType /\ KeepsShare(row, a)
    BY AdoptType DEF Adopt, KeepsShare, Rows, RowType
  <2> HIDE DEF a
  <2>2. pos.volume > 0 \/ pos.volume = 0
    BY DEF Shown
  <2>3. KeepsShare(a, Watch(a, pos))
    BY <2>1, <2>2 DEF Watch, KeepsShare, RowType
  <2> QED
    BY <2>1, <2>3 DEF KeepsShare, a
<1>6. \A row \in Rows : KeepsShare(row, [row EXCEPT !.missing_since = "due"])
  BY DEF KeepsShare, Rows, RowType
<1> QED
  BY <1>1, <1>2, <1>3, <1>4, <1>5, <1>6

\* A step that changes one row and none of the commands.
LEMMA ShareRowOnly ==
  ASSUME TypeInv, ShareInv, NEW p \in Positions, NEW row, table' = [table EXCEPT ![p] = row],
         UNCHANGED <<source, dest, commands, answered>>,
         ShareFits(row, dest[p], source[p].volume, AskedOf(p), AnsweredOf(p))
  PROVE  ShareInv'
<1>1. \A q \in Positions : AskedOf(q)' = AskedOf(q) /\ AnsweredOf(q)' = AnsweredOf(q)
  BY DEF AskedOf, AnsweredOf
<1> QED
  BY <1>1 DEF TypeInv, ShareInv, ShareAt

\* A step that changes one row and asks for one more command.
LEMMA ShareAsked ==
  ASSUME TypeInv, ShareInv, NEW p \in Positions, NEW row, NEW cmd \in Cmds,
         table' = [table EXCEPT ![p] = row], commands' = Append(commands, Line(p, cmd)),
         UNCHANGED <<source, dest, answered>>,
         ShareFits(row, dest[p], source[p].volume, AskedOf(p) \union {cmd}, AnsweredOf(p))
  PROVE  ShareInv'
<1>1. \A q \in Positions : /\ AskedOf(q)' = IF q = p THEN AskedOf(q) \union {cmd} ELSE AskedOf(q)
                           /\ AnsweredOf(q)' = AnsweredOf(q)
  BY AskedAppend DEF TypeInv, AnsweredOf
<1> QED
  BY <1>1 DEF TypeInv, ShareInv, ShareAt

LEMMA ShareHandle ==
  ASSUME TypeInv, FitsInv, ShareInv, HandleEvent
  PROVE  ShareInv'
<1> DEFINE e == Head(events)
<1>1. /\ NextEvent(e)
      /\ OpenEvent(e) \/ RejectEvent(e) \/ ResendEvent(e) \/ FollowEvent(e) \/ IgnoreEvent(e)
  BY DEF HandleEvent, NextEvent
<1>2. /\ e \in Events /\ e.pos \in Positions /\ table[e.pos] \in Rows /\ (e.type = "OPEN" => e.volume # 0)
      /\ table \in [Positions -> Rows]
  BY <1>1, HeadEvent DEF TypeInv
<1> HIDE DEF e
<1>3. UNCHANGED <<source, dest, answered>>
  BY <1>1 DEF OpenEvent, RejectEvent, ResendEvent, FollowEvent, IgnoreEvent, bridge
<1>4. /\ Fits(table[e.pos], dest[e.pos], state[e.pos], AskedOf(e.pos), AnsweredOf(e.pos), ResultsOf(e.pos))
      /\ ShareFits(table[e.pos], dest[e.pos], source[e.pos].volume, AskedOf(e.pos), AnsweredOf(e.pos))
      /\ AskedOf(e.pos) \in SUBSET Cmds
  BY <1>2, FitsTypes DEF FitsInv, FitsAt, ShareInv, ShareAt
<1>5. CASE OpenEvent(e)
  <2> DEFINE new == NewRow(e)
             failed == [new EXCEPT !.state = "FAILED", !.inflight = NoCmd]
  <2>1. e.type = "OPEN" /\ table[e.pos].state = "none"
    BY <1>5 DEF OpenEvent
  <2>2. dest[e.pos].st # "open" /\ AskedOf(e.pos) = {}
    <3>1. \A c \in Cmds : c.n \in Nat \ {0}
      BY DEF Cmds, CmdType
    <3> QED
      BY <1>4, <2>1, <3>1 DEF Fits, NumbersFit, ExistsFit
  <2>3. new.inflight \in Cmds /\ new.inflight.n = 1 /\ new.seq = 1
    <3>1. new \in Rows /\ new.inflight.n = 1
      BY <1>2, <2>1, NewRowNumbered
    <3>2. new.inflight \in Cmds
      BY <3>1 DEF Rows, RowType, Cmds
    <3>3. new.seq = 1
      BY DEF NewRow, Sending, NotMirrored
    <3> QED
      BY <3>1, <3>2, <3>3
  <2> HIDE DEF new
  <2>4. /\ ShareFits(new, dest[e.pos], source[e.pos].volume, AskedOf(e.pos), AnsweredOf(e.pos))
        /\ ShareFits(failed, dest[e.pos], source[e.pos].volume, AskedOf(e.pos), AnsweredOf(e.pos))
        /\ ShareFits(new, dest[e.pos], source[e.pos].volume, AskedOf(e.pos) \union {new.inflight}, AnsweredOf(e.pos))
    BY <2>2, <2>3, ShareOfNew
  <2> HIDE DEF failed
  <2>5. \/ table' = [table EXCEPT ![e.pos] = new] /\ commands' = Append(commands, Line(e.pos, new.inflight))
        \/ table' \in {[table EXCEPT ![e.pos] = new], [table EXCEPT ![e.pos] = failed]} /\ UNCHANGED commands
    BY <1>5 DEF OpenEvent, new, failed
  <2> QED
    BY <1>2, <1>3, <2>3, <2>4, <2>5, ShareRowOnly, ShareAsked
<1>6. CASE ResendEvent(e)
  <2> DEFINE row == table[e.pos]
  <2>1. /\ row.state = "OPENING" /\ row.inflight.kind = "open"
        /\ commands' = Append(commands, Line(e.pos, row.inflight)) /\ table' = [table EXCEPT ![e.pos] = row]
    BY <1>2, <1>6 DEF ResendEvent
  <2>2. row.inflight.n = 1 /\ row.inflight \in Cmds
    BY <1>2, <2>1 DEF Rows, RowType, Cmds, Numbered
  <2>3. row.inflight.n = row.seq
    BY <1>4, <2>2 DEF Fits, NumbersFit, NoCmd
  <2> HIDE DEF row
  <2>4. ShareFits(row, dest[e.pos], source[e.pos].volume, AskedOf(e.pos) \union {row.inflight}, AnsweredOf(e.pos))
    BY <1>4, <2>1, <2>3 DEF ShareFits, row
  <2> QED
    BY <1>2, <1>3, <2>1, <2>2, <2>4, ShareAsked
<1>7. CASE FollowEvent(e)
  <2>1. /\ e.type # "OPEN" /\ table' = [table EXCEPT ![e.pos] = Followed(table[e.pos], e)]
        /\ UNCHANGED commands
    BY <1>7 DEF FollowEvent, bridge
  <2>2. ShareFits(Followed(table[e.pos], e), dest[e.pos], source[e.pos].volume, AskedOf(e.pos), AnsweredOf(e.pos))
    BY <1>2, <1>4, <2>1, KeepsShareEverywhere, ShareKept
  <2> QED
    BY <1>2, <1>3, <2>1, <2>2, ShareRowOnly
<1>8. CASE RejectEvent(e) \/ IgnoreEvent(e)
  <2>1. UNCHANGED <<table, commands>>
    BY <1>8 DEF RejectEvent, IgnoreEvent, bridge
  <2> QED
    BY <1>3, <2>1 DEF ShareInv, ShareAt, AskedOf, AnsweredOf
<1> QED
  BY <1>1, <1>5, <1>6, <1>7, <1>8

LEMMA ShareApplyResult ==
  ASSUME TypeInv, ShareInv, ApplyResult
  PROVE  ShareInv'
<1>1. PICK x \in results :
        /\ table' = [table EXCEPT ![x.pos] = IF @.inflight.n # x.n THEN @
                                             ELSE IF x.ok THEN Succeeded(@) ELSE Failed(@)]
        /\ UNCHANGED <<source, dest, commands, answered>>
  BY DEF ApplyResult
<1> DEFINE p == x.pos
           row == IF table[p].inflight.n # x.n THEN table[p]
                  ELSE IF x.ok THEN Succeeded(table[p]) ELSE Failed(table[p])
<1>2. p \in Positions /\ x.n # 0 /\ table[p] \in Rows
  BY DEF TypeInv, Results
<1>3. KeepsShare(table[p], row)
  <2>1. CASE table[p].inflight.n # x.n
    BY <1>2, <2>1, KeepsShareEverywhere
  <2>2. CASE table[p].inflight.n = x.n
    <3>1. row \in {Succeeded(table[p]), Failed(table[p])}
      BY <2>2
    <3>2. KeepsShare(table[p], Succeeded(table[p])) /\ KeepsShare(table[p], Failed(table[p]))
      BY <1>2, <2>2, KeepsShareEverywhere
    <3> QED
      BY <3>1, <3>2
  <2> QED
    BY <2>1, <2>2
<1>4. table' = [table EXCEPT ![p] = row]
  BY <1>1
<1> HIDE DEF row
<1>5. ShareFits(row, dest[p], source[p].volume, AskedOf(p), AnsweredOf(p))
  BY <1>2, <1>3, ShareKept DEF ShareInv, ShareAt
<1> QED
  BY <1>1, <1>2, <1>4, <1>5, ShareRowOnly

LEMMA ShareSync ==
  ASSUME TypeInv, FitsInv, FollowsInv, ShareInv, NEW p \in Positions, NEW armed \in BOOLEAN, Sync(p, armed)
  PROVE  ShareInv'
<1> DEFINE adopted == Adopt(table[p], state[p])
           seen == Watch(adopted, state[p])
           sends(new) == \E kind \in {"close", "partial", "sltp"}, volume \in Nat, sl \in Levels :
                           /\ seen.state = "OPEN" /\ seen.inflight = NoCmd /\ state[p].volume > 0
                           /\ new = Align(seen) /\ new = Sending(seen, kind, volume, sl)
<1>1. /\ seen \in Rows /\ results = {} /\ table[p].state \in Live /\ UNCHANGED <<source, answered, dest>>
      /\ \/ table' = [table EXCEPT ![p] = seen] /\ UNCHANGED commands
         \/ \E new \in Rows : /\ sends(new) /\ table' = [table EXCEPT ![p] = new]
                              /\ commands' = Append(commands, Line(p, new.inflight))
         \/ \E new \in Rows : /\ sends(new) /\ UNCHANGED commands
                              /\ table' = [table EXCEPT ![p] = new]
         \/ \E new \in Rows : /\ sends(new) /\ UNCHANGED commands
                              /\ table' = [table EXCEPT ![p] = GivenUp(new)]
  BY SyncOutcomes DEF GivenUp
<1>2. /\ table[p] \in Rows /\ dest[p] \in DestPositions /\ state[p] \in Shown
      /\ AskedOf(p) \in SUBSET Cmds /\ AnsweredOf(p) \in SUBSET Nat /\ ResultsOf(p) = {}
      /\ source[p].volume \in Volumes
  BY <1>1, FitsTypes DEF ResultsOf, TypeInv, SourcePositions
<1>3. /\ Fits(table[p], dest[p], state[p], AskedOf(p), AnsweredOf(p), {})
      /\ ShareFits(table[p], dest[p], source[p].volume, AskedOf(p), AnsweredOf(p))
  BY <1>2 DEF FitsInv, FitsAt, ShareInv, ShareAt
<1>4. adopted \in Rows /\ Fits(adopted, dest[p], state[p], AskedOf(p), AnsweredOf(p), {})
  BY <1>2, <1>3, FitsAdopted
<1>5. KeepsShare(table[p], seen) /\ KeepsSource(table[p], seen)
  BY <1>2, KeepsShareEverywhere, SeenKeeps
<1> HIDE DEF adopted
<1>6. Fits(seen, dest[p], state[p], AskedOf(p), AnsweredOf(p), {})
  BY <1>2, <1>4, FitsWatched
<1> HIDE DEF seen
<1>7. ShareFits(seen, dest[p], source[p].volume, AskedOf(p), AnsweredOf(p))
  BY <1>3, <1>5, ShareKept
<1>8. seen.source_volume >= source[p].volume
  BY <1>1, <1>5 DEF FollowsInv, RowsFit, RowFits, KeepsSource, Live
<1>9. ASSUME NEW new \in Rows, sends(new)
      PROVE  /\ new.inflight \in Cmds
             /\ \A any \in {new, GivenUp(new)} :
                  ShareFits(any, dest[p], source[p].volume, AskedOf(p) \union {new.inflight}, AnsweredOf(p))
  <2>1. PICK kind \in {"close", "partial", "sltp"}, volume \in Nat, sl \in Levels :
          /\ seen.state = "OPEN" /\ seen.inflight = NoCmd
          /\ new = Align(seen) /\ new = Sending(seen, kind, volume, sl)
    BY <1>9
  <2> DEFINE sent == Sending(seen, kind, volume, sl)
  <2>2. \A any \in {new, GivenUp(new)} :
          ShareFits(any, dest[p], source[p].volume, AskedOf(p) \union {new.inflight}, AnsweredOf(p))
    <3>1. seen \in Rows /\ Align(seen) = sent
      BY <1>1, <2>1
    <3>2. \A any \in {sent, GivenUp(sent)} :
            ShareFits(any, dest[p], source[p].volume, AskedOf(p) \union {sent.inflight}, AnsweredOf(p))
      <4>1. /\ seen.state = "OPEN" /\ seen.inflight = NoCmd
            /\ dest[p] \in DestPositions /\ source[p].volume \in Volumes
            /\ AskedOf(p) \in SUBSET Cmds /\ AnsweredOf(p) \in SUBSET Nat
            /\ Fits(seen, dest[p], state[p], AskedOf(p), AnsweredOf(p), {})
        BY <1>2, <1>6, <2>1
      <4> HIDE DEF sends
      <4> QED
        BY <1>7, <1>8, <3>1, <4>1, ShareSent, Zenon
    <3> HIDE DEF sent
    <3>3. new = sent
      BY <2>1 DEF sent
    <3> QED
      BY <3>2, <3>3
  <2>3. new.inflight.kind = kind
    <3>1. seen \in RowType /\ new = Sending(seen, kind, volume, sl)
      BY <1>1, <2>1 DEF Rows
    <3> QED
      BY <3>1 DEF Sending, RowType
  <2>4. new.inflight \in CmdType /\ Numbered(new.inflight)
    BY DEF Rows, RowType
  <2>5. new.inflight \in Cmds
    BY <2>3, <2>4 DEF Cmds, Numbered
  <2> QED
    BY <2>2, <2>5
<1> HIDE DEF sends
<1>10. ASSUME NEW row, table' = [table EXCEPT ![p] = row], UNCHANGED commands,
              ShareFits(row, dest[p], source[p].volume, AskedOf(p), AnsweredOf(p))
       PROVE  ShareInv'
  BY <1>1, <1>10, ShareRowOnly
<1>11. ASSUME NEW row, NEW cmd \in Cmds, ShareFits(row, dest[p], source[p].volume, AskedOf(p) \union {cmd}, AnsweredOf(p))
       PROVE  ShareFits(row, dest[p], source[p].volume, AskedOf(p), AnsweredOf(p))
  BY <1>11 DEF ShareFits
<1>12. CASE table' = [table EXCEPT ![p] = seen] /\ UNCHANGED commands
  BY <1>7, <1>10, <1>12
<1>13. ASSUME NEW new \in Rows, sends(new), table' = [table EXCEPT ![p] = new],
              commands' = Append(commands, Line(p, new.inflight))
       PROVE  ShareInv'
  <2>1. /\ new.inflight \in Cmds /\ UNCHANGED <<source, dest, answered>>
        /\ ShareFits(new, dest[p], source[p].volume, AskedOf(p) \union {new.inflight}, AnsweredOf(p))
    BY <1>1, <1>9, <1>13
  <2> QED
    BY <1>13, <2>1, ShareAsked
<1>14. ASSUME NEW new \in Rows, sends(new), UNCHANGED commands,
              table' = [table EXCEPT ![p] = new] \/ table' = [table EXCEPT ![p] = GivenUp(new)]
       PROVE  ShareInv'
  BY <1>9, <1>10, <1>11, <1>14
<1> QED
  BY <1>1, <1>12, <1>13, <1>14

LEMMA ShareAnswer ==
  ASSUME TypeInv, FitsInv, ShareInv, NEW c, SkipCommand(c) \/ ExecuteCommand(c) \/ RefuseCommand(c)
  PROVE  ShareInv'
<1>1. Takes(c) /\ commands # << >> /\ c = Head(commands) /\ commands' = Tail(commands)
  BY DEF SkipCommand, ExecuteCommand, RefuseCommand, Takes
<1> DEFINE p == c.pos
           cmd == c.cmd
<1>2. /\ p \in Positions /\ cmd.n \in Nat \ {0} /\ cmd \in AskedOf(p)
      /\ \A q \in Positions : AskedOf(q)' \subseteq AskedOf(q)
      /\ answered' = answered \union {<<p, cmd.n>>}
      /\ UNCHANGED <<table, source>> /\ dest \in [Positions -> DestPositions]
  BY <1>1, HeadCommand, AskedTail DEF TypeInv
<1>3. /\ AnsweredOf(p)' = AnsweredOf(p) \union {cmd.n}
      /\ \A q \in Positions : AnsweredOf(q) \subseteq AnsweredOf(q)'
      /\ cmd.n \in AnsweredOf(p) <=> Id(c) \in answered
  BY <1>2 DEF AnsweredOf, Id
<1>4. ASSUME NEW q \in Positions, dest'[q] = dest[q] PROVE ShareAt(q)'
  <2>1. KeepsShare(table[q], table[q])
    BY DEF KeepsShare
  <2> QED
    BY <1>2, <1>3, <1>4, <2>1, ShareKept DEF ShareInv, ShareAt
<1>5. CASE SkipCommand(c) \/ RefuseCommand(c)
  <2>1. dest' = dest
    BY <1>5 DEF SkipCommand, RefuseCommand
  <2> QED
    BY <1>4, <2>1 DEF ShareInv
<1>6. CASE ExecuteCommand(c)
  <2>1. /\ cmd.n \notin AnsweredOf(p) /\ (cmd.kind = "open" \/ dest[p].st = "open")
        /\ dest' = [dest EXCEPT ![p] = After(dest[p], cmd)]
    BY <1>3, <1>6, DoneIsAfter DEF ExecuteCommand, CanDo
  <2>2. /\ Fits(table[p], dest[p], state[p], AskedOf(p), AnsweredOf(p), ResultsOf(p))
        /\ ShareFits(table[p], dest[p], source[p].volume, AskedOf(p), AnsweredOf(p))
        /\ table[p] \in Rows /\ dest[p] \in DestPositions /\ AskedOf(p) \in SUBSET Cmds
        /\ source[p].volume \in Volumes
    BY <1>2, FitsTypes DEF FitsInv, FitsAt, ShareInv, ShareAt, TypeInv, SourcePositions
  <2>3. ShareFits(table[p], After(dest[p], cmd), source[p].volume, AskedOf(p), AnsweredOf(p) \union {cmd.n})
    BY <1>2, <2>1, <2>2, ShareExecuted
  <2>4. ShareFits(table[p], After(dest[p], cmd), source[p].volume, AskedOf(p)', AnsweredOf(p) \union {cmd.n})
    BY <1>2, <2>3 DEF ShareFits
  <2>5. ShareAt(p)'
    BY <1>2, <1>3, <2>1, <2>4 DEF ShareAt
  <2>6. \A q \in Positions : q # p => dest'[q] = dest[q]
    BY <1>2, <2>1
  <2> QED
    BY <1>4, <2>5, <2>6 DEF ShareInv
<1> QED
  BY <1>5, <1>6

LEMMA ShareDest ==
  ASSUME TypeInv, ShareInv, NEW p \in Positions, DestCloses(p) \/ DealsAge(p)
  PROVE  ShareInv'
<1>1. /\ UNCHANGED <<table, source, commands, answered>> /\ dest \in [Positions -> DestPositions]
  BY DEF DestCloses, DealsAge, TypeInv, bridge
<1>2. \A q \in Positions : dest'[q].st = "open" => dest[q].st = "open" /\ dest'[q].volume = dest[q].volume
  BY <1>1 DEF DestCloses, DealsAge, DestPositions
<1>3. \A q \in Positions : AskedOf(q)' = AskedOf(q) /\ AnsweredOf(q)' = AnsweredOf(q)
  BY <1>1 DEF AskedOf, AnsweredOf
<1> QED
  BY <1>1, <1>2, <1>3 DEF ShareInv, ShareAt, ShareFits

LEMMA ShareReports ==
  ASSUME TypeInv, FitsInv, FollowsInv, ShareInv, NEW p \in Positions, NEW pos \in SourcePositions, NEW type,
         source[p].st # "none" => pos.volume <= source[p].volume, Reports(p, pos, type)
  PROVE  ShareInv'
<1>1. /\ source' = [source EXCEPT ![p] = pos] /\ UNCHANGED <<table, commands, answered, dest>>
      /\ source \in [Positions -> SourcePositions]
  BY DEF Reports, bridge, TypeInv
<1>2. \A q \in Positions : AskedOf(q)' = AskedOf(q) /\ AnsweredOf(q)' = AnsweredOf(q)
  BY <1>1 DEF AskedOf, AnsweredOf
<1>3. source[p].st = "none" => dest[p].st # "open"
  <2>1. table[p].state # "none" => source[p].st # "none"
    BY DEF FollowsInv, RowsFit, RowFits
  <2>2. dest[p].st # "none" => table[p].state # "none"
    BY DEF FitsInv, FitsAt, Fits, ExistsFit
  <2> QED
    BY <2>1, <2>2
<1>4. ShareFits(table[p], dest[p], pos.volume, AskedOf(p), AnsweredOf(p))
  <2>1. /\ table[p] \in RowType /\ dest[p] \in DestPositions /\ AskedOf(p) \in SUBSET Cmds
        /\ pos.volume \in Volumes /\ source[p].volume \in Volumes
        /\ ShareFits(table[p], dest[p], source[p].volume, AskedOf(p), AnsweredOf(p))
    BY <1>1, FitsTypes DEF Rows, SourcePositions, ShareInv, ShareAt
  <2> QED
    BY <1>3, <2>1, ShareOfLess
<1> QED
  BY <1>1, <1>2, <1>4 DEF ShareInv, ShareAt

LEMMA ShareSource ==
  ASSUME TypeInv, FitsInv, FollowsInv, ShareInv, NEW p \in Positions,
         \/ \E sl \in OpenStops : SourceOpen(p, sl)
         \/ \E sl \in Stops \union {0} : SourceModify(p, sl)
         \/ \E volume \in 1..SourceLots : SourcePartial(p, volume)
         \/ SourceClose(p) \/ SourceRepeats(p)
  PROVE  ShareInv'
<1>1. source[p] \in SourcePositions /\ source[p].volume \in Volumes /\ source[p].volume \in Nat
  BY MirrorAssumption DEF TypeInv, SourcePositions, Volumes
<1>2. OpenStops \subseteq Levels /\ Stops \union {0} = Levels
  BY MirrorAssumption DEF Levels
<1>3. ASSUME NEW sl \in OpenStops, SourceOpen(p, sl) PROVE ShareInv'
  <2> DEFINE pos == [st |-> "open", volume |-> SourceLots, sl |-> sl]
  <2>1. pos \in SourcePositions
    BY <1>2, MirrorAssumption DEF SourcePositions, Volumes
  <2>2. Reports(p, pos, "OPEN") /\ source[p].st = "none"
    BY <1>3 DEF SourceOpen
  <2> HIDE DEF pos
  <2> QED
    BY <2>1, <2>2, ShareReports
<1>4. ASSUME NEW sl \in Levels, SourceModify(p, sl) PROVE ShareInv'
  <2> DEFINE pos == [source[p] EXCEPT !.sl = sl]
  <2>1. pos \in SourcePositions /\ pos.volume <= source[p].volume
    BY <1>1 DEF SourcePositions
  <2>2. Reports(p, pos, "MODIFY")
    BY <1>4 DEF SourceModify
  <2> HIDE DEF pos
  <2> QED
    BY <2>1, <2>2, ShareReports
<1>5. ASSUME NEW volume \in 1..SourceLots, SourcePartial(p, volume) PROVE ShareInv'
  <2> DEFINE pos == [source[p] EXCEPT !.volume = volume]
  <2>1. volume \in Volumes /\ volume # 0 /\ volume \in Nat /\ volume < source[p].volume
    BY <1>5, MirrorAssumption DEF Volumes, SourcePartial
  <2>2. pos \in SourcePositions /\ pos.volume <= source[p].volume
    BY <1>1, <2>1 DEF SourcePositions
  <2>3. Reports(p, pos, "PARTIAL_CLOSE")
    BY <1>5 DEF SourcePartial
  <2> HIDE DEF pos
  <2> QED
    BY <2>2, <2>3, ShareReports
<1>6. CASE SourceClose(p)
  <2> DEFINE pos == [st |-> "closed", volume |-> 0, sl |-> 0]
  <2>1. pos \in SourcePositions /\ pos.volume <= source[p].volume
    BY <1>1, LevelsType, MirrorAssumption DEF SourcePositions, Volumes
  <2>2. Reports(p, pos, "CLOSE")
    BY <1>6 DEF SourceClose
  <2> HIDE DEF pos
  <2> QED
    BY <2>1, <2>2, ShareReports
<1>7. CASE SourceRepeats(p)
  <2>1. PICK type : Reports(p, source[p], type)
    BY <1>7 DEF SourceRepeats
  <2> QED
    BY <1>1, <2>1, ShareReports
<1> QED
  BY <1>2, <1>3, <1>4, <1>5, <1>6, <1>7

LEMMA ShareStep ==
  TypeInv /\ FitsInv /\ FollowsInv /\ ShareInv /\ [Next]_vars => ShareInv'
<1> SUFFICES ASSUME TypeInv, FitsInv, FollowsInv, ShareInv, [Next]_vars PROVE ShareInv'
  OBVIOUS
<1>1. ASSUME UNCHANGED <<source, table, commands, answered, dest>> PROVE ShareInv'
  BY <1>1 DEF ShareInv, ShareAt, AskedOf, AnsweredOf
<1>2. CASE HandleEvent
  BY <1>2, ShareHandle
<1>3. CASE ApplyResult
  BY <1>3, ShareApplyResult
<1>4. CASE Answer
  BY <1>4, ShareAnswer DEF Answer
<1>5. CASE WriteState
  BY <1>1, <1>5 DEF WriteState, bridge
<1>6. ASSUME NEW p \in Positions, NEW armed \in BOOLEAN, Sync(p, armed) PROVE ShareInv'
  BY <1>6, ShareSync
<1>7. ASSUME NEW p \in Positions, DestCloses(p) \/ DealsAge(p) PROVE ShareInv'
  BY <1>7, ShareDest
<1>8. ASSUME NEW p \in Positions, GraceOver(p) PROVE ShareInv'
  <2> DEFINE due == [table[p] EXCEPT !.missing_since = "due"]
  <2>1. table' = [table EXCEPT ![p] = due] /\ UNCHANGED <<source, dest, commands, answered>> /\ table[p] \in Rows
    BY <1>8 DEF GraceOver, bridge, TypeInv
  <2>2. ShareFits(due, dest[p], source[p].volume, AskedOf(p), AnsweredOf(p))
    BY <2>1, KeepsShareEverywhere, ShareKept DEF ShareInv, ShareAt
  <2> HIDE DEF due
  <2> QED
    BY <2>1, <2>2, ShareRowOnly
<1>9. ASSUME NEW p \in Positions,
             \/ \E sl \in OpenStops : SourceOpen(p, sl)
             \/ \E sl \in Stops \union {0} : SourceModify(p, sl)
             \/ \E volume \in 1..SourceLots : SourcePartial(p, volume)
             \/ SourceClose(p) \/ SourceRepeats(p)
      PROVE  ShareInv'
  BY <1>9, ShareSource
<1>10. CASE UNCHANGED vars
  BY <1>1, <1>10 DEF vars
<1>11. CASE Next
  BY <1>2, <1>3, <1>4, <1>5, <1>6, <1>7, <1>8, <1>9, <1>11 DEF Next
<1> QED
  BY <1>10, <1>11

LEMMA ShareInit == Init => ShareInv
<1> SUFFICES ASSUME Init, NEW p \in Positions PROVE ShareAt(p)
  BY DEF ShareInv
<1>1. dest[p].st # "open" /\ commands = << >>
  BY DEF Init
<1>2. AskedOf(p) = {}
  BY <1>1 DEF AskedOf
<1> QED
  BY <1>1, <1>2 DEF ShareAt, ShareFits

(* The mirror never closes more than the source has closed, for any sizes, *)
(* any rounding and any faults: neither the destination position nor what  *)
(* a pending command leaves of it is smaller than the source's share       *)
(* (mirror.py:187-196, 778-813).                                           *)
THEOREM MirrorNeverClosesMore == Spec => []NeverClosesMore
<1>1. TypeInv /\ ShareInv => NeverClosesMore
  <2> SUFFICES ASSUME TypeInv, ShareInv, NEW p \in Positions, dest[p].st = "open"
               PROVE  LET share == Target(table[p], source[p].volume) IN
                      /\ dest[p].volume >= share
                      /\ \A i \in Pending(p) : LET cmd == commands[i].cmd IN
                           /\ cmd.kind = "partial" => dest[p].volume - cmd.volume >= share
                           /\ cmd.kind = "close" => share = 0
    BY DEF NeverClosesMore
  <2>1. ShareFits(table[p], dest[p], source[p].volume, AskedOf(p), AnsweredOf(p))
    BY DEF ShareInv, ShareAt
  <2>2. \A i \in Pending(p) : commands[i].cmd \in AskedOf(p) /\ commands[i].cmd.n \notin AnsweredOf(p)
    BY PendingAsked
  <2> QED
    BY <2>1, <2>2 DEF ShareFits
<1> QED
  BY <1>1, TypeInit, TypeStep, FitsInit, FitsStep, FollowsInit, FollowsStep, ShareInit, ShareStep, PTL DEF Spec
=============================================================================
