-------------------------------- MODULE Mirror --------------------------------
(***************************************************************************)
(* The account mirror (mirror.py): the events of a source account become   *)
(* positions of a destination account, through its SignalBridge EA.        *)
(*                                                                         *)
(* A tick reads state.json, then the results, then the events after the    *)
(* cursor, then compares each mirrored position with state.json.  Every    *)
(* row of the table and every move of the cursor is saved by itself, so    *)
(* each is an action; between two ticks, and at a death, nothing else is   *)
(* kept.  Results are read after state.json: what a snapshot shows of a    *)
(* command, the results have told already, or never will.                  *)
(*                                                                         *)
(* Volumes are counted in volume steps; stop loss and take profit are one  *)
(* level, 0 for none.  The daily files of events are one log.              *)
(***************************************************************************)
EXTENDS Integers, Sequences, FiniteSets

CONSTANTS
  Positions,      \* the source's positions
  SourceLots,     \* their volume when opened
  MirrorVolume,   \* mirror_volume: lots placed for the volume of an OPEN
  VolumeMin,      \* the destination's smallest volume
  Stops,          \* levels of a stop set at the source
  OpenStops,      \* those of its openings, 0 for none
  CopyStops,      \* stop_loss: copy
  MaxFailures,    \* MAX_COMMAND_FAILURES
  Faults,         \* what may go wrong
  MaxModifies,    \* bound: stops moved at the source
  MaxFaults       \* bound: faults

FaultKinds ==
  { "crash",    \* the mirror dies, before the cursor or the results offset is saved
    "cut",      \* the mirror dies after saving a command and before writing it
    "unsent",   \* commands.jsonl cannot be written
    "lost",     \* a result line is never written
    "reject",   \* the broker refuses a command
    "repeat",   \* CopierSource reports a change again
    "window",   \* a deal is older than those state.json lists
    "stale" }   \* state.json is not rewritten for MISSING_GRACE_SEC

ASSUME MirrorAssumption ==
  /\ SourceLots \in Nat \ {0}
  /\ MirrorVolume \in [1..SourceLots -> Nat \ {0}]
  /\ VolumeMin \in Nat \ {0}
  /\ Stops \subseteq Nat /\ OpenStops \subseteq Stops \union {0}
  /\ CopyStops \in BOOLEAN
  /\ MaxFailures \in Nat \ {0}
  /\ Faults \subseteq FaultKinds
  /\ MaxModifies \in Nat /\ MaxFaults \in Nat

VARIABLES
  source,     \* the source account's positions
  events,     \* event lines after the saved cursor
  table,      \* mirror_positions
  commands,   \* command lines the EA has not reached
  answered,   \* commands the EA has answered
  results,    \* result lines after the saved offset
  dest,       \* the destination account's positions
  state,      \* state.json: dest when it was last written
  modifies,   \* stops moved so far
  faults      \* faults so far

bridge == <<commands, answered, results>>
vars == <<source, events, table, commands, answered, results, dest, state, modifies, faults>>

Fault(kind) == kind \in Faults /\ faults < MaxFaults /\ faults' = faults + 1
NoFault == UNCHANGED faults

(***************************************************************************)
(* Rows of the table                                                       *)
(***************************************************************************)
Live == {"OPENING", "OPEN"}
NoCmd == [n |-> 0, kind |-> "none", volume |-> 0, sl |-> 0]

Copied(sl) == IF CopyStops THEN sl ELSE 0

NotMirrored ==
  [ state |-> "none", source_volume_open |-> 0, source_volume |-> 0,
    dest_volume_open |-> 0, dest_volume |-> 0, sl |-> 0, want_sl |-> 0,
    seq |-> 0, inflight |-> NoCmd, failures |-> 0, attention |-> FALSE,
    missing_since |-> "off" ]

\* next_cmd_id, and the command now in flight.
Sending(row, kind, volume, sl) ==
  [row EXCEPT !.seq = @ + 1,
              !.inflight = [n |-> row.seq + 1, kind |-> kind, volume |-> volume, sl |-> sl]]

NewRow(e) ==
  Sending([NotMirrored EXCEPT
             !.state = "OPENING",
             !.source_volume_open = e.volume, !.source_volume = e.volume,
             !.dest_volume_open = MirrorVolume[e.volume],
             !.sl = Copied(e.sl), !.want_sl = Copied(e.sl)],
          "open", MirrorVolume[e.volume], Copied(e.sl))

\* target_dest_volume: of the placed lots, the fraction of the source still open.
Target(row, source_volume) ==
  LET o == row.source_volume_open
      rounded == (2 * row.dest_volume_open * source_volume + o) \div (2 * o)
  IN CASE source_volume = 0                       -> 0
       [] source_volume # 0 /\ source_volume >= o -> row.dest_volume_open
       [] OTHER                                   -> IF rounded < VolumeMin THEN 0 ELSE rounded

(***************************************************************************)
(* _process_events                                                         *)
(***************************************************************************)
NextEvent(e) == events # << >> /\ e = Head(events)

\* The cursor moves past the event, unless the mirror dies first.
Handled ==
  \/ events' = Tail(events) /\ NoFault
  \/ Fault("crash") /\ UNCHANGED events

Line(p, cmd) == [pos |-> p, cmd |-> cmd]

OpenEvent(e) ==
  LET row == NewRow(e) IN
  /\ NextEvent(e) /\ e.type = "OPEN" /\ table[e.pos].state = "none"
  /\ \/ /\ table' = [table EXCEPT ![e.pos] = row]
        /\ commands' = Append(commands, Line(e.pos, row.inflight))
        /\ Handled
     \/ /\ table' = [table EXCEPT ![e.pos] = row]
        /\ Fault("crash")
        /\ UNCHANGED <<commands, events>>
     \/ /\ table' = [table EXCEPT ![e.pos] = [row EXCEPT !.state = "FAILED", !.inflight = NoCmd]]
        /\ Fault("unsent")
        /\ events' = Tail(events)
        /\ UNCHANGED commands
  /\ UNCHANGED <<source, answered, results, dest, state, modifies>>

\* Too old, filtered out, or the destination does not take it.
RejectEvent(e) ==
  /\ NextEvent(e) /\ e.type = "OPEN" /\ table[e.pos].state = "none"
  /\ events' = Tail(events)
  /\ UNCHANGED <<source, table, bridge, dest, state, modifies, faults>>

\* Mutant of ResendEvent: the opening is sent again under a new cmd_id.
ResendEventRenumbered(e) ==
  LET row == table[e.pos]
      again == Sending(row, "open", row.inflight.volume, row.inflight.sl)
  IN /\ NextEvent(e) /\ e.type = "OPEN"
     /\ row.state = "OPENING" /\ row.inflight.kind = "open"
     /\ table' = [table EXCEPT ![e.pos] = again]
     /\ commands' = Append(commands, Line(e.pos, again.inflight))
     /\ Handled
     /\ UNCHANGED <<source, answered, results, dest, state, modifies>>

ResendEvent(e) ==
  LET row == table[e.pos] IN
  /\ NextEvent(e) /\ e.type = "OPEN"
  /\ row.state = "OPENING" /\ row.inflight.kind = "open"
  /\ commands' = Append(commands, Line(e.pos, row.inflight))
  /\ Handled
  /\ UNCHANGED <<source, table, answered, results, dest, state, modifies>>

\* Mutant of Followed: an event of a position that is still opening is dropped.
FollowedOnceOpen(row, e) ==
  CASE e.type \in {"CLOSE", "PARTIAL_CLOSE"} ->
         IF row.state = "OPEN" /\ e.volume < row.source_volume
         THEN [row EXCEPT !.source_volume = e.volume] ELSE row
    [] e.type = "MODIFY" -> [row EXCEPT !.want_sl = IF CopyStops THEN e.sl ELSE @]

\* Mutant of Followed: what is left of the source is taken for what was closed.
FollowedBySubtracting(row, e) ==
  CASE e.type \in {"CLOSE", "PARTIAL_CLOSE"} -> [row EXCEPT !.source_volume = @ - e.volume]
    [] e.type = "MODIFY" -> [row EXCEPT !.want_sl = IF CopyStops THEN e.sl ELSE @]

Followed(row, e) ==
  CASE e.type \in {"CLOSE", "PARTIAL_CLOSE"} ->
         IF e.volume < row.source_volume THEN [row EXCEPT !.source_volume = e.volume] ELSE row
    [] e.type = "MODIFY" -> [row EXCEPT !.want_sl = IF CopyStops THEN e.sl ELSE @]

FollowEvent(e) ==
  /\ NextEvent(e) /\ e.type # "OPEN" /\ table[e.pos].state \in Live
  /\ table' = [table EXCEPT ![e.pos] = Followed(@, e)]
  /\ Handled
  /\ UNCHANGED <<source, bridge, dest, state, modifies>>

IgnoreEvent(e) ==
  LET row == table[e.pos] IN
  /\ NextEvent(e)
  /\ IF e.type = "OPEN"
     THEN row.state # "none" /\ ~(row.state = "OPENING" /\ row.inflight.kind = "open")
     ELSE row.state \notin Live
  /\ events' = Tail(events)
  /\ UNCHANGED <<source, table, bridge, dest, state, modifies, faults>>

HandleEvent ==
  events # << >> /\ LET e == Head(events) IN
    OpenEvent(e) \/ RejectEvent(e) \/ ResendEvent(e) \/ FollowEvent(e) \/ IgnoreEvent(e)

(***************************************************************************)
(* _apply_results                                                          *)
(***************************************************************************)
Succeeded(row) ==
  LET done == [row EXCEPT !.inflight = NoCmd]
      left == row.dest_volume - row.inflight.volume
  IN CASE row.inflight.kind = "open"  -> [done EXCEPT !.state = "OPEN", !.dest_volume = row.dest_volume_open]
       [] row.inflight.kind = "sltp"  -> [done EXCEPT !.sl = row.inflight.sl]
       [] row.inflight.kind = "close" -> [done EXCEPT !.state = "CLOSED", !.dest_volume = 0]
       [] row.inflight.kind = "partial" ->
            IF left > 0 THEN [done EXCEPT !.dest_volume = left]
            ELSE [done EXCEPT !.state = "CLOSED", !.dest_volume = 0]

\* Mutant of Failed: the table takes the stop as set.
FailedStillSets(row) ==
  IF row.inflight.kind = "open"
  THEN [row EXCEPT !.inflight = NoCmd, !.state = "FAILED"]
  ELSE [row EXCEPT !.inflight = NoCmd, !.failures = @ + 1,
                   !.sl = IF row.inflight.kind = "sltp" THEN row.inflight.sl ELSE @,
                   !.attention = @ \/ row.failures + 1 >= MaxFailures]

Failed(row) ==
  IF row.inflight.kind = "open"
  THEN [row EXCEPT !.inflight = NoCmd, !.state = "FAILED"]
  ELSE [row EXCEPT !.inflight = NoCmd, !.failures = @ + 1,
                   !.attention = @ \/ row.failures + 1 >= MaxFailures]

\* Applied; and it is not read again, unless the mirror dies before the offset is saved.
ApplyResult ==
  \E x \in results :
    /\ table' = [table EXCEPT ![x.pos] = IF @.inflight.n # x.n THEN @
                                         ELSE IF x.ok THEN Succeeded(@) ELSE Failed(@)]
    /\ \/ results' = results \ {x} /\ NoFault
       \/ Fault("crash") /\ UNCHANGED results
    /\ UNCHANGED <<source, events, commands, answered, dest, state, modifies>>

(***************************************************************************)
(* _sync                                                                   *)
(***************************************************************************)
Adopt(row, pos) ==
  IF row.state = "OPENING" /\ pos.volume > 0
  THEN [row EXCEPT !.state = "OPEN", !.dest_volume = pos.volume, !.sl = pos.sl, !.inflight = NoCmd]
  ELSE row

\* Mutant of Watch: no grace for a position that state.json does not show.
WatchImpatient(row, pos) ==
  IF row.state = "OPEN" /\ pos.volume = 0 /\ row.inflight.kind # "close"
  THEN [row EXCEPT !.state = "CLOSED", !.dest_volume = 0, !.inflight = NoCmd]
  ELSE row

\* A position that state.json does not show has closed, if it shows the deal or after
\* MISSING_GRACE_SEC.
Watch(row, pos) ==
  CASE row.state # "OPEN" -> row
    [] row.state = "OPEN" /\ pos.volume > 0 -> [row EXCEPT !.missing_since = "off"]
    [] row.state = "OPEN" /\ pos.volume = 0 ->
         CASE row.inflight.kind = "close" -> row
           [] row.inflight.kind # "close" /\ (pos.deals \/ row.missing_since = "due") ->
                [row EXCEPT !.state = "CLOSED", !.dest_volume = 0, !.inflight = NoCmd]
           [] OTHER -> [row EXCEPT !.missing_since = "on"]

\* The next command that brings a row in line with its source; the row itself if it is in line.
Align(row) ==
  LET target == Target(row, row.source_volume) IN
  CASE target = 0 -> Sending(row, "close", 0, 0)
    [] target # 0 /\ row.dest_volume > target -> Sending(row, "partial", row.dest_volume - target, 0)
    [] target # 0 /\ row.dest_volume <= target /\ row.want_sl # row.sl -> Sending(row, "sltp", 0, row.want_sl)
    [] OTHER -> row

\* Mutant of MaySend: a command is sent while another is in flight.
MaySendAgain(row, pos) == row.state = "OPEN" /\ pos.volume > 0 /\ ~row.attention

\* Mutant of MaySend: no command after one has failed.
MaySendOnce(row, pos) ==
  row.state = "OPEN" /\ pos.volume > 0 /\ row.inflight = NoCmd /\ row.failures = 0

MaySend(row, pos) ==
  row.state = "OPEN" /\ pos.volume > 0 /\ row.inflight = NoCmd /\ ~row.attention

\* armed: the login is the expected one, and state.json is fresh.
Sync(p, armed) ==
  LET seen == Watch(Adopt(table[p], state[p]), state[p])
      next == IF armed /\ MaySend(seen, state[p]) THEN Align(seen) ELSE seen
  IN /\ table[p].state \in Live /\ results = {}
     /\ \/ /\ table' = [table EXCEPT ![p] = next]
           /\ commands' = IF next.seq = seen.seq THEN commands ELSE Append(commands, Line(p, next.inflight))
           /\ NoFault
        \/ /\ next.seq # seen.seq
           /\ table' = [table EXCEPT ![p] = [next EXCEPT !.inflight = NoCmd, !.failures = @ + 1]]
           /\ Fault("unsent")
           /\ UNCHANGED commands
        \/ /\ next.seq # seen.seq
           /\ table' = [table EXCEPT ![p] = next]
           /\ Fault("cut")
           /\ UNCHANGED commands
     /\ UNCHANGED <<source, events, answered, results, dest, state, modifies>>

(***************************************************************************)
(* The destination's EA and its broker                                     *)
(***************************************************************************)
CanDo(c) == c.cmd.kind = "open" \/ dest[c.pos].st = "open"

Done(c) ==
  LET pos == dest[c.pos] IN
  CASE c.cmd.kind = "open" ->
         [st |-> IF pos.st = "none" THEN "open" ELSE "twice",
          volume |-> c.cmd.volume, sl |-> c.cmd.sl, deals |-> FALSE]
    [] c.cmd.kind = "sltp" -> [pos EXCEPT !.sl = c.cmd.sl]
    [] c.cmd.kind = "partial" /\ c.cmd.volume < pos.volume ->
         [pos EXCEPT !.volume = @ - c.cmd.volume, !.deals = TRUE]
    [] OTHER -> [st |-> "closed", volume |-> 0, sl |-> 0, deals |-> TRUE]

Id(c) == <<c.pos, c.cmd.n>>
Result(c, ok) == [pos |-> c.pos, n |-> c.cmd.n, ok |-> ok]

Takes(c) ==
  /\ commands # << >> /\ c = Head(commands)
  /\ commands' = Tail(commands)
  /\ answered' = answered \union {Id(c)}
  /\ UNCHANGED <<source, events, table, state, modifies>>

SkipCommand(c) == Takes(c) /\ Id(c) \in answered /\ UNCHANGED <<results, dest, faults>>

ExecuteCommand(c) ==
  /\ Takes(c) /\ Id(c) \notin answered /\ CanDo(c)
  /\ dest' = [dest EXCEPT ![c.pos] = Done(c)]
  /\ \/ results' = results \union {Result(c, TRUE)} /\ NoFault
     \/ UNCHANGED results /\ Fault("lost")

RefuseCommand(c) ==
  /\ Takes(c) /\ Id(c) \notin answered
  /\ IF CanDo(c) THEN Fault("reject") ELSE NoFault
  /\ results' = results \union {Result(c, FALSE)}
  /\ UNCHANGED dest

Answer ==
  commands # << >> /\ LET c == Head(commands) IN
    SkipCommand(c) \/ ExecuteCommand(c) \/ RefuseCommand(c)

Snapshot(p) == [volume |-> dest[p].volume, sl |-> dest[p].sl, deals |-> dest[p].deals]

WriteState ==
  /\ state # [p \in Positions |-> Snapshot(p)]
  /\ state' = [p \in Positions |-> Snapshot(p)]
  /\ UNCHANGED <<source, events, table, bridge, dest, modifies, faults>>

\* Its own stop or take-profit, or by hand.
DestCloses(p) ==
  /\ dest[p].st = "open"
  /\ dest' = [dest EXCEPT ![p] = [st |-> "closed", volume |-> 0, sl |-> 0, deals |-> TRUE]]
  /\ UNCHANGED <<source, events, table, bridge, state, modifies, faults>>

DealsAge(p) ==
  /\ dest[p].deals /\ Fault("window")
  /\ dest' = [dest EXCEPT ![p].deals = FALSE]
  /\ UNCHANGED <<source, events, table, bridge, state, modifies>>

GraceOver(p) ==
  /\ table[p].missing_since = "on"
  /\ table' = [table EXCEPT ![p].missing_since = "due"]
  /\ IF state[p] = Snapshot(p) THEN NoFault ELSE Fault("stale")
  /\ UNCHANGED <<source, events, bridge, dest, state, modifies>>

(***************************************************************************)
(* The source account and its CopierSource EA                              *)
(***************************************************************************)
Event(p, type, volume, sl) == [pos |-> p, type |-> type, volume |-> volume, sl |-> sl]

Reports(p, pos, type) ==
  /\ source' = [source EXCEPT ![p] = pos]
  /\ events' = Append(events, Event(p, type, pos.volume, pos.sl))
  /\ UNCHANGED <<table, bridge, dest, state>>

SourceOpen(p, sl) ==
  /\ source[p].st = "none"
  /\ Reports(p, [st |-> "open", volume |-> SourceLots, sl |-> sl], "OPEN")
  /\ UNCHANGED modifies /\ NoFault

SourcePartial(p, volume) ==
  /\ source[p].st = "open" /\ volume < source[p].volume
  /\ Reports(p, [source[p] EXCEPT !.volume = volume], "PARTIAL_CLOSE")
  /\ UNCHANGED modifies /\ NoFault

SourceClose(p) ==
  /\ source[p].st = "open"
  /\ Reports(p, [st |-> "closed", volume |-> 0, sl |-> 0], "CLOSE")
  /\ UNCHANGED modifies /\ NoFault

SourceModify(p, sl) ==
  /\ source[p].st = "open" /\ sl # source[p].sl
  /\ modifies < MaxModifies /\ modifies' = modifies + 1
  /\ Reports(p, [source[p] EXCEPT !.sl = sl], "MODIFY")
  /\ NoFault

\* A report written before its tracker was saved comes again after CopierSource restarted.
SourceRepeats(p) ==
  /\ \/ source[p].st = "closed" /\ Reports(p, source[p], "CLOSE")
     \/ source[p].st = "open" /\ \E type \in {"OPEN", "PARTIAL_CLOSE", "MODIFY"} : Reports(p, source[p], type)
  /\ Fault("repeat")
  /\ UNCHANGED modifies

Init ==
  /\ source = [p \in Positions |-> [st |-> "none", volume |-> 0, sl |-> 0]]
  /\ events = << >>
  /\ table = [p \in Positions |-> NotMirrored]
  /\ commands = << >> /\ answered = {} /\ results = {}
  /\ dest = [p \in Positions |-> [st |-> "none", volume |-> 0, sl |-> 0, deals |-> FALSE]]
  /\ state = [p \in Positions |-> [volume |-> 0, sl |-> 0, deals |-> FALSE]]
  /\ modifies = 0 /\ faults = 0

Next ==
  \/ HandleEvent \/ ApplyResult \/ Answer \/ WriteState
  \/ \E p \in Positions :
       \/ \E armed \in BOOLEAN : Sync(p, armed)
       \/ DestCloses(p) \/ DealsAge(p) \/ GraceOver(p)
       \/ SourceClose(p) \/ SourceRepeats(p)
       \/ \E sl \in OpenStops : SourceOpen(p, sl)
       \/ \E sl \in Stops \union {0} : SourceModify(p, sl)
       \/ \E volume \in 1..SourceLots : SourcePartial(p, volume)

Spec == Init /\ [][Next]_vars

\* The mirror keeps ticking and its destination is armed again and again, the EA's timer runs, time
\* passes.
Fairness ==
  /\ WF_vars(HandleEvent) /\ WF_vars(ApplyResult)
  /\ WF_vars(Answer) /\ WF_vars(WriteState)
  /\ \A p \in Positions : WF_vars(Sync(p, TRUE)) /\ WF_vars(GraceOver(p))

FairSpec == Spec /\ Fairness

(***************************************************************************)
(* Properties                                                              *)
(***************************************************************************)
Volumes == 0..SourceLots
Lots == {MirrorVolume[v] : v \in 1..SourceLots}
Levels == Stops \union {0}

CmdType ==
  [n : Nat, kind : {"none", "open", "close", "partial", "sltp"}, volume : Nat, sl : Levels]

RowType ==
  [ state : Live \union {"none", "CLOSED", "FAILED"},
    source_volume_open : Volumes, source_volume : Volumes,
    dest_volume_open : Lots \union {0}, dest_volume : Nat,
    sl : Levels, want_sl : Levels, seq : Nat, inflight : CmdType, failures : Nat,
    attention : BOOLEAN, missing_since : {"off", "on", "due"} ]

TypeOK ==
  /\ source \in [Positions -> [st : {"none", "open", "closed"}, volume : Volumes, sl : Levels]]
  /\ events \in Seq([pos : Positions, type : {"OPEN", "CLOSE", "PARTIAL_CLOSE", "MODIFY"},
                     volume : Volumes, sl : Levels])
  /\ table \in [Positions -> RowType]
  /\ commands \in Seq([pos : Positions, cmd : CmdType])
  /\ answered \in SUBSET (Positions \X Nat)
  /\ results \in SUBSET [pos : Positions, n : Nat, ok : BOOLEAN]
  /\ dest \in [Positions -> [st : {"none", "open", "closed", "twice"}, volume : Nat, sl : Levels, deals : BOOLEAN]]
  /\ state \in [Positions -> [volume : Nat, sl : Levels, deals : BOOLEAN]]
  /\ modifies \in Nat /\ faults \in Nat

Pending(p) == {i \in 1..Len(commands) : commands[i].pos = p /\ Id(commands[i]) \notin answered}

(* mirror.py:13-16: no restart, replayed event or lost result opens a      *)
(* source position twice.                                                  *)
OpenedOnce == \A p \in Positions : dest[p].st # "twice"

(* A row the mirror has given up on (closed, failed, or never made) has no *)
(* position at the destination and none on its way there                   *)
(* (mirror.py:558-641, 735-776).                                           *)
NothingOrphaned ==
  \A p \in Positions : table[p].state \notin Live =>
    /\ dest[p].st # "open"
    /\ \A i \in Pending(p) : commands[i].cmd.kind # "open"

(* The mirror never closes more than the source has closed, whatever is    *)
(* replayed or told twice: neither the destination position nor what a     *)
(* pending command leaves of it is smaller than the source's share.        *)
NeverClosesMore ==
  \A p \in Positions : dest[p].st = "open" =>
    LET share == Target(table[p], source[p].volume) IN
    /\ dest[p].volume >= share
    /\ \A i \in Pending(p) : LET cmd == commands[i].cmd IN
         /\ cmd.kind = "partial" => dest[p].volume - cmd.volume >= share
         /\ cmd.kind = "close" => share = 0

(* With the events read, the table says of the source what is so: the      *)
(* cursor never moves past an event that was not acted on, and a replayed  *)
(* one changes nothing back (mirror.py:487-501, 533-556).                  *)
TableFollowsSource ==
  events = << >> => \A p \in Positions : table[p].state \in Live =>
    table[p].source_volume = source[p].volume /\
    (source[p].st = "open" => table[p].want_sl = Copied(source[p].sl))

(* With nothing in flight, the volume and the stop the table has for an    *)
(* open position are the destination's own (mirror.py:641-691, 745-757).   *)
DestIsKnown ==
  \A p \in Positions :
    (table[p].state = "OPEN" /\ table[p].inflight = NoCmd /\ dest[p].st = "open") =>
      table[p].dest_volume = dest[p].volume /\ table[p].sl = dest[p].sl

InLine(p) ==
  dest[p].st = "open" =>
    /\ dest[p].volume = Target(table[p], source[p].volume)
    /\ dest[p].sl = Copied(source[p].sl)

\* The answer it waits for is lost, or the command was never written.
Waits(p) ==
  /\ table[p].inflight # NoCmd
  /\ \A i \in Pending(p) : commands[i].cmd.n # table[p].inflight.n
  /\ \A x \in results : x.pos # p \/ x.n # table[p].inflight.n

(* Once the source is quiet, each mirrored position comes in line with it  *)
(* and stays so, or the mirror has asked for a hand, or waits for an       *)
(* answer that never comes: the mirror has no timeout (mirror.py:735-793). *)
Converges == \A p \in Positions : <>[](InLine(p) \/ table[p].attention \/ Waits(p))

(* While a position is mirrored, its source's close reaches the            *)
(* destination. mirror.py:13-16: a restart "never misses a close (the      *)
(* events cursor only moves past an event once it has been acted on)".     *)
NoCloseMissed ==
  \A p \in Positions : (source[p].st = "closed" /\ table[p].state \in Live) ~> dest[p].st # "open"
=============================================================================
