# Verification of tg-signal-trader

TLA+ specifications of the trading core of this repository, the TLC runs that
check them and the TLAPS proofs about them. `PROJECT.json` lists the components,
the runs, the hazards and, for every definition, the lines it models. Paths
below are relative to the repository.

## 1. The system

A Telegram channel posts trade signals. A signal has an entry, a stop and one to
four take-profits; the program opens one *leg* per take-profit in MetaTrader 5
and manages the legs until all are over. A second program mirrors the trades of
one MT5 account on others. MT5 is reached through files only: two Expert
Advisors (EAs) written in MQL5 read and write JSON lines in the terminal's
common folder.

| Component | Code | State it keeps | Operations |
|---|---|---|---|
| Listener | `listener.py` | inbox rows (SQLite), last message id per channel | push handler, `poll_once` |
| Parsers, suggestions | `parsers/`, `normalize.py`, `suggest.py` | none | text to `Signal` or management action |
| Classifier | `classifier*.py` | outstanding requests | start, poll an answer |
| Trader loop | `trader.py`, `cli.py`, `store.py` | runs, inbox status, deferrals, post-checks, result offsets | `tick`: watch the terminal, process the inbox, sync each run, finish post-checks; `startup_reconcile` |
| Run state machine | `ladder.py`, `models.py`, `sizing.py`, `validation.py` | one `SignalRun` with its legs | `place_run`, `apply_results`, `sync_run`, `apply_action` |
| File bridge | `bridge.py` | read offset of results.jsonl | `send`, `read_results`, `read_state` |
| SignalBridge EA | `mql5/.../SignalBridge/` | cursor file, `m_seen`, results.jsonl, state.json | `Init`, `Poll`, `Execute`, `WriteStateJson` |
| CopierSource EA | `mql5/.../CopyTrader/` | tracker (positions last reported), events.jsonl | trade transactions, `Reconcile` sweep, save and load of the tracker |
| Mirror | `mirror.py`, `cli.py` | event cursor, table of mirrored positions, loss guard | `tick`: events, results, sweep |
| Notifier, alerts | `notify.py`, `alerts.py` | journal position | journal to messages |
| Configuration, replay, export, reports | `config.py`, `cli.py`, `replay.py`, `export.py`, `scripts/` | none | loading, offline tools |

How they interact:

    Telegram -> Listener -> inbox -> Trader -> SignalRun -> commands.jsonl -> SignalBridge EA -> broker
                                       ^            ^------ results.jsonl <-----------|            |
                                       |            ^------ state.json <--------------|------------|
    source account -> CopierSource EA -> events.jsonl -> Mirror -> commands.jsonl (one EA per copy)

The trader, the listener and the notifier are processes of their own that share
a SQLite file. Each is single-threaded; a handler of the trader loads a run,
computes, appends command lines as it goes and saves the run at its end. The EA
runs in the terminal on a timer. So the concurrency is between processes, and
every message between them is a line of a file that may be late, repeated or
missing.

### What is hard

* The trader's picture of the broker comes by two roads of different age:
  results (in order, once, may be lost) and state.json (a snapshot of some
  moment in the past).
* A handler may die between any two lines it writes and before it saves. The
  message that caused it is then handled again.
* The EA may die between the broker's answer and the result line, and between
  the result line and the cursor.
* The broker acts by itself (fills, stops, take-profits, expiries, a person at
  the terminal) while a command about the same position is on its way.
* Deadlines (`MISSING_GRACE_SEC`, `INFLIGHT_TIMEOUT_SEC`, `RETRY_BACKOFF_SEC`,
  the pending time to live) race the late answer.
* The mirror and the source EA keep a table of what they believe about another
  account and must reconcile it after any death.

### What makes each component correct

* EA: every line answered, in order, each `cmd_id` executed once or, if the
  terminal dies, at most once more per death.
* Run: nothing lives at the broker that the trader has written off; a leg never
  waits for an answer that cannot come; a recorded outcome stays; stops only
  improve; the ladder follows what happened at the broker; a run that is over
  ends.
* Trader loop: every message is handled, in an order that respects replies;
  guards hold when several signals arrive; a restart neither repeats nor forgets.
* Listener: every message is stored once.
* Mirror and source EA: the copy converges to the source, each change is copied
  once, a position opened while nobody watched is not copied late.
* Rules (`sizing`, `validation`, `mirror_volume`, `mirror_stops`): agree with
  their definition on the whole range, at the steps and clamps in particular.

## 2. Modules

| Module | Models | Kind |
|---|---|---|
| `AnswerLog` | what the SignalBridge EA promises its callers | abstract specification |
| `SignalBridge` | the EA's command loop, its files, deaths and restarts | detailed specification, implements `AnswerLog` |
| `FileBridge` | the service that reads results.jsonl from an offset it saves, composed with `SignalBridge` | composition |
| `Inbox` | the channel, the listener (push, poll, restart) and the inbox table | detailed specification |
| `Validation` | the rules a signal must pass, and where a second reading differs | pure operators |
| `TraderInbox` | the trader's loop over the inbox with several runs, composed with `Inbox` and `Validation` | composition |
| `SignalRun` | one signal's run in the trader against the EA and the broker | detailed specification |
| `Mirror` | one mirror: its cursor, table and sweep, the destination's EA, the source's events | detailed specification |
| `CopierSource` | the EA that writes the source's events: transactions, sweep, tracker | detailed specification |
| `Sizing` | lots of a leg and of a mirrored trade, stops set in pips | pure operators |
| `TakeProfits`, `Parsers` | ladders completed, repaired and suggested; what the two providers' parsers make of what their patterns find | pure operators |
| `SignalBridgeProofs`, `FileBridgeProofs`, `TraderInboxProofs`, `MirrorProofs`, `SignalRunProofs`, `CopierSourceProofs`, `SizingProofs`, `TakeProfitsProofs` | theorems about the module of that name (`TakeProfitsProofs`: `Parsers` too) | TLAPS |
| `MCSignalBridge` (with `FileBridge`), `MCTraderInbox` (with `Parsers`), `MCSignalRun`, `MCMirror` (with `Sizing`), `MCCopierSource` | instances for TLC | |

Three levels meet at the files. `SignalRun` and `Mirror` use the EA at the level of
`AnswerLog` (commands answered in file order, a repeated `cmd_id` without a second
result), which `SignalBridge` shows, and read every result in order, which
`FileBridge` shows. `TraderInbox` has many runs and of each only how many legs are
not over; `SignalRun` has one run and everything about it.

### AnswerLog and SignalBridge

`SignalBridge` has the EA's four files (`commands`, `cut` for an unfinished last
line, `results`, `saved` for the cursor) and its memory (`up`, `seen`, `at`,
`pc`). `Start` is `CBridgeCore::Init`; `Execute`, `SkipDuplicate`, `WriteResult`
and `SaveCursor` are the steps of `CBridgeCore::Poll` for one line, one action
each because the terminal may die between them (`Crash`). Callers are `Send` and
`SendCut` (a line cut short by a death or a full disk, joined by the next one:
the EA's parser takes the first value of a key, so it reads either `cmd_id` or
neither). A line that does not parse is answered under the name
`invalid:<offset>`, the number of the line here. Which files may fail is the
constant `Faults`. Offsets count complete lines; a results.jsonl line is written
whole or not at all.

`AnswerLog` says: the log grows, and the oldest line whose identity has no answer
is answered next. `SignalBridge` implements it with `log <- commands`,
`answers <- results`.

### FileBridge

| Code | Definition |
|---|---|
| `FileBridge.read_results` at the start of a tick | `ReadResults` |
| one answer of `Trader.sync` or `_apply_results`, its row saved | `ActOnResult` |
| `_persist_offsets` at the end of a tick | `PersistOffset` |
| a death, and `_bridges` with the offset of the store | `RestartService` |

The composition keeps the EA's variables and adds the service's. Each is a
process: a step is one of the EA (with its deaths) or one of the service.
`applied` is history: the lines some process has acted on. What an answer does is
in `SignalRun` and `Mirror`.

### Inbox, Validation and TraderInbox

| Code | Definition |
|---|---|
| `on_message`, `poll_once`, `run_listener`, `add_inbox` | `Push`, `Poll`, `RestartListener`, `AddInbox` |
| `tick`; the rows `new_inbox` returned | `Tick`, `todo`, `Current` |
| `_handle_signal` up to its second `read_state`; after it | `LookAt`; `Decide` |
| `_llm_entry` | `LookEntryLike` |
| `_signal_quote_cache`, `_signal_crosscheck_cache`, `_deferred_logged` | `KeptQuote`, `Answers`, `Defer`, `Forget` |
| `guard_reasons` | `Guards` |
| `place_run` and `save_run`; `set_inbox_status` | `PlaceRun`; `Mark` |
| `resolve_reference`, `_handle_management` | `Resolve`, `Manage` |
| `sync` of each run | `Sync`, `LegsOver` |
| `validate_signal`, `_compare` | `ValidateSignal`, `Compare` |
| a death and systemd's restart | `Restart` |

The model of the language model is asked between two readings of state.json,
each of which returns what the terminal left there at that moment: no state, an
old one, one with or without a quote. Saving the run and marking the message are
two transactions, so two actions with a death possible in between; what the
trader holds in memory is lost then. `late` is history: messages stored when a
newer one already was, which only a lost push can cause.

Abstractions: the messages of one provider; every entry says the same signal
(which one is a constant); a run is `LIVE` while it has legs; what `Manage` does to a
run is that the run was told; what the broker does to the legs is left to
`SignalRun`; the account's own guards (login, margin level, daily loss) are one
reason that may hold whenever there is a state; the sender, the edits of a
message and the journal are left out. `Arrive` and `Age` happen between ticks: a tick works
on the rows its query returned, so storing a message in the middle of one is the
same as storing it at its end.

### TakeProfits, Parsers and Sizing

`TakeProfits` has `complete_tps`, `_in_order`, `fix_tp_typo` and `suggest_tps`; `Parsers` has
`_unglue_pips`, `_numbered_tps`, `_plain_tps`, `_build` and the two `parse` methods,
from the point where the patterns have found their groups: a message is a record
of what was found. `Sizing` has `leg_volume`, `mirror_volume`, `mirror_stops` and `pip_size`.
Prices and volumes are whole numbers of a unit fine enough for the rules, so that
what the code computes in floating point, with its tolerance of 1e-9, is exact
here. These modules have no state. `MCTraderInbox` and `MCMirror` check them by `ASSUME`
on the repository's own fixtures (`tests/test_parser_wolves.py`,
`test_suggest.py`, `test_mirror.py`, `test_sizing.py`) and over small ranges
(`UnglueUndoesGluing`, `SuggestionsInOrder`, `StepsAreNearest`); the theorems hold for all
values. They are tied to the state machines: `BuyNowIsParsed` derives the signal of
`TraderInbox`'s runs from a message, and `TwoOfThreeIsSized` the constant `MirrorVolume` of
`Mirror`'s from `MirrorLots`.

### SignalRun

| Code | Definition |
|---|---|
| `Trader._handle_signal` after its deferrals, `place_run` | `Place`, `Reject` |
| `Trader._handle_management`, `apply_action` | `Manage` |
| `Trader.sync`, `apply_results`, `sync_run` | `Sync`; `SyncBlind` without a usable state.json |
| `Trader._finish_postchecks` | `FinishPostcheck` |
| `Trader.startup_reconcile` | `Restart` |
| `CBridgeCore::Poll`, `CBridgeExecutor` | `SkipCommand`, `ExecuteCommand`, `RefuseCommand` |
| `WriteStateJson` | `WriteState` |
| the broker (`FakeBridge` in the tests) | `Fill`, `HitTp`, `HitSl`, `CloseByHand`, `OrderGone` |
| timestamps compared with now | `GraceOver`, `ResultOverdue`, `BackoffOver`, `TtlPasses` |

A handler is one action: the operators take and return a record of the run in
memory, the lines written so far and the numbers of the commands that commands.jsonl
will not take, so the order of the code's calls is the order of their composition
and each line fails or not by itself. `DiesIn` is a death
in the middle of a handler: a prefix of its lines is written and the run is not
saved, or everything is and the message or the results are not yet marked.

Abstractions: a deadline is a timer that is off, running or passed, and passes
before the EA had its turn only as the fault "stale" (state.json not rewritten) or
"late" (a command not answered in time); a command line is in the file or not, and one
that is cut is left to `SignalBridge`; prices are levels; the
broker keeps of a leg whether it is an order, a position or how it ended, and
its stop; the classifier's answers and the market's price are arbitrary; the
EA's own repetitions within one `Execute` are one step; the window of the deal
history in state.json always reaches back far enough.

### Mirror

| Code | Definition |
|---|---|
| `_process_events`, `_handle`, `_on_open` | `HandleEvent`: `OpenEvent`, `RejectEvent`, `ResendEvent`, `FollowEvent`, `IgnoreEvent` |
| the cursor, saved after each event | `Handled` |
| `_apply_results`; the results offset saved after the tick | `ApplyResult` |
| `_sync` for one row, with `_send` | `Sync` = `Adopt`, `Watch`, `Align` |
| `CBridgeCore::Poll`, `CBridgeExecutor` of the destination | `SkipCommand`, `ExecuteCommand`, `RefuseCommand` |
| `WriteStateJson`; the window of its deals | `WriteState`, `DealsAge` |
| the destination's own stop, take-profit or a person | `DestCloses` |
| `MISSING_GRACE_SEC` | `GraceOver` |
| the source account and the lines CopierSource writes | `SourceOpen`, `SourcePartial`, `SourceClose`, `SourceModify`, `SourceRepeats` |

The mirror saves each row and each move of the cursor by itself, so, unlike in
`SignalRun`, the action is one row or one event and a death needs no state of its
own: it shows as an event or result that is handled and not passed (`crash`), or
as a command that was saved and not written (`cut`). An event that waits because
the destination is unavailable is a step not taken.

Abstractions: volumes are counted in volume steps, stop loss and take profit are
one level; `mirror_volume` is the constant `MirrorVolume` (its rule is in `Sizing`); why an opening is not
mirrored (filter, age, arming, loss guard, no quote, size) is left open; the
daily files are one log without torn lines; fills are whole; the EA does not die
(`SignalBridge` has its deaths); a dry-run destination is left out.

### CopierSource

| Code | Definition |
|---|---|
| `OnTransaction`, `OnDeal`, `OnPositionChange` | `OnTransaction`: `OnDeal`, `OnDealNotInHistory`, `OnPositionChange` |
| `Reconcile`; a sweep that leaves the position for the next one | `Reconcile` = `SweepLive`, `SweepGone`; `ReconcileLater` |
| `Emit`, then `Track`, `Update` or `Untrack` with `SaveTracker` | `EmitAndKeep`, `Keep`, `SaveTracker` |
| `SaveTracker` after an event of another position, whose entries share the file | `SaveForAnother` |
| `OnInit` with `LoadTracker`, `g_seed_pending`, `OnDeinit` | `Start`, `Seed`, `Stop` |
| the mirror's `_handle` and `_on_open`, as far as they read events | `Tell` |
| the terminal's position list and its transactions | `Lists`, `Offline`, `Lose`, `Delay` |
| the account | `Open`, `Fill`, `Shrink`, `Close`, `SetStop` |

The terminal runs the handlers one at a time, so a handler is one action. What
may fail in it are the lines it appends, the tracker it saves and the terminal
itself, in an order the code fixes: a handler takes a record of the EA to a set
of such records (`Ends`), and `EmitAndKeep` is the order "first the line, then the
tracker" that the header of `SourceHandler.mqh` builds on.

Abstractions: positions are tracked independently, so there is one; the number
of a change stands for its time in milliseconds; stop loss and take profit are
one level; symbol, direction, magic, the daily files and the five attempts to
open the file are left out; a line of an event is written whole or not at all. Of the
tracker's lines only the last field, the time, can be cut without losing the entry.
A sweep of a terminal that is not connected does nothing, so it is a step not taken, and
while the terminal synchronises its positions no transactions come. The first
sweep, or the seeding, that `OnInit` makes when connected may come later here.
Only a position the terminal has listed is traded again.

`Faults` names what may go wrong. `copier` checks all of it but six kinds, under
each of which properties fail, without another fault:

* `rush`: an additional fill's handler takes the listed volume *and stop* into the
  tracker (`SourceHandler.mqh:261`), but a reader ignores the repeated OPEN. A
  stop changed at the same time is then never told, neither by its own
  transaction nor by the sweep; a partial close that is still on its way is
  counted twice and the copy may be closed while part of the source is open.
  The same word covers a transaction handled before the first start's seeding.
* `late_open`: a position adopted by the sweep has no stamp (`Track` sets it to 0), so
  a closing deal that the adopted volume already reflects is subtracted again. The
  same holds for one adopted because a part of it was closed while it was not
  tracked (`SourceHandler.mqh:295`); the word covers every late closing deal of a
  position that is not tracked, or that nobody was told of.
* `misread`: a deal that is not in the history yet is classified by the position
  list. A partial close of a position the EA does not track is told as an OPEN of
  the closed volume; that of a tracked one, if the list lags, adopts the stop
  without telling it.
* `unsaved_open`: the terminal dies between the OPEN's line and the tracker's
  file and the position is closed meanwhile: nobody tells the CLOSE. In the same
  way a MODIFY that was told and not saved is not taken back.
* `torn`: `SaveTracker` opens the file with `FILE_WRITE` alone, which empties it
  (`SourceHandler.mqh:373`), and looks at no `FileWrite`. A death before the lines, or a
  full disk, leaves a tracker without the entry, or with its time cut off, which
  `LoadTracker` reads as 0. The file has every position's entry, so this
  happens to a position nothing happens to. If it then closes while the EA is down,
  nobody tells the CLOSE; without the time a late deal is
  counted twice.
* `unreadable`: the file is there and cannot be opened at a start: `LoadTracker`
  returns false (393-398), as if there were none, and the start adopts silently
  what is listed. What closed meanwhile is forgotten in the same way.

Two faults together also break `NeverToldLess`, which is why the run has one: a
closing deal that comes late *and* is not in the history has no time to compare
with the stamp (`deal_msc` is 0), so it is counted twice.

One more place needs a longer history than the run has. The sweep's OPEN for a
volume larger than the tracked one carries the listed stop while the tracker
keeps its own (`SourceHandler.mqh:568`), until the MODIFY of the next line is written.
If that line fails and the stop goes back to what the tracker says, nothing is told:
a reader who first hears of the position by that OPEN keeps the stop in between. A
tracked volume below the listed one of a position nobody was told of takes two
closing deals before the sweep and a third volume left, so `CatchesUp` fails
with `Lots` 4 and holds with the run's 3.

Two events may be missed without contradicting the properties, which speak of
positions whose OPEN was told: if the OPEN's line cannot be written and a partial
close comes before the next sweep, the rest is tracked as "untracked position
partially closed" and the OPEN is never told; and a first start without positions
writes no tracker file, so what is opened before the second start is adopted
silently.

## 3. Runs

TLC checks twelve runs. Every property of a passing run has a mutant, a variant of a
definition with one plausible bug, under which the same run fails; the variants
stand next to the definitions they vary.

| Run | Shows |
|---|---|
| `bridge` | an EA and a service that both die: `SignalBridge` implements `AnswerLog` (`AnswersInOrder`), no command is skipped, repeats are paid for with deaths, one result per `cmd_id`, every answer is acted on and none passed over |
| `inbox` | three messages, lost pushes, a listener restarted, a trader that dies: limits, order of the messages, replies, deferral, `EveryMessageHandled`, `NothingMissed` |
| `inbox_died` | *violation*: a run in progress is overwritten by the repetition of its own message |
| `run` | two pending legs, every action, one fault: `NothingOrphaned`, `AnswerIsComing`, `WaitsForItsOwn`, `LegsMoveForward` |
| `run_ladder` | four legs, the whole ladder: `LadderHasCause`, `StopIsKnown`, `StopsMoveOneWay` |
| `run_live` | one leg, two messages, the crosscheck and two faults - commands overwritten in flight, refused, not written, answered after the trader gave them up, or never: `DisagreementCloses`, `RunsEnd`, `EndsAreNoticed` under fairness, `NothingOrphaned` |
| `run_lost` | a lost result, or a death in the middle of a placement that is then repeated: `OpenedOnce` |
| `run_oneway` | *violation*: a worse stop sent while a better one is in flight |
| `run_late` | *violation*: the ladder passes over a leg that is not open yet, and never comes back to it |
| `mirror` | one position under any two faults but a frozen terminal: `OpenedOnce`, `NothingOrphaned`, `NeverClosesMore`, `TableFollowsSource`, `DestIsKnown`, `Converges` |
| `mirror_cut` | *violation*: a close that was saved and not written is never sent |
| `copier` | one position of the source through five changes, one stop of the EA and one fault: `NeverToldLess`, `NeverForgotten`, `CatchesUp` |

Bounds. Bridge: two identities over three lines repeat an identity with
another one in between; two deaths and two lost or torn files cover a death while the
next session is still repairing the first, and a death of the service on top one of
both sides at once. Inbox: three messages are two signals, or a signal that only
looks like one, with a management message between or after, which is what limits, replies and
overtaking need; `PollLimit` 1 makes the poll miss messages with two posted;
`MaxLegsOpen` is 3, one signal's legs, so that a second signal is turned down while
the first is whole and placed beyond the limit when it has lost a leg. With two
signals at most, `MaxOpenSignals` 2 never binds in `inbox`; it does in `inbox_died` with
1, and `StaysWithinLimits` proves it for every value. One restart of the listener and one death, at any
step. Run: two legs give every interleaving
of two commands and of a leg that lives while another ends; the ladder's rules
name legs 2, 3 and later, so `run_ladder` has four. One fault at a time but in
`run_live`: the hazards are about one failure against the normal interleavings. `MaxSeq` stops retries after the
given number of commands, and `MaxMessages` the provider; both are beyond what the
properties need (one opening, one change and one retry per leg). `run_live` has one leg,
because legs meet only in the ladder, in the order of the file and in the end of the run, which `run` and
`run_ladder` have, and because two legs with these faults are beyond five minutes; it has two messages
and two faults, because a command is overwritten by the second and its answer refused,
late or lost by a fault. It has no deaths: after one in a handler numbers are given out
again (section 4), and an answer to the one command may be taken for the other's. Prices: a BUY
with its stop at 1, filled at 3, stops moved to 2, first take-profit at 5; only
their order matters. Mirror: rows are independent, so one position; three
volume steps at the source are two at the destination, so one partial close moves
it and another does not; two faults, so that the repair of the first meets the
second. CopierSource: five changes allow an opening, a partial close, a fill or
stop and a close, with one more while any of them is in flight; three volume
steps leave something after a partial close and a fill. `CHECK_DEADLOCK FALSE`
(in every run but `copier`): when all legs are over and the file is read, nothing
is left to do, and the inbox is empty once the channel's messages are handled.

The faults "seen" and "append" of `SignalBridge` (results.jsonl cannot be read or
written) are left to the proofs, which say what holds with them; "stale" of
`SignalRun` (the terminal stops writing while orders live for `MISSING_GRACE_SEC`)
breaks `NothingOrphaned` and is in no run. "late" is in `run_live`; `NothingOrphaned` is
proved with it.

Fairness. `FileBridge` with `SignalBridge`: `WF(Start)` (the terminal restarts the
EA with the chart), `WF(Poll)` (`OnTimer`) and `WF(Service)` (systemd `Restart=`, the loop of
`cli.py`). `TraderInbox`: `WF(Trader)`; `SF(Poll)` and `SF(Age)`, strong because the poll
and the clock run all the time in other processes but are steps between two
ticks here, where they are enabled again and again and not continuously. `SignalRun`: the trader ticks (weak fairness
of `Sync`, written with `Settled`, a tick that finds nothing to do, in place of
`ENABLED`), it is restarted (systemd `Restart=`), the EA answers and writes
state.json on its timer, and time passes. `Mirror`: the same, and the destination
is armed again and again (weak fairness of `Sync` with `armed`). `CopierSource`:
the terminal restarts the EA, delivers the transactions it does not lose, calls
`OnTimer`, and its position list comes up to date (`WF` of `Start`, `Seed`,
`OnTransaction`, `Reconcile`, `Lists`). The market, people, messages and
faults are never forced.

### What the violations say

* `inbox_died`: `_handle_signal` saves the run (`trader.py:401`) and `process_inbox` marks
  its message in a second transaction (`trader.py:218`). After a death in between the
  message is new again. With `max_open_signals` reached by the very run it placed, the
  guards turn it down, and `save_run` (`INSERT OR REPLACE`, `store.py:58`) puts a
  `REJECTED` run without legs in place of the live one, whose positions nobody manages
  any more. The design says "Persisted to SQLite after every transition; a
  restart resumes" (`docs/superpowers/specs/2026-09-18-tg-signal-trader-design.md:125`).
* `run_oneway`: `_modify` compares with `sl_current`, which changes when the
  result arrives, and `break_even` and `move_sl` do not skip legs with a command
  in flight although the comment at `ladder.py:278` says they do. README.md:34-35
  says "stops only ever move one way".
* `run_late`: `be_applied` and `tp1_applied` are set when the commands are sent,
  or when there was nothing to send. A leg that was still being opened never gets
  the stop; nor does one whose command the broker refuses.
* `mirror_cut`: a death in `_send` between `_save` and `bridge.send` leaves a row
  with a command in flight that nobody will answer. `mirror.py:13-16` says a
  restart "never misses a close"; the cursor has long passed the event, and the
  sweep leaves rows with a command in flight alone. A lost result has the same
  effect, which is why `Converges` excepts `Waits`.

More places where the code differs from its documentation, or may surprise,
without a run:
the header of `SourceHandler.mqh` (6-9) says the tracker is kept "so a restart knows
what the destination has already been told", but the file is emptied before it is written
and its writes are not looked at, so after a death or a full disk there the restart knows
of nothing, and a copy whose source closed meanwhile stays open (`torn`, section 2:
`CatchesUp` does not hold with it);
a pending entry without a price passes validation and `place_run` has no answer to
it (`ladder.py:75`), so the service dies at it again after every restart until the
message is too old (`Unplaceable`);
the header of an entry split over two messages may be stored after its body (a lost push), and the body is not
read again (`lewis.py:69-75`);
a torn last line of a day's event file keeps the mirror at that file
(`mirror.py:482-484`);
the mirror's start-of-day equity is the equity at the first look at an opening that day
(`mirror.py:371-375`);
`Execute` precedes the result line, so "A `cmd_id` is executed at most once"
(docs/superpowers/plans/2026-09-18-tg-signal-trader.md, line 15) holds only
without a death in between, and the proved bound is one more execution per
death; a restarted trader may read the results of its first placement before the repeated
one has made a run; the EA skips the repeated commands in silence and opening
commands do not time out, so the leg waits for ever;
the `cmd_id` of design line 170 ("unique") is written twice when a placement is
repeated after a death, which is what makes the repetition harmless; and
`move_sl` checks the new stop against the market's price, where design line 158
speaks of the entry.

## 4. Proofs

`SignalBridgeProofs` proves, for all constants allowed by `BridgeAssumption`
(any finite or infinite set of identities and any bounds):

| Theorem | Property | Assumes of `Faults` |
|---|---|---|
| `TypeCorrect` | `TypeOK` | nothing |
| `RepeatsAreCrashes` | `RepeatsNeedCrashes` | nothing |
| `NothingIsSkipped` | `NoCommandSkipped` | nothing |
| `OneResult` | `OneResultPerCommand` | results.jsonl can be read at start |
| `AnswersAreFinal` | `AnsweredIsFinal` | the same |
| `Implements` | `AnswersInOrder` | and it can be written |

The argument. `TypeOK` is inductive with `AtALine` (between the steps of `Poll`
there is a current line). `RepeatsNeedCrashes` needs to know what one session can do: a `cmd_id`
executed in this session is in `seen` or is the current line, so it is not
executed again before a death, which `crashes` counts. `NoCommandSkipped` rests on
the same fact for lines: everything before `at` was executed, and `saved` is only
set to `at + 1` after the line was executed or recognised. `OneResultPerCommand`
follows from `Remembered`: while the EA is up every identity in results.jsonl is
in `seen`. For the refinement, `InOrder` says that every line before the cursor
is answered, so the line being executed is the oldest unanswered one; every
other step leaves `commands` and `results` alone.

`MirrorProofs` proves, for all constants allowed by `MirrorAssumption` (any positions,
volumes and levels, any `MirrorVolume`):

| Theorem | Property | Assumes of `Faults` |
|---|---|---|
| `MirrorTypes` | `TypeOK` | nothing |
| `MirrorOpensOnce` | `OpenedOnce` | nothing |
| `MirrorDestIsKnown` | `DestIsKnown` | nothing |
| `MirrorFollowsSource` | `TableFollowsSource` | nothing |
| `MirrorNeverClosesMore` | `NeverClosesMore` | nothing |
| `MirrorOrphansNothing` | `NothingOrphaned` | the destination's terminal does not freeze |

`TypeOK` is proved with the types of the records a handler builds on the way
(rows, commands, results, snapshots), one lemma for each operator that returns a
row. `OpenedOnce` counts openings at the destination's broker. It is inductive
together with two facts: every opening of a position carries the identity
`<<p, 1>>`, because a row is saved with its command before the command is written
and a row that exists is never replaced; and a position that was opened has its
`<<p, 1>>` among the answered commands, so the EA skips a repetition. An event
that is handled again after a death therefore sends the same identity.

The other four look at one position at a time: its row, the position at the
destination, what state.json shows of it, its commands in the file, the numbers
answered and the results unread.

* `MirrorDestIsKnown`: `FitsInv` says of each result what the position was like when it was
  written, and of each command that is not answered that it is the one the row
  waits for. While a row waits for nothing the position is therefore as the
  row says; that is where a result applied twice, or to the wrong command, would show.
* `MirrorFollowsSource`: a row differs from the source only by what an event still to be
  handled will tell: some close to come leaves the source's volume, and the stop is the
  source's once no MODIFY is to come (`RowsFit`). The events themselves obey the same law
  (`EventsFit`), which is what makes a repeated event harmless.
* `MirrorNeverClosesMore`: the position, also after each command that is not answered, is no
  less than the share of what the source has left (`ShareInv`). `TargetShare` (a larger
  source has no smaller share) carries it over a source that closes more meanwhile.
* `MirrorOrphansNothing`: a row is written off only when a snapshot no older than
  its opening did not show the position (`OrphanInv`). A frozen terminal shows an old
  one for longer than `MISSING_GRACE_SEC`, hence the assumption.

`SignalRunProofs` proves, for all constants allowed by `RunAssumption` (any number of legs,
either side, any prices and bounds):

| Theorem | Property | Assumes of `Faults` |
|---|---|---|
| `RunTypes` | `TypeOK`: a leg waits for a number the run has used, and for a changed stop at a price (`WaitsTypes`) | nothing |
| `RunOpensOnce` | `OpenedOnce` | nothing |
| `RunLadderHasCause` | `LadderHasCause` | nothing |
| `RunHandledMovesForward` | `LegsMoveForward` once the message is handled | nothing |
| `RunWaitsForItsOwn` | `WaitsForItsOwn` | the trader does not die in a handler |
| `RunLegsMoveForward` | `LegsMoveForward` | the same |
| `RunAnswerIsComing` | `AnswerIsComing` | and no result is lost |
| `RunOrphansNothing` | `NothingOrphaned` | no death in a handler, state.json keeps being written; answers may be late, lost or refused |
| `RunStopIsKnown` | `StopIsKnown` | nothing but `nofill` and `by_hand` happens |

The proofs follow a handler through its lines. A leg or a run changes *quietly* when at most it
stopped waiting (`QuietLeg`, `QuietRun`): results, detection, expiry, adoption and the flags are
quiet, and only `Send` makes a leg wait. `SendOK` says what `Send` does for every set of legs; the
numbers it gives are the ranks of the legs, whichever of the lines are written, and that each
number is some leg's (`RankFacts`) is a count of finite sets. `Works(r, h)` is what a handler that manages
made of each leg of the run `r`: it left it alone, waits for the last line it wrote for it, or for nothing
when that line could not be written. `Good(L, K, h)` is what holds of a handler after each of its calls: its run may
be saved, its lines are of the kinds `K`, and no line it wrote and no line of the file (`L`) is
mistaken for another one by the run.

* `RunOpensOnce`: an opening carries its leg's own number, in every placement, because a placement
  starts from a new run. A leg that is at the broker has that number among the answered ones, or no
  opening of it is left in the file and the placement is saved (`OpensOnceInv`).
* `RunWaitsForItsOwn`: a number is not used again (`WaitsInv`). That fails when the
  lines of a handler that died stay in the file and the saved run has not counted them: the next
  handler gives their numbers out again, which is why the theorem assumes there is no such death.
* `RunLadderHasCause`: the run knows of take-profits that state.json reported, state.json of those
  at the broker, and a position that took profit is never opened again (`CauseInv`, on `OpensOnceInv`).
* `RunHandledMovesForward`, `RunLegsMoveForward`: every call of a handler leaves each leg where it
  was or further on (`Onward`), provided that a leg with a command in flight is in a state that command
  fits (`FitsInv`). Only a repeated placement starts over, and without a death in a
  handler there is none.

For the last three, numbers are used in order (`OrderInv`): lines lie in the file in the order of
their numbers, results are older than lines. Then a step of the whole system looks
the same to every leg, whose `View` is the leg, its position, what state.json says of it, its lines and its
results: it is placed, read and managed by the trader, waits, is answered, is moved by the
market or shown (`LegStep`, `LegSteps`). The invariants are about one view.

* `RunAnswerIsComing`: what a leg waits for is among its lines or its results.
* `RunOrphansNothing`: a leg is over for the trader only when the broker said so: by a result
  (`Tells`), or by a snapshot that shows nothing when no opening is left among its lines (`OpensFor`, `Stands`).
* `RunStopIsKnown`: a position's stop is the one the leg remembers, or its lines or an unread
  result say otherwise, and then the leg waits for the last of them (`StopInv`). Under the other faults the
  property fails for a reason the code has: two stops in flight to one leg, of which
  the second is refused, lost, too late or cannot be written, leave the trader with the stop from
  before both (`ladder.py:294`, hazard list).

`CopierSourceProofs` proves, for all constants allowed by `CopierAssumption`:

| Theorem | Property | Assumes of `Faults` |
|---|---|---|
| `CopierTypes` | `TypeOK` | nothing |
| `NothingForgotten` | `NeverForgotten` | no `unsaved_open`, `torn` or `unreadable`: the tracker's file is opened after an opening or a changed stop, gets its lines whenever it is opened, and can be read at a start |
| `NeverTellsLess` | `NeverToldLess` | none of the six kinds of section 2, nor `history` and `late` together |

`Remembered` is the inductive form: what was told open is on in the saved tracker and, while the EA
runs, in memory. Every handler goes through `EmitAndKeep` (`EmitAndKeepOutcomes`: event not
written, written and saved, written and dead), which changes the three together. Without the
assumption an OPEN is told and forgotten by the next stop: the file still says what it
said before, or, when it was emptied or cannot be read, nothing.

`NeverTellsLess` needs to know that no closing deal is counted twice. The sweep takes a
volume from the list, which may be behind, and the deals that are still on their
way are subtracted from it later. `LessInv` states this with a history: `V[k]`, what the
position was after change `k` without its fills, from which every waiting deal has taken its
volume (`Falls`). The entry in memory is the position of some change `K`, and of
the waiting deals those its stamp lets pass are later than `K` (`Counts`); the saved entry, from
which the EA may start again, is no smaller than the last level. A close is told only
of an entry that is therefore above what the account has left. The proof found the
second half of `late_open` above: such a deal has no `K`.

`FileBridgeProofs` proves, for all constants allowed by the two assumptions:

| Theorem | Says |
|---|---|
| `CallerChangesNothing` | `CallerSpec => Spec`: the composition is a behaviour of the EA alone, so every theorem above holds of it |
| `NothingPassedOver` | `NoAnswerSkipped` |

The inductive part is `OffsetsInOrder`: saved offset, lines acted on and read offset
lie in this order within results.jsonl, every line up to the one acted on is in
`applied`, and results.jsonl only grows.

`TraderInboxProofs` proves, for all constants allowed by `InboxAssumption` and
`TraderAssumption` (any signal, settings, quotes and readings):

| Theorem | Property |
|---|---|
| `InboxTypes` | `TypeOK` |
| `StaysWithinLimits` | `WithinLimits` |
| `ActsOnEarlier` | `ActsOnEarlierRuns` |
| `OvertakesNothing` | `NothingOvertakes` |
| `HandlesOnce` | `NotHandledAgain` |
| `JudgedOnce` | `NotJudgedAgain` |

The invariant `Inv` is the state properties with: what is in the inbox was
posted, and only signals have runs (`Stored`); a new message the current tick is
past was deferred, and is an entry (`InTick`); a new message about trades that is
older than a signal with a run was stored late (`LateOnes`). `ActsOnEarlierRuns` rests
on `LateOnes`: when a message acts on a run of a newer signal it was new while that run
existed. `LateOnes` rests on `InTick`: the signal whose run is made is the oldest row of
the tick, so an older message about trades that is new now was not there when the tick
began. `WithinLimits` is inductive because only `PlaceRun` adds a run in progress, with its legs
(`MoreLegs`), and only after the guards of the second reading found room; the legs are counted
as a set, `OpenLegs`, of pairs of a run and a number.

`HandlesOnce` is about a trader that has not died: a message with a run is then processed, or
the one about to be marked (`HandledInv`). `JudgedOnce` rests on what a kept quote
means (`JudgedInv`): with it the signal passed every rule but that on its age, and, where asked, the model
confirmed it. The second look works with the same quote, so only its age (`OnlyStale`),
a missing state.json and the guards can turn the signal down, whatever the market does meanwhile.

`SizingProofs` proves, for all whole volumes, prices and ratios:

| Theorem | Says |
|---|---|
| `LegVolumeKeepsTheRisk` | within the broker's limits; above the risk only where the minimum or the configured floor demands it |
| `MirrorLotsWithinLimits` | a whole number of steps within the limits, never above `max_lots` |
| `MirrorLotsGrow` | a larger source volume is never mirrored by a smaller one |
| `PipStopsOnTheirSides` | a stop set in pips is on the losing side, a take-profit on the earning one |

They rest on what division and the three ways of rounding do (`Quotient`,
`QuotientGrows`, `FloorIsBelow`, `CeilIsAbove`, `RoundIsMultiple`, `RoundGrows`). `TakeProfitsProofs`
proves `CompletedClimbs` (a ladder in order stays so when an open TP4 is filled in) and
`RepairedIsAccepted` (what `fix_tp_typo` repaired is never turned down by `validate_signal` for its
take-profits, unless a stop entry has triggered meanwhile).

Only model-checked: the liveness properties (`EveryLineActedOn`, `EveryMessageHandled`,
`NothingMissed`, `DisagreementCloses`, `RunsEnd`, `EndsAreNoticed`, `Converges`,
`CatchesUp`), since liveness under fairness is beyond the prover, and `StopsMoveOneWay` of
`SignalRun`, which holds in `run_ladder` and is in the plan. The parsers' other rules are checked on
the repository's fixtures and over small ranges.

## 5. Not modelled, and the plan

Not modelled, and why:

* The patterns of the parsers and `normalize` (which words they accept): regular expressions without
  state; the repository's fixtures test them message by message. `Parsers` starts at the groups they find.
* The classifier's requests: network calls to a language model. `TraderInbox` and `SignalRun`
  take any reading and any action as its answer.
* The notifier and alerts, configuration and the command line beyond the service's loop, replay,
  export and reports: formatting and files read once, with no state a property here could be about.
* In `Trader`: the terminal's watch, start-of-day equity, the journal, ignored
  patterns. In `Mirror`: the loss guard's bookkeeping (it is one reason to refuse an
  event) and messages.
* In the executor: its repetitions of an opening within one `Execute`, and fills in
  part (the mirror's table subtracts what was asked). Each is listed as a hazard.
* Event lines cut short by a full disk: whole lines in `CopierSource` and `Mirror`.

What the plan had and is done: `AnswerLog` and `SignalBridge`, `FileBridge`, `SignalRun`, `Mirror`,
`CopierSource`, `Inbox` and `TraderInbox` with every safety property proved that a passing run checks, but
`StopsMoveOneWay`; `Validation`, `Sizing`, `TakeProfits` and `Parsers` with theorems about the rules. What it
has left, in order: `StopsMoveOneWay` for the ladder of a market order, which needs the order in
which legs 2 and 3 end; the executor's repetitions and partial fills; torn event lines, with `CopierSource` and `Mirror` composed.
