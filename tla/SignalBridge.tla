----------------------------- MODULE SignalBridge -----------------------------
(***************************************************************************)
(* The SignalBridge EA (mql5/Include/SignalBridge/BridgeCore.mqh with      *)
(* LineFile.mqh and Cursor.mqh): it tails commands.jsonl, executes each    *)
(* command, appends a result line to results.jsonl and saves its cursor.   *)
(* The terminal may die between any two of these steps and is then         *)
(* started again.  Which file operations can fail is the constant Faults.  *)
(*                                                                         *)
(* Offsets count complete lines.  What a command does at the broker is not *)
(* described here, only that it was executed (see SignalRun).              *)
(***************************************************************************)
EXTENDS Naturals, Sequences

CONSTANTS
  Ids,          \* the cmd_ids callers write
  Garbage,      \* a line ParseCommand does not accept
  None,         \* commands.jsonl ends with a complete line
  Faults,       \* the file operations that may fail
  MaxLines,     \* bound: lines ever written to commands.jsonl
  MaxCrashes,   \* bound: deaths of the terminal
  MaxFaults     \* bound: failing file operations

FaultKinds ==
  { "append",     \* AppendLine cannot open results.jsonl: the result is only logged
    "cursor",     \* the cursor file is not written, is left empty, or cannot be read
    "seen",       \* LoadSeen cannot open results.jsonl
    "torn" }      \* a caller dies, or its disk fills, in the middle of a line

ASSUME BridgeAssumption ==
  /\ Garbage \notin Ids
  /\ \A id \in Ids : id \notin Nat      \* no cmd_id is of the form invalid:<n>
  /\ None \notin Ids \union {Garbage}
  /\ Faults \subseteq FaultKinds
  /\ MaxLines \in Nat /\ MaxCrashes \in Nat /\ MaxFaults \in Nat

VARIABLES
  commands,     \* lines of commands.jsonl
  cut,          \* the cmd_id of an unfinished last line, or None
  results,      \* identities of the lines of results.jsonl
  saved,        \* lines the cursor file says are done
  up,           \* the EA is running
  seen,         \* m_seen
  at,           \* lines this session is done with
  pc,           \* where Poll is with line at + 1
  executed,     \* history: how often each cmd_id was executed
  crashes,      \* history: deaths of the terminal so far
  faults        \* history: failed file operations so far

files == <<commands, cut, results, saved>>
memory == <<up, seen, at, pc>>
vars == <<commands, cut, results, saved, up, seen, at, pc, executed, crashes, faults>>

Log == INSTANCE AnswerLog WITH log <- commands, answers <- results

Key(i) == Log!Key(commands, i)
Answered == Log!Answered(results)

Fails(kind) == /\ kind \in Faults
               /\ faults < MaxFaults
               /\ faults' = faults + 1
Works == UNCHANGED faults

Init ==
  /\ commands = << >> /\ cut = None /\ results = << >> /\ saved = 0
  /\ up = FALSE /\ seen = {} /\ at = 0 /\ pc = "idle"
  /\ executed = [id \in Ids |-> 0]
  /\ crashes = 0 /\ faults = 0

(***************************************************************************)
(* The callers of FileBridge.send.  A line appended to an unfinished one   *)
(* makes one line of both; the EA's parser takes the first value of a key, *)
(* so it may read either cmd_id, or neither.                               *)
(***************************************************************************)
Send(id) ==
  /\ Len(commands) < MaxLines
  /\ \E line \in (IF cut = None THEN {id} ELSE {id, cut, Garbage}) :
       commands' = Append(commands, line)
  /\ cut' = None
  /\ Works
  /\ UNCHANGED <<results, saved, memory, executed, crashes>>

SendCut(id) ==
  /\ cut = None
  /\ Fails("torn")
  /\ cut' = id
  /\ UNCHANGED <<commands, results, saved, memory, executed, crashes>>

(***************************************************************************)
(* CBridgeCore::Init: LoadSeen and LoadCursor.                             *)
(***************************************************************************)
\* Mutant: the results are not read back.
StartForgets ==
  /\ ~up
  /\ up' = TRUE
  /\ pc' = "idle"
  /\ seen' = {} /\ at' = saved /\ Works
  /\ UNCHANGED <<files, executed, crashes>>

\* Mutant: the saved offset is taken for that of the next line.
StartPast ==
  /\ ~up
  /\ up' = TRUE
  /\ pc' = "idle"
  /\ seen' = Answered /\ at' = saved + 1 /\ Works
  /\ UNCHANGED <<files, executed, crashes>>

\* Mutant: without a cursor, only new lines are of interest.
StartAtEnd ==
  /\ ~up
  /\ up' = TRUE
  /\ pc' = "idle"
  /\ \/ seen' = Answered /\ at' = saved /\ Works
     \/ seen' = Answered /\ at' = Len(commands) /\ Fails("cursor")
  /\ UNCHANGED <<files, executed, crashes>>

Start ==
  /\ ~up
  /\ up' = TRUE
  /\ pc' = "idle"
  /\ \/ seen' = Answered /\ at' = saved /\ Works
     \/ seen' = {} /\ at' = saved /\ Fails("seen")
     \/ seen' = Answered /\ at' = 0 /\ Fails("cursor")
  /\ UNCHANGED <<files, executed, crashes>>

(***************************************************************************)
(* CBridgeCore::Poll, one line at a time.                                  *)
(***************************************************************************)
\* Mutant: off by one.
NextLineLate == up /\ pc = "idle" /\ at + 1 < Len(commands)

NextLine == up /\ pc = "idle" /\ at < Len(commands)

\* Mutant: only the cursor tells what is done.
ExecuteAgain ==
  /\ NextLine
  /\ executed' = [id \in Ids |-> executed[id] + (IF commands[at + 1] = id THEN 1 ELSE 0)]
  /\ pc' = "executed"
  /\ Works
  /\ UNCHANGED <<files, up, seen, at, crashes>>

Execute ==
  /\ NextLine
  /\ Key(at + 1) \notin seen
  /\ executed' = [id \in Ids |-> executed[id] + (IF commands[at + 1] = id THEN 1 ELSE 0)]
  /\ pc' = "executed"
  /\ Works
  /\ UNCHANGED <<files, up, seen, at, crashes>>

SkipDuplicate ==
  /\ NextLine
  /\ Key(at + 1) \in seen
  /\ pc' = "answered"
  /\ Works
  /\ UNCHANGED <<files, up, seen, at, executed, crashes>>

WriteResult ==
  /\ up /\ pc = "executed"
  /\ \/ results' = Append(results, Key(at + 1)) /\ Works
     \/ results' = results /\ Fails("append")
  /\ seen' = seen \union {Key(at + 1)}
  /\ pc' = "answered"
  /\ UNCHANGED <<commands, cut, saved, up, at, executed, crashes>>

SaveCursor ==
  /\ up /\ pc = "answered"
  /\ \/ saved' = at + 1 /\ Works
     \/ saved' = saved /\ Fails("cursor")
  /\ at' = at + 1
  /\ pc' = "idle"
  /\ UNCHANGED <<commands, cut, results, up, seen, executed, crashes>>

\* The terminal dies.  Dying while the cursor file is open for writing leaves it empty.
Crash ==
  /\ up
  /\ crashes < MaxCrashes
  /\ crashes' = crashes + 1
  /\ \/ saved' = saved /\ Works
     \/ pc = "answered" /\ saved' = 0 /\ Fails("cursor")
  /\ up' = FALSE /\ seen' = {} /\ at' = 0 /\ pc' = "idle"
  /\ UNCHANGED <<commands, cut, results, executed>>

Poll == Execute \/ SkipDuplicate \/ WriteResult \/ SaveCursor

Next ==
  \/ \E id \in Ids : Send(id) \/ SendCut(id)
  \/ Start \/ Poll \/ Crash

Spec == Init /\ [][Next]_vars

(***************************************************************************)
(* Properties                                                              *)
(***************************************************************************)
Keys == Ids \union (Nat \ {0})

TypeOK ==
  /\ commands \in Seq(Ids \union {Garbage})
  /\ cut \in Ids \union {None}
  /\ results \in Seq(Keys)
  /\ saved \in Nat /\ at \in Nat
  /\ saved <= Len(commands) /\ at <= Len(commands)
  /\ up \in BOOLEAN
  /\ seen \in SUBSET Keys
  /\ pc \in {"idle", "executed", "answered"}
  /\ executed \in [Ids -> Nat]
  /\ crashes \in Nat /\ faults \in Nat

(* results.jsonl never holds two lines for one cmd_id, through any number  *)
(* of restarts, lost cursors and repeated command lines, as long as        *)
(* LoadSeen can read it (BridgeCore.mqh:21-34 with the check at 72).       *)
OneResultPerCommand ==
  \A i, j \in 1..Len(results) : results[i] = results[j] => i = j

(* A command whose result is on disk is never executed again: the result   *)
(* line, and not the cursor, is what makes a re-read harmless              *)
(* (BridgeCore.mqh:72-85).                                                 *)
AnsweredIsFinal ==
  [][\A id \in Ids : id \in Answered => executed'[id] = executed[id]]_vars

(* The cursor never moves past a command nobody executed: whatever fails,  *)
(* a line before the saved offset was executed at least once               *)
(* (BridgeCore.mqh:77-84).                                                 *)
NoCommandSkipped ==
  \A i \in 1..saved : commands[i] \in Ids => executed[commands[i]] > 0

(* No combination of failing files makes a session execute a cmd_id twice: *)
(* every execution beyond the first costs a death of the terminal          *)
(* (BridgeCore.mqh:18-34, m_seen).                                         *)
RepeatsNeedCrashes ==
  \A id \in Ids : executed[id] <= 1 + crashes

(* The EA is an implementation of AnswerLog: in log order, each identity   *)
(* once, the others never passed over.                                     *)
AnswersInOrder == Log!Spec
==============================================================================
