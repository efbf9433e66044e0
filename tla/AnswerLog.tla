------------------------------ MODULE AnswerLog ------------------------------
(***************************************************************************)
(* What the SignalBridge EA promises its Python callers, without files,    *)
(* cursors or restarts: lines are appended to a command log, and the EA    *)
(* answers them in log order, each command identity once, however often    *)
(* that identity is repeated in the log.                                   *)
(***************************************************************************)
EXTENDS Naturals, Sequences

CONSTANTS
  Ids,        \* the cmd_ids a caller may write
  Garbage     \* a line ParseCommand does not accept, not one of Ids

VARIABLES
  log,        \* the lines of commands.jsonl
  answers     \* the identities of the lines of results.jsonl

vars == <<log, answers>>

\* A command is known by its cmd_id, an unparseable line by its place in the file.
Key(lines, i) == IF lines[i] = Garbage THEN i ELSE lines[i]

Answered(ans) == {ans[k] : k \in 1..Len(ans)}

Init == log = << >> /\ answers = << >>

Submit(line) ==
  /\ log' = Append(log, line)
  /\ UNCHANGED answers

\* The oldest line not answered yet is answered next.
Answer(i) ==
  /\ Key(log, i) \notin Answered(answers)
  /\ \A j \in 1..(i - 1) : Key(log, j) \in Answered(answers)
  /\ answers' = Append(answers, Key(log, i))
  /\ UNCHANGED log

Next ==
  \/ \E line \in Ids \union {Garbage} : Submit(line)
  \/ \E i \in 1..Len(log) : Answer(i)

Spec == Init /\ [][Next]_vars
==============================================================================
