------------------------- MODULE SignalBridgeProofs -------------------------
(***************************************************************************)
(* Proofs about SignalBridge: for any number of lines, deaths and failing  *)
(* files.                                                                  *)
(***************************************************************************)
EXTENDS SignalBridge, SequenceTheorems, TLAPS

(***************************************************************************)
(* Types                                                                   *)
(***************************************************************************)

\* A line under way is a line of the file.
AtALine == pc # "idle" => at < Len(commands)

TypeInv == TypeOK /\ AtALine

\* A cmd_id is its own key, any other line is known by its place.
LEMMA KeyOfId ==
  ASSUME TypeOK, NEW i \in 1..Len(commands)
  PROVE  /\ commands[i] \in Ids => Key(i) = commands[i]
         /\ commands[i] \notin Ids => Key(i) = i
         /\ Key(i) \in Keys
<1>1. commands[i] \in Ids \union {Garbage}
  BY DEF TypeOK
<1>2. i \in Nat \ {0}
  BY DEF TypeOK
<1> QED
  BY <1>1, <1>2, BridgeAssumption DEF Key, Log!Key, Keys

LEMMA AnsweredIsKeys ==
  ASSUME TypeOK
  PROVE  Answered \in SUBSET Keys
BY DEF TypeOK, Answered, Log!Answered

\* What a caller may have appended.
LEMMA SendAppends ==
  ASSUME TypeOK, NEW id \in Ids, Send(id)
  PROVE  \E line \in Ids \union {Garbage} : commands' = Append(commands, line)
BY DEF TypeOK, Send

LEMMA TypeInit == Init => TypeInv
<1> SUFFICES ASSUME Init PROVE TypeInv
  OBVIOUS
<1>1. /\ commands \in Seq(Ids \union {Garbage}) /\ Len(commands) = 0
      /\ results \in Seq(Keys)
  BY DEF Init
<1>2. executed \in [Ids -> Nat]
  BY DEF Init
<1>3. /\ cut \in Ids \union {None} /\ saved = 0 /\ at = 0 /\ up \in BOOLEAN
      /\ seen \in SUBSET Keys /\ pc = "idle" /\ crashes = 0 /\ faults = 0
  BY DEF Init
<1> QED
  BY <1>1, <1>2, <1>3 DEF TypeInv, TypeOK, AtALine

LEMMA TypeStep == TypeInv /\ [Next]_vars => TypeInv'
<1> SUFFICES ASSUME TypeInv, [Next]_vars PROVE TypeInv'
  OBVIOUS
<1> USE DEF TypeInv, TypeOK, AtALine, files, memory, Works, Fails
<1>1. ASSUME NEW id \in Ids, Send(id) PROVE TypeInv'
  <2>1. PICK line \in Ids \union {Garbage} : commands' = Append(commands, line)
    BY <1>1, SendAppends
  <2>2. /\ commands' \in Seq(Ids \union {Garbage})
        /\ Len(commands') = Len(commands) + 1
    BY <2>1
  <2> QED
    BY <1>1, <2>2 DEF Send
<1>2. ASSUME NEW id \in Ids, SendCut(id) PROVE TypeInv'
  BY <1>2 DEF SendCut
<1>3. CASE Start
  BY <1>3, AnsweredIsKeys DEF Start
<1>4. CASE Execute
  <2>1. executed' \in [Ids -> Nat]
    BY <1>4 DEF Execute
  <2> QED
    BY <1>4, <2>1 DEF Execute, NextLine
<1>5. CASE SkipDuplicate
  BY <1>5 DEF SkipDuplicate, NextLine
<1>6. CASE WriteResult
  <2>1. at + 1 \in 1..Len(commands)
    BY <1>6 DEF WriteResult
  <2>2. Key(at + 1) \in Keys
    BY <2>1, KeyOfId
  <2>3. results' \in Seq(Keys)
    <3>1. CASE results' = results
      BY <3>1
    <3>2. CASE results' = Append(results, Key(at + 1))
      BY <2>2, <3>2, AppendProperties
    <3> QED
      BY <1>6, <3>1, <3>2 DEF WriteResult
  <2> QED
    BY <1>6, <2>2, <2>3 DEF WriteResult
<1>7. CASE SaveCursor
  BY <1>7 DEF SaveCursor
<1>8. CASE Crash
  <2>1. faults' \in Nat
    BY <1>8 DEF Crash
  <2>2. saved' \in Nat /\ saved' <= Len(commands)
    BY <1>8 DEF Crash
  <2>3. /\ up' = FALSE /\ seen' = {} /\ at' = 0 /\ pc' = "idle" /\ crashes' = crashes + 1
        /\ UNCHANGED <<commands, cut, results, executed>>
    BY <1>8 DEF Crash
  <2>4. up' \in BOOLEAN /\ pc' \in {"idle", "executed", "answered"}
    BY <2>3
  <2>5. seen' \in SUBSET Keys
    BY <2>3
  <2>6. at' \in Nat /\ crashes' \in Nat /\ at' <= Len(commands')
    BY <2>3
  <2> QED
    BY <2>1, <2>2, <2>3, <2>4, <2>5, <2>6
<1>9. CASE UNCHANGED vars
  BY <1>9 DEF vars
<1> QED
  BY <1>1, <1>2, <1>3, <1>4, <1>5, <1>6, <1>7, <1>8, <1>9 DEF Next, Poll

(* Every variable keeps its type; the saved and the current offset stay    *)
(* within the file (LineFile.mqh:54-82, BridgeCore.mqh:83-84).             *)
THEOREM TypeCorrect == Spec => []TypeOK
<1>1. TypeInv => TypeOK
  BY DEF TypeInv
<1> QED
  BY <1>1, TypeInit, TypeStep, PTL DEF Spec

(***************************************************************************)
(* Repeats need crashes                                                    *)
(***************************************************************************)

\* The session running now has executed the command, and knows.
InThisSession(id) ==
  up /\ (id \in seen \/ (pc = "executed" /\ commands[at + 1] = id))

Within(id) == executed[id] <= crashes + (IF InThisSession(id) THEN 1 ELSE 0)

RepeatsInv == \A id \in Ids : Within(id)

LEMMA RepeatsInit == Init => RepeatsInv
<1> SUFFICES ASSUME Init, NEW id \in Ids PROVE Within(id)
  BY DEF RepeatsInv
<1>1. executed[id] = 0 /\ crashes = 0 /\ up = FALSE
  BY DEF Init
<1> QED
  BY <1>1 DEF Within, InThisSession

LEMMA RepeatsStep == TypeInv /\ RepeatsInv /\ [Next]_vars => RepeatsInv'
<1> SUFFICES ASSUME TypeInv, RepeatsInv, [Next]_vars, NEW id \in Ids PROVE Within(id)'
  BY DEF RepeatsInv
<1>t. /\ executed \in [Ids -> Nat] /\ executed[id] \in Nat /\ crashes \in Nat /\ at \in Nat
      /\ Within(id)
  BY DEF TypeInv, TypeOK, RepeatsInv
<1> USE <1>t DEF Within, InThisSession, files, memory
<1>1. ASSUME NEW x \in Ids, Send(x) PROVE Within(id)'
  <2>1. PICK line \in Ids \union {Garbage} : commands' = Append(commands, line)
    BY <1>1, SendAppends DEF TypeInv
  <2>2. pc = "executed" => commands'[at + 1] = commands[at + 1]
    BY <2>1, AppendProperties DEF TypeInv, TypeOK, AtALine
  <2> QED
    BY <1>1, <2>2 DEF Send
<1>2. ASSUME NEW x \in Ids, SendCut(x) PROVE Within(id)'
  BY <1>2 DEF SendCut
<1>3. CASE Start
  BY <1>3 DEF Start
<1>4. CASE Execute
  <2>1. CASE commands[at + 1] = id
    <3>1. at + 1 \in 1..Len(commands)
      BY <1>4 DEF Execute, NextLine, TypeInv, TypeOK
    <3>2. id \notin seen
      BY <1>4, <2>1, <3>1, KeyOfId DEF Execute, TypeInv
    <3>3. executed'[id] = executed[id] + 1
      BY <1>4, <2>1 DEF Execute
    <3> QED
      BY <1>4, <2>1, <3>2, <3>3 DEF Execute, NextLine
  <2>2. CASE commands[at + 1] # id
    <3>1. executed'[id] = executed[id]
      BY <1>4, <2>2 DEF Execute
    <3> QED
      BY <1>4, <2>2, <3>1 DEF Execute, NextLine
  <2> QED
    BY <2>1, <2>2
<1>5. CASE SkipDuplicate
  BY <1>5 DEF SkipDuplicate, NextLine
<1>6. CASE WriteResult
  <2>1. at + 1 \in 1..Len(commands)
    BY <1>6 DEF WriteResult, TypeInv, TypeOK, AtALine
  <2>2. commands[at + 1] = id => Key(at + 1) = id
    BY <2>1, KeyOfId DEF TypeInv
  <2> QED
    BY <1>6, <2>2 DEF WriteResult
<1>7. CASE SaveCursor
  BY <1>7 DEF SaveCursor
<1>8. CASE Crash
  BY <1>8 DEF Crash
<1>9. CASE UNCHANGED vars
  BY <1>9 DEF vars
<1> QED
  BY <1>1, <1>2, <1>3, <1>4, <1>5, <1>6, <1>7, <1>8, <1>9 DEF Next, Poll

(* A cmd_id is executed at most once more than the terminal died: with     *)
(* any file failing, one session executes it at most once                  *)
(* (BridgeCore.mqh:18-34, 72-82).                                          *)
THEOREM RepeatsAreCrashes == Spec => []RepeatsNeedCrashes
<1>1. TypeInv /\ RepeatsInv => RepeatsNeedCrashes
  <2> SUFFICES ASSUME TypeInv, RepeatsInv, NEW id \in Ids PROVE executed[id] <= 1 + crashes
    BY DEF RepeatsNeedCrashes
  <2> QED
    BY DEF RepeatsInv, Within, TypeInv, TypeOK
<1> QED
  BY <1>1, TypeInit, TypeStep, RepeatsInit, RepeatsStep, PTL DEF Spec

(***************************************************************************)
(* Nothing is skipped                                                      *)
(***************************************************************************)
Ran(key) == key \in Ids => executed[key] > 0

NothingSkipped ==
  /\ \A i \in 1..saved : Ran(commands[i])
  /\ \A i \in 1..at : Ran(commands[i])
  /\ \A key \in seen : Ran(key)
  /\ \A k \in 1..Len(results) : Ran(results[k])
  /\ pc # "idle" => Ran(commands[at + 1])

LEMMA SkippedInit == Init => NothingSkipped
BY DEF Init, NothingSkipped

\* What ran, ran: no step takes an execution back.
LEMMA RanStays ==
  ASSUME TypeInv, [Next]_vars, NEW key, Ran(key)
  PROVE  Ran(key)'
<1> SUFFICES ASSUME key \in Ids PROVE executed'[key] > 0
  BY DEF Ran
<1>1. executed[key] \in Nat /\ executed[key] > 0
  BY DEF TypeInv, TypeOK, Ran
<1>2. CASE Execute
  <2>1. executed'[key] \in {executed[key], executed[key] + 1}
    BY <1>2, <1>1 DEF Execute
  <2> QED
    BY <1>1, <2>1
<1>3. CASE executed' = executed
  BY <1>1, <1>3
<1> QED
  BY <1>2, <1>3 DEF Next, Poll, Send, SendCut, Start, SkipDuplicate, WriteResult, SaveCursor,
                    Crash, files, vars

\* Lines are only added to the file.
LEMMA LinesStay ==
  ASSUME TypeInv, [Next]_vars
  PROVE  /\ Len(commands) <= Len(commands')
         /\ \A i \in 1..Len(commands) : commands'[i] = commands[i]
<1>1. ASSUME NEW id \in Ids, Send(id)
      PROVE  /\ Len(commands) <= Len(commands')
             /\ \A i \in 1..Len(commands) : commands'[i] = commands[i]
  <2>1. PICK line \in Ids \union {Garbage} : commands' = Append(commands, line)
    BY <1>1, SendAppends DEF TypeInv
  <2> QED
    BY <2>1, AppendProperties DEF TypeInv, TypeOK
<1>2. CASE commands' = commands
  BY <1>2 DEF TypeInv, TypeOK
<1> QED
  BY <1>1, <1>2 DEF Next, Poll, SendCut, Start, Execute, SkipDuplicate, WriteResult, SaveCursor,
                    Crash, files, vars

\* A key the EA answers is a command that ran, or no command.
LEMMA KeyRan ==
  ASSUME TypeOK, NEW i \in 1..Len(commands), Ran(commands[i])
  PROVE  Ran(Key(i))
<1>1. CASE commands[i] \in Ids
  BY <1>1, KeyOfId
<1>2. CASE commands[i] \notin Ids
  <2>1. Key(i) = i /\ i \in Nat
    BY <1>2, KeyOfId
  <2> QED
    BY <2>1, BridgeAssumption DEF Ran
<1> QED
  BY <1>1, <1>2

\* Dually, a line whose key has an answer ran.
LEMMA LineRan ==
  ASSUME TypeOK, NEW i \in 1..Len(commands), Ran(Key(i))
  PROVE  Ran(commands[i])
BY KeyOfId DEF Ran

LEMMA SkippedStep == TypeInv /\ NothingSkipped /\ [Next]_vars => NothingSkipped'
<1> SUFFICES ASSUME TypeInv, NothingSkipped, [Next]_vars PROVE NothingSkipped'
  OBVIOUS
<1>t. /\ TypeOK /\ AtALine /\ at \in Nat /\ saved \in Nat
      /\ saved <= Len(commands) /\ at <= Len(commands) /\ Len(commands) \in Nat
      /\ pc \in {"idle", "executed", "answered"}
  BY DEF TypeInv, TypeOK
\* Prefixes of the file that ran still do.
<1>p. ASSUME NEW n \in Nat, n <= Len(commands), \A i \in 1..n : Ran(commands[i])
      PROVE  (\A i \in 1..n : Ran(commands[i]))'
  BY <1>p, <1>t, RanStays, LinesStay
<1>s. (\A i \in 1..saved : Ran(commands[i])) /\ (\A i \in 1..at : Ran(commands[i]))
  BY DEF NothingSkipped
\* The line under way, once it ran.
<1>l. pc # "idle" => at + 1 \in 1..Len(commands) /\ Ran(commands[at + 1])
  BY <1>t DEF NothingSkipped, AtALine
<1>1. (\A i \in 1..saved : Ran(commands[i]))'
  <2>1. CASE saved' = saved
    BY <2>1, <1>p, <1>s, <1>t
  <2>2. CASE saved' = 0
    BY <2>2
  <2>3. CASE SaveCursor /\ saved' = at + 1
    <3>1. \A i \in 1..(at + 1) : Ran(commands[i])
      BY <2>3, <1>l, <1>s, <1>t DEF SaveCursor
    <3> QED
      BY <2>3, <3>1, <1>p, <1>l, <1>t DEF SaveCursor
  <2> QED
    BY <2>1, <2>2, <2>3 DEF Next, Poll, Send, SendCut, Start, Execute, SkipDuplicate, WriteResult,
                            SaveCursor, Crash, files, vars
<1>2. (\A i \in 1..at : Ran(commands[i]))'
  <2>1. CASE at' \in {at, saved, 0}
    BY <2>1, <1>p, <1>s, <1>t
  <2>2. CASE SaveCursor
    <3>1. \A i \in 1..(at + 1) : Ran(commands[i])
      BY <2>2, <1>l, <1>s, <1>t DEF SaveCursor
    <3> QED
      BY <2>2, <3>1, <1>p, <1>l, <1>t DEF SaveCursor
  <2> QED
    BY <2>1, <2>2 DEF Next, Poll, Send, SendCut, Start, Execute, SkipDuplicate, WriteResult,
                      Crash, memory, vars
<1>k. (pc = "executed") => Ran(Key(at + 1))
  BY <1>l, <1>t, KeyRan
<1>3. (\A key \in seen : Ran(key))'
  <2> SUFFICES ASSUME NEW key \in seen' PROVE Ran(key)
    BY RanStays
  <2>1. CASE Start
    BY <2>1 DEF Start, NothingSkipped, Answered, Log!Answered
  <2>2. CASE WriteResult
    BY <2>2, <1>k DEF WriteResult, NothingSkipped
  <2>3. CASE seen' \in {seen, {}}
    BY <2>3 DEF NothingSkipped
  <2> QED
    BY <2>1, <2>2, <2>3 DEF Next, Poll, Send, SendCut, Execute, SkipDuplicate, SaveCursor,
                            Crash, memory, vars
<1>4. (\A k \in 1..Len(results) : Ran(results[k]))'
  <2>1. CASE results' = results
    BY <2>1, RanStays DEF NothingSkipped
  <2>2. CASE WriteResult /\ results' = Append(results, Key(at + 1))
    <3>1. /\ at + 1 \in 1..Len(commands)
          /\ Key(at + 1) \in Keys
      BY <2>2, <1>l, <1>t, KeyOfId DEF WriteResult
    <3>2. \A k \in 1..Len(results') : Ran(results'[k])
      BY <2>2, <3>1, <1>k, AppendProperties DEF WriteResult, NothingSkipped, TypeInv, TypeOK
    <3> QED
      BY <3>2, RanStays
  <2> QED
    BY <2>1, <2>2 DEF Next, Poll, Send, SendCut, Start, Execute, SkipDuplicate, WriteResult,
                      SaveCursor, Crash, files, vars
<1>5. (pc # "idle" => Ran(commands[at + 1]))'
  <2>1. CASE Execute
    <3>1. at + 1 \in 1..Len(commands) /\ commands' = commands /\ at' = at
      BY <2>1, <1>t DEF Execute, NextLine, files
    <3>2. commands[at + 1] \in Ids => executed'[commands[at + 1]] > 0
      BY <2>1 DEF Execute, TypeInv, TypeOK
    <3> QED
      BY <3>1, <3>2 DEF Ran
  <2>2. CASE SkipDuplicate
    <3>1. at + 1 \in 1..Len(commands) /\ commands' = commands /\ at' = at
      BY <2>2, <1>t DEF SkipDuplicate, NextLine, files
    <3>2. Ran(Key(at + 1))
      BY <2>2 DEF SkipDuplicate, NothingSkipped
    <3> QED
      BY <3>1, <3>2, <1>t, LineRan, RanStays
  <2>3. CASE pc' = "idle"
    BY <2>3
  <2>4. CASE pc # "idle" /\ at' = at
    BY <2>4, <1>l, LinesStay, RanStays
  <2>5. CASE UNCHANGED memory
    BY <2>3, <2>4, <2>5 DEF memory
  <2> QED
    BY <2>1, <2>2, <2>3, <2>4, <2>5, <1>t DEF Next, Poll, Send, SendCut, Start, WriteResult,
                                        SaveCursor, Crash, memory, vars
<1> QED
  BY <1>1, <1>2, <1>3, <1>4, <1>5 DEF NothingSkipped

(* Every command before the saved offset was executed, whatever was lost   *)
(* and however often the terminal died (BridgeCore.mqh:77-84).             *)
THEOREM NothingIsSkipped == Spec => []NoCommandSkipped
<1>1. TypeInv /\ NothingSkipped => NoCommandSkipped
  BY DEF NothingSkipped, NoCommandSkipped, Ran
<1> QED
  BY <1>1, TypeInit, TypeStep, SkippedInit, SkippedStep, PTL DEF Spec

(***************************************************************************)
(* One result per command, as long as results.jsonl can be read at start   *)
(***************************************************************************)
Distinct == \A i, j \in 1..Len(results) : results[i] = results[j] => i = j

\* A running session remembers every result line there is.
Remembered ==
  /\ up => Answered \subseteq seen
  /\ pc # "idle" => up
  /\ pc = "executed" => Key(at + 1) \notin seen

ResultsInv == Distinct /\ Remembered

LEMMA ResultsInit == Init => ResultsInv
BY DEF Init, ResultsInv, Distinct, Remembered

\* The line under way stays what it is.
LEMMA KeyStays ==
  ASSUME TypeInv, [Next]_vars, NEW i \in 1..Len(commands)
  PROVE  Key(i)' = Key(i) /\ i \in 1..Len(commands')
BY LinesStay DEF TypeInv, TypeOK, Key, Log!Key

\* A result line makes its key answered, and no other.
LEMMA AnsweredAppend ==
  ASSUME TypeOK, NEW key \in Keys, results' = Append(results, key)
  PROVE  Answered' = Answered \union {key}
<1>1. /\ Len(results') = Len(results) + 1 /\ Len(results) \in Nat
      /\ \A k \in 1..Len(results) : results'[k] = results[k]
      /\ results'[Len(results) + 1] = key
  BY AppendProperties DEF TypeOK
<1>2. Answered \union {key} \subseteq Answered'
  BY <1>1 DEF Answered, Log!Answered
<1>3. Answered' \subseteq Answered \union {key}
  <2> SUFFICES ASSUME NEW k \in 1..Len(results') PROVE results'[k] \in Answered \union {key}
    BY DEF Answered, Log!Answered
  <2>1. CASE k \in 1..Len(results)
    BY <1>1, <2>1 DEF Answered, Log!Answered
  <2>2. CASE k = Len(results) + 1
    BY <1>1, <2>2
  <2> QED
    BY <1>1, <2>1, <2>2
<1> QED
  BY <1>2, <1>3

LEMMA ResultsStep ==
  ASSUME "seen" \notin Faults, TypeInv, ResultsInv, [Next]_vars
  PROVE  ResultsInv'
<1>t. /\ TypeOK /\ AtALine /\ at \in Nat /\ Len(commands) \in Nat /\ Len(results) \in Nat
      /\ pc \in {"idle", "executed", "answered"} /\ results \in Seq(Keys)
  BY DEF TypeInv, TypeOK
<1>l. pc # "idle" => at + 1 \in 1..Len(commands)
  BY <1>t DEF AtALine
<1>i. Distinct /\ Remembered
  BY DEF ResultsInv
<1>1. CASE WriteResult
  <2>1. Key(at + 1) \in Keys /\ Key(at + 1) \notin Answered /\ Key(at + 1)' = Key(at + 1)
    BY <1>1, <1>i, <1>l, <1>t, KeyOfId, KeyStays DEF WriteResult, Remembered
  <2>2. CASE results' = Append(results, Key(at + 1))
    <3>1. Answered' = Answered \union {Key(at + 1)}
      BY <2>1, <2>2, <1>t, AnsweredAppend
    <3>2. /\ Len(results') = Len(results) + 1
          /\ \A k \in 1..Len(results) : results'[k] = results[k] /\ results'[k] # Key(at + 1)
          /\ results'[Len(results) + 1] = Key(at + 1)
      BY <2>1, <2>2, <1>t, AppendProperties DEF Answered, Log!Answered
    <3>3. Distinct'
      <4> SUFFICES ASSUME NEW i \in 1..Len(results'), NEW j \in 1..Len(results'),
                          results'[i] = results'[j]
                   PROVE  i = j
        BY DEF Distinct
      <4>1. CASE i \in 1..Len(results) /\ j \in 1..Len(results)
        BY <4>1, <3>2, <1>i DEF Distinct
      <4>2. CASE i = Len(results) + 1 \/ j = Len(results) + 1
        BY <4>2, <3>2, <1>t
      <4> QED
        BY <4>1, <4>2, <3>2, <1>t
    <3>4. Remembered'
      BY <1>1, <1>i, <3>1 DEF WriteResult, Remembered
    <3> QED
      BY <3>3, <3>4 DEF ResultsInv
  <2>3. CASE results' = results
    BY <1>1, <1>i, <2>3 DEF WriteResult, Remembered, ResultsInv, Distinct, Answered, Log!Answered
  <2> QED
    BY <1>1, <2>2, <2>3 DEF WriteResult
<1>2. CASE results' = results /\ ~WriteResult
  <2>1. Distinct' /\ Answered' = Answered
    BY <1>2, <1>i DEF Distinct, Answered, Log!Answered
  <2>2. (up => Answered \subseteq seen)'
    BY <2>1, <1>2, <1>i DEF Remembered, Next, Poll, Send, SendCut, Start, Execute, SkipDuplicate,
                            SaveCursor, Crash, Fails, memory, vars
  <2>3. (pc # "idle" => up)'
    BY <1>2, <1>i DEF Remembered, Next, Poll, Send, SendCut, Start, Execute, SkipDuplicate,
                      SaveCursor, Crash, NextLine, files, memory, vars
  <2>4. (pc = "executed" => Key(at + 1) \notin seen)'
    <3>1. CASE Execute
      <4>1. at + 1 \in 1..Len(commands) /\ at' = at /\ seen' = seen /\ Key(at + 1) \notin seen
        BY <3>1, <1>t DEF Execute, NextLine
      <4> QED
        BY <4>1, KeyStays
    <3>2. CASE UNCHANGED memory
      BY <3>2, <1>l, <1>i, KeyStays DEF memory, Remembered
    <3>3. CASE pc' # "executed"
      BY <3>3
    <3> QED
      BY <1>2, <3>1, <3>2, <3>3 DEF Next, Poll, Send, SendCut, Start, SkipDuplicate, SaveCursor,
                                    Crash, memory, vars
  <2> QED
    BY <2>1, <2>2, <2>3, <2>4 DEF ResultsInv, Remembered
<1> QED
  BY <1>1, <1>2 DEF Next, Poll, Send, SendCut, Start, Execute, SkipDuplicate, SaveCursor, Crash,
                    files, vars

(* While LoadSeen can read results.jsonl, it never holds two lines for one *)
(* cmd_id: lost cursors, failed appends, torn lines, repeated lines and    *)
(* deaths included (BridgeCore.mqh:21-34, 72).                             *)
THEOREM OneResult ==
  ASSUME "seen" \notin Faults
  PROVE  Spec => []OneResultPerCommand
<1>1. ResultsInv => OneResultPerCommand
  BY DEF ResultsInv, Distinct, OneResultPerCommand
<1>2. TypeInv /\ ResultsInv /\ [Next]_vars => ResultsInv'
  BY ResultsStep
<1> QED
  BY <1>1, <1>2, TypeInit, TypeStep, ResultsInit, PTL DEF Spec

(* Nor is a command with a result line executed again (BridgeCore.mqh:72). *)
THEOREM AnswersAreFinal ==
  ASSUME "seen" \notin Faults
  PROVE  Spec => AnsweredIsFinal
<1>1. TypeInv /\ ResultsInv /\ [Next]_vars
        => [\A id \in Ids : id \in Answered => executed'[id] = executed[id]]_vars
  <2> SUFFICES ASSUME TypeInv, ResultsInv, [Next]_vars, NEW id \in Ids, id \in Answered
               PROVE  executed'[id] = executed[id]
    OBVIOUS
  <2>1. CASE Execute
    <3>1. at + 1 \in 1..Len(commands) /\ Key(at + 1) \notin Answered
      BY <2>1 DEF Execute, NextLine, TypeInv, TypeOK, ResultsInv, Remembered
    <3>2. commands[at + 1] # id
      BY <3>1, KeyOfId DEF TypeInv
    <3> QED
      BY <2>1, <3>2 DEF Execute, TypeInv, TypeOK
  <2>2. CASE executed' = executed
    BY <2>2
  <2> QED
    BY <2>1, <2>2 DEF Next, Poll, Send, SendCut, Start, SkipDuplicate, WriteResult, SaveCursor,
                      Crash, vars
<1>2. TypeInv /\ ResultsInv /\ [Next]_vars => ResultsInv'
  BY ResultsStep
<1> QED
  BY <1>1, <1>2, TypeInit, TypeStep, ResultsInit, PTL DEF Spec, AnsweredIsFinal

(***************************************************************************)
(* The EA implements AnswerLog, as long as results.jsonl can be read and   *)
(* written.                                                                *)
(***************************************************************************)

\* What is behind an offset is answered, and the line under way is the next to be.
InOrder ==
  /\ \A i \in 1..saved : Key(i) \in Answered
  /\ \A i \in 1..at : Key(i) \in Answered
  /\ up => seen \subseteq Answered
  /\ pc = "answered" => Key(at + 1) \in Answered

LEMMA InOrderInit == Init => InOrder
BY DEF Init, InOrder

\* An answer is never taken back.
LEMMA AnswersStay ==
  ASSUME TypeInv, [Next]_vars
  PROVE  Answered \subseteq Answered'
<1>1. CASE WriteResult
  <2>1. Key(at + 1) \in Keys
    BY <1>1, KeyOfId DEF WriteResult, TypeInv, TypeOK, AtALine
  <2>2. CASE results' = Append(results, Key(at + 1))
    BY <2>1, <2>2, AnsweredAppend DEF TypeInv
  <2>3. CASE results' = results
    BY <2>3 DEF Answered, Log!Answered
  <2> QED
    BY <1>1, <2>2, <2>3 DEF WriteResult
<1>2. CASE results' = results
  BY <1>2 DEF Answered, Log!Answered
<1> QED
  BY <1>1, <1>2 DEF Next, Poll, Send, SendCut, Start, Execute, SkipDuplicate, SaveCursor, Crash,
                    files, vars

LEMMA InOrderStep ==
  ASSUME "append" \notin Faults, TypeInv, ResultsInv, InOrder, [Next]_vars
  PROVE  InOrder'
<1>t. /\ TypeOK /\ AtALine /\ at \in Nat /\ saved \in Nat /\ Len(commands) \in Nat
      /\ at <= Len(commands) /\ saved <= Len(commands)
      /\ pc \in {"idle", "executed", "answered"}
  BY DEF TypeInv, TypeOK
<1>l. pc # "idle" => at + 1 \in 1..Len(commands)
  BY <1>t DEF AtALine
\* Prefixes of the file that were answered still are.
<1>p. ASSUME NEW n \in Nat, n <= Len(commands), \A i \in 1..n : Key(i) \in Answered
      PROVE  (\A i \in 1..n : Key(i) \in Answered)'
  BY <1>p, <1>t, KeyStays, AnswersStay
<1>n. pc = "answered" => \A i \in 1..(at + 1) : Key(i) \in Answered
  BY <1>t DEF InOrder
<1>1. (\A i \in 1..saved : Key(i) \in Answered)'
  <2>1. CASE saved' = saved
    BY <2>1, <1>p, <1>t DEF InOrder
  <2>2. CASE saved' = 0
    BY <2>2
  <2>3. CASE SaveCursor /\ saved' = at + 1
    BY <2>3, <1>n, <1>p, <1>l, <1>t DEF SaveCursor
  <2> QED
    BY <2>1, <2>2, <2>3 DEF Next, Poll, Send, SendCut, Start, Execute, SkipDuplicate, WriteResult,
                            SaveCursor, Crash, files, vars
<1>2. (\A i \in 1..at : Key(i) \in Answered)'
  <2>1. CASE at' \in {at, saved, 0}
    BY <2>1, <1>p, <1>t DEF InOrder
  <2>2. CASE SaveCursor
    BY <2>2, <1>n, <1>p, <1>l, <1>t DEF SaveCursor
  <2> QED
    BY <2>1, <2>2 DEF Next, Poll, Send, SendCut, Start, Execute, SkipDuplicate, WriteResult,
                      Crash, memory, vars
\* The answer that WriteResult gives.
<1>w. ASSUME WriteResult
      PROVE  /\ Key(at + 1)' = Key(at + 1) /\ at' = at
             /\ Answered' = Answered \union {Key(at + 1)}
  <2>1. Key(at + 1)' = Key(at + 1) /\ Key(at + 1) \in Keys
    BY <1>w, <1>l, <1>t, KeyStays, KeyOfId DEF WriteResult
  <2>2. results' = Append(results, Key(at + 1)) /\ at' = at
    BY <1>w DEF WriteResult, Fails
  <2> QED
    BY <2>1, <2>2, <1>t, AnsweredAppend
<1>3. (up => seen \subseteq Answered)'
  <2>1. CASE WriteResult
    BY <2>1, <1>w DEF WriteResult, InOrder
  <2>2. CASE Start
    <3>1. seen' \subseteq Answered
      BY <2>2 DEF Start
    <3> QED
      BY <3>1, AnswersStay
  <2>3. CASE seen' \in {seen, {}} /\ (up' => up)
    BY <2>3, AnswersStay DEF InOrder
  <2> QED
    BY <2>1, <2>2, <2>3 DEF Next, Poll, Send, SendCut, Execute, SkipDuplicate, SaveCursor, Crash,
                            memory, vars
<1>4. (pc = "answered" => Key(at + 1) \in Answered)'
  <2>1. CASE WriteResult
    BY <2>1, <1>w
  <2>2. CASE SkipDuplicate
    <3>1. /\ at + 1 \in 1..Len(commands) /\ at' = at
          /\ Key(at + 1) \in Answered
      BY <2>2, <1>t DEF SkipDuplicate, NextLine, InOrder
    <3> QED
      BY <3>1, KeyStays, AnswersStay
  <2>3. CASE UNCHANGED memory
    BY <2>3, <1>l, KeyStays, AnswersStay DEF memory, InOrder
  <2>4. CASE pc' # "answered"
    BY <2>4
  <2> QED
    BY <2>1, <2>2, <2>3, <2>4 DEF Next, Poll, Send, SendCut, Start, Execute, SaveCursor, Crash,
                                  memory, vars
<1> QED
  BY <1>1, <1>2, <1>3, <1>4 DEF InOrder

\* A step of the EA or its callers is a step of AnswerLog, or none.
LEMMA StepRefines ==
  ASSUME "append" \notin Faults, TypeInv, ResultsInv, InOrder, [Next]_vars
  PROVE  [Log!Next]_(Log!vars)
<1> USE DEF Log!vars
<1>1. ASSUME NEW id \in Ids, Send(id) PROVE Log!Next
  <2>1. PICK line \in Ids \union {Garbage} : commands' = Append(commands, line)
    BY <1>1, SendAppends DEF TypeInv
  <2>2. Log!Submit(line)
    BY <1>1, <2>1 DEF Send, Log!Submit
  <2> QED
    BY <2>2 DEF Log!Next
<1>2. CASE WriteResult
  <2>1. at + 1 \in 1..Len(commands)
    BY <1>2 DEF WriteResult, TypeInv, TypeOK, AtALine
  <2>2. Key(at + 1) \notin Answered
    BY <1>2 DEF WriteResult, ResultsInv, Remembered
  <2>3. \A j \in 1..((at + 1) - 1) : Key(j) \in Answered
    BY <2>1 DEF InOrder, TypeInv, TypeOK
  <2>4. results' = Append(results, Key(at + 1)) /\ commands' = commands
    BY <1>2 DEF WriteResult, Fails
  <2>5. Log!Answer(at + 1)
    BY <2>2, <2>3, <2>4 DEF Log!Answer, Key, Answered
  <2> QED
    BY <2>1, <2>5 DEF Log!Next
<1>3. CASE UNCHANGED <<commands, results>>
  BY <1>3
<1> QED
  BY <1>1, <1>2, <1>3 DEF Next, Poll, SendCut, Start, Execute, SkipDuplicate, SaveCursor, Crash,
                          files, vars

(* SignalBridge implements AnswerLog: commands are answered in file order, *)
(* each cmd_id once and none passed over, through deaths, lost cursors and *)
(* torn or repeated lines (BridgeCore.mqh:52-88).                          *)
THEOREM Implements ==
  ASSUME "append" \notin Faults, "seen" \notin Faults
  PROVE  Spec => AnswersInOrder
<1>1. Init => Log!Init
  BY DEF Init, Log!Init
<1>2. TypeInv /\ ResultsInv /\ InOrder /\ [Next]_vars => ResultsInv' /\ InOrder'
  BY ResultsStep, InOrderStep
<1>3. TypeInv /\ ResultsInv /\ InOrder /\ [Next]_vars => [Log!Next]_(Log!vars)
  BY StepRefines
<1> QED
  BY <1>1, <1>2, <1>3, TypeInit, TypeStep, ResultsInit, InOrderInit, PTL
     DEF Spec, AnswersInOrder, Log!Spec
=============================================================================
