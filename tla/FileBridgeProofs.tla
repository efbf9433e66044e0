---------------------------- MODULE FileBridgeProofs ----------------------------
(***************************************************************************)
(* A service in front of the SignalBridge EA, for any number of deaths of  *)
(* either and whatever files fail.                                         *)
(***************************************************************************)
EXTENDS FileBridge, SignalBridgeProofs

(* The service only reads results.jsonl, so whatever is proved of the EA   *)
(* holds with it (bridge.py:121-143).                                      *)
THEOREM CallerChangesNothing == CallerSpec => Spec
<1>1. [CallerNext]_allVars => [Next]_vars
  BY DEF CallerNext, allVars
<1>2. CallerInit => Init
  BY DEF CallerInit
<1> QED
  BY <1>1, <1>2, PTL DEF CallerSpec, Spec

\* The offsets of the store, the process and its work, in this order within the file.
OffsetsInOrder ==
  /\ kept \in Nat /\ acted \in Nat /\ offset \in Nat
  /\ kept <= acted /\ acted <= offset /\ offset <= Len(results)
  /\ 1..acted \subseteq applied

\* The EA only appends to results.jsonl.
LEMMA ResultsGrow ==
  ASSUME TypeOK, [Next]_vars
  PROVE  Len(results') >= Len(results) /\ Len(results') \in Nat
<1>1. results \in Seq(Keys) /\ Len(results) \in Nat
  BY DEF TypeOK
<1>2. results' = results \/ results' = Append(results, Key(at + 1))
  BY DEF Next, Send, SendCut, Start, Poll, Execute, SkipDuplicate, WriteResult, SaveCursor, Crash, files, vars, memory
<1>3. Len(Append(results, Key(at + 1))) = Len(results) + 1
  BY <1>1
<1> QED
  BY <1>1, <1>2, <1>3

LEMMA OffsetsStep ==
  ASSUME TypeOK, OffsetsInOrder, [CallerNext]_allVars
  PROVE  OffsetsInOrder'
<1>1. CASE [Next]_vars /\ UNCHANGED caller
  <2>1. Len(results') >= Len(results) /\ Len(results') \in Nat
    BY <1>1, ResultsGrow
  <2>2. Len(results) \in Nat
    BY DEF TypeOK
  <2> QED
    BY <1>1, <2>1, <2>2 DEF OffsetsInOrder, caller
<1>2. CASE (Service \/ RestartService) /\ UNCHANGED vars
  <2>1. results' = results /\ Len(results) \in Nat
    BY <1>2 DEF vars, files, TypeOK
  <2>2. CASE ReadResults
    BY <2>1, <2>2 DEF ReadResults, OffsetsInOrder
  <2>3. CASE ActOnResult
    <3>1. 1..(acted + 1) = (1..acted) \union {acted + 1}
      BY DEF OffsetsInOrder
    <3> QED
      BY <2>1, <2>3, <3>1 DEF ActOnResult, OffsetsInOrder
  <2>4. CASE PersistOffset
    BY <2>1, <2>4 DEF PersistOffset, OffsetsInOrder
  <2>5. CASE RestartService
    BY <2>1, <2>5 DEF RestartService, OffsetsInOrder
  <2> QED
    BY <1>2, <2>2, <2>3, <2>4, <2>5 DEF Service
<1> QED
  BY <1>1, <1>2 DEF CallerNext, allVars

(* The offset the service saves never passes an answer it did not act on,  *)
(* whichever process dies between which steps (cli.py:39-42, 322-329).     *)
THEOREM NothingPassedOver == CallerSpec => []NoAnswerSkipped
<1>1. CallerSpec => []TypeOK
  BY CallerChangesNothing, TypeCorrect, PTL
<1>2. CallerInit => OffsetsInOrder
  BY DEF Init, CallerInit, OffsetsInOrder
<1>3. TypeOK /\ OffsetsInOrder /\ [CallerNext]_allVars => OffsetsInOrder'
  BY OffsetsStep
<1>4. TypeOK /\ OffsetsInOrder => NoAnswerSkipped
  BY DEF TypeOK, OffsetsInOrder, NoAnswerSkipped
<1> QED
  BY <1>1, <1>2, <1>3, <1>4, PTL DEF CallerSpec
===============================================================================
