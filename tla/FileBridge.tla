------------------------------ MODULE FileBridge ------------------------------
(***************************************************************************)
(* A caller of the SignalBridge EA: the service of cli.py, which in every  *)
(* tick reads what FileBridge.read_results has not returned yet, acts on   *)
(* one answer after the other, and saves its offset into results.jsonl     *)
(* when all of them are acted on.  What it does with an answer is in       *)
(* SignalRun and Mirror, which both assume what is shown here.             *)
(*                                                                         *)
(* Offsets count complete lines; an unfinished one stays for the next      *)
(* tick.                                                                   *)
(***************************************************************************)
EXTENDS SignalBridge

CONSTANT MaxDeaths    \* bound: deaths of the service

ASSUME FileBridgeAssumption == MaxDeaths \in Nat

VARIABLES
  kept,       \* results_offset in the store
  offset,     \* results_offset of this process
  acted,      \* lines up to this one are acted on in this process
  applied,    \* history: the lines some process has acted on
  deaths      \* history: deaths of the service so far

caller == <<kept, offset, acted, applied, deaths>>
allVars == <<vars, caller>>

CallerInit ==
  /\ Init
  /\ kept = 0 /\ offset = 0 /\ acted = 0
  /\ applied = {} /\ deaths = 0

\* read_results, once per tick.
ReadResults ==
  /\ acted = offset /\ kept = offset
  /\ offset < Len(results) /\ offset' = Len(results)
  /\ UNCHANGED <<kept, acted, applied, deaths>>

\* apply_results and save_run, _apply_results: an answer is acted on when its row is saved.
ActOnResult ==
  /\ acted < offset
  /\ acted' = acted + 1
  /\ applied' = applied \union {acted + 1}
  /\ UNCHANGED <<kept, offset, deaths>>

\* Mutant: the offset is saved when the lines are read.
PersistAtOnce ==
  /\ kept < offset
  /\ kept' = offset
  /\ UNCHANGED <<offset, acted, applied, deaths>>

\* _persist_offsets, at the end of a tick.
PersistOffset ==
  /\ acted = offset /\ kept < offset
  /\ kept' = offset
  /\ UNCHANGED <<offset, acted, applied, deaths>>

\* The service dies; the next one starts at the offset that was saved.
RestartService ==
  /\ deaths < MaxDeaths /\ deaths' = deaths + 1
  /\ offset' = kept /\ acted' = kept
  /\ UNCHANGED <<kept, applied>>

Service == ReadResults \/ ActOnResult \/ PersistOffset

CallerNext ==
  \/ Next /\ UNCHANGED caller
  \/ (Service \/ RestartService) /\ UNCHANGED vars

CallerSpec == CallerInit /\ [][CallerNext]_allVars

\* The terminal restarts the EA and its timer keeps calling Poll; the service is restarted when it dies,
\* and keeps ticking.
CallerFairSpec ==
  /\ CallerSpec
  /\ WF_allVars(Start /\ UNCHANGED caller) /\ WF_allVars(Poll /\ UNCHANGED caller)
  /\ WF_allVars(Service /\ UNCHANGED vars)

(***************************************************************************)
(* Properties                                                              *)
(***************************************************************************)
(* The saved offset never moves past an answer nobody acted on, whichever  *)
(* process dies between which steps (cli.py:38-41, 326-329).               *)
NoAnswerSkipped == kept <= Len(results) /\ 1..kept \subseteq applied

(* A caller that keeps ticking acts on the answer to every command line in *)
(* the end: no restart of either side, lost cursor or repeated cmd_id      *)
(* leaves it waiting, as long as results.jsonl can be written.             *)
EveryLineActedOn ==
  \A i \in 1..MaxLines :
    (i <= Len(commands)) ~> (i <= Len(commands) /\ \E k \in applied : results[k] = Key(i))
===============================================================================
