--------------------------- MODULE CommandContract ---------------------------
(***************************************************************************)
(* What executeCommand promises its caller, without timers, sockets or     *)
(* policies: the handler of a call runs at most once, the call settles at  *)
(* most once, and it resolves only when its handler has run.               *)
(***************************************************************************)
EXTENDS Naturals

CONSTANT Calls     \* calls of executeCommand

VARIABLES
  outcome,   \* call -> how it settled
  runs       \* call -> runs of its handler

vars == <<outcome, runs>>

Init ==
  /\ outcome = [k \in Calls |-> "none"]
  /\ runs = [k \in Calls |-> 0]

\* The handler of a call runs, perhaps after its caller gave up.
Run(k) ==
  /\ runs[k] = 0
  /\ runs' = [runs EXCEPT ![k] = 1]
  /\ UNCHANGED outcome

Resolve(k) ==
  /\ outcome[k] = "none"
  /\ runs[k] = 1
  /\ outcome' = [outcome EXCEPT ![k] = "resolved"]
  /\ UNCHANGED runs

\* A refusal, a failure, a timeout or an abort: the handler may have run, run
\* later, or never run.
Reject(k) ==
  /\ outcome[k] = "none"
  /\ outcome' = [outcome EXCEPT ![k] = "rejected"]
  /\ UNCHANGED runs

Next == \E k \in Calls : Run(k) \/ Resolve(k) \/ Reject(k)

Spec == Init /\ [][Next]_vars
=============================================================================
