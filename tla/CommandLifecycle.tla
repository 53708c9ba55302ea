-------------------------- MODULE CommandLifecycle --------------------------
(***************************************************************************)
(* What the backend promises about one command of the queue, without the   *)
(* statements of SQL, the mutex, the cycles and the executions behind it:  *)
(*                                                                         *)
(*   none -> pending -> claimed -> done | failed                           *)
(*                       |   ^                                             *)
(*                       +---+  claimed again, or a completion cut halfway *)
(*                                                                         *)
(* It is closed once, only after it was claimed, and whatever is claimed,  *)
(* reported or repeated later leaves its outcome and its measurements as   *)
(* they are.  CommandQueue implements it: CommandQueueProofs proves the    *)
(* refinement.                                                             *)
(***************************************************************************)
EXTENDS Naturals

CONSTANT Commands

VARIABLES phase,    \* phase[c]: where the command is in its life
          results,  \* results[c]: its measurements, one per completion that brings one
          cuts      \* cuts[c]: its completions that were cut before they closed it

vars == <<phase, results, cuts>>

Init == /\ phase   = [c \in Commands |-> "none"]
        /\ results = [c \in Commands |-> 0]
        /\ cuts    = [c \in Commands |-> 0]

Create(c) == /\ phase[c] = "none"
             /\ phase' = [phase EXCEPT ![c] = "pending"]
             /\ UNCHANGED <<results, cuts>>

Claim(c) == /\ phase[c] = "pending"
            /\ phase' = [phase EXCEPT ![c] = "claimed"]
            /\ UNCHANGED <<results, cuts>>

\* At most one measurement, whatever the outcome that is reported.
Reported(c) == results' \in {results, [results EXCEPT ![c] = @ + 1]}

Complete(c) == /\ phase[c] = "claimed"
               /\ \E outcome \in {"done", "failed"} :
                    phase' = [phase EXCEPT ![c] = outcome]
               /\ Reported(c)
               /\ UNCHANGED cuts

\* The measurement may be in the database already; the command is not closed.
Cut(c) == /\ phase[c] = "claimed"
          /\ cuts' = [cuts EXCEPT ![c] = @ + 1]
          /\ Reported(c)
          /\ UNCHANGED phase

Next == \E c \in Commands : Create(c) \/ Claim(c) \/ Complete(c) \/ Cut(c)

Spec == Init /\ [][Next]_vars
=============================================================================
