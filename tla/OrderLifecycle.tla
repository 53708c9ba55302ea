--------------------------- MODULE OrderLifecycle ---------------------------
(***************************************************************************)
(* What the backend promises about one order of a phone probe, without     *)
(* times, devices, reasons or the HTTP calls behind it: the contract of    *)
(* docs/CONTRATO-SONDA-AB.md sections 1.4 and 6.3 as one small automaton   *)
(* per order.                                                              *)
(*                                                                         *)
(*   none -> waiting -> running -> closed            (reported by the      *)
(*              |          |                          phone: hard final)   *)
(*              +----------+-----> soft               (swept: soft final)  *)
(*              +----------+-----> cancelled          (by somebody else)   *)
(*                                                                         *)
(* A speed test leaves "soft" only by its own measurement and never leaves *)
(* "cancelled"; a reboot may be taken up again from both by the phone.     *)
(* PhoneOrders implements it: PhoneOrdersProofs proves the refinement.     *)
(***************************************************************************)
CONSTANTS OrderIds, ResultIds, None

VARIABLES kind,   \* kind[o]: what the order asks for, "none" before it exists
          phase,  \* phase[o]: where the order is in its life
          link    \* link[o]: the result the order was closed with, or None

vars == <<kind, phase, link>>

Phases == {"none", "waiting", "running", "soft", "cancelled", "closed"}

Init == /\ kind  = [o \in OrderIds |-> "none"]
        /\ phase = [o \in OrderIds |-> "none"]
        /\ link  = [o \in OrderIds |-> None]

Moves(o, from, to) == phase[o] \in from /\ phase'[o] = to

Create(o) == /\ Moves(o, {"none"}, "waiting")
             /\ kind'[o] \in {"run_speedtest", "reboot_router"}
             /\ link'[o] = None

\* Taken by the phone; a reboot also after the server or the dashboard closed it.
Start(o) == /\ \/ Moves(o, {"waiting"}, "running")
               \/ kind[o] = "reboot_router" /\ Moves(o, {"soft", "cancelled"}, "running")
            /\ kind'[o] = kind[o] /\ link'[o] = link[o]

GiveUp(o) == /\ \/ Moves(o, {"waiting", "running"}, "soft")
                \/ Moves(o, {"waiting", "running"}, "cancelled")
             /\ kind'[o] = kind[o] /\ link'[o] = link[o]

\* Closed by the phone without a measurement.
Report(o) == /\ \/ Moves(o, {"waiting", "running"}, "closed")
                \/ kind[o] = "reboot_router" /\ Moves(o, {"soft", "cancelled"}, "closed")
             /\ kind'[o] = kind[o] /\ link'[o] = link[o]

\* Closed by the measurement the phone uploaded.
Measure(o) == /\ kind[o] = "run_speedtest"
              /\ Moves(o, {"waiting", "running", "soft"}, "closed")
              /\ kind'[o] = kind[o]
              /\ link[o] = None /\ link'[o] \in ResultIds

Same(o) == kind'[o] = kind[o] /\ phase'[o] = phase[o] /\ link'[o] = link[o]

\* One transaction of the backend may move several orders at once (a batch,
\* a sweep, a cancellation), each along its own automaton.
Next == /\ \A o \in OrderIds : \/ Create(o) \/ Start(o) \/ GiveUp(o)
                               \/ Report(o) \/ Measure(o) \/ Same(o)
        /\ \A o, p \in OrderIds : link'[o] = link'[p] /\ link'[o] # None => o = p

Spec == Init /\ [][Next]_vars
=============================================================================
