---------------------------- MODULE CommandQueue ----------------------------
(***************************************************************************)
(* The queue of commands that the routers (runner 'agent') and the script  *)
(* of a probe (runner 'probe') come to fetch: rows of `commands` created   *)
(* one by one or by the test cycle of the probe, claimed, executed and     *)
(* completed with a measurement (server/internal/store/store.go and        *)
(* probes.go; cmd/routeragent).  None of these operations of the store is  *)
(* a transaction: every action below is one statement of SQL, and the      *)
(* statements of two requests mix.                                         *)
(*                                                                         *)
(* Abstractions: one probe, always enabled and online, whose targets are   *)
(* the devices; a time is the age it has, counted up to the threshold it   *)
(* is compared with; a measurement is one more row for its command.        *)
(***************************************************************************)
EXTENDS Naturals, FiniteSets

CONSTANTS
  Commands,          \* the ids of the rows, given in increasing order
  Runs,              \* executions of the agent, or of the script, at a time
  Devices,           \* the routers
  Probe,             \* the script of the probe, as one who claims
  Cyclers,           \* those who ask for cycles of the probe
  Scheduler,         \* probeSchedulerLoop, when it is one of them
  Asked,             \* the runners POST /commands asks for
  None,
  StaleClaimAfter,   \* staleClaimAfter
  Interval,          \* interval_s of the probe
  MaxFailures,       \* bound: completions that fail halfway
  MaxDeaths          \* bound: executions that die

ASSUME QueueAssumption == /\ Commands \subseteq Nat
                          /\ Asked \subseteq {"agent", "probe"}
                          /\ None \notin Commands \cup Runs
                          /\ StaleClaimAfter \in Nat
                          /\ Interval \in Nat
                          /\ MaxFailures \in Nat
                          /\ MaxDeaths \in Nat

VARIABLES
  commands,    \* the command with each id (status "none": no row yet)
  measured,    \* how many measurements were inserted for each command
  runs,        \* where each execution is
  lock,        \* who holds completeMu
  cycles,      \* where each cycle is
  sinceCycle,  \* how long ago last_cycle_at is
  failures,    \* completions of each command cut before their UPDATE
  deaths

vars == <<commands, measured, runs, lock, cycles, sinceCycle, failures, deaths>>

Closed == {"done", "failed"}

Command == [status: {"none", "pending", "claimed"} \cup Closed,
            runner: {"none", "agent", "probe"},
            device: Devices \cup {None},
            age: Nat]          \* since claimed_at, while it is claimed

NoCommand == [status |-> "none", runner |-> "none", device |-> None, age |-> 0]

Run     == [stage: {"idle", "selected", "running", "checked", "inserted"},
            command: Commands \cup {None}]
IdleRun == [stage |-> "idle", command |-> None]

Cycle     == [stage: {"idle", "counting", "clear"}, left: SUBSET Devices, device: Devices \cup {None}]
IdleCycle == [stage |-> "idle", left |-> {}, device |-> None]

TypeOK == /\ commands \in [Commands -> Command]
          /\ measured \in [Commands -> Nat]
          /\ runs \in [Runs -> Run]
          /\ lock \in Runs \cup {None}
          /\ cycles \in [Cyclers -> Cycle]
          /\ sinceCycle \in Nat
          /\ failures \in [Commands -> Nat]
          /\ deaths \in Nat

Init == /\ commands = [c \in Commands |-> NoCommand]
        /\ measured = [c \in Commands |-> 0]
        /\ runs = [r \in Runs |-> IdleRun]
        /\ lock = None
        /\ cycles = [k \in Cyclers |-> IdleCycle]
        /\ sinceCycle = Interval
        /\ failures = [c \in Commands |-> 0]
        /\ deaths = 0

-----------------------------------------------------------------------------
(* Creating commands                                                       *)

\* The next id of the table.
NextId(c) ==
  /\ commands[c].status = "none"
  /\ \A b \in Commands : commands[b].status = "none" => c <= b

Inserted(runner, device) ==
  [NoCommand EXCEPT !.status = "pending", !.runner = runner, !.device = device]

CreateCommand(c, runner, device) ==
  /\ NextId(c)
  /\ commands' = [commands EXCEPT ![c] = Inserted(runner, device)]
  /\ UNCHANGED <<measured, runs, lock, cycles, sinceCycle, failures, deaths>>

\* What a cycle counts: a claim that went stale is not open.
OpenOfProbe(c) ==
  /\ commands[c].runner = "probe"
  /\ \/ commands[c].status = "pending"
     \/ commands[c].status = "claimed" /\ commands[c].age <= StaleClaimAfter

\* EnqueueDueProbeCycles looks at the whole probe before it asks for a cycle;
\* POST /probes/{id}/cycle does not.
StartCycle(k) ==
  /\ cycles[k].stage = "idle"
  /\ k = Scheduler => sinceCycle = Interval /\ \A c \in Commands : ~OpenOfProbe(c)
  /\ cycles' = [cycles EXCEPT ![k] = [IdleCycle EXCEPT !.stage = "counting", !.left = Devices]]
  /\ UNCHANGED <<commands, measured, runs, lock, sinceCycle, failures, deaths>>

\* The SELECT COUNT of a device: one with an open command is skipped.
Counted(k, d) ==
  /\ cycles[k].stage = "counting" /\ d \in cycles[k].left
  /\ cycles' = IF \E c \in Commands : OpenOfProbe(c) /\ commands[c].device = d
               THEN [cycles EXCEPT ![k].left = @ \ {d}]
               ELSE [cycles EXCEPT ![k] = [stage |-> "clear", left |-> @.left \ {d}, device |-> d]]
  /\ UNCHANGED <<commands, measured, runs, lock, sinceCycle, failures, deaths>>

\* Its INSERT, another statement, with nothing to stop a second one in between.
Enqueued(k, c) ==
  /\ cycles[k].stage = "clear"
  /\ NextId(c)
  /\ commands' = [commands EXCEPT ![c] = Inserted("probe", cycles[k].device)]
  /\ cycles' = [cycles EXCEPT ![k].stage = "counting", ![k].device = None]
  /\ UNCHANGED <<measured, runs, lock, sinceCycle, failures, deaths>>

EndCycle(k) ==
  /\ cycles[k].stage = "counting" /\ cycles[k].left = {}
  /\ cycles' = [cycles EXCEPT ![k] = IdleCycle]
  /\ sinceCycle' = 0
  /\ UNCHANGED <<commands, measured, runs, lock, failures, deaths>>

-----------------------------------------------------------------------------
(* Claiming them                                                           *)

Offered_PendingOnly(c) == commands[c].status = "pending"

\* Pending, or claimed so long ago that it was abandoned.
Offered(c) ==
  \/ commands[c].status = "pending"
  \/ commands[c].status = "claimed" /\ commands[c].age > StaleClaimAfter

\* ClaimNextCommand of a device, ClaimNextProbeCommand of the probe.
For(c, who) == IF who = Probe THEN commands[c].runner = "probe"
               ELSE commands[c].runner = "agent" /\ commands[c].device = who

\* The SELECT of claimWhere: the oldest one.
Select(r, who) ==
  /\ runs[r].stage = "idle"
  /\ \E c \in Commands :
       /\ Offered(c) /\ For(c, who)
       /\ \A b \in Commands : Offered(b) /\ For(b, who) => c <= b
       /\ runs' = [runs EXCEPT ![r] = [stage |-> "selected", command |-> c]]
  /\ UNCHANGED <<commands, measured, lock, cycles, sinceCycle, failures, deaths>>

Mark_NoTime(r) ==
  /\ runs[r].stage = "selected"
  /\ commands' = [commands EXCEPT ![runs[r].command].status = "claimed",
                                  ![runs[r].command].age = None]
  /\ runs' = [runs EXCEPT ![r].stage = "running"]
  /\ UNCHANGED <<measured, lock, cycles, sinceCycle, failures, deaths>>

Mark_Unguarded(r) ==
  /\ runs[r].stage = "selected"
  /\ commands' = [commands EXCEPT ![runs[r].command].status = "claimed",
                                  ![runs[r].command].age = 0]
  /\ runs' = [runs EXCEPT ![r].stage = "running"]
  /\ UNCHANGED <<measured, lock, cycles, sinceCycle, failures, deaths>>

\* Its UPDATE leaves alone a command closed meanwhile; nobody looks at how many
\* rows it changed, and the command is handed out all the same.
Mark(r) ==
  LET c == runs[r].command IN
  /\ runs[r].stage = "selected"
  /\ commands' = IF commands[c].status \in {"pending", "claimed"}
                 THEN [commands EXCEPT ![c].status = "claimed", ![c].age = 0]
                 ELSE commands
  /\ runs' = [runs EXCEPT ![r].stage = "running"]
  /\ UNCHANGED <<measured, lock, cycles, sinceCycle, failures, deaths>>

-----------------------------------------------------------------------------
(* Completing them                                                         *)

Check_NoLock(r) ==
  /\ runs[r].stage = "running"
  /\ IF commands[runs[r].command].status \in Closed
     THEN runs' = [runs EXCEPT ![r] = IdleRun]
     ELSE runs' = [runs EXCEPT ![r].stage = "checked"]
  /\ UNCHANGED <<commands, measured, lock, cycles, sinceCycle, failures, deaths>>

\* CompleteCommand takes completeMu and reads the command: a closed one is
\* answered "ignored".
Check(r) ==
  /\ runs[r].stage = "running"
  /\ lock = None
  /\ IF commands[runs[r].command].status \in Closed
     THEN /\ runs' = [runs EXCEPT ![r] = IdleRun]
          /\ UNCHANGED lock
     ELSE /\ runs' = [runs EXCEPT ![r].stage = "checked"]
          /\ lock' = r
  /\ UNCHANGED <<commands, measured, cycles, sinceCycle, failures, deaths>>

\* The measurement, if the report brings one.
Measure(r) ==
  /\ runs[r].stage = "checked"
  /\ measured' = [measured EXCEPT ![runs[r].command] = @ + 1]
  /\ runs' = [runs EXCEPT ![r].stage = "inserted"]
  /\ UNCHANGED <<commands, lock, cycles, sinceCycle, failures, deaths>>

\* Its last statement; the answer may be lost, and then the report is repeated.
Close(r, status) ==
  /\ runs[r].stage \in {"checked", "inserted"}
  /\ commands' = [commands EXCEPT ![runs[r].command].status = status,
                                  ![runs[r].command].age = 0]
  /\ \/ runs' = [runs EXCEPT ![r] = IdleRun]
     \/ runs' = [runs EXCEPT ![r].stage = "running"]
  /\ lock' = None
  /\ UNCHANGED <<measured, cycles, sinceCycle, failures, deaths>>

\* The client went away or the 10 s are over: the statement that comes next
\* fails and the handler ends; the client may report again.
CompleteFails(r) ==
  /\ runs[r].stage \in {"checked", "inserted"}
  /\ failures[runs[r].command] < MaxFailures
  /\ failures' = [failures EXCEPT ![runs[r].command] = @ + 1]
  /\ runs' = [runs EXCEPT ![r].stage = "running"]
  /\ lock' = None
  /\ UNCHANGED <<commands, measured, cycles, sinceCycle, deaths>>

\* The answer to the claim is lost, or the router goes down during the test.
Die(r) ==
  /\ runs[r].stage \in {"selected", "running"}
  /\ deaths < MaxDeaths
  /\ deaths' = deaths + 1
  /\ runs' = [runs EXCEPT ![r] = IdleRun]
  /\ UNCHANGED <<commands, measured, lock, cycles, sinceCycle, failures>>

Older(age, threshold) == IF age < threshold THEN age + 1 ELSE age

Tick ==
  /\ commands' = [c \in Commands |->
       IF commands[c].status = "claimed"
       THEN [commands[c] EXCEPT !.age = Older(@, StaleClaimAfter + 1)]
       ELSE commands[c]]
  /\ sinceCycle' = Older(sinceCycle, Interval)
  /\ UNCHANGED <<measured, runs, lock, cycles, failures, deaths>>

-----------------------------------------------------------------------------
Next ==
  \/ \E c \in Commands, d \in Devices, runner \in Asked : CreateCommand(c, runner, d)
  \/ \E k \in Cyclers :
       \/ StartCycle(k) \/ EndCycle(k)
       \/ \E d \in Devices : Counted(k, d)
       \/ \E c \in Commands : Enqueued(k, c)
  \/ \E r \in Runs :
       \/ \E who \in Devices \cup {Probe} : Select(r, who)
       \/ Mark(r) \/ Check(r) \/ Measure(r) \/ CompleteFails(r) \/ Die(r)
       \/ \E status \in Closed : Close(r, status)
  \/ Tick

\* Time passes, the routers and the script ask for commands again and again, an
\* execution goes on, a handler ends, and completeMu lets everybody in.
Fairness ==
  /\ WF_vars(Tick)
  /\ \A who \in Devices \cup {Probe} : WF_vars(\E r \in Runs : Select(r, who))
  /\ \A r \in Runs : /\ WF_vars(Mark(r))
                     /\ SF_vars(Check(r))
                     /\ WF_vars(Measure(r) \/ \E status \in Closed : Close(r, status))

Spec     == Init /\ [][Next]_vars
LiveSpec == Spec /\ Fairness

-----------------------------------------------------------------------------
(* What makes the queue correct                                            *)

\* A command is measured once, and at most once more for every completion that
\* was cut before it closed it (its INSERT may have been the statement that
\* failed): two reports of the same execution, or of two that were given the same
\* command, do not duplicate.
MeasuredOnce == \A c \in Commands : measured[c] <= 1 + failures[c]

\* What was inserted for a command and its completion has not closed yet.
InHand(c) == \E r \in Runs : runs[r].stage = "inserted" /\ runs[r].command = c

Abs == INSTANCE CommandLifecycle WITH
  phase   <- [c \in Commands |-> commands[c].status],
  results <- [c \in Commands |-> IF InHand(c) THEN measured[c] - 1 ELSE measured[c]],
  cuts    <- failures

\* Every command lives the life of CommandLifecycle: it is closed once, by one
\* who was given it, and neither a claim that selected it before and marks it
\* after, nor a second report, reopens it or changes its outcome or measurements.
ImplementsCommandLifecycle == Abs!Spec

\* "en vez de quedar bloqueado para siempre" (store.go:1363): what was claimed
\* and abandoned is offered again, so that every command is closed some time.
NoneBlocked ==
  \A c \in Commands :
    (commands[c].status \in {"pending", "claimed"}) ~> (commands[c].status \in Closed)

\* "no hay carrera real entre selección y marcado" (store.go:1370): a command is
\* marked only if it is still on offer.
ClaimsAreExclusive ==
  [][\A r \in Runs : Mark(r) => Offered(runs[r].command)]_vars

\* "pedir dos ciclos seguidos no duplica pruebas" (probes.go:501): a cycle never
\* puts a test of a router behind one that waits for the script already.
Waits(c, device) == /\ commands[c].status = "pending"
                    /\ commands[c].runner = "probe"
                    /\ commands[c].device = device

CyclesDoNotDuplicate ==
  [][\A k \in Cyclers, c \in Commands : Enqueued(k, c) =>
       \A b \in Commands : ~Waits(b, cycles[k].device)]_vars
=============================================================================
