------------------------ MODULE CommandQueueProofs ------------------------
(***************************************************************************)
(* What holds of the queue for any number of commands, executions, routers *)
(* and cycles: the mutex that CompleteCommand holds and the status it reads *)
(* under it are enough to measure a command once, however many were given  *)
(* it, and no claim reopens it.                                            *)
(***************************************************************************)
EXTENDS CommandQueue, TLAPS

Completing(r) == runs[r].stage \in {"checked", "inserted"}

\* An execution holds a command that was created, and once it was given to it
\* one that was claimed; the one that completes holds completeMu, and its command
\* is open until it closes it.
Holds == \A r \in Runs :
           /\ runs[r].stage # "idle" =>
                /\ runs[r].command \in Commands
                /\ commands[runs[r].command].status # "none"
           /\ runs[r].stage \notin {"idle", "selected"} =>
                commands[runs[r].command].status \in {"claimed"} \cup Closed
           /\ Completing(r) =>
                /\ lock = r
                /\ commands[runs[r].command].status \notin Closed

\* An open command has no measurement but those of the cuts, and the one in hand.
Counts == \A c \in Commands :
            /\ measured[c] <= 1 + failures[c]
            /\ commands[c].status \notin Closed /\ ~InHand(c) => measured[c] <= failures[c]

QueueInv == TypeOK /\ Holds /\ Counts

-----------------------------------------------------------------------------
LEMMA InitQueue == ASSUME QueueAssumption, Init PROVE QueueInv
<1> USE DEF QueueAssumption, Init
<1>1. TypeOK
  BY DEF TypeOK, Command, NoCommand, Run, IdleRun, Cycle, IdleCycle, Closed
<1>2. Holds
  BY DEF Holds, Completing, IdleRun
<1>3. Counts
  BY DEF Counts
<1>. QED  BY <1>1, <1>2, <1>3 DEF QueueInv

\* The type invariant is kept by every action.
LEMMA StepTypeOK == ASSUME QueueAssumption, TypeOK, Holds, [Next]_vars PROVE TypeOK'
<1> USE DEF QueueAssumption, TypeOK
<1>1. ASSUME NEW c \in Commands, NEW d \in Devices, NEW runner \in Asked, CreateCommand(c, runner, d)
      PROVE  TypeOK'
  <2>1. Inserted(runner, d) \in Command
    BY DEF Inserted, NoCommand, Command, Closed
  <2>. QED  BY <1>1, <2>1 DEF CreateCommand
<1>2. ASSUME NEW k \in Cyclers, StartCycle(k) PROVE TypeOK'
  <2>1. [IdleCycle EXCEPT !.stage = "counting", !.left = Devices] \in Cycle
    BY DEF IdleCycle, Cycle
  <2>. QED  BY <1>2, <2>1 DEF StartCycle
<1>3. ASSUME NEW k \in Cyclers, EndCycle(k) PROVE TypeOK'
  BY <1>3 DEF EndCycle, Cycle, IdleCycle
<1>4. ASSUME NEW k \in Cyclers, NEW d \in Devices, Counted(k, d) PROVE TypeOK'
  <2>1. cycles[k] \in Cycle /\ cycles[k].left \ {d} \in SUBSET Devices
    BY DEF Cycle
  <2>2. /\ [cycles[k] EXCEPT !.left = @ \ {d}] \in Cycle
        /\ [stage |-> "clear", left |-> cycles[k].left \ {d}, device |-> d] \in Cycle
    BY <2>1 DEF Cycle
  <2>3. cycles' \in [Cyclers -> Cycle]
    BY <1>4, <2>2 DEF Counted
  <2>. QED  BY <1>4, <2>3 DEF Counted
<1>5. ASSUME NEW k \in Cyclers, NEW c \in Commands, Enqueued(k, c) PROVE TypeOK'
  <2>1. Inserted("probe", cycles[k].device) \in Command
    BY DEF Inserted, NoCommand, Command, Closed, Cycle
  <2>2. [cycles[k] EXCEPT !.stage = "counting", !.device = None] \in Cycle
    BY DEF Cycle
  <2>3. cycles' \in [Cyclers -> Cycle]
    BY <1>5, <2>2 DEF Enqueued
  <2>. QED  BY <1>5, <2>1, <2>3 DEF Enqueued
<1>6. ASSUME NEW r \in Runs, NEW who, Select(r, who) PROVE TypeOK'
  BY <1>6 DEF Select, Run
<1>7. ASSUME NEW r \in Runs, Mark(r) PROVE TypeOK'
  <2> DEFINE c == runs[r].command
  <2>1. c \in Commands
    BY <1>7 DEF Mark, Holds
  <2>2. [commands[c] EXCEPT !.status = "claimed", !.age = 0] \in Command
    <3>1. commands[c] \in Command
      BY <2>1
    <3> HIDE DEF c
    <3>. QED  BY <3>1 DEF Command
  <2>3. commands' \in [Commands -> Command]
    BY <1>7, <2>1, <2>2 DEF Mark
  <2>4. runs' \in [Runs -> Run]
    BY <1>7 DEF Mark, Run
  <2>. QED  BY <1>7, <2>3, <2>4 DEF Mark
<1>8. ASSUME NEW r \in Runs, Check(r) PROVE TypeOK'
  BY <1>8 DEF Check, Run, IdleRun
<1>9. ASSUME NEW r \in Runs, Measure(r) PROVE TypeOK'
  BY <1>9 DEF Measure, Run, Holds
<1>10. ASSUME NEW r \in Runs, CompleteFails(r) PROVE TypeOK'
  BY <1>10 DEF CompleteFails, Run, Holds
<1>11. ASSUME NEW r \in Runs, Die(r) PROVE TypeOK'
  BY <1>11 DEF Die, Run, IdleRun
<1>12. ASSUME NEW r \in Runs, NEW status \in Closed, Close(r, status) PROVE TypeOK'
  <2> DEFINE c == runs[r].command
  <2>1. c \in Commands
    BY <1>12 DEF Close, Holds
  <2>2. [commands[c] EXCEPT !.status = status, !.age = 0] \in Command
    <3>1. commands[c] \in Command
      BY <2>1
    <3> HIDE DEF c
    <3>. QED  BY <3>1 DEF Command
  <2>3. commands' \in [Commands -> Command]
    BY <1>12, <2>1, <2>2 DEF Close
  <2>4. runs' \in [Runs -> Run] /\ lock' \in Runs \cup {None}
    BY <1>12 DEF Close, Run, IdleRun
  <2>. QED  BY <1>12, <2>3, <2>4 DEF Close
<1>13. CASE Tick
  <2>1. \A a \in Nat, t \in Nat : Older(a, t) \in Nat
    BY DEF Older
  <2>2. StaleClaimAfter + 1 \in Nat
    OBVIOUS
  <2>3. commands' \in [Commands -> Command]
    BY <1>13, <2>1, <2>2 DEF Tick, Command
  <2>. QED  BY <1>13, <2>1, <2>3 DEF Tick
<1>14. CASE UNCHANGED vars
  BY <1>14 DEF vars
<1>. QED
  BY <1>1, <1>2, <1>3, <1>4, <1>5, <1>6, <1>7, <1>8, <1>9, <1>10, <1>11, <1>12, <1>13, <1>14
  DEF Next

\* completeMu and the status read under it.
LEMMA StepHolds == ASSUME QueueAssumption, TypeOK, Holds, [Next]_vars PROVE Holds'
<1> USE DEF QueueAssumption, Holds, Completing
<1>1. ASSUME NEW c \in Commands, NEW d \in Devices, NEW runner \in Asked, CreateCommand(c, runner, d)
      PROVE  Holds'
  BY <1>1 DEF CreateCommand, NextId, Inserted, NoCommand, TypeOK, Closed
<1>2. ASSUME NEW k \in Cyclers, StartCycle(k) PROVE Holds'
  BY <1>2 DEF StartCycle
<1>3. ASSUME NEW k \in Cyclers, EndCycle(k) PROVE Holds'
  BY <1>3 DEF EndCycle
<1>4. ASSUME NEW k \in Cyclers, NEW d \in Devices, Counted(k, d) PROVE Holds'
  BY <1>4 DEF Counted
<1>5. ASSUME NEW k \in Cyclers, NEW c \in Commands, Enqueued(k, c) PROVE Holds'
  BY <1>5 DEF Enqueued, NextId, Inserted, NoCommand, TypeOK, Closed
<1>6. ASSUME NEW r \in Runs, NEW who, Select(r, who) PROVE Holds'
  BY <1>6 DEF Select, Offered, TypeOK, Run
<1>7. ASSUME NEW r \in Runs, Mark(r) PROVE Holds'
  BY <1>7 DEF Mark, TypeOK, Run, Command, Closed
<1>8. ASSUME NEW r \in Runs, Check(r) PROVE Holds'
  <2>1. \A q \in Runs : ~Completing(q)
    BY <1>8 DEF Check, TypeOK
  <2>. QED  BY <1>8, <2>1 DEF Check, TypeOK, Run, IdleRun
<1>9. ASSUME NEW r \in Runs, Measure(r) PROVE Holds'
  BY <1>9 DEF Measure, TypeOK, Run
<1>10. ASSUME NEW r \in Runs, CompleteFails(r) PROVE Holds'
  BY <1>10 DEF CompleteFails, TypeOK, Run
<1>11. ASSUME NEW r \in Runs, Die(r) PROVE Holds'
  BY <1>11 DEF Die, TypeOK, Run, IdleRun
<1>12. ASSUME NEW r \in Runs, NEW status \in Closed, Close(r, status) PROVE Holds'
  <2>1. \A q \in Runs : q # r => ~Completing(q)
    BY <1>12 DEF Close
  <2>. QED  BY <1>12, <2>1 DEF Close, TypeOK, Run, IdleRun, Command, Closed
<1>13. CASE Tick
  <2>1. \A c \in Commands : commands'[c].status = commands[c].status
    BY <1>13 DEF Tick, TypeOK, Command
  <2>. QED  BY <1>13, <2>1 DEF Tick
<1>14. CASE UNCHANGED vars
  BY <1>14 DEF vars
<1>. QED
  BY <1>1, <1>2, <1>3, <1>4, <1>5, <1>6, <1>7, <1>8, <1>9, <1>10, <1>11, <1>12, <1>13, <1>14
  DEF Next

\* The measurements of a command, step by step.
LEMMA StepCounts == ASSUME QueueAssumption, QueueInv, [Next]_vars PROVE Counts'
<1> USE DEF QueueAssumption, QueueInv, Counts, InHand
<1>1. ASSUME NEW c \in Commands, NEW d \in Devices, NEW runner \in Asked, CreateCommand(c, runner, d)
      PROVE  Counts'
  BY <1>1 DEF CreateCommand, NextId, Inserted, NoCommand, TypeOK, Closed
<1>2. ASSUME NEW k \in Cyclers, StartCycle(k) PROVE Counts'
  BY <1>2 DEF StartCycle
<1>3. ASSUME NEW k \in Cyclers, EndCycle(k) PROVE Counts'
  BY <1>3 DEF EndCycle
<1>4. ASSUME NEW k \in Cyclers, NEW d \in Devices, Counted(k, d) PROVE Counts'
  BY <1>4 DEF Counted
<1>5. ASSUME NEW k \in Cyclers, NEW c \in Commands, Enqueued(k, c) PROVE Counts'
  BY <1>5 DEF Enqueued, NextId, Inserted, NoCommand, TypeOK, Closed
<1>6. ASSUME NEW r \in Runs, NEW who, Select(r, who) PROVE Counts'
  BY <1>6 DEF Select, TypeOK, Run
<1>7. ASSUME NEW r \in Runs, Mark(r) PROVE Counts'
  BY <1>7 DEF Mark, TypeOK, Run, Command, Closed
<1>8. ASSUME NEW r \in Runs, Check(r) PROVE Counts'
  BY <1>8 DEF Check, TypeOK, Run, IdleRun
<1>9. ASSUME NEW r \in Runs, Measure(r) PROVE Counts'
  <2> DEFINE c == runs[r].command
  <2>1. /\ c \in Commands /\ commands[c].status \notin Closed
        /\ \A q \in Runs : q # r => runs[q].stage # "inserted"
    BY <1>9 DEF Measure, Holds, Completing
  <2>2. ~InHand(c)
    BY <1>9, <2>1 DEF Measure
  <2>3. measured[c] <= failures[c]
    BY <2>1, <2>2
  <2>. QED  BY <1>9, <2>1, <2>3 DEF Measure, TypeOK, Run
<1>10. ASSUME NEW r \in Runs, CompleteFails(r) PROVE Counts'
  BY <1>10 DEF CompleteFails, TypeOK, Run, Holds, Completing
<1>11. ASSUME NEW r \in Runs, Die(r) PROVE Counts'
  BY <1>11 DEF Die, TypeOK, Run, IdleRun
<1>12. ASSUME NEW r \in Runs, NEW status \in Closed, Close(r, status) PROVE Counts'
  BY <1>12 DEF Close, TypeOK, Run, IdleRun, Command, Closed, Holds, Completing
<1>13. CASE Tick
  <2>1. \A c \in Commands : commands'[c].status = commands[c].status
    BY <1>13 DEF Tick, TypeOK, Command
  <2>. QED  BY <1>13, <2>1 DEF Tick
<1>14. CASE UNCHANGED vars
  BY <1>14 DEF vars
<1>. QED
  BY <1>1, <1>2, <1>3, <1>4, <1>5, <1>6, <1>7, <1>8, <1>9, <1>10, <1>11, <1>12, <1>13, <1>14
  DEF Next

LEMMA QueueInvariant == Spec => []QueueInv
<1>1. Init => QueueInv
  BY QueueAssumption, InitQueue
<1>2. QueueInv /\ [Next]_vars => QueueInv'
  BY QueueAssumption, StepTypeOK, StepHolds, StepCounts DEF QueueInv
<1>. QED  BY <1>1, <1>2, PTL DEF Spec

\* Every state of the queue has the types of its rows, its executions and its
\* cycles (store.go, probes.go).
THEOREM QueueTypeCorrect == Spec => []TypeOK
<1>1. QueueInv => TypeOK
  BY DEF QueueInv
<1>. QED  BY <1>1, QueueInvariant, PTL

\* CompleteCommand measures a command once, plus once for each completion that
\* was cut halfway, for any number of executions that were given it.
THEOREM MeasuredOnceHolds == Spec => []MeasuredOnce
<1>1. QueueInv => MeasuredOnce
  BY DEF QueueInv, Counts, MeasuredOnce
<1>. QED  BY <1>1, QueueInvariant, PTL

-----------------------------------------------------------------------------
(* The refinement of CommandLifecycle                                      *)

\* What CommandLifecycle sees of a state of the queue.
PhaseOf == [c \in Commands |-> commands[c].status]
ResultsOf == [c \in Commands |-> IF InHand(c) THEN measured[c] - 1 ELSE measured[c]]

\* A step that leaves alone statuses, measurements, cuts and what is in hand is
\* no step of CommandLifecycle.
LEMMA Unseen ==
  ASSUME UNCHANGED <<measured, failures>>,
         \A c \in Commands : commands'[c].status = commands[c].status,
         \A c \in Commands : InHand(c)' <=> InHand(c)
  PROVE  UNCHANGED Abs!vars
BY DEF Abs!vars

\* The status of one row changes.
LEMMA PhaseMoves ==
  ASSUME TypeOK, NEW c \in Commands, NEW row, NEW p, row.status = p,
         commands' = [commands EXCEPT ![c] = row]
  PROVE  PhaseOf' = [PhaseOf EXCEPT ![c] = p]
<1>1. \A b \in Commands : commands'[b] = IF b = c THEN row ELSE commands[b]
  BY DEF TypeOK
<1>2. \A b \in Commands : commands'[b].status = IF b = c THEN p ELSE commands[b].status
  BY <1>1
<1>. QED  BY <1>2 DEF PhaseOf

\* A new row is pending; nobody has it in hand.
LEMMA CreatedStep ==
  ASSUME TypeOK, Holds, NEW c \in Commands, commands[c].status = "none",
         NEW row, row.status = "pending", commands' = [commands EXCEPT ![c] = row],
         UNCHANGED <<measured, runs, failures>>
  PROVE  Abs!Create(c)
<1>1. PhaseOf' = [PhaseOf EXCEPT ![c] = "pending"]
  BY PhaseMoves
<1>2. \A b \in Commands : InHand(b)' <=> InHand(b)
  BY DEF InHand
<1>3. ResultsOf' = ResultsOf
  BY <1>2 DEF ResultsOf
<1>. QED  BY <1>1, <1>3 DEF Abs!Create, PhaseOf, ResultsOf

\* The UPDATE of claimWhere claims a pending command and changes no other.
LEMMA MarkStep ==
  ASSUME QueueAssumption, TypeOK, Holds, NEW r \in Runs, Mark(r),
         NEW c \in Commands, runs[r].command = c
  PROVE  Abs!Claim(c) \/ UNCHANGED Abs!vars
<1>1. commands[c].status # "none" /\ UNCHANGED <<measured, failures>>
  BY DEF Mark, Holds
<1>2. \A b \in Commands : InHand(b)' <=> InHand(b)
  BY DEF Mark, InHand, TypeOK, Run
<1>3. CASE commands[c].status = "pending"
  <2>1. PICK row : row = [commands[c] EXCEPT !.status = "claimed", !.age = 0]
    OBVIOUS
  <2>2. commands' = [commands EXCEPT ![c] = row]
    BY <1>3, <2>1 DEF Mark
  <2>3. row.status = "claimed"
    BY <2>1 DEF TypeOK, Command
  <2>4. PhaseOf' = [PhaseOf EXCEPT ![c] = "claimed"]
    BY <2>2, <2>3, PhaseMoves
  <2>5. ResultsOf' = ResultsOf
    BY <1>1, <1>2 DEF ResultsOf
  <2>6. Abs!Claim(c)
    BY <1>1, <1>3, <2>4, <2>5 DEF Abs!Claim, PhaseOf, ResultsOf
  <2>. QED  BY <2>6
<1>4. CASE commands[c].status # "pending"
  <2>1. \A b \in Commands : commands'[b].status = commands[b].status
    BY <1>1, <1>4 DEF Mark, TypeOK, Command, Closed
  <2>. QED  BY <1>1, <1>2, <2>1, Unseen
<1>. QED  BY <1>3, <1>4

\* Only one completion is under way at a time, and its command is claimed.
LEMMA OneInHand ==
  ASSUME QueueAssumption, TypeOK, Holds, NEW r \in Runs, Completing(r)
  PROVE  /\ runs[r].command \in Commands
         /\ commands[runs[r].command].status = "claimed"
         /\ \A q \in Runs : q # r => runs[q].stage # "inserted"
         /\ \A c \in Commands :
              InHand(c) <=> runs[r].stage = "inserted" /\ c = runs[r].command
BY DEF Holds, Completing, InHand, TypeOK, Run

\* The INSERT is not seen until its completion closes the command or is cut.
LEMMA MeasureStep ==
  ASSUME QueueAssumption, TypeOK, Holds, NEW r \in Runs, Measure(r)
  PROVE  UNCHANGED Abs!vars
<1> DEFINE c == runs[r].command
<1>1. /\ c \in Commands /\ runs[r].stage = "checked"
      /\ \A q \in Runs : q # r => runs[q].stage # "inserted"
      /\ \A b \in Commands : ~InHand(b)
  BY OneInHand DEF Measure, Completing
<1>2. \A b \in Commands : InHand(b)' <=> b = c
  BY <1>1 DEF Measure, InHand, TypeOK, Run
<1>3. \A b \in Commands : measured'[b] = IF b = c THEN measured[b] + 1 ELSE measured[b]
  BY <1>1 DEF Measure, TypeOK
<1>4. ResultsOf' = ResultsOf
  BY <1>1, <1>2, <1>3 DEF ResultsOf, TypeOK
<1>. QED  BY <1>4 DEF Abs!vars, ResultsOf, Measure

\* After the completion of c, closed or cut, nothing is in hand, and c has the
\* measurement that was.
LEMMA EndOfCompletion ==
  ASSUME QueueAssumption, TypeOK, Holds, NEW r \in Runs, Completing(r),
         runs'[r].stage # "inserted", \A q \in Runs \ {r} : runs'[q] = runs[q],
         measured' = measured
  PROVE  ResultsOf' \in {ResultsOf, [ResultsOf EXCEPT ![runs[r].command] = @ + 1]}
<1> DEFINE c == runs[r].command
<1>1. /\ c \in Commands
      /\ \A q \in Runs : q # r => runs[q].stage # "inserted"
      /\ \A b \in Commands : InHand(b) <=> runs[r].stage = "inserted" /\ b = c
  BY OneInHand
<1>2. \A b \in Commands : ~InHand(b)'
  BY <1>1 DEF InHand
<1>3. ResultsOf' = [b \in Commands |-> measured[b]]
  BY <1>2 DEF ResultsOf
<1>4. CASE runs[r].stage = "inserted"
  <2>1. ResultsOf = [b \in Commands |-> IF b = c THEN measured[b] - 1 ELSE measured[b]]
    BY <1>1, <1>4 DEF ResultsOf
  <2>2. measured[c] - 1 + 1 = measured[c]
    <3>1. measured[c] \in Nat
      BY <1>1 DEF TypeOK
    <3>. QED  BY <3>1
  <2>3. ResultsOf' = [ResultsOf EXCEPT ![c] = @ + 1]
    BY <1>1, <1>3, <2>1, <2>2
  <2>. QED  BY <2>3
<1>5. CASE runs[r].stage # "inserted"
  BY <1>1, <1>3, <1>5 DEF ResultsOf
<1>. QED  BY <1>4, <1>5

LEMMA CloseStep ==
  ASSUME QueueAssumption, TypeOK, Holds, NEW r \in Runs, NEW status \in Closed, Close(r, status),
         NEW c \in Commands, runs[r].command = c
  PROVE  Abs!Complete(c)
<1>1. commands[c].status = "claimed"
  BY OneInHand DEF Close, Completing
<1>2. PICK row : row = [commands[c] EXCEPT !.status = status, !.age = 0]
  OBVIOUS
<1>3. commands' = [commands EXCEPT ![c] = row] /\ row.status = status
  <2>1. commands' = [commands EXCEPT ![c] = row]
    BY <1>2 DEF Close
  <2>2. row.status = status
    BY <1>2 DEF TypeOK, Command
  <2>. QED  BY <2>1, <2>2
<1>4. PhaseOf' = [PhaseOf EXCEPT ![c] = status]
  BY <1>3, PhaseMoves
<1>5. ResultsOf' \in {ResultsOf, [ResultsOf EXCEPT ![c] = @ + 1]}
  BY EndOfCompletion DEF Close, Completing, TypeOK, Run, IdleRun
<1>6. failures' = failures /\ PhaseOf[c] = "claimed"
  BY <1>1 DEF Close, PhaseOf
<1>. QED  BY <1>4, <1>5, <1>6 DEF Abs!Complete, Abs!Reported, PhaseOf, ResultsOf, Closed

LEMMA CutStep ==
  ASSUME QueueAssumption, TypeOK, Holds, NEW r \in Runs, CompleteFails(r),
         NEW c \in Commands, runs[r].command = c
  PROVE  Abs!Cut(c)
<1>1. commands[c].status = "claimed"
  BY OneInHand DEF CompleteFails, Completing
<1>2. ResultsOf' \in {ResultsOf, [ResultsOf EXCEPT ![c] = @ + 1]}
  BY EndOfCompletion DEF CompleteFails, Completing, TypeOK, Run
<1>3. /\ PhaseOf' = PhaseOf /\ PhaseOf[c] = "claimed"
      /\ failures' = [failures EXCEPT ![c] = @ + 1]
  BY <1>1 DEF CompleteFails, PhaseOf
<1>. QED  BY <1>2, <1>3 DEF Abs!Cut, Abs!Reported, PhaseOf, ResultsOf

LEMMA StepLives ==
  ASSUME QueueAssumption, QueueInv, [Next]_vars
  PROVE  Abs!Next \/ UNCHANGED Abs!vars
<1> USE DEF QueueInv
<1>1. ASSUME NEW c \in Commands, NEW d \in Devices, NEW runner \in Asked, CreateCommand(c, runner, d)
      PROVE  Abs!Next
  BY <1>1, CreatedStep DEF CreateCommand, NextId, Inserted, NoCommand, Abs!Next
<1>2. ASSUME NEW k \in Cyclers, NEW c \in Commands, Enqueued(k, c) PROVE Abs!Next
  BY <1>2, CreatedStep DEF Enqueued, NextId, Inserted, NoCommand, Abs!Next
<1>0. ASSUME NEW r \in Runs, runs[r].stage # "idle"
      PROVE  \E c \in Commands : runs[r].command = c
  BY <1>0 DEF Holds
<1>3. ASSUME NEW r \in Runs, Mark(r) PROVE Abs!Next \/ UNCHANGED Abs!vars
  <2>1. PICK c \in Commands : runs[r].command = c
    BY <1>0, <1>3 DEF Mark
  <2>2. Abs!Claim(c) \/ UNCHANGED Abs!vars
    BY <1>3, <2>1, MarkStep
  <2>. QED  BY <2>2 DEF Abs!Next
<1>4. ASSUME NEW r \in Runs, Measure(r) PROVE UNCHANGED Abs!vars
  BY <1>4, MeasureStep
<1>5. ASSUME NEW r \in Runs, NEW status \in Closed, Close(r, status) PROVE Abs!Next
  <2>1. PICK c \in Commands : runs[r].command = c
    BY <1>0, <1>5 DEF Close
  <2>2. Abs!Complete(c)
    BY <1>5, <2>1, CloseStep
  <2>. QED  BY <2>2 DEF Abs!Next
<1>6. ASSUME NEW r \in Runs, CompleteFails(r) PROVE Abs!Next
  <2>1. PICK c \in Commands : runs[r].command = c
    BY <1>0, <1>6 DEF CompleteFails
  <2>2. Abs!Cut(c)
    BY <1>6, <2>1, CutStep
  <2>. QED  BY <2>2 DEF Abs!Next
<1>7. ASSUME NEW r \in Runs, \/ \E who \in Devices \cup {Probe} : Select(r, who)
                             \/ Check(r) \/ Die(r)
      PROVE  UNCHANGED Abs!vars
  <2>1. \A c \in Commands : InHand(c)' <=> InHand(c)
    <3>1. /\ runs[r].stage # "inserted"
          /\ \A q \in Runs \ {r} : runs'[q] = runs[q]
          /\ runs'[r].stage # "inserted"
      <4>1. CASE \E who \in Devices \cup {Probe} : Select(r, who)
        BY <4>1 DEF Select, TypeOK
      <4>2. CASE Check(r)
        BY <4>2 DEF Check, TypeOK, Run, IdleRun
      <4>3. CASE Die(r)
        BY <4>3 DEF Die, TypeOK, IdleRun
      <4>. QED  BY <1>7, <4>1, <4>2, <4>3
    <3>. QED  BY <3>1 DEF InHand
  <2>2. UNCHANGED <<commands, measured, failures>>
    BY <1>7 DEF Select, Check, Die
  <2>. QED  BY <2>1, <2>2, Unseen
<1>8. CASE Tick
  <2>1. \A c \in Commands : commands'[c].status = commands[c].status
    BY <1>8 DEF Tick, TypeOK, Command
  <2>2. UNCHANGED <<measured, failures, runs>>
    BY <1>8 DEF Tick
  <2>. QED  BY <2>1, <2>2, Unseen DEF InHand
<1>9. CASE UNCHANGED <<commands, measured, runs, failures>>
  BY <1>9, Unseen DEF InHand
<1>. QED
  BY <1>1, <1>2, <1>3, <1>4, <1>5, <1>6, <1>7, <1>8, <1>9
  DEF Next, vars, StartCycle, EndCycle, Counted

\* The queue implements the life cycle of a command: whoever claims, reports,
\* repeats or dies, a command is closed once and its outcome and measurements
\* are final (claimWhere, CompleteCommand).
THEOREM QueueImplementsLifecycle == Spec => ImplementsCommandLifecycle
<1>1. Init => Abs!Init
  BY DEF Init, Abs!Init, NoCommand, IdleRun, InHand
<1>2. QueueInv /\ [Next]_vars => [Abs!Next]_(Abs!vars)
  BY QueueAssumption, StepLives
<1>. QED  BY <1>1, <1>2, QueueInvariant, PTL DEF Spec, ImplementsCommandLifecycle, Abs!Spec
=============================================================================
