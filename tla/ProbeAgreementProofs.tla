------------------------ MODULE ProbeAgreementProofs ------------------------
(***************************************************************************)
(* What the phone and the backend keep together, proved for any number of  *)
(* orders, results, late reports and faults: once nothing of an order is   *)
(* on its way, both sides agree on it, and a reboot whose command went out *)
(* counts, unless the router never answered it.  The invariant says what   *)
(* the backend may yet hear of an order that the phone closed, and what it *)
(* shows once there is nothing to hear.                                    *)
(***************************************************************************)
EXTENDS ProbeSystemProofs

-----------------------------------------------------------------------------
(* The invariant                                                           *)

Busy == {"testing"} \cup Rebooting

\* The close of the order is in the outbox.
ToClose(o) == \E i \in 1..Len(outbox) : outbox[i].order = o /\ outbox[i].status \in Closes

\* Nothing that is on its way says that the order runs.
NoneRuns(o) == \A report \in OnTheWay : report.order = o => report.status # "running"

RowsInv == \A o \in OrderIds : Store!RowClosed(orders[o])

RunsAs(o) == /\ \/ worker.stage = "recovering"
                \/ worker.order = o /\ worker.stage \in Busy
             /\ \A r \in ResultIds : local[o].result = r => results[r].sync = "none"

TestsFor == worker.stage = "testing" =>
              worker.result \in ResultIds /\ worker.result = local[worker.order].result

RunningInv == /\ \A o \in OrderIds : local[o].status = "running" =>
                   RunsAs(o) /\ orders[o].closedBy # "phone"
              /\ TestsFor

\* A report that closes an order says what the phone has; one that says that it
\* expired was never preceded, nor is followed, by one that says that it runs.
SaidInv ==
  \A report \in OnTheWay :
    /\ report.status \in Closes => local[report.order].status = report.status
    /\ report.status = "expired" => orders[report.order].status # "running" /\ NoneRuns(report.order)

HeardInv == \A o \in OrderIds :
  local[o].status # "none" /\ orders[o].closedBy = "phone" => orders[o].status = local[o].status

\* The close is one that only the phone can have told.
ByPhone(o) == \/ local[o].status \in {"done", "failed"}
              \/ reinstalls = 0 /\ o \in commanded

\* Closed in the backend, and nothing that may still arrive opens it again.
ClosedForGood(o) ==
  /\ orders[o].status \in Closes
  /\ Server!IsReboot(o) /\ orders[o].closedBy # "phone" => NoneRuns(o) /\ ~ByPhone(o)
  /\ ~Server!IsReboot(o) => local[o].status \notin {"done", "failed"}

ClosedByResult(o) == /\ ~Server!IsReboot(o) /\ local[o].status \in {"done", "failed"}
                     /\ \E r \in ResultIds : results[r].order = o

DoneInv == \A o \in OrderIds : local[o].status \in Closes =>
             ClosedByResult(o) \/ ToClose(o) \/ ClosedForGood(o)

Same(r) == measurements[r].order = results[r].order /\ measurements[r].started = results[r].started

ResultTold(r) ==
  results[r].order # None =>
    /\ results[r].sync \in {"pending", "synced"} /\ results[r].status \in {"done", "failed"}
    /\ local[results[r].order].status = results[r].status
    /\ ~Server!IsReboot(results[r].order)

MeasuredInv ==
  \A r \in ResultIds :
    /\ ResultTold(r)
    /\ results[r].sync = "none" => measurements[r].order = "absent"
    /\ results[r].sync = "pending" /\ measurements[r].order # "absent" => Same(r)
    /\ results[r].sync = "synced" /\ results[r].order # None => Same(r)

\* What the phone was told of an order that it has not started is still so.
ListedInv ==
  /\ control.stage \in {"listing", "answered"} =>
       /\ \A o \in DOMAIN control.rows : local[o].status = "none" => orders[o].closedBy # "phone"
       /\ \A o \in OrderIds \ DOMAIN control.rows :
            ~control.truncated /\ local[o].status \in Waits => orders[o].status \notin Server!Open
  /\ control.stage = "answered" => \A o \in OrderIds \cap DOMAIN control.closed :
       /\ control.closed[o] \in {"expired", "interrupted", "cancelled"}
       /\ local[o].status \in {"none"} \cup Waits => orders[o].status \in Closes

\* The report may go out of a reboot whose command went out: it does not expire
\* it, nor does it say that it was never sent, unless the router did not answer.
TellsSent(report) ==
  report.status # "expired" /\ (NeverSent(report) => Unanswered(report.order))

\* Of a reboot whose command went out nothing is told that would not count, one
\* that the router did not answer apart.
SentInv ==
  reinstalls = 0 => \A o \in commanded :
    /\ Server!IsReboot(o)
    /\ \A report \in OnTheWay : report.order = o => TellsSent(report)
    /\ orders[o].closedBy = "phone" => Server!RebootCounts(orders[o]) \/ Unanswered(o)

\* What the phone closed without an answer stays so.
StaysUnanswered(o) == Unanswered(o) => Unanswered(o)'

AgreeInv == /\ RowsInv /\ RunningInv /\ SaidInv /\ HeardInv
            /\ DoneInv /\ MeasuredInv /\ ListedInv /\ SentInv

-----------------------------------------------------------------------------
(* A row of the store moves                                                *)

\* Of its own accord, because of a report, or because of a result.
RowMoves(o) ==
  \/ Store!Gentle(orders[o], orders'[o])
  \/ /\ orders'[o].type = orders[o].type /\ orders[o].status # "none"
     /\ \/ \E report \in OnTheWay :
             report.order = o /\ Store!Taken(orders[o], orders'[o], Update(report))
        \/ \E r \in ResultIds :
             /\ results[r].order = o /\ results[r].sync = "pending"
             /\ orders'[o].status = results[r].status /\ orders'[o].closedBy = "phone"

LEMMA RowTypes == SystemInv => \A o \in OrderIds : orders[o] \in Store!Order
  BY SameTypes DEF SystemInv, StoreInv, Store!TypeOK

\* What the row says of the order goes on to be true.
RowKeeps(o) ==
  /\ Store!RowClosed(orders'[o])
  /\ Server!Exists(o) => orders'[o].type = orders[o].type
  /\ orders'[o].closedBy = "phone" =>
       orders'[o] = orders[o] \/ (local[o].status \in Closes /\ orders'[o].status = local[o].status)
  /\ orders'[o].status = "running" => orders[o].status = "running" \/ ~NoneRuns(o)
  /\ orders[o].status \in Closes /\ (Server!IsReboot(o) /\ orders[o].closedBy # "phone" => NoneRuns(o)) =>
       /\ orders'[o].status \in Closes
       /\ orders'[o].closedBy = "phone" \/ orders'[o] = orders[o]
  /\ local[o].status \in {"none"} \cup Waits =>
       /\ orders[o].status \in Closes => orders'[o] = orders[o]
       /\ orders[o].closedBy # "phone" => orders'[o].closedBy # "phone"

LEMMA UpdateOf == \A report : /\ Update(report).status = report.status
                              /\ Update(report).error = report.error
                              /\ Update(report).ssh = report.ssh
  BY DEF Update, Server!PhoneStateUpdate

LEMMA RowKept ==
  ASSUME SystemInv, SystemInv', RowsInv, SaidInv, MeasuredInv, NEW o \in OrderIds, RowMoves(o)
  PROVE  RowKeeps(o)
  <1> DEFINE a == orders[o]
             b == orders'[o]
  <1>1. a \in Store!Order /\ Store!RowClosed(a)
    BY RowTypes DEF RowsInv
  <1>2. b \in Store!Order
    <2>1. Server!TypeOK'
      BY DEF SystemInv, StoreInv
    <2>2. Store!TypeOK'
      BY <2>1, SameTypes, PTL
    <2> QED BY <2>2 DEF Store!TypeOK
  <1>3. /\ Store!Waiting = Waits /\ Store!Closed = Closes /\ Store!Open = Waits \cup {"running"}
    BY SameVars
  <1>4. CASE Store!Gentle(a, b)
    <2>1. Store!RowClosed(b)
      BY <1>1, <1>2, <1>4, Store!GentleClosed, SystemAssumption
    <2>2. /\ b.closedBy = "phone" => b = a
          /\ b.status = "running" => a.status = "running"
          /\ a.status \in Closes => b = a
          /\ a.status # "none" => b.type = a.type
      BY <1>1, <1>3, <1>4 DEF Store!Gentle, Store!RowClosed, Waits, Closes
    <2>3. a.status \in Closes => a.closedBy # "none"
      BY <1>1, <1>3 DEF Store!RowClosed, Waits, Closes
    <2> QED BY <2>1, <2>2, <2>3 DEF RowKeeps, Server!Exists
  <1>5. ASSUME b.type = a.type, NEW report \in OnTheWay, report.order = o, Store!Taken(a, b, Update(report))
        PROVE  RowKeeps(o)
    <2>1. /\ local[o].status \notin {"none"} \cup Waits
          /\ report.status \in Closes => local[o].status = report.status
      BY <1>5 DEF SystemInv, SilentInv, SaidInv
    <2>2. CASE report.status = "running" /\ b.status = "running"
      <3>1. ~NoneRuns(o)
        BY <1>5, <2>2 DEF NoneRuns
      <3>5. b.closedBy = "none"
        <4>1. "running" \notin Store!Closed
          BY <1>3 DEF Closes
        <4>2. b.closedBy = "none" \/ (a.status = "running" /\ b.closedBy = a.closedBy)
          BY <1>5, <2>2, <4>1, UpdateOf DEF Store!Taken
        <4> QED BY <1>1, <1>3, <4>2 DEF Store!RowClosed
      <3>2. Store!RowClosed(b)
        BY <1>3, <2>2, <3>5 DEF Store!RowClosed
      <3>3. ~ (a.status \in Closes /\ ~Server!IsReboot(o))
        BY <1>3, <1>5 DEF Store!Taken, Store!RebootReopen, Server!IsReboot, Waits, Closes
      <3>4. a.status \in Closes => a.closedBy # "phone"
        BY <1>3, <1>5 DEF Store!Taken, Store!RebootReopen, Store!SoftFinal, Waits, Closes
      <3> QED BY <1>5, <2>1, <2>2, <3>1, <3>2, <3>3, <3>4, <3>5 DEF RowKeeps, Closes
    <2>3. CASE report.status \in Closes /\ b.status = report.status /\ b.closedBy = "phone"
      <3>1. Store!RowClosed(b)
        BY <1>3, <2>3 DEF Store!RowClosed, Waits, Closes
      <3> QED BY <1>5, <2>1, <2>3, <3>1 DEF RowKeeps, Closes
    <2> QED BY <1>3, <1>5, <2>2, <2>3, UpdateOf DEF Store!Taken
  <1>6. ASSUME b.type = a.type, NEW r \in ResultIds, results[r].order = o,
               b.status = results[r].status, b.closedBy = "phone"
        PROVE  RowKeeps(o)
    <2>1. o # None
      BY SystemAssumption DEF Server!NamesAssumption
    <2>2. local[o].status = results[r].status /\ results[r].status \in {"done", "failed"}
      BY <1>6, <2>1 DEF MeasuredInv, ResultTold
    <2>3. Store!RowClosed(b)
      BY <1>3, <1>6, <2>2 DEF Store!RowClosed, Waits, Closes
    <2> QED BY <1>6, <2>2, <2>3 DEF RowKeeps, Waits, Closes
  <1> QED BY <1>4, <1>5, <1>6 DEF RowMoves

LEMMA CountsKept ==
  ASSUME SystemInv, RowsInv, MeasuredInv, SentInv, NEW o \in OrderIds, RowMoves(o),
         reinstalls = 0, o \in commanded, orders'[o].closedBy = "phone"
  PROVE  Server!RebootCounts(orders'[o]) \/ Unanswered(o)
  <1> SUFFICES ASSUME ~Unanswered(o)
               PROVE  Server!RebootCounts(orders'[o])
    OBVIOUS
  <1> DEFINE a == orders[o]
             b == orders'[o]
  <1>1. /\ Store!RowClosed(a) /\ a.type = "reboot_router"
        /\ \A report \in OnTheWay : report.order = o => ~NeverSent(report) /\ report.status # "expired"
        /\ a.closedBy = "phone" => Server!RebootCounts(a)
    BY DEF RowsInv, SentInv, TellsSent, Server!IsReboot
  <1>2. /\ Store!Waiting = Waits /\ Store!Closed = Closes /\ Store!Open = Waits \cup {"running"}
    BY SameVars
  <1>3. CASE Store!Gentle(a, b)
    <2>1. b = a
      BY <1>1, <1>2, <1>3 DEF Store!Gentle, Store!RowClosed
    <2> QED BY <1>1, <2>1
  <1>4. ASSUME b.type = a.type, NEW report \in OnTheWay, report.order = o, Store!Taken(a, b, Update(report))
        PROVE  Server!RebootCounts(b)
    <2>1. WellFormed(report) /\ ~NeverSent(report) /\ report.status # "expired"
      BY <1>1, <1>4 DEF SystemInv, ReportsInv
    <2>2. Update(report) \in Server!RebootUpdates([step |-> None])
      BY <1>1, <1>4, <2>1 DEF WellFormed, Server!IsReboot
    <2>3. a.closedBy = "phone" => a.status \in Closes
      BY <1>1, <1>2, RowTypes DEF Store!RowClosed, Store!Order, Store!Statuses
    <2>4. a.closedBy # "phone"
      BY <1>2, <1>4, <2>3 DEF Store!Taken, Store!RebootReopen, Store!SoftFinal, Waits, Closes
    <2>5. /\ b.status = report.status /\ b.error = report.error
          /\ b.sshOk = IF report.ssh = None THEN a.sshOk ELSE report.ssh
      BY <1>1, <1>4, <2>4, UpdateOf DEF Store!Taken
    <2>6. report.status = "failed" => report.ssh \in BOOLEAN
      BY <2>2 DEF Server!RebootUpdates, Server!PhoneStateUpdate, Update
    <2>7. report.status = "failed" => b.sshOk = TRUE
      <3>1. None \notin BOOLEAN
        BY SystemAssumption DEF Server!NamesAssumption
      <3> QED BY <2>1, <2>5, <2>6, <3>1 DEF NeverSent
    <2>8. report.status \in {"running", "interrupted", "done", "failed"}
      BY <2>1 DEF WellFormed, Reports
    <2> QED BY <1>1, <1>4, <2>1, <2>5, <2>7, <2>8 DEF Server!RebootCounts, NeverSent
  <1>5. ASSUME NEW r \in ResultIds, results[r].order = o
        PROVE  FALSE
    <2>1. o # None
      BY SystemAssumption DEF Server!NamesAssumption
    <2> QED BY <1>1, <1>5, <2>1 DEF MeasuredInv, ResultTold, Server!IsReboot
  <1> QED BY <1>3, <1>4, <1>5 DEF RowMoves

-----------------------------------------------------------------------------
(* Steps of the backend and of the network                                 *)

\* The phone does no more than mark what was answered.
PhoneStays ==
  /\ UNCHANGED <<worker, commanded, reinstalls>>
  /\ OnTheWay' \subseteq OnTheWay
  /\ \A o \in OrderIds :
       /\ local'[o].result = local[o].result
       /\ local'[o].status = local[o].status \/ {local[o].status, local'[o].status} \subseteq Waits
       /\ StaysUnanswered(o)
       /\ ToClose(o) => ToClose(o)' \/ ClosedForGood(o)'
  /\ \A r \in ResultIds :
       /\ results'[r].order = results[r].order
       /\ results'[r].status = results[r].status /\ results'[r].started = results[r].started
       /\ \/ results'[r].sync = results[r].sync /\ measurements'[r] = measurements[r]
          \/ results[r].sync = "pending" /\ results'[r].sync \in {"pending", "synced"} /\ Same(r)'

LEMMA StoreRuns ==
  ASSUME SystemInv, AgreeInv, PhoneStays, \A o \in OrderIds : RowKeeps(o)
  PROVE  RunningInv'
  <1>1. ASSUME NEW o \in OrderIds, local'[o].status = "running"
        PROVE  RunsAs(o)' /\ orders'[o].closedBy # "phone"
    <2>1. local[o].status = "running" /\ local'[o].result = local[o].result
      BY <1>1 DEF PhoneStays, Waits
    <2>2. RunsAs(o) /\ orders[o].closedBy # "phone"
      BY <2>1 DEF AgreeInv, RunningInv
    <2>3. RunsAs(o)'
      BY <2>1, <2>2 DEF RunsAs, PhoneStays
    <2>4. orders'[o].closedBy # "phone"
      BY <2>1, <2>2 DEF RowKeeps, Closes
    <2> QED BY <2>3, <2>4
  <1>2. TestsFor'
    <2>1. worker.stage = "testing" => worker.order \in OrderIds
      BY DEF SystemInv, WorkerInv
    <2> QED BY <2>1 DEF TestsFor, AgreeInv, RunningInv, PhoneStays
  <1> QED BY <1>1, <1>2 DEF RunningInv, RunsAs

LEMMA StoreSays ==
  ASSUME SystemInv, AgreeInv, PhoneStays, \A o \in OrderIds : RowKeeps(o)
  PROVE  SaidInv' /\ HeardInv'
  <1>1. ASSUME NEW report \in OnTheWay'
        PROVE  /\ report.status \in Closes => local'[report.order].status = report.status
               /\ report.status = "expired" =>
                    orders'[report.order].status # "running" /\ NoneRuns(report.order)'
    <2>1. report \in OnTheWay /\ report.order \in OrderIds
      BY DEF PhoneStays, SystemInv, ReportsInv, WellFormed, Reports
    <2>2. report.status \in Closes => local'[report.order].status = report.status
      BY <2>1 DEF AgreeInv, SaidInv, PhoneStays, Closes, Waits
    <2>3. ASSUME report.status = "expired"
          PROVE  orders'[report.order].status # "running" /\ NoneRuns(report.order)'
      <3>1. orders[report.order].status # "running" /\ NoneRuns(report.order)
        BY <2>1, <2>3 DEF AgreeInv, SaidInv
      <3> QED BY <2>1, <3>1 DEF RowKeeps, NoneRuns, PhoneStays
    <2> QED BY <2>2, <2>3
  <1>2. ASSUME NEW o \in OrderIds, local'[o].status # "none", orders'[o].closedBy = "phone"
        PROVE  orders'[o].status = local'[o].status
    <2>1. orders'[o] = orders[o] \/ (local[o].status \in Closes /\ orders'[o].status = local[o].status)
      BY <1>2 DEF RowKeeps
    <2>2. local[o].status \in Waits => orders[o].closedBy # "phone"
      BY DEF SystemInv, LocalInv, Untouched
    <2>3. orders'[o] = orders[o] => local'[o].status = local[o].status
      BY <1>2, <2>2 DEF PhoneStays
    <2>4. local[o].status \in Closes => local'[o].status = local[o].status
      BY DEF PhoneStays, Waits, Closes
    <2> QED BY <1>2, <2>1, <2>3, <2>4 DEF AgreeInv, HeardInv
  <1> QED BY <1>1, <1>2 DEF SaidInv, HeardInv, NoneRuns

LEMMA StoreDone ==
  ASSUME SystemInv, AgreeInv, PhoneStays, \A o \in OrderIds : RowKeeps(o)
  PROVE  DoneInv'
  <1> SUFFICES ASSUME NEW o \in OrderIds, local'[o].status \in Closes
               PROVE  ClosedByResult(o)' \/ ToClose(o)' \/ ClosedForGood(o)'
    BY DEF DoneInv, ClosedByResult, ToClose, ClosedForGood, Server!IsReboot, ByPhone, NoneRuns
  <1>1. local[o].status = local'[o].status /\ local[o].status \in Closes
    BY DEF PhoneStays, Waits, Closes
  <1>2. orders'[o].type = orders[o].type
    BY <1>1 DEF RowKeeps, SystemInv, LocalInv, Known, Closes
  <1>3. CASE ClosedByResult(o)
    BY <1>1, <1>2, <1>3 DEF ClosedByResult, PhoneStays, Server!IsReboot
  <1>4. CASE ToClose(o)
    BY <1>4 DEF PhoneStays
  <1>5. CASE ClosedForGood(o)
    <2>1. /\ orders'[o].status \in Closes
          /\ orders'[o].closedBy = "phone" \/ orders'[o] = orders[o]
      BY <1>5 DEF ClosedForGood, RowKeeps
    <2>2. /\ NoneRuns(o) => NoneRuns(o)'
          /\ ByPhone(o)' => ByPhone(o)
      BY <1>1 DEF NoneRuns, ByPhone, PhoneStays
    <2> QED BY <1>1, <1>2, <1>5, <2>1, <2>2 DEF ClosedForGood, Server!IsReboot
  <1> QED BY <1>1, <1>3, <1>4, <1>5 DEF AgreeInv, DoneInv

LEMMA StoreMeasures ==
  ASSUME SystemInv, AgreeInv, PhoneStays, \A o \in OrderIds : RowKeeps(o)
  PROVE  MeasuredInv'
  <1> SUFFICES ASSUME NEW r \in ResultIds
               PROVE  /\ ResultTold(r)'
                      /\ results'[r].sync = "none" => measurements'[r].order = "absent"
                      /\ results'[r].sync = "pending" /\ measurements'[r].order # "absent" => Same(r)'
                      /\ results'[r].sync = "synced" /\ results'[r].order # None => Same(r)'
    BY DEF MeasuredInv, ResultTold, Same, Server!IsReboot
  <1>1. ResultTold(r)'
    <2>1. ASSUME results[r].order # None
          PROVE  /\ results'[r].sync \in {"pending", "synced"} /\ results'[r].status \in {"done", "failed"}
                 /\ local'[results[r].order].status = results'[r].status
                 /\ orders'[results[r].order].type # "reboot_router"
      <3>1. /\ results[r].order \in OrderIds
            /\ results[r].sync \in {"pending", "synced"} /\ results[r].status \in {"done", "failed"}
            /\ local[results[r].order].status = results[r].status
            /\ orders[results[r].order].type # "reboot_router"
        BY <2>1 DEF AgreeInv, MeasuredInv, ResultTold, SystemInv, PhoneTypeOK, Server!IsReboot
      <3>2. local'[results[r].order].status = results[r].status
        BY <3>1 DEF PhoneStays, Waits
      <3>3. Server!Exists(results[r].order)
        BY <3>1 DEF SystemInv, LocalInv, Known
      <3> QED BY <3>1, <3>2, <3>3 DEF PhoneStays, RowKeeps
    <2> QED BY <2>1 DEF ResultTold, PhoneStays, Server!IsReboot
  <1> QED BY <1>1 DEF AgreeInv, MeasuredInv, PhoneStays, Same

LEMMA StoreSent ==
  ASSUME SystemInv, AgreeInv, PhoneStays, \A o \in OrderIds : RowMoves(o) /\ RowKeeps(o)
  PROVE  SentInv'
  <1> SUFFICES ASSUME reinstalls' = 0, NEW o \in commanded'
               PROVE  /\ orders'[o].type = "reboot_router"
                      /\ \A report \in OnTheWay' : report.order = o =>
                           report.status # "expired" /\ (NeverSent(report) => Unanswered(o)')
                      /\ orders'[o].closedBy = "phone" => Server!RebootCounts(orders'[o]) \/ Unanswered(o)'
    BY DEF SentInv, TellsSent, Server!IsReboot, Server!RebootCounts, NeverSent, Unanswered
  <1>1. reinstalls = 0 /\ o \in commanded /\ o \in OrderIds
    BY DEF PhoneStays, SystemInv, PhoneTypeOK
  <1>2. local[o].status # "none"
    BY <1>1 DEF SystemInv, CommandedInv
  <1>3. orders'[o].type = orders[o].type
    BY <1>1, <1>2 DEF RowKeeps, SystemInv, LocalInv, Known
  <1>4. Unanswered(o) => Unanswered(o)'
    BY <1>1 DEF PhoneStays, StaysUnanswered
  <1>5. orders'[o].closedBy = "phone" => Server!RebootCounts(orders'[o]) \/ Unanswered(o)'
    BY <1>1, <1>4, CountsKept DEF AgreeInv
  <1>6. ASSUME NEW report \in OnTheWay', report.order = o
        PROVE  report.status # "expired" /\ (NeverSent(report) => Unanswered(o)')
    <2>1. report \in OnTheWay
      BY DEF PhoneStays
    <2>2. TellsSent(report)
      BY <1>1, <1>6, <2>1 DEF AgreeInv, SentInv
    <2> QED BY <1>4, <1>6, <2>2 DEF TellsSent
  <1> QED BY <1>1, <1>3, <1>5, <1>6 DEF AgreeInv, SentInv, Server!IsReboot

LEMMA StoreAgrees ==
  ASSUME SystemInv, SystemInv', AgreeInv, PhoneStays, \A o \in OrderIds : RowMoves(o), ListedInv'
  PROVE  AgreeInv'
  <1>1. \A o \in OrderIds : RowKeeps(o)
    BY RowKept DEF AgreeInv
  <1>2. RowsInv'
    BY <1>1 DEF RowsInv, RowKeeps, Store!RowClosed, Store!Open, Store!Waiting
  <1> QED BY <1>1, <1>2, StoreRuns, StoreSays, StoreDone, StoreMeasures, StoreSent DEF AgreeInv

-----------------------------------------------------------------------------
(* The rows move so in every step of the backend                           *)

LEMMA GentleRows ==
  ASSUME StoreInv,
         \/ Server!Creating \/ Server!Administering
         \/ Server!SweepExpires \/ Server!SweepInterrupts \/ Server!Tick
         \/ \E ids \in SUBSET OrderIds : Server!AckPhoneOrders(ids)
         \/ Server!SweepPhoneOrders
         \/ UNCHANGED serverVars
  PROVE  \A o \in OrderIds : RowMoves(o)
  <1>1. CASE UNCHANGED serverVars
    BY <1>1 DEF serverVars, RowMoves, Store!Gentle
  <1>2. CASE ~ UNCHANGED serverVars
    <2>1. Store!TypeOK
      BY SameTypes DEF StoreInv
    <2>2. \/ Store!Creating \/ Store!Administering
          \/ Store!SweepExpires \/ Store!SweepInterrupts \/ Store!Tick
          \/ \E ids \in SUBSET OrderIds : Store!AckPhoneOrders(ids)
          \/ Store!SweepPhoneOrders
      BY <1>2, SameCreating, SameAdministering, SameSweeps, SameCalls
    <2>3. \A o \in OrderIds : Store!Gentle(orders[o], orders'[o])
      BY <2>1, <2>2, Store!GentleSteps, SystemAssumption
    <2> QED BY <2>3 DEF RowMoves
  <1> QED BY <1>1, <1>2

LEMMA ReportTaken ==
  ASSUME SystemInv, NEW report \in OnTheWay, Server!SetPhoneOrderState(report.order, Update(report))
  PROVE  /\ report.order \in OrderIds
         /\ Store!Taken(orders[report.order], orders'[report.order], Update(report))
         /\ orders'[report.order].type = orders[report.order].type
         /\ orders[report.order].status # "none"
         /\ \A p \in OrderIds \ {report.order} : Store!Gentle(orders[p], orders'[p])
  <1> DEFINE o == report.order
             u == Update(report)
  <1>1. report \in Reports /\ o \in OrderIds
    BY DEF SystemInv, ReportsInv, WellFormed, Reports
  <1>2. u \in Store!Update /\ u.status # "delivered"
    BY <1>1 DEF Update, Server!PhoneStateUpdate, Store!Update, Reports, Store!Statuses, Store!Closed,
                Store!Open, Store!Waiting, Store!Errors, Store!Steps
  <1>3. Store!SetPhoneOrderState(o, u) /\ Store!TypeOK
    BY SameState, SameTypes DEF SystemInv, StoreInv
  <1>4. /\ Store!Told(orders[o], orders'[o], u)
        /\ \A p \in OrderIds \ {o} : Store!Gentle(orders[p], orders'[p])
    BY <1>1, <1>2, <1>3, Store!StateTold, SystemAssumption
  <1>5. Store!Taken(orders[o], orders'[o], u)
    BY <1>1, <1>2, <1>3, Store!StateTaken, SystemAssumption
  <1> QED BY <1>1, <1>4, <1>5 DEF Store!Told

LEMMA ReportRows ==
  ASSUME SystemInv, NEW report \in OnTheWay, Applied(report)
  PROVE  \A o \in OrderIds : RowMoves(o)
  <1>1. CASE UNCHANGED serverVars
    BY <1>1, GentleRows DEF SystemInv
  <1>2. CASE Server!SetPhoneOrderState(report.order, Update(report))
    BY <1>2, ReportTaken DEF RowMoves
  <1> QED BY <1>1, <1>2 DEF Applied, Update

\* A result that is stored is stored as it was told.
LEMMA UploadRows ==
  ASSUME SystemInv, AgreeInv, NEW r \in ResultIds, results[r].sync = "pending", Stored(r)
  PROVE  /\ \A o \in OrderIds : RowMoves(o)
         /\ \A q \in ResultIds \ {r} : measurements'[q] = measurements[q]
         /\ measurements'[r].order = results[r].order /\ measurements'[r].started = results[r].started
  <1>1. CASE measurements[r].order # "absent" /\ UNCHANGED serverVars
    BY <1>1, GentleRows DEF SystemInv, AgreeInv, MeasuredInv, Same, serverVars
  <1>2. ASSUME NEW device \in Devices \cup {None},
               Server!InsertProbeResult(r, results[r].order, device, results[r].status, results[r].started)
        PROVE  /\ \A o \in OrderIds : RowMoves(o)
               /\ \A q \in ResultIds \ {r} : measurements'[q] = measurements[q]
               /\ measurements'[r].order = results[r].order /\ measurements'[r].started = results[r].started
    <2>1. /\ results[r].order \in OrderIds \cup {None} /\ results[r].status \in {"done", "failed"}
          /\ measurements \in [ResultIds -> Server!Measurement]
      BY DEF SystemInv, ResultsInv, PhoneTypeOK, StoreInv, Server!TypeOK
    <2>2. Store!InsertProbeResult(r, results[r].order, device, results[r].status, results[r].started) /\ Store!TypeOK
      BY <1>2, SameCalls, SameTypes DEF SystemInv, StoreInv
    <2>3. \A p \in OrderIds :
           \/ orders'[p] = orders[p]
           \/ /\ p = results[r].order /\ orders[p].status # "none"
              /\ orders'[p].type = orders[p].type
              /\ orders'[p].status = results[r].status /\ orders'[p].closedBy = "phone"
      BY <2>1, <2>2, Store!UploadTold, SystemAssumption
    <2>4. \A o \in OrderIds : RowMoves(o)
      BY <2>3 DEF RowMoves, Store!Gentle
    <2>5. measurements' = [measurements EXCEPT ![r] =
            [order |-> results[r].order, device |-> device,
             status |-> results[r].status, started |-> results[r].started]]
      BY <1>2 DEF Server!InsertProbeResult
    <2> QED BY <2>1, <2>4, <2>5
  <1> QED BY <1>1, <1>2 DEF Stored

LEMMA SameIgnored == \A o, u : Server!Ignored(o, u) <=> Store!Ignored(o, u)
  BY DEF Server!Ignored, Store!Ignored, Server!Closes, Store!Closes, Server!Reopens, Store!Reopens,
         Server!Progresses, Store!Progresses, Server!Advances, Store!Advances,
         Server!phoneTransitions, Store!phoneTransitions, Server!RebootReopen, Store!RebootReopen,
         Server!SoftFinal, Store!SoftFinal, Server!IsReboot, Store!IsReboot,
         Server!Open, Store!Open, Server!Waiting, Store!Waiting

\* A report that closes the order leaves it closed, applied or ignored.
LEMMA ReportHeard ==
  ASSUME SystemInv, AgreeInv, NEW report \in OnTheWay, report.status \in Closes, Applied(report),
         UNCHANGED <<local, commanded, reinstalls>>, OnTheWay' \subseteq OnTheWay
  PROVE  ClosedForGood(report.order)'
  <1> DEFINE o == report.order
             u == Update(report)
  <1>1. /\ report \in Reports /\ o \in OrderIds /\ WellFormed(report) /\ Server!Exists(o)
        /\ local[o].status = report.status
    BY DEF SystemInv, ReportsInv, WellFormed, Reports, AgreeInv, SaidInv
  <1>2. ~Server!IsReboot(o) => local[o].status \notin {"done", "failed"}
    BY <1>1, UpdateOf DEF WellFormed, Server!SpeedTestUpdates, Server!PhoneStateUpdate
  <1>3. CASE Server!SetPhoneOrderState(o, u)
    <2>1. orders'[o].status = report.status /\ orders'[o].closedBy = "phone" /\ orders'[o].type = orders[o].type
      BY <1>3, ReportTaken, UpdateOf DEF Store!Taken, Closes
    <2> QED BY <1>2, <2>1 DEF ClosedForGood, Server!IsReboot
  <1>4. CASE Server!Ignored(o, u) /\ UNCHANGED serverVars
    <2>1. /\ Store!Waiting = Waits /\ Store!Closed = Closes /\ Store!Open = Waits \cup {"running"}
      BY SameVars
    <2>2. orders[o] \in Store!Order /\ Store!RowClosed(orders[o])
      BY <1>1, RowTypes DEF AgreeInv, RowsInv
    <2>3. /\ u.status = "interrupted" => /\ orders[o].status \notin Store!Open
                                         /\ Server!IsReboot(o) => orders[o].closedBy = "phone"
          /\ u.status \in {"done", "failed"} /\ Server!IsReboot(o) => orders[o].closedBy = "phone"
          /\ u.status = "expired" => orders[o].status \notin Store!Waiting
      <3>1. Store!Ignored(o, u) /\ Store!Exists(o) /\ (Store!IsReboot(o) <=> Server!IsReboot(o))
        BY <1>1, <1>4, SameIgnored DEF Store!Exists, Server!Exists, Store!IsReboot, Server!IsReboot
      <3> QED BY <1>1, <2>2, <3>1, Store!IgnoredMeans, SystemAssumption
    <2>4. report.status \in {"expired", "interrupted", "done", "failed"}
      BY <1>1 DEF Reports, Closes
    <2>5. orders[o].status \in Closes \/ orders[o].status \in Store!Open
      BY <1>1, <2>1, <2>2 DEF Store!Order, Store!Statuses, Server!Exists
    <2>6. orders[o].closedBy = "phone" => orders[o].status \notin Store!Open
      BY <2>2 DEF Store!RowClosed
    <2>7. orders'[o] = orders[o]
      BY <1>4 DEF serverVars
    <2>8. CASE report.status = "expired"
      <3>1. orders[o].status \notin Store!Open /\ NoneRuns(o)
        BY <2>1, <2>3, <2>8, UpdateOf DEF AgreeInv, SaidInv
      <3>2. Server!IsReboot(o) => ~ByPhone(o)
        BY <1>1, <2>8 DEF ByPhone, AgreeInv, SentInv, TellsSent
      <3>3. NoneRuns(o)' /\ (ByPhone(o)' <=> ByPhone(o))
        BY <3>1 DEF NoneRuns, ByPhone
      <3> QED BY <1>2, <2>5, <2>7, <3>1, <3>2, <3>3 DEF ClosedForGood, Server!IsReboot
    <2>9. CASE report.status # "expired"
      <3>1. /\ orders[o].status \notin Store!Open
            /\ Server!IsReboot(o) => orders[o].closedBy = "phone"
        BY <1>1, <1>2, <2>3, <2>4, <2>6, <2>9, UpdateOf
      <3> QED BY <1>2, <2>5, <2>7, <3>1 DEF ClosedForGood, Server!IsReboot
    <2> QED BY <2>8, <2>9
  <1> QED BY <1>3, <1>4 DEF Applied, Update

-----------------------------------------------------------------------------
(* What the phone was told stays so                                        *)

LEMMA ListedKept ==
  ASSUME SystemInv, AgreeInv, control' = control, \A o \in OrderIds : RowKeeps(o),
         \A o \in OrderIds : /\ local'[o].status = "none" => local[o].status = "none"
                             /\ local'[o].status \in Waits => local[o].status \in Waits
  PROVE  ListedInv'
  <1>1. \A o \in OrderIds : local[o].status \in Waits => Server!Exists(o)
    BY DEF SystemInv, LocalInv, Untouched, Server!Exists
  <1>2. \A o \in OrderIds : orders[o].status \in {"none"} \cup Server!Open \cup Closes
    BY SameVars, RowTypes DEF Store!Order, Store!Statuses
  <1>3. Server!Open = Waits \cup {"running"}
    BY SameVars
  <1>4. ASSUME control.stage \in {"listing", "answered"}
        PROVE  /\ \A o \in DOMAIN control.rows : local'[o].status = "none" => orders'[o].closedBy # "phone"
               /\ \A o \in OrderIds \ DOMAIN control.rows :
                    ~control.truncated /\ local'[o].status \in Waits => orders'[o].status \notin Server!Open
    <2>1. DOMAIN control.rows \subseteq OrderIds
      BY <1>4 DEF SystemInv, ListInv
    <2>2. ASSUME NEW o \in DOMAIN control.rows, local'[o].status = "none" PROVE orders'[o].closedBy # "phone"
      <3>1. local[o].status = "none" /\ orders[o].closedBy # "phone"
        BY <1>4, <2>1, <2>2 DEF AgreeInv, ListedInv
      <3> QED BY <2>1, <2>2, <3>1 DEF RowKeeps
    <2>3. ASSUME NEW o \in OrderIds \ DOMAIN control.rows, ~control.truncated, local'[o].status \in Waits
          PROVE  orders'[o].status \notin Server!Open
      <3>1. local[o].status \in Waits /\ orders[o].status \notin Server!Open
        BY <1>4, <2>3 DEF AgreeInv, ListedInv
      <3>2. orders[o].status \in Closes
        BY <1>1, <1>2, <2>3, <3>1 DEF Server!Exists
      <3> QED BY <2>3, <3>1, <3>2 DEF RowKeeps
    <2> QED BY <2>2, <2>3
  <1>5. ASSUME control.stage = "answered", NEW o \in OrderIds \cap DOMAIN control.closed
        PROVE  /\ control.closed[o] \in {"expired", "interrupted", "cancelled"}
               /\ local'[o].status \in {"none"} \cup Waits => orders'[o].status \in Closes
    BY <1>5 DEF AgreeInv, ListedInv, RowKeeps
  <1> QED BY <1>3, <1>4, <1>5 DEF ListedInv, Server!Open, Server!Waiting

LEMMA NotListed ==
  ASSUME control'.stage \notin {"listing", "answered"}
  PROVE  ListedInv'
  BY DEF ListedInv

LEMMA ListedQuiet == Quiet.stage = "idle"
  BY DEF Quiet

-----------------------------------------------------------------------------
(* The steps of the backend and of the calls                               *)

\* No more than the rows, what is on its way and the list change.
LEMMA OnlyRows ==
  ASSUME SystemInv, SystemInv', AgreeInv, \A o \in OrderIds : RowMoves(o),
         UNCHANGED <<local, outbox, results, worker, commanded, reinstalls>>,
         late' \subseteq OnTheWay,
         \A r \in ResultIds : measurements'[r] = measurements[r] \/ (results[r].sync = "pending" /\ Same(r)'),
         control' = control \/ ListedInv'
  PROVE  AgreeInv'
  <1>1. OnTheWay' \subseteq OnTheWay
    BY DEF OnTheWay
  <1>2. PhoneStays
    BY <1>1 DEF PhoneStays, ToClose, StaysUnanswered, Unanswered
  <1>3. ListedInv'
    BY RowKept, ListedKept DEF AgreeInv
  <1> QED BY <1>2, <1>3, StoreAgrees

LEMMA OthersAgree ==
  ASSUME SystemInv, SystemInv', AgreeInv, ServerSteps \/ UNCHANGED vars
  PROVE  AgreeInv'
  <1>1. /\ UNCHANGED <<local, outbox, results, worker, control, commanded, reinstalls>> /\ late' = late
        /\ measurements' = measurements
    BY DEF ServerSteps, Alone, vars, phoneVars, serverVars, network,
           Server!Creating, Server!CreatePhoneOrders, Server!createPhoneOrderForDevice, Server!CreateRebootOrder,
           Server!Administering, Server!CancelPhoneOrders, Server!ChangeRunner,
           Server!SweepExpires, Server!SweepInterrupts, Server!Tick
  <1>2. \A o \in OrderIds : RowMoves(o)
    BY GentleRows DEF ServerSteps, Alone, vars, SystemInv
  <1>3. late \subseteq OnTheWay
    BY DEF OnTheWay
  <1> QED BY <1>1, <1>2, <1>3, OnlyRows

LEMMA LateReportAgrees ==
  ASSUME SystemInv, SystemInv', AgreeInv, NEW report \in late, LateReport(report)
  PROVE  AgreeInv'
  <1>1. report \in OnTheWay /\ late \subseteq OnTheWay
    BY DEF OnTheWay
  <1>2. \A o \in OrderIds : RowMoves(o)
    BY <1>1, ReportRows DEF LateReport
  <1>3. /\ UNCHANGED <<local, outbox, results, worker, control, commanded, reinstalls>>
        /\ late' \subseteq OnTheWay
    BY <1>1 DEF LateReport, phoneVars
  <1>4. measurements' = measurements
    BY DEF LateReport, Applied, serverVars, Server!SetPhoneOrderState
  <1> QED BY <1>2, <1>3, <1>4, OnlyRows

\* Calls without an answer, whatever they did in the backend.
LEMMA NoAnswerAgrees ==
  ASSUME SystemInv, SystemInv', AgreeInv,
         \/ AckLost \/ ReportLost \/ ReportDelayed \/ Unseen(NoAnswer)
         \/ \E r \in ResultIds : ResultLost(r)
  PROVE  AgreeInv'
  <1>1. /\ UNCHANGED <<local, outbox, results, worker, commanded>> /\ control' = Quiet /\ reinstalls' = reinstalls
    BY DEF AckLost, ReportLost, ReportDelayed, ResultLost, Unseen, NoAnswer, network
  <1>2. Sending => Head(outbox) \in OnTheWay
    BY First DEF SystemInv, PhoneTypeOK
  <1>3. ListedInv'
    BY <1>1, ListedQuiet, NotListed
  <1>4. late' \subseteq OnTheWay
    BY <1>2 DEF AckLost, ReportLost, ReportDelayed, ResultLost, Unseen, network, OnTheWay
  <1>5. CASE AckLost \/ ReportDelayed \/ Unseen(NoAnswer)
    <2>1. \A o \in OrderIds : RowMoves(o)
      BY <1>5, GentleRows DEF AckLost, NotAcked, ReportDelayed, Unseen, SystemInv
    <2>2. measurements' = measurements
      BY <1>5 DEF AckLost, ReportDelayed, Unseen, serverVars, Server!AckPhoneOrders
    <2> QED BY <1>1, <1>3, <1>4, <2>1, <2>2, OnlyRows
  <1>6. CASE ReportLost
    <2>1. \A o \in OrderIds : RowMoves(o)
      BY <1>2, <1>6, ReportRows DEF ReportLost
    <2>2. measurements' = measurements
      BY <1>6 DEF ReportLost, Applied, serverVars, Server!SetPhoneOrderState
    <2> QED BY <1>1, <1>3, <1>4, <2>1, <2>2, OnlyRows
  <1>7. ASSUME NEW r \in ResultIds, ResultLost(r)
        PROVE  AgreeInv'
    <2>1. results[r].sync = "pending" /\ Stored(r)
      BY <1>7 DEF ResultLost, Uploading
    <2>2. \A o \in OrderIds : RowMoves(o)
      BY <2>1, UploadRows
    <2>3. \A q \in ResultIds : measurements'[q] = measurements[q] \/ (results[q].sync = "pending" /\ Same(q)')
      BY <1>1, <2>1, UploadRows DEF Same
    <2> QED BY <1>1, <1>3, <1>4, <2>2, <2>3, OnlyRows
  <1> QED BY <1>5, <1>6, <1>7

\* Steps of the control thread that tell nothing to the backend.
LEMMA ControlAgrees ==
  ASSUME SystemInv, SystemInv', AgreeInv,
         Unseen(StartFlush) \/ Unseen(AckRefused) \/ Unseen(OutboxSent) \/ Unseen(UploadEnds)
  PROVE  AgreeInv'
  <1>1. UNCHANGED <<local, outbox, results, worker, commanded, reinstalls>> /\ late' = late /\ UNCHANGED serverVars
    BY DEF Unseen, StartFlush, AckRefused, OutboxSent, UploadEnds, network
  <1>2. control'.stage \in {"idle", "flushing", "uploading"}
    <2>1. Unseen(StartFlush) \/ Unseen(AckRefused) => control'.stage = "flushing"
      BY DEF Unseen, StartFlush, AckRefused, Quiet
    <2>2. Unseen(OutboxSent) => control'.stage = "uploading"
      BY DEF Unseen, OutboxSent, Quiet
    <2>3. Unseen(UploadEnds) => control'.stage = "idle"
      BY ListedQuiet DEF Unseen, UploadEnds
    <2> QED BY <2>1, <2>2, <2>3
  <1>3. \A o \in OrderIds : RowMoves(o)
    BY <1>1, GentleRows DEF SystemInv
  <1>4. ListedInv'
    BY <1>2, NotListed
  <1> QED BY <1>1, <1>3, <1>4, OnlyRows DEF OnTheWay, serverVars

LEMMA AckAgrees ==
  ASSUME SystemInv, SystemInv', AgreeInv, Ack
  PROVE  AgreeInv'
  <1>1. /\ UNCHANGED <<outbox, results, worker, commanded, reinstalls, late, measurements>>
        /\ control'.stage = "flushing"
    BY DEF Ack, AckAnswered, network, Quiet, Server!AckPhoneOrders
  <1>2. \A o \in OrderIds : RowMoves(o)
    BY GentleRows DEF Ack, NotAcked, SystemInv
  <1>3. ASSUME NEW o \in OrderIds
        PROVE  /\ local'[o].result = local[o].result
               /\ local'[o].status = local[o].status \/ {local[o].status, local'[o].status} \subseteq Waits
    <2>1. local[o] \in LocalOrder
      BY DEF SystemInv, PhoneTypeOK, LocalOrder
    <2>2. \/ local'[o] = local[o]
          \/ local'[o] = [local[o] EXCEPT !.acked = TRUE, !.status = IF @ = "pending" THEN "delivered" ELSE @]
      BY DEF Ack, AckAnswered
    <2> QED BY <2>1, <2>2 DEF LocalOrder, Waits
  <1>4. \A o \in OrderIds : StaysUnanswered(o)
    <2>1. ASSUME NEW o \in OrderIds, local[o].status = "failed"
          PROVE  local'[o].status = "failed" /\ (local'[o].sshOk <=> local[o].sshOk)
      <3>1. local[o] \in LocalOrder
        BY DEF SystemInv, PhoneTypeOK, LocalOrder
      <3>2. \/ local'[o] = local[o]
            \/ local'[o] = [local[o] EXCEPT !.acked = TRUE, !.status = IF @ = "pending" THEN "delivered" ELSE @]
        BY DEF Ack, AckAnswered
      <3> QED BY <2>1, <3>1, <3>2 DEF LocalOrder
    <2> QED BY <2>1 DEF StaysUnanswered, Unanswered
  <1>5. PhoneStays
    BY <1>1, <1>3, <1>4 DEF PhoneStays, ToClose, OnTheWay
  <1>6. ListedInv'
    BY <1>1, NotListed
  <1> QED BY <1>2, <1>5, <1>6, StoreAgrees

LEMMA SendReportAgrees ==
  ASSUME SystemInv, SystemInv', AgreeInv, SendReport
  PROVE  AgreeInv'
  <1>1. /\ UNCHANGED <<local, results, worker, commanded, reinstalls, late>>
        /\ outbox' = Tail(outbox) /\ control.stage = "flushing" /\ Sending
        /\ Applied(Head(outbox))
    BY DEF SendReport, ReportAnswered, Sending, network
  <1>2. control'.stage = "flushing"
    BY DEF SendReport, ReportAnswered, Sending, SystemInv, ListInv
  <1>3. /\ Head(outbox) \in OnTheWay
        /\ OnTheWay' \subseteq OnTheWay
    BY <1>1, First DEF SystemInv, PhoneTypeOK, OnTheWay
  <1>4. measurements' = measurements /\ \A o \in OrderIds : RowMoves(o)
    BY <1>1, <1>3, ReportRows DEF Applied, serverVars, Server!SetPhoneOrderState
  <1>5. ASSUME NEW o \in OrderIds, ToClose(o)
        PROVE  ToClose(o)' \/ ClosedForGood(o)'
    <2>1. PICK i \in 1..Len(outbox) : outbox[i].order = o /\ outbox[i].status \in Closes
      BY <1>5 DEF ToClose
    <2>2. /\ Len(outbox) \in Nat /\ outbox # <<>> /\ Head(outbox) = outbox[1]
          /\ Len(Tail(outbox)) = Len(outbox) - 1
          /\ \A j \in 1..Len(Tail(outbox)) : Tail(outbox)[j] = outbox[j + 1]
      BY <1>1, LenProperties, HeadTailProperties DEF Sending, SystemInv, PhoneTypeOK
    <2>3. CASE i = 1
      BY <1>1, <1>3, <2>1, <2>2, <2>3, ReportHeard
    <2>4. CASE i # 1
      <3>1. i - 1 \in 1..Len(outbox') /\ outbox'[i - 1] = outbox[i]
        BY <1>1, <2>1, <2>2, <2>4
      <3> QED BY <2>1, <3>1 DEF ToClose
    <2> QED BY <2>3, <2>4
  <1>6. PhoneStays
    BY <1>1, <1>3, <1>4, <1>5 DEF PhoneStays, StaysUnanswered, Unanswered
  <1>7. ListedInv'
    BY <1>2, NotListed
  <1> QED BY <1>4, <1>6, <1>7, StoreAgrees

LEMMA SendResultAgrees ==
  ASSUME SystemInv, SystemInv', AgreeInv, NEW r \in ResultIds, SendResult(r)
  PROVE  AgreeInv'
  <1>1. /\ UNCHANGED <<local, outbox, worker, control, commanded, reinstalls, late>>
        /\ results' = [results EXCEPT ![r].sync = "synced"]
        /\ control.stage = "uploading" /\ results[r].sync = "pending" /\ Stored(r)
    BY DEF SendResult, ResultAnswered, Uploading, network
  <1>2. /\ results'[r].sync = "synced" /\ results'[r].order = results[r].order
        /\ results'[r].status = results[r].status /\ results'[r].started = results[r].started
        /\ \A q \in ResultIds \ {r} : results'[q] = results[q]
    BY <1>1 DEF SystemInv, PhoneTypeOK
  <1>3. \A o \in OrderIds : RowMoves(o)
    BY <1>1, UploadRows
  <1>4. Same(r)' /\ \A q \in ResultIds \ {r} : measurements'[q] = measurements[q]
    BY <1>1, <1>2, UploadRows DEF Same
  <1>5. PhoneStays
    BY <1>1, <1>2, <1>4 DEF PhoneStays, ToClose, OnTheWay, StaysUnanswered, Unanswered
  <1>6. ListedInv'
    BY <1>1, NotListed
  <1> QED BY <1>3, <1>5, <1>6, StoreAgrees

LEMMA AskAgrees ==
  ASSUME SystemInv, SystemInv', AgreeInv,
         AskClosed \/ \E listed \in SUBSET OrderIds, truncated \in BOOLEAN : AskOpen(listed, truncated)
  PROVE  AgreeInv'
  <1>0. Server!Open = Waits \cup {"running"} /\ Server!Closed = Closes /\ Store!Open = Server!Open
    BY SameVars
  <1>1. ASSUME NEW listed \in SUBSET OrderIds, NEW truncated \in BOOLEAN, AskOpen(listed, truncated)
        PROVE  AgreeInv'
    <2>1. PICK swept : swept = Server!SweptOrders
      OBVIOUS
    <2> DEFINE rows == [o \in listed |-> [type |-> swept[o].type, notAfter |-> swept[o].notAfter,
                                          status |-> swept[o].status, result |-> swept[o].result]]
    <2>2. /\ orders' = swept /\ UNCHANGED <<measurements, late, reinstalls>>
          /\ \A o \in listed : swept[o].status \in Server!Open
          /\ truncated \/ \A o \in OrderIds \ listed : swept[o].status \notin Server!Open
          /\ ListOpen(rows, truncated)
      BY <1>1, <2>1 DEF AskOpen, Server!SweepPhoneOrders, network
    <2>3. /\ control'.stage = "listing" /\ control'.rows = rows /\ control'.truncated = truncated
          /\ UNCHANGED <<local, outbox, results, worker, commanded>>
      BY <2>2 DEF ListOpen, Quiet
    <2>4. \A o \in OrderIds : RowMoves(o)
      BY <1>1, GentleRows DEF AskOpen, SystemInv
    <2>5. \A o \in OrderIds : Store!RowClosed(orders'[o])
      BY <2>4, RowKept DEF AgreeInv, RowKeeps
    <2>6. ListedInv'
      <3>1. \A o \in listed : orders'[o].closedBy = "none"
        BY <1>0, <2>2, <2>5 DEF Store!RowClosed
      <3>2. DOMAIN rows = listed
        OBVIOUS
      <3> HIDE DEF rows
      <3> QED BY <1>0, <2>2, <2>3, <3>1, <3>2 DEF ListedInv, Server!Open, Server!Waiting
    <2> QED BY <2>2, <2>3, <2>4, <2>6, OnlyRows DEF OnTheWay
  <1>2. CASE AskClosed
    <2>1. PICK closed : /\ \A o \in DOMAIN closed : /\ o \in OrderIds /\ orders[o].status \in Closes
                                                    /\ orders[o].closedBy \in {"server", "dashboard"}
                                                    /\ closed[o] = orders[o].status
                        /\ ListClosed(closed) /\ UNCHANGED <<serverVars, network>>
      BY <1>0, <1>2 DEF AskClosed
    <2>2. /\ control.stage = "listing" /\ control' = [control EXCEPT !.stage = "answered", !.closed = closed]
          /\ UNCHANGED <<local, outbox, results, worker, commanded, reinstalls, late, orders, measurements>>
      BY <2>1 DEF ListClosed, serverVars, network
    <2>3. /\ control'.stage = "answered" /\ control'.closed = closed
          /\ control'.rows = control.rows /\ control'.truncated = control.truncated
      BY <2>2 DEF SystemInv, ListInv
    <2>4. \A o \in OrderIds : RowMoves(o)
      BY <2>1, GentleRows DEF SystemInv
    <2>5. \A o \in DOMAIN closed : closed[o] \in {"expired", "interrupted", "cancelled"}
      BY <2>1 DEF AgreeInv, RowsInv, Store!RowClosed
    <2>6. ListedInv'
      BY <1>0, <2>1, <2>2, <2>3, <2>5 DEF AgreeInv, ListedInv, Server!Open, Server!Waiting
    <2> QED BY <2>2, <2>4, <2>6, OnlyRows DEF OnTheWay
  <1> QED BY <1>1, <1>2

-----------------------------------------------------------------------------
(* A step of the phone                                                     *)

\* What it may do to an order in its database.
Takes(o) ==
  /\ local[o].status \in Closes => local'[o].status = local[o].status
  /\ local'[o].status = "none" => local[o].status = "none"
  /\ local'[o].status \in Waits => local[o].status \in {"none"} \cup Waits
  /\ local[o].status = "none" /\ local'[o].status # "none" =>
       orders[o].closedBy # "phone" /\ local'[o].status # "running"
  /\ StaysUnanswered(o)
  /\ ToClose(o) => ToClose(o)'
  /\ local'[o].status \in Closes /\ local[o].status \notin Closes =>
       \/ ToClose(o)'
       \/ ClosedByResult(o)'
       \/ /\ local[o].status \in {"none"} \cup Waits /\ orders[o].status \in Closes
          /\ local'[o].status \notin {"done", "failed"}

\* What it may tell.
SaysNow(report) ==
  /\ report.order \in OrderIds /\ local[report.order].status \notin Closes
  /\ report.status \in {"running"} \cup Closes => local'[report.order].status = report.status
  /\ report.status = "expired" => local[report.order].status \in Waits
  /\ reinstalls = 0 /\ report.order \in commanded' =>
       report.status # "expired" /\ (NeverSent(report) => Unanswered(report.order)')

\* What it may do to a result.
Stores(r) ==
  \/ results'[r] = results[r]
  \/ results[r].sync = "none" /\ results'[r].sync = "pending" /\ ResultTold(r)'

PhoneActs(new) ==
  /\ UNCHANGED <<serverVars, late, reinstalls>>
  /\ OnTheWay' \subseteq OnTheWay \cup new
  /\ \A report \in new : SaysNow(report)
  /\ \A o \in OrderIds : Takes(o) /\ (local'[o].status = "running" => RunsAs(o)')
  /\ \A r \in ResultIds : Stores(r)
  /\ TestsFor'
  /\ \A o \in commanded' \ commanded : local[o].status = "running" /\ Server!IsReboot(o)

LEMMA Stages == SystemInv => \A o \in OrderIds : local[o].status \in {"none", "running"} \cup Waits \cup Closes
  BY DEF SystemInv, PhoneTypeOK

LEMMA PhoneRuns ==
  ASSUME SystemInv, AgreeInv, NEW new, PhoneActs(new)
  PROVE  RunningInv'
  <1>1. ASSUME NEW o \in OrderIds, local'[o].status = "running"
        PROVE  RunsAs(o)' /\ orders'[o].closedBy # "phone"
    <2>1. Takes(o) /\ RunsAs(o)' /\ orders' = orders
      BY <1>1 DEF PhoneActs, serverVars
    <2>2. local[o].status \in {"running"} \cup Waits
      BY <1>1, <2>1, Stages DEF Takes, Closes
    <2>3. orders[o].closedBy # "phone"
      BY <2>2 DEF SystemInv, LocalInv, Untouched, AgreeInv, RunningInv
    <2> QED BY <2>1, <2>3
  <1>2. TestsFor'
    BY DEF PhoneActs
  <1> QED BY <1>1, <1>2 DEF RunningInv, RunsAs

\* Of an order that just closed, or closed before, nothing new says that it runs.
LEMMA PhoneSays ==
  ASSUME SystemInv, AgreeInv, NEW new, PhoneActs(new)
  PROVE  SaidInv' /\ HeardInv'
  <1>1. /\ \A o \in OrderIds : Takes(o)
        /\ \A report \in new : SaysNow(report)
        /\ OnTheWay' \subseteq OnTheWay \cup new /\ orders' = orders
    BY DEF PhoneActs, serverVars
  <1>2. ASSUME NEW report \in OnTheWay, report \in OnTheWay'
        PROVE  /\ report.status \in Closes => local'[report.order].status = report.status
               /\ report.status = "expired" =>
                    orders'[report.order].status # "running" /\ NoneRuns(report.order)'
    <2>1. report.order \in OrderIds
      BY DEF SystemInv, ReportsInv, WellFormed, Reports
    <2>2. ASSUME report.status \in Closes
          PROVE  local[report.order].status \in Closes /\ local'[report.order].status = report.status
      BY <1>1, <2>1, <2>2 DEF AgreeInv, SaidInv, Takes
    <2>3. ASSUME report.status = "expired"
          PROVE  orders'[report.order].status # "running" /\ NoneRuns(report.order)'
      <3>1. /\ orders[report.order].status # "running" /\ NoneRuns(report.order)
            /\ local[report.order].status \in Closes
        BY <2>2, <2>3 DEF AgreeInv, SaidInv, Closes
      <3> QED BY <1>1, <3>1 DEF NoneRuns, SaysNow
    <2> QED BY <2>2, <2>3
  <1>3. ASSUME NEW report \in new
        PROVE  /\ report.status \in Closes => local'[report.order].status = report.status
               /\ report.status = "expired" =>
                    orders'[report.order].status # "running" /\ NoneRuns(report.order)'
    <2>1. report.status \in Closes => local'[report.order].status = report.status
      BY <1>1 DEF SaysNow
    <2>2. ASSUME report.status = "expired"
          PROVE  orders'[report.order].status # "running" /\ NoneRuns(report.order)'
      <3>1. /\ report.order \in OrderIds /\ local[report.order].status \in Waits
            /\ local'[report.order].status = "expired"
        BY <1>1, <2>1, <2>2 DEF SaysNow, Closes
      <3>2. orders[report.order].status # "running" /\ \A other \in OnTheWay : other.order # report.order
        BY <3>1 DEF SystemInv, LocalInv, Untouched, SilentInv
      <3> QED BY <1>1, <3>1, <3>2 DEF NoneRuns, SaysNow
    <2> QED BY <2>1, <2>2
  <1>4. ASSUME NEW o \in OrderIds, local'[o].status # "none", orders'[o].closedBy = "phone"
        PROVE  orders'[o].status = local'[o].status
    <2>1. local[o].status # "none"
      BY <1>1, <1>4 DEF Takes
    <2>2. local[o].status \notin Waits \cup {"running"}
      BY <1>1, <1>4 DEF SystemInv, LocalInv, Untouched, AgreeInv, RunningInv
    <2>3. local[o].status \in Closes
      BY <2>1, <2>2, Stages
    <2> QED BY <1>1, <1>4, <2>1, <2>3 DEF Takes, AgreeInv, HeardInv
  <1> QED BY <1>1, <1>2, <1>3, <1>4 DEF SaidInv, HeardInv, NoneRuns

LEMMA PhoneDone ==
  ASSUME SystemInv, AgreeInv, NEW new, PhoneActs(new)
  PROVE  DoneInv'
  <1> SUFFICES ASSUME NEW o \in OrderIds, local'[o].status \in Closes
               PROVE  ClosedByResult(o)' \/ ToClose(o)' \/ ClosedForGood(o)'
    BY DEF DoneInv, ClosedByResult, ToClose, ClosedForGood, Server!IsReboot, ByPhone, NoneRuns
  <1>1. /\ Takes(o) /\ \A report \in new : SaysNow(report)
        /\ OnTheWay' \subseteq OnTheWay \cup new /\ orders' = orders /\ reinstalls' = reinstalls
        /\ \A r \in ResultIds : Stores(r)
        /\ \A p \in commanded' \ commanded : local[p].status = "running"
    BY DEF PhoneActs, serverVars
  <1>2. o # None
    BY SystemAssumption DEF Server!NamesAssumption
  <1>3. CASE local[o].status \in Closes
    <2>1. local'[o].status = local[o].status
      BY <1>1, <1>3 DEF Takes
    <2>2. CASE ClosedByResult(o)
      <3>1. PICK r \in ResultIds : results[r].order = o
        BY <2>2 DEF ClosedByResult
      <3>2. results[r].sync # "none"
        BY <1>2, <3>1 DEF AgreeInv, MeasuredInv, ResultTold
      <3> QED BY <1>1, <2>1, <2>2, <3>1, <3>2 DEF ClosedByResult, Stores, Server!IsReboot
    <2>3. CASE ToClose(o)
      BY <1>1, <2>3 DEF Takes
    <2>4. CASE ClosedForGood(o)
      <3>1. NoneRuns(o) => NoneRuns(o)'
        BY <1>1, <1>3 DEF NoneRuns, SaysNow
      <3>2. ByPhone(o)' => ByPhone(o)
        BY <1>1, <1>3, <2>1 DEF ByPhone, Closes
      <3> QED BY <1>1, <2>1, <2>4, <3>1, <3>2 DEF ClosedForGood, Server!IsReboot
    <2> QED BY <1>3, <2>2, <2>3, <2>4 DEF AgreeInv, DoneInv
  <1>4. ASSUME local[o].status \in {"none"} \cup Waits, orders[o].status \in Closes,
               local'[o].status \notin {"done", "failed"}
        PROVE  ClosedForGood(o)'
    <2>1. NoneRuns(o)'
      <3>1. \A report \in OnTheWay : report.order # o
        BY <1>4 DEF SystemInv, SilentInv
      <3> QED BY <1>1, <3>1 DEF NoneRuns, SaysNow, Closes
    <2>2. ~ByPhone(o)'
      BY <1>1, <1>4 DEF ByPhone, SystemInv, CommandedInv, Waits
    <2> QED BY <1>1, <1>4, <2>1, <2>2 DEF ClosedForGood
  <1> QED BY <1>1, <1>3, <1>4 DEF Takes

LEMMA PhoneMeasures ==
  ASSUME SystemInv, AgreeInv, NEW new, PhoneActs(new)
  PROVE  MeasuredInv'
  <1> SUFFICES ASSUME NEW r \in ResultIds
               PROVE  /\ ResultTold(r)'
                      /\ results'[r].sync = "none" => measurements'[r].order = "absent"
                      /\ results'[r].sync = "pending" /\ measurements'[r].order # "absent" => Same(r)'
                      /\ results'[r].sync = "synced" /\ results'[r].order # None => Same(r)'
    BY DEF MeasuredInv, ResultTold, Same, Server!IsReboot
  <1>1. /\ Stores(r) /\ \A o \in OrderIds : Takes(o)
        /\ orders' = orders /\ measurements' = measurements
    BY DEF PhoneActs, serverVars
  <1>2. /\ ResultTold(r)
        /\ results[r].sync = "none" => measurements[r].order = "absent"
        /\ results[r].sync = "pending" /\ measurements[r].order # "absent" => Same(r)
        /\ results[r].sync = "synced" /\ results[r].order # None => Same(r)
    BY DEF AgreeInv, MeasuredInv
  <1>3. CASE results'[r] = results[r]
    <2>1. results[r].order \in OrderIds \cup {None}
      BY DEF SystemInv, PhoneTypeOK
    <2>2. ResultTold(r)'
      BY <1>1, <1>2, <1>3, <2>1 DEF ResultTold, Takes, Server!IsReboot, Closes
    <2> QED BY <1>1, <1>2, <1>3, <2>2 DEF Same
  <1>4. CASE results[r].sync = "none" /\ results'[r].sync = "pending" /\ ResultTold(r)'
    BY <1>1, <1>2, <1>4
  <1> QED BY <1>1, <1>3, <1>4 DEF Stores

LEMMA PhoneSent ==
  ASSUME SystemInv, SystemInv', AgreeInv, NEW new, PhoneActs(new)
  PROVE  SentInv'
  <1> SUFFICES ASSUME reinstalls' = 0, NEW o \in commanded'
               PROVE  /\ orders'[o].type = "reboot_router"
                      /\ \A report \in OnTheWay' : report.order = o =>
                           report.status # "expired" /\ (NeverSent(report) => Unanswered(o)')
                      /\ orders'[o].closedBy = "phone" => Server!RebootCounts(orders'[o]) \/ Unanswered(o)'
    BY DEF SentInv, TellsSent, Server!IsReboot, Server!RebootCounts, NeverSent, Unanswered
  <1>1. /\ o \in OrderIds /\ reinstalls = 0 /\ orders' = orders
        /\ \A report \in new : SaysNow(report)
        /\ OnTheWay' \subseteq OnTheWay \cup new
        /\ o \notin commanded => local[o].status = "running" /\ Server!IsReboot(o)
        /\ Unanswered(o) => Unanswered(o)'
    BY DEF PhoneActs, Takes, StaysUnanswered, serverVars, SystemInv, PhoneTypeOK
  <1>2. CASE o \in commanded
    <2>1. ASSUME NEW report \in OnTheWay', report.order = o
          PROVE  report.status # "expired" /\ (NeverSent(report) => Unanswered(o)')
      <3>1. CASE report \in new
        BY <1>1, <2>1, <3>1 DEF SaysNow
      <3>2. CASE report \in OnTheWay
        <4>1. TellsSent(report)
          BY <1>1, <1>2, <2>1, <3>2 DEF AgreeInv, SentInv
        <4> QED BY <1>1, <2>1, <4>1 DEF TellsSent
      <3> QED BY <1>1, <2>1, <3>1, <3>2
    <2> QED BY <1>1, <1>2, <2>1 DEF AgreeInv, SentInv, Server!IsReboot
  <1>3. CASE o \notin commanded
    <2>1. local[o].status = "running" /\ orders[o].closedBy # "phone"
      BY <1>1, <1>3 DEF AgreeInv, RunningInv
    <2>2. \A report \in OnTheWay : report.order = o => report.status \notin Closes
      BY <2>1 DEF AgreeInv, SaidInv, Closes
    <2>3. \A report \in OnTheWay : report.order = o => ~NeverSent(report) /\ report.status # "expired"
      BY <2>2 DEF NeverSent, Closes
    <2> QED BY <1>1, <1>3, <2>1, <2>3 DEF SaysNow, Server!IsReboot
  <1> QED BY <1>2, <1>3

LEMMA PhoneAgrees ==
  ASSUME SystemInv, SystemInv', AgreeInv, NEW new, PhoneActs(new), control' = control \/ ListedInv',
         control' = control => \A o \in OrderIds : local'[o].status # "none" => local[o].status # "none"
  PROVE  AgreeInv'
  <1>1. UNCHANGED serverVars /\ \A o \in OrderIds : Takes(o)
    BY DEF PhoneActs
  <1>2. RowsInv'
    BY <1>1 DEF serverVars, AgreeInv, RowsInv
  <1>3. ListedInv'
    <2>1. \A o \in OrderIds : RowKeeps(o)
      BY <1>1, GentleRows, RowKept DEF AgreeInv, SystemInv
    <2>2. ASSUME control' = control
          PROVE  \A o \in OrderIds : /\ local'[o].status = "none" => local[o].status = "none"
                                     /\ local'[o].status \in Waits => local[o].status \in Waits
      BY <1>1, <2>2 DEF Takes, Waits
    <2> QED BY <2>1, <2>2, ListedKept
  <1> QED BY <1>2, <1>3, PhoneRuns, PhoneSays, PhoneDone, PhoneMeasures, PhoneSent DEF AgreeInv

-----------------------------------------------------------------------------
(* The steps of the worker                                                 *)

\* What waits in the outbox goes on waiting, and the new report after it.
LEMMA AppendedWaits ==
  ASSUME SystemInv, NEW report \in Reports, outbox' = Append(outbox, report)
  PROVE  /\ \A o \in OrderIds : ToClose(o) => ToClose(o)'
         /\ report.status \in Closes => ToClose(report.order)'
  <1>1. /\ outbox \in Seq(Reports) /\ Len(outbox') = Len(outbox) + 1
        /\ \A i \in 1..Len(outbox) + 1 :
             outbox'[i] = IF i = Len(outbox) + 1 THEN report ELSE outbox[i]
    BY AppendProperties DEF SystemInv, PhoneTypeOK
  <1>2. Len(outbox) \in Nat
    BY <1>1, LenProperties
  <1> QED BY <1>1, <1>2 DEF ToClose

\* Nothing in the database changes: the worker moves on, or the process dies.
LEMMA StandsAgrees ==
  ASSUME SystemInv, SystemInv', AgreeInv,
         UNCHANGED <<serverVars, late, reinstalls, local, outbox, results, commanded>>,
         control' = control \/ ListedInv',
         \/ worker'.stage = "recovering"
         \/ worker.stage \notin Busy \cup {"recovering"} /\ worker'.stage # "testing"
  PROVE  AgreeInv'
  <1>1. \A o \in OrderIds : Takes(o)
    BY DEF Takes, ToClose, Waits, Closes, StaysUnanswered, Unanswered
  <1>2. \A o \in OrderIds : local'[o].status = "running" => RunsAs(o)'
    BY DEF AgreeInv, RunningInv, RunsAs
  <1>3. PhoneActs({})
    BY <1>1, <1>2 DEF PhoneActs, OnTheWay, Stores, TestsFor
  <1> QED BY <1>3, PhoneAgrees

\* The order of the worker starts, goes on or ends, and it is told.
LEMMA OneAgrees ==
  ASSUME SystemInv, SystemInv', AgreeInv, UNCHANGED <<serverVars, network, results, control, commanded>>,
         NEW o \in OrderIds, o = worker.order, worker.stage # "recovering",
         local[o].status \in {"running"} \cup Waits,
         NEW row \in LocalOrder, local' = [local EXCEPT ![o] = row],
         row.status \in ({"running"} \cup Closes) \ {"expired"},
         NEW report \in Reports, report.order = o, report.status = row.status,
         outbox' = Append(outbox, report),
         reinstalls = 0 /\ o \in commanded => (NeverSent(report) => Unanswered(o)'),
         row.status = "running" => RunsAs(o)', TestsFor'
  PROVE  AgreeInv'
  <1>1. /\ local'[o] = row /\ \A p \in OrderIds \ {o} : local'[p] = local[p]
        /\ late' = late /\ reinstalls' = reinstalls
    BY OneRow DEF network
  <1>2. /\ \A p \in OrderIds : ToClose(p) => ToClose(p)'
        /\ report.status \in Closes => ToClose(o)'
    BY AppendedWaits
  <1>3. \A p \in OrderIds \ {o} : local[p].status # "running"
    BY DEF AgreeInv, RunningInv, RunsAs
  <1>4. ASSUME NEW p \in OrderIds
        PROVE  Takes(p) /\ (local'[p].status = "running" => RunsAs(p)')
    <2>1. CASE p = o
      BY <1>1, <1>2, <2>1 DEF Takes, Waits, Closes, StaysUnanswered, Unanswered
    <2>2. CASE p # o
      BY <1>1, <1>2, <1>3, <2>2 DEF Takes, StaysUnanswered, Unanswered
    <2> QED BY <2>1, <2>2
  <1>5. SaysNow(report)
    BY <1>1 DEF SaysNow, Waits, Closes
  <1>6. OnTheWay' \subseteq OnTheWay \cup {report}
    BY <1>1, Appended DEF SystemInv, PhoneTypeOK
  <1>7. PhoneActs({report})
    BY <1>1, <1>4, <1>5, <1>6 DEF PhoneActs, Stores
  <1>8. \A p \in OrderIds : local'[p].status # "none" => local[p].status # "none"
    BY <1>1 DEF Waits
  <1> QED BY <1>7, <1>8, PhoneAgrees

\* Of an order that has not got to the command of its reboot it did not go out.
LEMMA NotCommanded ==
  ASSUME SystemInv, reinstalls = 0, NEW o \in OrderIds,
         \/ local[o].status \in {"none"} \cup Waits
         \/ worker.order = o /\ worker.stage \in {"gateway", "ssh"}
  PROVE  o \notin commanded
  BY DEF SystemInv, CommandedInv

LEMMA RestAgrees ==
  ASSUME SystemInv, SystemInv', AgreeInv, Unseen(Rest)
  PROVE  AgreeInv'
  <1>1. /\ UNCHANGED <<serverVars, late, reinstalls, local, outbox, results, commanded>> /\ control' = control
        /\ worker.stage \notin Busy \cup {"recovering"}
    BY DEF Unseen, Rest, network, Busy, Rebooting
  <1>2. worker'.stage # "testing"
    BY DEF Unseen, Rest, Idle
  <1> QED BY <1>1, <1>2, StandsAgrees

LEMMA PickAgrees ==
  ASSUME SystemInv, SystemInv', AgreeInv, NEW o \in OrderIds, Unseen(Pick(o, now))
  PROVE  AgreeInv'
  <1>1. /\ UNCHANGED <<serverVars, late, reinstalls, local, outbox, results, commanded>> /\ control' = control
        /\ worker.stage \notin Busy \cup {"recovering"}
        /\ worker' = [Idle EXCEPT !.stage = "preparing", !.order = o, !.since = now]
    BY DEF Unseen, Pick, network, Busy, Rebooting
  <1>2. worker'.stage = "preparing"
    BY <1>1 DEF Idle
  <1> QED BY <1>1, <1>2, StandsAgrees

\* The order turns out not to wait any more.
LEMMA GivesUpAgrees ==
  ASSUME SystemInv, SystemInv', AgreeInv, worker.stage = "preparing", worker' = Idle,
         UNCHANGED <<serverVars, network, local, outbox, results, control, commanded>>
  PROVE  AgreeInv'
  <1>1. worker.stage \notin Busy \cup {"recovering"} /\ worker'.stage # "testing"
    BY DEF Busy, Rebooting, Idle
  <1>2. UNCHANGED <<serverVars, late, reinstalls, local, outbox, results, commanded>> /\ control' = control
    BY DEF network
  <1> QED BY <1>1, <1>2, StandsAgrees

LEMMA UnknownSlotAgrees ==
  ASSUME SystemInv, SystemInv', AgreeInv, Unseen(UnknownSlot)
  PROVE  AgreeInv'
  <1>1. PICK o \in OrderIds : o = worker.order
    BY WorkerOrder DEF Unseen, UnknownSlot
  <1>2. /\ local' = [local EXCEPT ![o] = ClosedOrder(local[o], "interrupted")]
        /\ worker' = Idle /\ UNCHANGED <<serverVars, network, results, control, commanded>>
        /\ worker.stage = "preparing" /\ local[o] \in LocalOrder
    BY <1>1, WorkerOrder DEF Unseen, UnknownSlot
  <1>3. CASE local[o].status \notin Waits
    <2>1. outbox' = outbox
      BY <1>1, <1>3 DEF Unseen, UnknownSlot
    <2>2. local' = local
      BY <1>2, <1>3 DEF ClosedOrder, SystemInv, PhoneTypeOK
    <2> QED BY <1>2, <2>1, <2>2, GivesUpAgrees
  <1>4. CASE local[o].status \in Waits
    <2>1. PICK error \in {"not-started", "other"} : outbox' = Append(outbox, Report(o, "interrupted", None, error, None, None))
      BY <1>1, <1>4 DEF Unseen, UnknownSlot
    <2>2. PICK report : report = Report(o, "interrupted", None, error, None, None)
      OBVIOUS
    <2>3. report \in Reports /\ report.order = o /\ report.status = "interrupted"
      BY <2>2 DEF Report, Reports
    <2>4. PICK row : row = ClosedOrder(local[o], "interrupted")
      OBVIOUS
    <2>5. row \in LocalOrder /\ row.status = "interrupted"
      BY <1>2, <1>4, <2>4, ClosedOrderRow DEF Closes
    <2>6. reinstalls = 0 => o \notin commanded
      BY <1>4, NotCommanded
    <2>7. TestsFor'
      BY <1>2 DEF TestsFor, Idle
    <2>8. outbox' = Append(outbox, report) /\ local' = [local EXCEPT ![o] = row]
      BY <1>2, <2>1, <2>2, <2>4
    <2> QED BY <1>1, <1>2, <1>4, <2>3, <2>5, <2>6, <2>7, <2>8, OneAgrees DEF Closes
  <1> QED BY <1>3, <1>4

LEMMA MarkRunningAgrees ==
  ASSUME SystemInv, SystemInv', AgreeInv, NEW r \in Fresh, Unseen(MarkRunning(r))
  PROVE  AgreeInv'
  <1>1. PICK o \in OrderIds : o = worker.order
    BY WorkerOrder DEF Unseen, MarkRunning
  <1>2. /\ worker.stage = "preparing" /\ local[o] \in LocalOrder /\ worker \in WorkerState
        /\ UNCHANGED <<serverVars, network, results, control, commanded>>
    BY <1>1, WorkerOrder DEF Unseen, MarkRunning
  <1>3. CASE local[o].status \notin Waits
    BY <1>1, <1>2, <1>3, GivesUpAgrees DEF Unseen, MarkRunning
  <1>4. CASE local[o].status \in Waits
    <2>1. PICK report : report = Report(o, "running", r, "none", None, None)
      OBVIOUS
    <2>2. PICK row : row = [local[o] EXCEPT !.status = "running", !.result = r]
      OBVIOUS
    <2>3. /\ local' = [local EXCEPT ![o] = row] /\ outbox' = Append(outbox, report)
          /\ worker' = [worker EXCEPT !.stage = "testing", !.result = r]
      BY <1>1, <1>4, <2>1, <2>2 DEF Unseen, MarkRunning
    <2>4. r \in ResultIds /\ results[r].sync = "none"
      BY SystemAssumption DEF Fresh, HasResult, Server!NamesAssumption
    <2>5. row \in LocalOrder
      BY <1>2, <2>2, <2>4 DEF LocalOrder
    <2>6. row.status = "running" /\ row.result = r
      BY <1>2, <2>2 DEF LocalOrder
    <2>7. report \in Reports /\ report.order = o /\ report.status = "running"
      BY <2>1, <2>4 DEF Report, Reports
    <2>8. worker'.stage = "testing" /\ worker'.result = r /\ worker'.order = o
      BY <1>1, <1>2, <2>3 DEF WorkerState
    <2>9. local'[o] = row
      BY <2>3, <2>5, OneRow
    <2>10. RunsAs(o)' /\ TestsFor'
      BY <1>2, <2>4, <2>6, <2>8, <2>9 DEF RunsAs, TestsFor, Busy
    <2>11. ~NeverSent(report)
      BY <2>7 DEF NeverSent
    <2> QED BY <1>1, <1>2, <1>4, <2>3, <2>5, <2>6, <2>7, <2>10, <2>11, OneAgrees
  <1> QED BY <1>3, <1>4

LEMMA StartRebootAgrees ==
  ASSUME SystemInv, SystemInv', AgreeInv, Unseen(StartReboot)
  PROVE  AgreeInv'
  <1>1. PICK o \in OrderIds : o = worker.order
    BY WorkerOrder DEF Unseen, StartReboot
  <1>2. /\ worker.stage = "preparing" /\ local[o] \in LocalOrder /\ worker \in WorkerState
        /\ local[o].type = "reboot_router"
        /\ Known(o, local[o].type, local[o].result)
        /\ UNCHANGED <<serverVars, network, results, control, commanded>>
    BY <1>1, WorkerOrder DEF Unseen, StartReboot
  <1>3. CASE local[o].status \notin Waits
    BY <1>1, <1>2, <1>3, GivesUpAgrees DEF Unseen, StartReboot
  <1>4. CASE local[o].status \in Waits
    <2>1. PICK report : report = Report(o, "running", None, "none", "before", None)
      OBVIOUS
    <2>2. PICK row : row = [local[o] EXCEPT !.status = "running"]
      OBVIOUS
    <2>3. /\ local' = [local EXCEPT ![o] = row] /\ outbox' = Append(outbox, report)
          /\ worker' = [worker EXCEPT !.stage = "gateway"]
      BY <1>1, <1>4, <2>1, <2>2 DEF Unseen, StartReboot
    <2>4. row \in LocalOrder
      BY <1>2, <2>2 DEF LocalOrder
    <2>5. row.status = "running" /\ row.result = None
      BY <1>2, <2>2 DEF LocalOrder, Known
    <2>6. report \in Reports /\ report.order = o /\ report.status = "running"
      BY <2>1 DEF Report, Reports
    <2>7. worker'.stage = "gateway" /\ worker'.order = o
      BY <1>1, <1>2, <2>3 DEF WorkerState
    <2>8. local'[o] = row /\ None \notin ResultIds
      BY <2>3, <2>4, OneRow, SystemAssumption DEF Server!NamesAssumption
    <2>9. RunsAs(o)' /\ TestsFor'
      BY <2>5, <2>7, <2>8 DEF RunsAs, TestsFor, Busy, Rebooting
    <2>10. ~NeverSent(report)
      BY <2>6 DEF NeverSent
    <2> QED BY <1>1, <1>2, <1>4, <2>3, <2>4, <2>5, <2>6, <2>9, <2>10, OneAgrees
  <1> QED BY <1>3, <1>4

LEMMA BreakOffAgrees ==
  ASSUME SystemInv, SystemInv', AgreeInv, Unseen(BreakOff)
  PROVE  AgreeInv'
  <1>1. worker.stage \in {"testing"} \cup Rebooting /\ worker.stage # "recovering"
    BY DEF Unseen, BreakOff, Rebooting
  <1>2. PICK o \in OrderIds : o = worker.order
    BY <1>1, Running
  <1>3. /\ local[o] \in LocalOrder /\ local[o].status = "running" /\ worker.result \in ResultIds \cup {None}
    BY <1>1, <1>2, WorkerOrder, Running DEF WorkerState
  <1>4. PICK report : report = Report(o, "interrupted", worker.result, "other", None,
                                      IF worker.stage = "watching" THEN TRUE ELSE None)
    OBVIOUS
  <1>5. PICK row : row = [local[o] EXCEPT !.status = "interrupted"]
    OBVIOUS
  <1>6. row \in LocalOrder /\ row.status = "interrupted"
    <2>1. [local[o] EXCEPT !.status = "interrupted"] \in LocalOrder
      BY <1>3 DEF LocalOrder, Closes
    <2> QED BY <1>3, <1>5, <2>1 DEF LocalOrder
  <1>7. /\ report \in Reports /\ report.order = o /\ report.status = "interrupted"
        /\ ~NeverSent(report)
    BY <1>3, <1>4 DEF Report, Reports, NeverSent
  <1>8. /\ local' = [local EXCEPT ![o] = row] /\ outbox' = Append(outbox, report) /\ worker' = Idle
        /\ UNCHANGED <<serverVars, network, results, control, commanded>>
    BY <1>2, <1>4, <1>5 DEF Unseen, BreakOff
  <1>9. TestsFor'
    BY <1>8 DEF TestsFor, Idle
  <1> QED BY <1>1, <1>2, <1>3, <1>6, <1>7, <1>8, <1>9, OneAgrees DEF Closes

LEMMA CloseRebootAgrees ==
  ASSUME SystemInv, SystemInv', AgreeInv, worker.stage \in Rebooting, UNCHANGED <<serverVars, network>>,
         NEW status \in {"done", "failed"}, NEW error \in {"none", "not-sent", "other"}, NEW ssh \in BOOLEAN,
         CloseReboot(status, error, ssh), ssh \/ worker.stage \in Unsaid
  PROVE  AgreeInv'
  <1>1. PICK o \in OrderIds : o = worker.order
    BY Running
  <1>2. local[o] \in LocalOrder /\ local[o].status = "running" /\ worker.stage # "recovering"
    BY <1>1, WorkerOrder, Running DEF Rebooting
  <1>3. PICK report : report = Report(o, status, None, error, None, ssh)
    OBVIOUS
  <1>4. PICK row : row = [local[o] EXCEPT !.status = status, !.sshOk = ssh]
    OBVIOUS
  <1>5. row \in LocalOrder /\ row.status = status
    <2>1. [local[o] EXCEPT !.status = status, !.sshOk = ssh] \in LocalOrder
      BY <1>2 DEF LocalOrder, Closes
    <2> QED BY <1>2, <1>4, <2>1 DEF LocalOrder
  <1>6. /\ report \in Reports /\ report.order = o /\ report.status = status
        /\ report.ssh = ssh
    BY <1>3 DEF Report, Reports
  <1>7. NeverSent(report) => Unanswered(o)'
    <2>1. ASSUME NeverSent(report) PROVE status = "failed" /\ ~ssh
      BY <1>6, <2>1 DEF NeverSent
    <2>2. ~ssh => ~row.sshOk
      BY <1>2, <1>4 DEF LocalOrder
    <2>3. local'[o] = row
      BY <1>1, <1>4, <1>5, OneRow DEF CloseReboot
    <2> QED BY <1>5, <2>1, <2>2, <2>3 DEF Unanswered
  <1>8. /\ local' = [local EXCEPT ![o] = row] /\ outbox' = Append(outbox, report) /\ worker' = Idle
        /\ UNCHANGED <<serverVars, network, results, control, commanded>>
    BY <1>1, <1>3, <1>4 DEF CloseReboot
  <1>9. TestsFor'
    BY <1>8 DEF TestsFor, Idle
  <1> QED BY <1>1, <1>2, <1>5, <1>6, <1>7, <1>8, <1>9, OneAgrees DEF Closes

LEMMA RebootsEndAgrees ==
  ASSUME SystemInv, SystemInv', AgreeInv,
         \/ \E error \in {"not-sent", "other"} : Unseen(GatewayFails(error))
         \/ Unseen(CommandRefused) \/ Unseen(CommandUnanswered)
         \/ \E status \in {"done", "failed"}, error \in {"none", "not-sent", "other"} :
              Unseen(WatchEnds(status, error))
  PROVE  AgreeInv'
  <1>1. CASE \E error \in {"not-sent", "other"} : Unseen(GatewayFails(error))
    BY <1>1, CloseRebootAgrees DEF Unseen, GatewayFails, Rebooting, Unsaid
  <1>2. CASE Unseen(CommandRefused) \/ Unseen(CommandUnanswered)
    BY <1>2, CloseRebootAgrees DEF Unseen, CommandRefused, CommandUnanswered, Rebooting, Unsaid
  <1>3. CASE \E status \in {"done", "failed"}, error \in {"none", "not-sent", "other"} :
               Unseen(WatchEnds(status, error))
    BY <1>3, CloseRebootAgrees DEF Unseen, WatchEnds, Rebooting
  <1> QED BY <1>1, <1>2, <1>3

LEMMA RebootStepAgrees ==
  ASSUME SystemInv, SystemInv', AgreeInv, Unseen(GatewayRead) \/ Unseen(StartWatch)
  PROVE  AgreeInv'
  <1>1. PICK stage \in {"ssh", "watching"}, step \in {"before", "sent"} :
          /\ worker.stage \in Rebooting /\ worker.stage # "recovering" /\ RebootStep(stage, step)
          /\ UNCHANGED <<serverVars, network>>
    BY DEF Unseen, GatewayRead, StartWatch, Rebooting
  <1>2. PICK o \in OrderIds : o = worker.order
    BY <1>1, Running
  <1>3. PICK report : report = Report(o, "running", None, "none", step, None)
    OBVIOUS
  <1>4. /\ report \in Reports /\ report.order = o /\ report.status = "running"
        /\ ~NeverSent(report)
    BY <1>3 DEF Report, Reports, NeverSent
  <1>5. /\ local[o] \in LocalOrder /\ local[o].status = "running" /\ worker \in WorkerState
    BY <1>1, <1>2, WorkerOrder, Running
  <1>6. /\ outbox' = Append(outbox, report) /\ worker' = [worker EXCEPT !.stage = stage]
        /\ UNCHANGED <<serverVars, network, local, results, control, commanded>>
    BY <1>1, <1>2, <1>3 DEF RebootStep
  <1>7. local' = [local EXCEPT ![o] = local[o]]
    BY <1>6 DEF SystemInv, PhoneTypeOK
  <1>8. worker'.stage = stage /\ worker'.order = o
    BY <1>2, <1>5, <1>6 DEF WorkerState
  <1>9. RunsAs(o)' /\ TestsFor'
    BY <1>1, <1>5, <1>6, <1>8 DEF RunsAs, TestsFor, AgreeInv, RunningInv, Busy, Rebooting
  <1> QED BY <1>1, <1>2, <1>4, <1>5, <1>6, <1>7, <1>9, OneAgrees DEF Closes

\* The worker goes on with its order, of which nothing is told yet.
LEMMA SilentlyAgrees ==
  ASSUME SystemInv, SystemInv', AgreeInv, UNCHANGED <<serverVars, network, outbox, control>>,
         worker.stage \in {"testing"} \cup Rebooting, NEW o \in OrderIds, o = worker.order,
         NEW row \in LocalOrder, local' = [local EXCEPT ![o] = row],
         row.status = "running" \/ (row.status \in Closes /\ ClosedByResult(o)'),
         \A r \in ResultIds : Stores(r),
         commanded' \subseteq commanded \cup {o},
         commanded' # commanded => Server!IsReboot(o),
         row.status = "running" => RunsAs(o)', TestsFor'
  PROVE  AgreeInv'
  <1>1. /\ local'[o] = row /\ \A p \in OrderIds \ {o} : local'[p] = local[p]
        /\ late' = late /\ reinstalls' = reinstalls
    BY OneRow DEF network
  <1>2. local[o].status = "running" /\ worker.stage # "recovering"
    BY Running DEF Rebooting
  <1>3. \A p \in OrderIds \ {o} : local[p].status # "running"
    BY <1>2 DEF AgreeInv, RunningInv, RunsAs
  <1>4. \A p \in OrderIds : ToClose(p) => ToClose(p)'
    BY DEF ToClose
  <1>5. ASSUME NEW p \in OrderIds
        PROVE  Takes(p) /\ (local'[p].status = "running" => RunsAs(p)')
    <2>1. CASE p = o
      BY <1>1, <1>2, <1>4, <2>1 DEF Takes, Waits, Closes, StaysUnanswered, Unanswered
    <2>2. CASE p # o
      BY <1>1, <1>3, <1>4, <2>2 DEF Takes, StaysUnanswered, Unanswered
    <2> QED BY <2>1, <2>2
  <1>6. PhoneActs({})
    BY <1>1, <1>2, <1>5 DEF PhoneActs, OnTheWay
  <1>7. \A p \in OrderIds : local'[p].status # "none" => local[p].status # "none"
    BY <1>1, <1>2
  <1> QED BY <1>6, <1>7, PhoneAgrees

LEMMA KeepPartialAgrees ==
  ASSUME SystemInv, SystemInv', AgreeInv, Unseen(KeepPartial)
  PROVE  AgreeInv'
  <1>1. PICK o \in OrderIds : o = worker.order
    BY Running DEF Unseen, KeepPartial, Rebooting
  <1>2. /\ worker.stage \in Rebooting /\ worker.stage # "recovering"
        /\ worker' = [worker EXCEPT !.stage = "kept"]
        /\ UNCHANGED <<serverVars, network, outbox, results, control, commanded>>
    BY DEF Unseen, KeepPartial, Rebooting
  <1>3. local[o] \in LocalOrder /\ local[o].status = "running" /\ worker \in WorkerState
    BY <1>1, <1>2, WorkerOrder, Running
  <1>4. PICK row : row = [local[o] EXCEPT !.sshOk = TRUE]
    OBVIOUS
  <1>5. row \in LocalOrder /\ row.status = "running" /\ row.result = local[o].result
    BY <1>3, <1>4 DEF LocalOrder
  <1>6. local' = [local EXCEPT ![o] = row]
    BY <1>1, <1>4 DEF Unseen, KeepPartial
  <1>7. worker'.stage = "kept" /\ worker'.order = o
    BY <1>1, <1>2, <1>3 DEF WorkerState
  <1>8. local'[o] = row
    BY <1>5, <1>6, OneRow
  <1>9. RunsAs(o)' /\ TestsFor'
    BY <1>2, <1>3, <1>5, <1>7, <1>8 DEF RunsAs, TestsFor, AgreeInv, RunningInv, Busy, Rebooting
  <1>10. \A r \in ResultIds : Stores(r)
    BY <1>2 DEF Stores
  <1> QED BY <1>1, <1>2, <1>5, <1>6, <1>9, <1>10, SilentlyAgrees

LEMMA SendCommandAgrees ==
  ASSUME SystemInv, SystemInv', AgreeInv, Unseen(SendCommand)
  PROVE  AgreeInv'
  <1>1. PICK o \in OrderIds : o = worker.order
    BY Running DEF Unseen, SendCommand, Rebooting
  <1>2. /\ worker.stage \in Rebooting /\ worker.stage # "recovering" /\ worker.stage # "testing"
        /\ worker' = [worker EXCEPT !.stage = "sent"] /\ commanded' = commanded \cup {o}
        /\ UNCHANGED <<serverVars, network, local, outbox, results, control>>
    BY <1>1 DEF Unseen, SendCommand, Rebooting
  <1>3. /\ local[o] \in LocalOrder /\ local[o].status = "running" /\ worker \in WorkerState
        /\ Server!IsReboot(o)
    BY <1>1, <1>2, WorkerOrder, Running DEF Server!IsReboot
  <1>4. local' = [local EXCEPT ![o] = local[o]]
    BY <1>2 DEF SystemInv, PhoneTypeOK
  <1>5. worker'.stage = "sent" /\ worker'.order = o
    BY <1>1, <1>2, <1>3 DEF WorkerState
  <1>6. RunsAs(o)' /\ TestsFor'
    BY <1>2, <1>3, <1>5 DEF RunsAs, TestsFor, AgreeInv, RunningInv, Busy, Rebooting
  <1>7. \A r \in ResultIds : Stores(r)
    BY <1>2 DEF Stores
  <1> QED BY <1>1, <1>2, <1>3, <1>4, <1>6, <1>7, SilentlyAgrees

LEMMA FallBackAgrees ==
  ASSUME SystemInv, SystemInv', AgreeInv, NEW r \in Fresh, Unseen(FallBack(r))
  PROVE  AgreeInv'
  <1>1. PICK o \in OrderIds : o = worker.order
    BY Running DEF Unseen, FallBack
  <1>2. PICK row : row = [local[o] EXCEPT !.result = r]
    OBVIOUS
  <1>3. PICK q : q = worker.result
    OBVIOUS
  <1>4. /\ local' = [local EXCEPT ![o] = row]
        /\ results' = [results EXCEPT ![q] = Measured(None, "failed", worker.since)]
        /\ worker' = [worker EXCEPT !.result = r, !.attempt = 2]
        /\ UNCHANGED <<serverVars, network, outbox, control, commanded>>
        /\ worker.stage = "testing"
    BY <1>1, <1>2, <1>3 DEF Unseen, FallBack
  <1>5. local[o] \in LocalOrder /\ local[o].status = "running" /\ worker \in WorkerState
    BY <1>1, <1>4, WorkerOrder, Running
  <1>6. r \in ResultIds /\ results[r].sync = "none" /\ local[o].result # r
    BY SystemAssumption DEF Fresh, HasResult, Server!NamesAssumption
  <1>7. q \in ResultIds /\ q = local[o].result /\ results[q].sync = "none"
    BY <1>1, <1>3, <1>4, <1>5 DEF AgreeInv, RunningInv, RunsAs, TestsFor
  <1>8. row \in LocalOrder
    BY <1>2, <1>5, <1>6 DEF LocalOrder
  <1>9. row.status = "running" /\ row.result = r
    BY <1>2, <1>5 DEF LocalOrder
  <1>10. worker'.stage = "testing" /\ worker'.order = o /\ worker'.result = r
    BY <1>1, <1>4, <1>5 DEF WorkerState
  <1>11. local'[o] = row
    BY <1>4, <1>8, OneRow
  <1>12. /\ results'[q] = Measured(None, "failed", worker.since)
         /\ \A other \in ResultIds \ {q} : results'[other] = results[other]
    BY <1>4, <1>7 DEF SystemInv, PhoneTypeOK
  <1>13. results'[q].sync = "pending" /\ results'[q].order = None
    BY <1>12 DEF Measured
  <1>14. \A other \in ResultIds : Stores(other)
    BY <1>7, <1>12, <1>13 DEF Stores, ResultTold
  <1>15. RunsAs(o)' /\ TestsFor'
    BY <1>6, <1>7, <1>9, <1>10, <1>11, <1>12 DEF RunsAs, TestsFor, Busy
  <1>16. UNCHANGED <<serverVars, network, outbox, control>> /\ commanded' = commanded
    BY <1>4
  <1> QED BY <1>1, <1>4, <1>8, <1>9, <1>14, <1>15, <1>16, SilentlyAgrees

LEMMA StoreFinalAgrees ==
  ASSUME SystemInv, SystemInv', AgreeInv, NEW status \in {"done", "failed"}, Unseen(StoreFinal(status, now))
  PROVE  AgreeInv'
  <1>1. PICK o \in OrderIds : o = worker.order
    BY Running DEF Unseen, StoreFinal
  <1>2. PICK row : row = [local[o] EXCEPT !.status = status]
    OBVIOUS
  <1>3. PICK q : q = worker.result
    OBVIOUS
  <1>4. PICK started : results' = [results EXCEPT ![q] = Measured(o, status, started)]
    BY <1>1, <1>3 DEF Unseen, StoreFinal
  <1>5. /\ local' = [local EXCEPT ![o] = row] /\ worker' = Idle
        /\ UNCHANGED <<serverVars, network, outbox, control, commanded>>
        /\ worker.stage = "testing"
    BY <1>1, <1>2 DEF Unseen, StoreFinal
  <1>6. /\ local[o] \in LocalOrder /\ local[o].status = "running"
        /\ orders[o].type = "run_speedtest" /\ orders' = orders
    BY <1>1, <1>5, WorkerOrder, Running DEF serverVars
  <1>7. q \in ResultIds /\ q = local[o].result /\ results[q].sync = "none"
    BY <1>1, <1>3, <1>5, <1>6 DEF AgreeInv, RunningInv, RunsAs, TestsFor
  <1>8. row \in LocalOrder
    BY <1>2, <1>6 DEF LocalOrder, Closes
  <1>9. row.status = status
    BY <1>2, <1>6 DEF LocalOrder
  <1>10. local'[o] = row
    BY <1>5, <1>8, OneRow
  <1>11. /\ results'[q] = Measured(o, status, started)
         /\ \A other \in ResultIds \ {q} : results'[other] = results[other]
    BY <1>4, <1>7 DEF SystemInv, PhoneTypeOK
  <1>12. results'[q].sync = "pending" /\ results'[q].order = o /\ results'[q].status = status
    BY <1>11 DEF Measured
  <1>13. ResultTold(q)' /\ ClosedByResult(o)'
    BY <1>6, <1>7, <1>9, <1>10, <1>12 DEF ResultTold, ClosedByResult, Server!IsReboot
  <1>14. \A other \in ResultIds : Stores(other)
    BY <1>7, <1>11, <1>12, <1>13 DEF Stores
  <1>15. TestsFor'
    BY <1>5 DEF TestsFor, Idle
  <1>16. UNCHANGED <<serverVars, network, outbox, control>> /\ commanded' = commanded
    BY <1>5
  <1> QED BY <1>1, <1>5, <1>8, <1>9, <1>13, <1>14, <1>15, <1>16, SilentlyAgrees DEF Closes

\* A list of all there is to tell leaves nothing out.
LEMMA ListsAll ==
  ASSUME NEW T \in SUBSET OrderIds, NEW told \in [T -> Reports],
         NEW list \in SetToSeqs({told[o] : o \in T})
  PROVE  \A o \in T : \E j \in 1..Len(list) : list[j] = told[o]
  <1>1. PICK S : S = {told[o] : o \in T}
    OBVIOUS
  <1>2. IsFiniteSet(T)
    BY PhoneAssumption, FS_Subset
  <1>3. told \in Surjection(T, S)
    BY <1>1 DEF Surjection
  <1>4. IsFiniteSet(S)
    BY <1>2, <1>3, FS_Surjection
  <1>5. PICK n \in Nat : n = Cardinality(S)
    BY <1>4, FS_CardinalityType
  <1>6. /\ list \in [1..n -> S]
        /\ \A i, j \in 1..n : i # j => list[i] # list[j]
    BY <1>1, <1>5 DEF SetToSeqs
  <1>7. list \in Injection(1..n, S)
    BY <1>6 DEF Injection, IsInjective
  <1>8. Cardinality(1..n) = n
    BY FS_Interval
  <1>9. list \in Surjection(1..n, S)
    BY <1>4, <1>5, <1>7, <1>8, FS_Injection
  <1>10. Len(list) = n
    BY <1>6
  <1> QED BY <1>1, <1>9, <1>10 DEF Surjection

LEMMA JoinedWaits ==
  ASSUME SystemInv, NEW list \in Seq(Reports), outbox' = outbox \o list
  PROVE  /\ \A o \in OrderIds : ToClose(o) => ToClose(o)'
         /\ \A j \in 1..Len(list) : list[j].status \in Closes => ToClose(list[j].order)'
  <1>1. /\ outbox \in Seq(Reports) /\ Len(outbox') = Len(outbox) + Len(list)
        /\ \A i \in 1..Len(outbox) + Len(list) :
             outbox'[i] = IF i <= Len(outbox) THEN outbox[i] ELSE list[i - Len(outbox)]
    BY ConcatProperties DEF SystemInv, PhoneTypeOK
  <1>2. Len(outbox) \in Nat /\ Len(list) \in Nat
    BY <1>1, LenProperties
  <1>3. ASSUME NEW j \in 1..Len(list)
        PROVE  Len(outbox) + j \in 1..Len(outbox') /\ outbox'[Len(outbox) + j] = list[j]
    <2>1. /\ Len(outbox) + j \in 1..Len(outbox) + Len(list)
          /\ ~ (Len(outbox) + j <= Len(outbox)) /\ (Len(outbox) + j) - Len(outbox) = j
      BY <1>2
    <2> QED BY <1>1, <2>1
  <1>4. \A i \in 1..Len(outbox) : i \in 1..Len(outbox') /\ outbox'[i] = outbox[i]
    BY <1>1, <1>2
  <1> QED BY <1>3, <1>4 DEF ToClose

\* The worker closes orders without executing them.
LEMMA ManyAgree ==
  ASSUME SystemInv, SystemInv', AgreeInv, UNCHANGED <<serverVars, network, results, control, commanded>>,
         NEW T \in SUBSET OrderIds, NEW status \in Closes,
         \A o \in T : local[o].status \in {"running"} \cup Waits,
         \A o \in OrderIds \ T : local[o].status # "running",
         local' = [o \in OrderIds |-> IF o \in T THEN [local[o] EXCEPT !.status = status] ELSE local[o]],
         NEW told, told \in [T -> Reports], \E list \in SetToSeqs({told[o] : o \in T}) : outbox' = outbox \o list,
         \A o \in T : told[o].order = o /\ told[o].status = status /\ ~NeverSent(told[o]),
         status = "expired" => \A o \in T : local[o].status \in Waits,
         worker'.stage # "testing"
  PROVE  AgreeInv'
  <1>1. /\ late' = late /\ results' = results /\ UNCHANGED serverVars
        /\ commanded' = commanded /\ reinstalls' = reinstalls
    BY DEF network, serverVars
  <1>2. ASSUME NEW o \in OrderIds
        PROVE  /\ o \in T => local'[o].status = status
               /\ o \notin T => local'[o] = local[o]
    <2>1. local[o] \in LocalOrder
      BY DEF SystemInv, PhoneTypeOK, LocalOrder
    <2> QED BY <2>1 DEF LocalOrder
  <1>3. PICK list \in SetToSeqs({told[o] : o \in T}) : outbox' = outbox \o list
    OBVIOUS
  <1>4. list \in Seq(Reports) /\ {list[i] : i \in 1..Len(list)} \subseteq {told[o] : o \in T}
    BY Listed
  <1>5. \A o \in T : \E j \in 1..Len(list) : list[j] = told[o]
    BY ListsAll
  <1>6. /\ \A o \in OrderIds : ToClose(o) => ToClose(o)'
        /\ \A j \in 1..Len(list) : list[j].status \in Closes => ToClose(list[j].order)'
    BY <1>3, <1>4, JoinedWaits
  <1>7. ASSUME NEW o \in T PROVE ToClose(o)'
    <2>1. PICK j \in 1..Len(list) : list[j] = told[o]
      BY <1>5
    <2>2. list[j].status \in Closes /\ list[j].order = o
      BY <2>1
    <2> QED BY <1>6, <2>2
  <1>8. PICK new : new = {told[o] : o \in T}
    OBVIOUS
  <1>9. OnTheWay' \subseteq OnTheWay \cup new
    BY <1>1, <1>3, <1>4, <1>8, Joined DEF SystemInv, PhoneTypeOK
  <1>10. ASSUME NEW o \in T PROVE SaysNow(told[o])
    <2>1. /\ told[o].order = o /\ o \in OrderIds /\ local'[o].status = status
          /\ local[o].status \notin Closes
      BY <1>2 DEF Waits, Closes
    <2>2. status = "expired" /\ reinstalls = 0 => o \notin commanded
      BY NotCommanded
    <2> QED BY <1>1, <2>1, <2>2 DEF SaysNow
  <1>11. \A report \in new : SaysNow(report)
    BY <1>8, <1>10
  <1>12. ASSUME NEW o \in OrderIds
         PROVE  Takes(o) /\ local'[o].status # "running"
    <2>1. CASE o \in T
      BY <1>2, <1>6, <1>7, <2>1 DEF Takes, Waits, Closes, StaysUnanswered, Unanswered
    <2>2. CASE o \notin T
      BY <1>2, <1>6, <2>2 DEF Takes, Waits, Closes, StaysUnanswered, Unanswered
    <2> QED BY <2>1, <2>2
  <1>13. PhoneActs(new)
    BY <1>1, <1>9, <1>11, <1>12 DEF PhoneActs, Stores, TestsFor
  <1>14. \A o \in OrderIds : local'[o].status # "none" => local[o].status # "none"
    BY <1>2 DEF Waits
  <1> QED BY <1>13, <1>14, PhoneAgrees

LEMMA RecoverAgrees ==
  ASSUME SystemInv, SystemInv', AgreeInv, Unseen(Recover)
  PROVE  AgreeInv'
  <1>1. PICK T \in SUBSET OrderIds : T = ToRecover
    BY DEF ToRecover
  <1>2. PICK told : told = [o \in T |-> LostRun(o)]
    OBVIOUS
  <1>3. ASSUME NEW o \in T
        PROVE  /\ local[o].status = "running" /\ told[o] \in Reports
               /\ told[o].order = o /\ told[o].status = "interrupted" /\ ~NeverSent(told[o])
    <2>1. local[o].status = "running" /\ local[o] \in LocalOrder
      BY <1>1 DEF ToRecover, SystemInv, PhoneTypeOK, LocalOrder
    <2> QED BY <1>2, <2>1 DEF LostRun, Report, Reports, NeverSent, LocalOrder
  <1>4. told \in [T -> Reports] /\ {told[o] : o \in T} = {LostRun(o) : o \in T}
    BY <1>2, <1>3
  <1>5. ASSUME NEW o \in OrderIds \ T, local[o].status = "running"
        PROVE  FALSE
    <2>1. \A r \in ResultIds : local[o].result = r => results[r].sync = "none"
      BY <1>5 DEF AgreeInv, RunningInv, RunsAs
    <2>2. local[o].result \in ResultIds \cup {None}
      BY DEF SystemInv, PhoneTypeOK
    <2> QED BY <1>1, <1>5, <2>1, <2>2 DEF ToRecover, HasResult
  <1>6. /\ UNCHANGED <<serverVars, network, results, control, commanded>>
        /\ \E list \in SetToSeqs({told[o] : o \in T}) : outbox' = outbox \o list
        /\ local' = [o \in OrderIds |-> IF o \in T THEN [local[o] EXCEPT !.status = "interrupted"] ELSE local[o]]
    BY <1>1, <1>4 DEF Unseen, Recover
  <1>7. worker'.stage # "testing"
    BY DEF Unseen, Recover, Idle
  <1>8. "interrupted" \in Closes
    BY DEF Closes
  <1>9. told \in [T -> Reports]
    BY <1>4
  <1>10. /\ \A o \in T : local[o].status \in {"running"} \cup Waits
         /\ \A o \in OrderIds \ T : local[o].status # "running"
         /\ \A o \in T : told[o].order = o /\ told[o].status = "interrupted" /\ ~NeverSent(told[o])
    BY <1>3, <1>5
  <1>11. "interrupted" # "expired"
    OBVIOUS
  <1> QED BY <1>6, <1>7, <1>8, <1>9, <1>10, <1>11, ManyAgree

LEMMA ExpireDueAgrees ==
  ASSUME SystemInv, SystemInv', AgreeInv, Unseen(ExpireDue(now))
  PROVE  AgreeInv'
  <1>1. PICK T \in SUBSET OrderIds : T = Overdue(now)
    BY DEF Overdue
  <1>2. PICK told : told = [o \in T |-> Report(o, "expired", None, "other", None, None)]
    OBVIOUS
  <1>3. ASSUME NEW o \in T
        PROVE  /\ local[o].status \in Waits /\ told[o] \in Reports
               /\ told[o].order = o /\ told[o].status = "expired" /\ ~NeverSent(told[o])
    BY <1>1, <1>2 DEF Overdue, Report, Reports, NeverSent
  <1>4. /\ told \in [T -> Reports]
        /\ {told[o] : o \in T} = {Report(o, "expired", None, "other", None, None) : o \in T}
    BY <1>2, <1>3
  <1>5. \A o \in T : ClosedOrder(local[o], "expired") = [local[o] EXCEPT !.status = "expired"]
    BY <1>3 DEF ClosedOrder
  <1>6. /\ UNCHANGED <<serverVars, network, results, control, commanded>>
        /\ worker.stage = "idle" /\ worker' = [Idle EXCEPT !.stage = "picking"]
        /\ \E list \in SetToSeqs({told[o] : o \in T}) : outbox' = outbox \o list
    BY <1>1, <1>4 DEF Unseen, ExpireDue
  <1>7. local' = [o \in OrderIds |-> IF o \in T THEN [local[o] EXCEPT !.status = "expired"] ELSE local[o]]
    BY <1>1, <1>5 DEF Unseen, ExpireDue
  <1>8. worker'.stage # "testing" /\ "expired" \in Closes
    BY <1>6 DEF Idle, Closes
  <1>9. \A o \in OrderIds : local[o].status # "running"
    BY <1>6 DEF AgreeInv, RunningInv, RunsAs, Busy, Rebooting
  <1>10. /\ \A o \in T : local[o].status \in {"running"} \cup Waits
         /\ \A o \in OrderIds \ T : local[o].status # "running"
         /\ \A o \in T : told[o].order = o /\ told[o].status = "expired" /\ ~NeverSent(told[o])
         /\ \A o \in T : local[o].status \in Waits
    BY <1>3, <1>9
  <1>11. UNCHANGED <<serverVars, network, results, control, commanded>>
    BY <1>6
  <1>12. \E list \in SetToSeqs({told[o] : o \in T}) : outbox' = outbox \o list
    BY <1>6
  <1>13. told \in [T -> Reports]
    BY <1>4
  <1> QED BY <1>7, <1>8, <1>10, <1>11, <1>12, <1>13, ManyAgree

-----------------------------------------------------------------------------
(* The list of the backend goes into the database                          *)

\* What the phone closes because of it the backend had closed for good.
LEMMA IngestedCloses ==
  ASSUME SystemInv, AgreeInv, control.stage = "answered", NEW o \in OrderIds,
         IngestedOrder(o).status \in Closes, local[o].status \notin Closes,
         ~ (Unknown(o) /\ control.rows[o].status = "running")
  PROVE  /\ local[o].status \in {"none"} \cup Waits /\ orders[o].status \in Closes
         /\ IngestedOrder(o).status \notin {"done", "failed"}
  <1>1. PICK ord : ord = IF Unknown(o) THEN NewRow(control.rows[o]) ELSE local[o]
    OBVIOUS
  <1>2. Unknown(o) => control.rows[o] \in OpenRow
    BY DEF SystemInv, ListInv, Unknown
  <1>3. local[o] \in LocalOrder
    BY DEF SystemInv, PhoneTypeOK, LocalOrder
  <1>4. /\ ord \in LocalOrder /\ ord.status \notin Closes
        /\ ord.status \in Waits => local[o].status \in {"none"} \cup Waits
    <2>1. CASE Unknown(o)
      BY <1>1, <1>2, <2>1, NewRowType DEF Unknown, Closes
    <2>2. CASE ~Unknown(o)
      BY <1>1, <1>3, <2>2
    <2> QED BY <2>1, <2>2
  <1>5. CASE o \in DOMAIN control.closed
    <2>1. IngestedOrder(o) = ClosedOrder(ord, control.closed[o])
      BY <1>1, <1>5 DEF IngestedOrder
    <2>2. control.closed[o] \in Closes /\ control.closed[o] \in {"expired", "interrupted", "cancelled"}
      BY <1>5 DEF SystemInv, ListInv, AgreeInv, ListedInv
    <2>3. ord.status \in Waits /\ IngestedOrder(o).status = control.closed[o]
      BY <1>4, <2>1, <2>2, ClosedOrderRow
    <2> QED BY <1>4, <1>5, <2>2, <2>3 DEF AgreeInv, ListedInv
  <1>6. CASE o \notin DOMAIN control.closed /\ o \notin DOMAIN control.rows /\ ~control.truncated
    <2>1. ord = local[o] /\ IngestedOrder(o) = ClosedOrder(ord, "cancelled")
      BY <1>1, <1>6 DEF IngestedOrder, Unknown
    <2>2. ord.status \in Waits /\ IngestedOrder(o).status = "cancelled"
      BY <1>4, <2>1, ClosedOrderRow DEF Closes
    <2>3. orders[o].status \notin Server!Open /\ orders[o].status # "none"
      BY <1>6, <2>1, <2>2 DEF AgreeInv, ListedInv, SystemInv, LocalInv, Untouched
    <2>4. orders[o].status \in {"none"} \cup Server!Open \cup Closes
      BY SameVars, RowTypes DEF Store!Order, Store!Statuses
    <2> QED BY <2>1, <2>2, <2>3, <2>4
  <1>7. CASE o \notin DOMAIN control.closed /\ ~ (o \notin DOMAIN control.rows /\ ~control.truncated)
    BY <1>1, <1>4, <1>7 DEF IngestedOrder
  <1> QED BY <1>5, <1>6, <1>7

LEMMA IngestAgrees ==
  ASSUME SystemInv, SystemInv', AgreeInv, Unseen(Ingest)
  PROVE  AgreeInv'
  <1>1. PICK T \in SUBSET OrderIds : T = {o \in OrderIds : Unknown(o) /\ control.rows[o].status = "running"}
    OBVIOUS
  <1>2. PICK told : told = [o \in T |-> Report(o, "interrupted", control.rows[o].result, "other", None, None)]
    OBVIOUS
  <1>3. /\ UNCHANGED <<results, worker, commanded, late, reinstalls>> /\ UNCHANGED serverVars
        /\ control.stage = "answered" /\ control' = [Quiet EXCEPT !.stage = "acking"]
        /\ local' = [o \in OrderIds |-> IngestedOrder(o)]
    BY DEF Unseen, Ingest, network
  <1>4. \A o \in OrderIds : local'[o] = IngestedOrder(o)
    BY <1>3
  <1>5. ASSUME NEW o \in T
        PROVE  /\ told[o] \in Reports /\ told[o].order = o /\ told[o].status = "interrupted"
               /\ ~NeverSent(told[o]) /\ local[o].status = "none" /\ local'[o].status = "interrupted"
    <2>1. control.rows[o] \in OpenRow
      BY <1>1, <1>3 DEF SystemInv, ListInv, Unknown
    <2>2. /\ told[o] \in Reports /\ told[o].order = o /\ told[o].status = "interrupted"
          /\ ~NeverSent(told[o])
      BY <1>2, <2>1 DEF Report, Reports, NeverSent, OpenRow
    <2>3. local[o].status = "none" /\ local'[o].status = "interrupted"
      BY <1>1, <1>3, <1>4, IngestedRow DEF Unknown
    <2> QED BY <2>2, <2>3
  <1>6. told \in [T -> Reports]
    BY <1>2, <1>5
  <1>7. PICK list \in SetToSeqs({told[o] : o \in T}) : outbox' = outbox \o list
    <2>1. {told[o] : o \in T} = {Report(o, "interrupted", control.rows[o].result, "other", None, None) : o \in T}
      BY <1>2
    <2> QED BY <1>1, <2>1 DEF Unseen, Ingest
  <1>8. /\ list \in Seq(Reports) /\ {list[i] : i \in 1..Len(list)} \subseteq {told[o] : o \in T}
        /\ \A o \in T : \E j \in 1..Len(list) : list[j] = told[o]
    BY <1>6, <1>7, Listed, ListsAll
  <1>9. /\ \A o \in OrderIds : ToClose(o) => ToClose(o)'
        /\ \A j \in 1..Len(list) : list[j].status \in Closes => ToClose(list[j].order)'
    BY <1>7, <1>8, JoinedWaits
  <1>10. \A o \in T : ToClose(o)'
    <2>1. ASSUME NEW o \in T PROVE ToClose(o)'
      <3>1. PICK j \in 1..Len(list) : list[j] = told[o]
        BY <1>8
      <3>2. list[j].status \in Closes /\ list[j].order = o
        BY <1>5, <3>1 DEF Closes
      <3> QED BY <1>9, <3>2
    <2> QED BY <2>1
  <1>11. PICK new : new = {told[o] : o \in T}
    OBVIOUS
  <1>12. OnTheWay' \subseteq OnTheWay \cup new
    BY <1>3, <1>7, <1>8, <1>11, Joined DEF SystemInv, PhoneTypeOK
  <1>13. \A report \in new : SaysNow(report)
    <2>1. ASSUME NEW o \in T PROVE SaysNow(told[o])
      BY <1>5 DEF SaysNow, Closes
    <2> QED BY <1>11, <2>1
  <1>14. ASSUME NEW o \in OrderIds
         PROVE  /\ Takes(o)
                /\ local'[o].status = "running" => local[o].status = "running"
                /\ local[o].status # "none" => local'[o].result = local[o].result
    <2>1. CASE Unknown(o)
      <3>1. local[o].status = "none" /\ local'[o].status \in {"pending"} \cup Closes
        BY <1>3, <1>4, <2>1, IngestedRow DEF Unknown
      <3>2. orders[o].closedBy # "phone"
        BY <1>3, <2>1, <3>1 DEF AgreeInv, ListedInv, Unknown
      <3>3. StaysUnanswered(o)
        BY <3>1 DEF StaysUnanswered, Unanswered
      <3> QED BY <1>1, <1>3, <1>4, <1>9, <1>10, <2>1, <3>1, <3>2, <3>3, IngestedCloses DEF Takes, Waits, Closes
    <2>2. CASE ~Unknown(o)
      <3>1. /\ local'[o].result = local[o].result
            /\ \/ local'[o].status = local[o].status
               \/ local[o].status \in Waits /\ local'[o].status \in Closes
        BY <1>3, <1>4, <2>2, IngestedRow
      <3>2. Unanswered(o) => local'[o] = local[o]
        BY <1>4, <2>2 DEF IngestedOrder, ClosedOrder, Unanswered, Waits
      <3>3. StaysUnanswered(o)
        BY <3>2 DEF StaysUnanswered, Unanswered
      <3> QED BY <1>3, <1>4, <1>9, <2>2, <3>1, <3>3, IngestedCloses DEF Takes, Waits, Closes
    <2> QED BY <2>1, <2>2
  <1>15. \A o \in OrderIds : local'[o].status = "running" => RunsAs(o)'
    BY <1>3, <1>14 DEF AgreeInv, RunningInv, RunsAs
  <1>16. TestsFor'
    <2>1. worker.stage = "testing" => worker.order \in OrderIds /\ local[worker.order].status # "none"
      BY DEF SystemInv, WorkerInv
    <2> QED BY <1>3, <1>14, <2>1 DEF AgreeInv, RunningInv, TestsFor
  <1>17. PhoneActs(new)
    BY <1>3, <1>12, <1>13, <1>14, <1>15, <1>16 DEF PhoneActs, Stores
  <1>18. control'.stage = "acking"
    BY <1>3 DEF Quiet
  <1>19. ListedInv' /\ control' # control
    BY <1>3, <1>18, NotListed
  <1> QED BY <1>17, <1>19, PhoneAgrees

-----------------------------------------------------------------------------
(* The process dies, or the phone loses its data                           *)

LEMMA DiesAgrees ==
  ASSUME SystemInv, SystemInv', AgreeInv, Dies
  PROVE  AgreeInv'
  <1>1. /\ UNCHANGED <<serverVars, late, reinstalls, local, outbox, results, commanded>> /\ control' = Quiet
        /\ worker' = [Idle EXCEPT !.stage = "recovering"]
    BY DEF Dies, Crash
  <1>2. worker'.stage = "recovering" /\ ListedInv'
    BY <1>1, ListedQuiet, NotListed DEF Idle
  <1> QED BY <1>1, <1>2, StandsAgrees

\* The ids that the phone may draw for its results are not in use.
Unmeasured == \A r \in ResultIds : results[r].sync = "none" => measurements[r].order = "absent"

\* Of an empty database, and with nothing on its way, there is nothing to agree on.
LEMMA BlankAgrees == Blank /\ RowsInv /\ Unmeasured => AgreeInv
  <1> SUFFICES ASSUME Blank, RowsInv, Unmeasured PROVE AgreeInv
    OBVIOUS
  <1>1. /\ \A o \in OrderIds : local[o].status = "none"
        /\ OnTheWay = {} /\ worker.stage = "idle" /\ control.stage = "idle"
    BY DEF Blank, NoLocal, OnTheWay, Idle, Quiet
  <1>2. \A r \in ResultIds : results[r].order = None /\ results[r].sync # "pending"
    BY DEF Blank
  <1>3. RunningInv /\ SaidInv /\ HeardInv /\ DoneInv
    BY <1>1 DEF RunningInv, TestsFor, SaidInv, HeardInv, DoneInv, Closes
  <1>4. MeasuredInv
    BY <1>2 DEF MeasuredInv, ResultTold, Unmeasured
  <1>5. ListedInv
    BY <1>1 DEF ListedInv
  <1>6. SentInv
    BY DEF SentInv, Blank
  <1> QED BY <1>3, <1>4, <1>5, <1>6 DEF AgreeInv

LEMMA ForgetsAgrees ==
  ASSUME SystemInv, SystemInv', AgreeInv, Forgets
  PROVE  AgreeInv'
  <1>1. /\ local' = [o \in OrderIds |-> NoLocal] /\ outbox' = <<>> /\ control' = Quiet /\ worker' = Idle
        /\ UNCHANGED serverVars /\ late' = {} /\ reinstalls' = reinstalls + 1
        /\ results' = [r \in ResultIds |-> [NoResult EXCEPT !.sync = IF r \in Fresh THEN "none" ELSE "synced"]]
    BY DEF Forgets, Reinstall
  <1>2. \A r \in ResultIds : /\ results'[r].order = None
                             /\ results'[r].sync = IF r \in Fresh THEN "none" ELSE "synced"
    BY <1>1 DEF NoResult
  <1>3. reinstalls' # 0
    BY <1>1 DEF SystemInv
  <1>4. Blank'
    BY <1>1, <1>2, <1>3 DEF Blank, SystemInv, PhoneTypeOK, ResultRows
  <1>5. RowsInv'
    BY <1>1 DEF AgreeInv, RowsInv, serverVars
  <1>6. Unmeasured'
    <2>1. \A r \in Fresh : r \in ResultIds /\ results[r].sync = "none"
      BY SystemAssumption DEF Fresh, HasResult, Server!NamesAssumption
    <2> QED BY <1>1, <1>2, <2>1 DEF AgreeInv, MeasuredInv, serverVars, Unmeasured
  <1> QED BY <1>4, <1>5, <1>6, BlankAgrees, PTL

LEMMA InitAgree == Init => AgreeInv
  <1> SUFFICES ASSUME Init PROVE AgreeInv
    OBVIOUS
  <1>1. \A r \in ResultIds : results[r] = NoResult /\ measurements[r].order = "absent"
    BY DEF Init, PhoneInit, Server!Init, Server!NoMeasurement
  <1>2. RowsInv
    BY DEF Init, Server!Init, Server!NoOrder, RowsInv, Store!RowClosed
  <1>3. Blank
    BY <1>1, InitSystem DEF Init, PhoneInit, SystemInv, NoResult, Blank, PhoneTypeOK, ResultRows
  <1>4. Unmeasured
    BY <1>1 DEF Unmeasured
  <1> QED BY <1>2, <1>3, <1>4, BlankAgrees

-----------------------------------------------------------------------------
(* The theorems                                                            *)

LEMMA NextAgree ==
  ASSUME SystemInv, AgreeInv, [Next]_vars
  PROVE  AgreeInv'
  <1>1. SystemInv'
    BY NextSystem
  <1>2. CASE ServerSteps \/ UNCHANGED vars
    BY <1>1, <1>2, OthersAgree
  <1>3. CASE ControlStarts
    BY <1>1, <1>3, AskAgrees, ControlAgrees DEF ControlStarts
  <1>4. CASE ControlGoesOn
    BY <1>1, <1>4, AskAgrees, IngestAgrees, AckAgrees, SendReportAgrees, SendResultAgrees,
       NoAnswerAgrees, ControlAgrees DEF ControlGoesOn
  <1>5. CASE Unseen(WorkerStep(now))
    <2>1. CASE Unseen(Recover) \/ Unseen(ExpireDue(now)) \/ Unseen(Rest) \/ Unseen(UnknownSlot) \/ Unseen(BreakOff)
      BY <1>1, <2>1, RecoverAgrees, ExpireDueAgrees, RestAgrees, UnknownSlotAgrees, BreakOffAgrees
    <2>2. CASE \E o \in OrderIds : Unseen(Pick(o, now))
      BY <1>1, <2>2, PickAgrees
    <2>3. CASE \E r \in Fresh : Unseen(MarkRunning(r)) \/ Unseen(FallBack(r))
      BY <1>1, <2>3, MarkRunningAgrees, FallBackAgrees
    <2>4. CASE \E status \in {"done", "failed"} : Unseen(StoreFinal(status, now))
      BY <1>1, <2>4, StoreFinalAgrees
    <2>5. CASE \/ Unseen(StartReboot) \/ Unseen(GatewayRead) \/ Unseen(SendCommand)
               \/ Unseen(KeepPartial) \/ Unseen(StartWatch)
      BY <1>1, <2>5, StartRebootAgrees, RebootStepAgrees, SendCommandAgrees, KeepPartialAgrees
    <2>6. CASE \/ \E error \in {"not-sent", "other"} : Unseen(GatewayFails(error))
               \/ Unseen(CommandRefused) \/ Unseen(CommandUnanswered)
               \/ \E status \in {"done", "failed"}, error \in {"none", "not-sent", "other"} :
                    Unseen(WatchEnds(status, error))
      BY <1>1, <2>6, RebootsEndAgrees
    <2> QED BY <1>5, <2>1, <2>2, <2>3, <2>4, <2>5, <2>6 DEF Unseen, WorkerStep
  <1>6. CASE \E report \in late : LateReport(report)
    BY <1>1, <1>6, LateReportAgrees
  <1> QED BY <1>1, <1>2, <1>3, <1>4, <1>5, <1>6, DiesAgrees, ForgetsAgrees DEF Next

LEMMA AgreeInvariant == Spec => [](SystemInv /\ AgreeInv /\ Promises)
  BY InitSystem, NextSystem, InitAgree, NextAgree, InitPromises, NextPromises, PTL DEF Spec

\* Nothing of the order is on its way, so what the phone closed is closed.
LEMMA SettledClosed ==
  ASSUME SystemInv, AgreeInv, Promises, NEW o \in OrderIds, Settled(o), local[o].status \in Closes
  PROVE  /\ orders[o].status \in Closes
         /\ \/ ClosedForGood(o)
            \/ ~Server!IsReboot(o) /\ (Server!SoftFinal(orders[o]) => TooLate(o))
  <1>1. orders[o].status \in Server!Open \cup Closes
    <2>1. orders[o].status \in {"none"} \cup Server!Open \cup Closes
      BY SameVars, RowTypes DEF Store!Order, Store!Statuses
    <2> QED BY <2>1 DEF SystemInv, LocalInv, Known, Server!Exists, Closes
  <1>2. ~ToClose(o)
    BY DEF Settled, ToClose
  <1>3. CASE ClosedForGood(o)
    BY <1>3 DEF ClosedForGood
  <1>4. CASE ClosedByResult(o)
    <2>1. PICK r \in ResultIds : results[r].order = o
      BY <1>4 DEF ClosedByResult
    <2>2. o # None
      BY SystemAssumption DEF Server!NamesAssumption
    <2>3. \A q \in ResultIds : results[q].order = o =>
            measurements[q].order = o /\ measurements[q].started = results[q].started
      BY <2>2 DEF AgreeInv, MeasuredInv, ResultTold, Same, Settled
    <2>4. Server!NoResultLeftOut
      BY SamePromises DEF Promises
    <2>5. orders[o].status \notin Server!Open
      BY <2>1, <2>3, <2>4 DEF Server!NoResultLeftOut
    <2>6. Server!SoftFinal(orders[o]) => TooLate(o)
      BY <2>3, <2>4 DEF Server!NoResultLeftOut, TooLate
    <2> QED BY <1>1, <1>4, <2>5, <2>6 DEF ClosedByResult
  <1> QED BY <1>2, <1>3, <1>4 DEF AgreeInv, DoneInv

LEMMA Agreed ==
  ASSUME SystemInv, AgreeInv, Promises
  PROVE  Agreement
  <1>1. Server!Closed = Closes /\ Server!Open \cap Closes = {}
    BY SameVars DEF Waits, Closes
  <1>2. ASSUME NEW o \in OrderIds, local[o].status = "running"
        PROVE  worker.order = o \/ worker.stage = "recovering"
    BY <1>2 DEF AgreeInv, RunningInv, RunsAs
  <1>3. ASSUME NEW o \in OrderIds, Settled(o), local[o].status \in Server!Closed
        PROVE  orders[o].status \notin Server!Open
    BY <1>1, <1>3, SettledClosed
  <1>4. ASSUME NEW o \in OrderIds, Settled(o), local[o].status \in {"done", "failed"}
        PROVE  \/ orders[o].status = local[o].status
               \/ ~Server!IsReboot(o) /\ orders[o].status = "cancelled"
               \/ ~Server!IsReboot(o) /\ Server!SoftFinal(orders[o]) /\ TooLate(o)
    <2>1. /\ orders[o].status \in Closes
          /\ \/ ClosedForGood(o)
             \/ ~Server!IsReboot(o) /\ (Server!SoftFinal(orders[o]) => TooLate(o))
      BY <1>4, SettledClosed DEF Closes
    <2>2. CASE orders[o].closedBy = "phone"
      BY <1>4, <2>2 DEF AgreeInv, HeardInv
    <2>3. CASE orders[o].closedBy # "phone"
      <3>1. ~Server!IsReboot(o) /\ (Server!SoftFinal(orders[o]) => TooLate(o))
        BY <1>4, <2>1, <2>3 DEF ClosedForGood, ByPhone
      <3>2. orders[o] \in Store!Order /\ Store!RowClosed(orders[o])
        BY RowTypes DEF AgreeInv, RowsInv
      <3>3. orders[o].closedBy \in {"none", "server", "dashboard", "phone"}
        BY <3>2 DEF Store!Order
      <3>4. orders[o].closedBy # "none"
        BY <1>1, <2>1, <3>2, SameVars DEF Store!RowClosed, Closes
      <3>5. orders[o].status = "cancelled" \/ Server!SoftFinal(orders[o])
        BY <2>3, <3>2, <3>3, <3>4 DEF Store!RowClosed, Server!SoftFinal
      <3> QED BY <3>1, <3>5
    <2> QED BY <2>2, <2>3
  <1> QED BY <1>2, <1>3, <1>4 DEF Agreement

\* Whatever crashes, is lost, repeated or late, and whatever the sweep or the
\* dashboard does meanwhile: once nothing of an order is on its way the backend
\* shows what happened to it, and nothing the phone has done with stays open.
THEOREM AgreementHolds == Spec => []Agreement
  BY AgreeInvariant, Agreed, PTL

\* A reboot whose command went out counts for the cooldown as soon as the phone
\* has told all it knows of it, unless the phone lost its data, or closed it
\* without an answer of the router to the command.
THEOREM SentRebootsCountHolds == Spec => []SentRebootsCount
  <1>1. SystemInv /\ AgreeInv /\ Promises => SentRebootsCount
    <2> SUFFICES ASSUME SystemInv, AgreeInv, Promises, NEW o \in OrderIds,
                        o \in commanded, Settled(o), local[o].status # "running", reinstalls = 0
                 PROVE  Server!RebootCounts(orders[o]) \/ Unanswered(o)
      BY DEF SentRebootsCount
    <2>1. local[o].status \in Closes
      BY Stages DEF SystemInv, CommandedInv
    <2>2. Server!IsReboot(o) /\ (orders[o].closedBy = "phone" =>
                                     Server!RebootCounts(orders[o]) \/ Unanswered(o))
      BY DEF AgreeInv, SentInv
    <2>3. ClosedForGood(o)
      BY <2>1, <2>2, SettledClosed
    <2> QED BY <2>2, <2>3 DEF ClosedForGood, ByPhone
  <1> QED BY <1>1, AgreeInvariant, PTL
=============================================================================
