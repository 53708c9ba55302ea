------------------------- MODULE ProbeSystemProofs -------------------------
(***************************************************************************)
(* Theorems of ProbeSystem, for any number of orders and results, of late  *)
(* reports and of faults: types, that the phone says of an order only what *)
(* the store takes for granted, and that an order starts at most once.     *)
(***************************************************************************)
EXTENDS ProbeSystem, FiniteSetTheorems, SequenceTheorems, TLAPS

Store == INSTANCE PhoneOrdersProofs

-----------------------------------------------------------------------------
(* The invariant                                                           *)

\* What the phone has told, or is going to tell, and the backend may yet hear.
OnTheWay == {outbox[i] : i \in 1..Len(outbox)} \cup late

\* Nothing was told of a reboot, and nothing it did could be.
Untouched(o) == /\ orders[o].status \notin {"none", "running"}
                /\ orders[o].closedBy # "phone"
                /\ orders[o].step # "sent"

\* An order with this type, whose result_id is not one of a reboot.
Known(o, type, result) == /\ Server!Exists(o)
                          /\ orders[o].type = type
                          /\ type = "reboot_router" => result = None

RowOK(ord) == /\ ord.status \in Server!Waiting => ord.closedBy # "phone" /\ ord.step # "sent"
              /\ ord.type = "reboot_router" => ord.result = None

StoreInv == Server!TypeOK /\ \A o \in OrderIds : RowOK(orders[o])

\* Of an order that has not started nobody hears anything.
SilentInv == \A o \in OrderIds : local[o].status \in {"none"} \cup Waits =>
               /\ \A report \in OnTheWay : report.order # o
               /\ \A r \in ResultIds : results[r].order # o

LocalInv == \A o \in OrderIds :
              /\ local[o].status # "none" => Known(o, local[o].type, local[o].result)
              /\ local[o].status \in Waits => Untouched(o)

OpenRow == [type: {"none", "run_speedtest", "reboot_router"}, notAfter: Nat,
            status: Server!Open, result: ResultIds \cup {None}]

\* The orders listed are of the time of the answer.
ListInv ==
  /\ control = [stage |-> control.stage, left |-> control.left, rows |-> control.rows,
                truncated |-> control.truncated, closed |-> control.closed]
  /\ control.stage \in {"listing", "answered"} =>
       /\ DOMAIN control.rows \subseteq OrderIds
       /\ \A o \in DOMAIN control.rows :
            /\ control.rows[o] \in OpenRow
            /\ Known(o, control.rows[o].type, control.rows[o].result)
            /\ local[o].status = "none" /\ control.rows[o].status # "running" => Untouched(o)
  /\ control.stage = "answered" => \A o \in DOMAIN control.closed : control.closed[o] \in Closes

Rebooting == {"gateway", "ssh", "sent", "kept", "watching"}
Unsaid    == {"gateway", "ssh", "sent"}    \* no report has said "sent" yet

WorkerState == [stage: {"recovering", "idle", "picking", "preparing", "testing"} \cup Rebooting,
                order: OrderIds \cup {None}, result: ResultIds \cup {None},
                attempt: {1, 2}, since: Nat]

NotSaidSent(o) == orders[o].step # "sent" /\ \A report \in OnTheWay : report.order = o => report.step # "sent"

WorkerInv ==
  /\ worker \in WorkerState /\ worker.since <= now
  /\ worker.stage \in {"preparing", "testing"} \cup Rebooting =>
       worker.order \in OrderIds /\ local[worker.order].status # "none"
  /\ worker.stage \in {"testing"} \cup Rebooting => local[worker.order].status = "running"
  /\ worker.stage = "testing" => local[worker.order].type = "run_speedtest"
  /\ worker.stage \in Rebooting => local[worker.order].type = "reboot_router"
  /\ worker.stage \in {"preparing"} \cup Rebooting => worker.result = None
  /\ worker.stage \in Unsaid => NotSaidSent(worker.order)

Update(report) == Server!PhoneStateUpdate(report.status, report.result, report.error, report.step, report.ssh)

\* A report that says that the command of a reboot did not go out.
NeverSent(report) == \/ report.status = "failed" /\ report.ssh = FALSE
                     \/ report.status = "interrupted" /\ report.error = "not-started"

WellFormed(report) ==
  /\ report \in Reports
  /\ Server!Exists(report.order)
  /\ Update(report) \in IF Server!IsReboot(report.order)
                        THEN Server!RebootUpdates([step |-> None]) ELSE Server!SpeedTestUpdates

ReportsInv == \A report \in OnTheWay :
                /\ WellFormed(report)
                /\ NeverSent(report) /\ Server!IsReboot(report.order) =>
                     NotSaidSent(report.order) /\ local[report.order].status \in Closes

ResultsInv == \A r \in ResultIds : results[r].sync = "pending" =>
                /\ results[r].status \in {"done", "failed"} /\ results[r].started <= now
                /\ results[r].order # None =>
                     Server!Exists(results[r].order) /\ ~Server!IsReboot(results[r].order)

\* The command of a reboot goes out once.
CommandedInv == reinstalls = 0 => \A o \in commanded :
                  /\ local[o].status \notin {"none"} \cup Waits
                  /\ ~ (worker.order = o /\ worker.stage \in {"gateway", "ssh"})

USE DEF Unsaid

SystemInv == /\ StoreInv /\ SilentInv /\ LocalInv /\ ListInv
             /\ WorkerInv /\ ReportsInv /\ ResultsInv /\ CommandedInv /\ PhoneTypeOK
             /\ late \subseteq Reports /\ crashes \in Nat /\ reinstalls \in Nat

-----------------------------------------------------------------------------
(* The two instances of PhoneOrders are one: Store brings the theorems.    *)

LEMMA SameTypes == Server!TypeOK <=> Store!TypeOK
  BY DEF Server!TypeOK, Store!TypeOK, Server!Waiting, Store!Waiting, Server!Open, Store!Open,
         Server!Closed, Store!Closed, Server!Statuses, Store!Statuses, Server!Errors,
         Store!Errors, Server!Steps, Store!Steps, Server!Order, Store!Order,
         Server!Measurement, Store!Measurement

LEMMA SameSweeps ==
  /\ Server!SweptOrders = Store!SweptOrders
  /\ Server!SweepExpires <=> Store!SweepExpires
  /\ Server!SweepInterrupts <=> Store!SweepInterrupts
  /\ Server!SweepPhoneOrders <=> Store!SweepPhoneOrders
  /\ Server!Tick <=> Store!Tick
  BY DEF Server!SweptOrders, Store!SweptOrders, Server!SweepExpires, Store!SweepExpires,
         Server!SweepInterrupts, Store!SweepInterrupts, Server!Tick, Store!Tick,
         Server!SweepPhoneOrders, Store!SweepPhoneOrders,
         Server!Expired, Store!Expired, Server!Interrupted, Store!Interrupted,
         Server!ClosedAs, Store!ClosedAs, Server!Waiting, Store!Waiting

LEMMA SameReboots ==
  \A o \in OrderIds, device \in Devices, force \in BOOLEAN :
    Server!CreateRebootOrder(o, device, force) <=> Store!CreateRebootOrder(o, device, force)
  BY DEF Server!CreateRebootOrder, Store!CreateRebootOrder, Server!SweptOrders,
       Store!SweptOrders, Server!Expired, Store!Expired, Server!Interrupted,
       Store!Interrupted, Server!ClosedAs, Store!ClosedAs, Server!Waiting, Store!Waiting,
       Server!Exists, Store!Exists, Server!NewOrder, Store!NewOrder, Server!NoOrder,
       Store!NoOrder, Server!RebootOpen, Store!RebootOpen, Server!RebootCounts,
       Store!RebootCounts, Server!CoolingDown, Store!CoolingDown

LEMMA SameCreating == Server!Creating <=> Store!Creating
  <1>2. \A o \in OrderIds, d \in Devices \cup {ProbeDevice}, w \in Windows :
          Server!createPhoneOrderForDevice(o, d, w) <=> Store!createPhoneOrderForDevice(o, d, w)
    BY DEF Server!createPhoneOrderForDevice, Store!createPhoneOrderForDevice, Server!Exists,
         Store!Exists, Server!NewOrder, Store!NewOrder, Server!NoOrder, Store!NoOrder
  <1>3. \A batch \in SUBSET OrderIds : \A device, window :
          Server!CreatePhoneOrders(batch, device, window) <=> Store!CreatePhoneOrders(batch, device, window)
    BY DEF Server!CreatePhoneOrders, Store!CreatePhoneOrders, Server!Exists, Store!Exists,
         Server!NewOrder, Store!NewOrder, Server!NoOrder, Store!NoOrder
  <1> QED BY SameReboots, <1>2, <1>3 DEF Server!Creating, Store!Creating

LEMMA SameAdministering == Server!Administering <=> Store!Administering
  BY DEF Server!Administering, Store!Administering, Server!CancelPhoneOrders,
         Store!CancelPhoneOrders, Server!ChangeRunner, Store!ChangeRunner, Server!ClosedAs,
         Store!ClosedAs, Server!Waiting, Store!Waiting, Server!Open, Store!Open

LEMMA SameCalls ==
  /\ \A ids : Server!AckPhoneOrders(ids) <=> Store!AckPhoneOrders(ids)
  /\ \A r, o, d, status, started :
       Server!InsertProbeResult(r, o, d, status, started) <=> Store!InsertProbeResult(r, o, d, status, started)
  <1>1. \A ids : Server!AckPhoneOrders(ids) <=> Store!AckPhoneOrders(ids)
    BY DEF Server!AckPhoneOrders, Store!AckPhoneOrders, Server!Delivered, Store!Delivered
  <1>2. \A r, o, d, status, started :
       Server!InsertProbeResult(r, o, d, status, started) <=> Store!InsertProbeResult(r, o, d, status, started)
    BY DEF Server!InsertProbeResult, Store!InsertProbeResult, Server!Exists, Store!Exists,
         Server!IsReboot, Store!IsReboot, Server!orderAcceptsResult, Store!orderAcceptsResult,
         Server!Linked, Store!Linked, Server!ClosedAs, Store!ClosedAs, Server!SoftFinal,
         Store!SoftFinal, Server!Open, Store!Open, Server!Waiting, Store!Waiting
  <1> QED BY <1>1, <1>2

LEMMA SameState == \A o, u : Server!SetPhoneOrderState(o, u) <=> Store!SetPhoneOrderState(o, u)
  BY DEF Server!SetPhoneOrderState, Store!SetPhoneOrderState, Server!StateClose,
         Store!StateClose, Server!StateReopen, Store!StateReopen, Server!StateProgress,
         Store!StateProgress, Server!StateAdvance, Store!StateAdvance, Server!Closes,
         Store!Closes, Server!Reopens, Store!Reopens, Server!Progresses, Store!Progresses,
         Server!Advances, Store!Advances, Server!phoneTransitions, Store!phoneTransitions,
         Server!RebootReopen, Store!RebootReopen, Server!SoftFinal, Store!SoftFinal,
         Server!WithProgress, Store!WithProgress, Server!CancelDuplicates,
         Store!CancelDuplicates, Server!Started, Store!Started, Server!Delivered,
         Store!Delivered, Server!ClosedAs, Store!ClosedAs, Server!Exists, Store!Exists,
         Server!IsReboot, Store!IsReboot, Server!Open, Store!Open, Server!Waiting,
         Store!Waiting

-----------------------------------------------------------------------------
(* What the phone sees of a step of the store                              *)

\* A row changes without a word of the phone, or because of what it told of it.
Heeds ==
  /\ StoreInv' /\ now <= now'
  /\ \A o \in OrderIds :
       \/ Store!Gentle(orders[o], orders'[o])
       \/ /\ local[o].status \notin {"none"} \cup Waits
          /\ orders[o].status # "none" /\ orders'[o].status \in {"running"} \cup Closes
          /\ orders'[o].type = orders[o].type
          /\ orders'[o].step = "sent" =>
               \/ orders[o].step = "sent"
               \/ \E report \in OnTheWay : report.order = o /\ report.step = "sent"

LEMMA SameVars ==
  /\ Server!Waiting = Store!Waiting /\ Server!Waiting = Waits
  /\ Server!Closed = Store!Closed /\ Server!Closed = Closes
  /\ Server!Open = Store!Open /\ Server!Open = Waits \cup {"running"}
  BY DEF Server!Waiting, Store!Waiting, Server!Open, Store!Open, Server!Closed, Store!Closed, Waits, Closes

LEMMA GentleRow ==
  ASSUME NEW a, NEW b, RowOK(a), Store!Gentle(a, b)
  PROVE  RowOK(b)
  <1>1. None # "sent"
    BY SystemAssumption DEF Server!NamesAssumption
  <1>2. "pending" \in Waits
    BY DEF Waits
  <1>3. b.status \in Waits => b = a \/ a.status \in {"none"} \cup Waits
    BY SameVars DEF Store!Gentle, Waits
  <1> QED BY <1>1, <1>2, <1>3, SameVars DEF RowOK, Store!Gentle, Waits

\* Its types, and a clock that never goes back.
LEMMA TypedStep ==
  ASSUME Server!TypeOK, Store!Next
  PROVE  Server!TypeOK'
  <1>1. Store!TypeOK
    BY SameTypes
  <1>2. Store!TypeOK'
    BY <1>1, Store!NextType, SystemAssumption
  <1> QED BY <1>2, SameTypes, PTL

LEMMA GentleStep ==
  ASSUME StoreInv,
         \/ Server!Creating \/ Server!Administering
         \/ Server!SweepExpires \/ Server!SweepInterrupts \/ Server!Tick
         \/ \E ids \in SUBSET OrderIds : Server!AckPhoneOrders(ids)
         \/ Server!SweepPhoneOrders
         \/ UNCHANGED serverVars
  PROVE  Heeds
  <1>1. CASE UNCHANGED serverVars
    <2>1. StoreInv' /\ now' = now /\ now \in Nat
      BY <1>1 DEF serverVars, StoreInv, Server!TypeOK, RowOK, Server!Waiting
    <2>2. \A o \in OrderIds : Store!Gentle(orders[o], orders'[o])
      BY <1>1 DEF serverVars, Store!Gentle
    <2> QED BY <2>1, <2>2 DEF Heeds
  <1>2. CASE ~ UNCHANGED serverVars
    <2>1. Store!TypeOK
      BY SameTypes DEF StoreInv
    <2>2. \/ Store!Creating \/ Store!Administering
          \/ Store!SweepExpires \/ Store!SweepInterrupts \/ Store!Tick
          \/ \E ids \in SUBSET OrderIds : Store!AckPhoneOrders(ids)
          \/ Store!SweepPhoneOrders
      BY <1>2, SameCreating, SameAdministering, SameSweeps, SameCalls
    <2>3. \A o \in OrderIds : Store!Gentle(orders[o], orders'[o])
      BY <2>1, <2>2, Store!GentleSteps, SystemAssumption
    <2>4. Server!TypeOK'
      BY <2>2, SameSweeps, TypedStep DEF StoreInv, Store!Next, Store!Reporting
    <2>5. \A o \in OrderIds : RowOK(orders'[o])
      BY <2>3, GentleRow DEF StoreInv
    <2>6. now' = now \/ now' = now + 1
      BY <2>2 DEF Store!Creating, Store!CreatePhoneOrders, Store!createPhoneOrderForDevice, Store!CreateRebootOrder,
                  Store!Administering, Store!CancelPhoneOrders, Store!ChangeRunner,
                  Store!SweepExpires, Store!SweepInterrupts, Store!SweepPhoneOrders,
                  Store!Tick, Store!AckPhoneOrders
    <2>7. now <= now'
      BY <2>6 DEF StoreInv, Server!TypeOK
    <2>8. StoreInv'
      BY <2>4, <2>5 DEF StoreInv, RowOK, Server!Waiting
    <2> QED BY <2>3, <2>7, <2>8 DEF Heeds
  <1> QED BY <1>1, <1>2

\* A reboot that is reported has no result_id.
LEMMA RebootResult == \A u \in Server!RebootUpdates([step |-> None]) : u.result = None
  BY DEF Server!RebootUpdates, Server!PhoneStateUpdate

LEMMA ReportStep ==
  ASSUME SystemInv, NEW report \in OnTheWay, Applied(report)
  PROVE  Heeds
  <1> DEFINE o == report.order
             u == Update(report)
  <1>1. CASE UNCHANGED serverVars
    BY <1>1, GentleStep DEF SystemInv
  <1>2. CASE Server!SetPhoneOrderState(o, u)
    <2>1. report \in Reports /\ o \in OrderIds /\ WellFormed(report)
      BY DEF SystemInv, ReportsInv, WellFormed, Reports
    <2>2. u \in Store!Update /\ u.status # "delivered"
      BY <2>1 DEF Update, Server!PhoneStateUpdate, Store!Update, Reports, Store!Statuses, Store!Closed,
                  Store!Open, Store!Waiting, Store!Errors, Store!Steps
    <2>3. u.step = report.step
      BY DEF Update, Server!PhoneStateUpdate
    <2>4. Store!SetPhoneOrderState(o, u) /\ Store!TypeOK
      BY <1>2, SameState, SameTypes DEF SystemInv, StoreInv
    <2>5. /\ Store!Told(orders[o], orders'[o], u)
          /\ \A p \in OrderIds \ {o} : Store!Gentle(orders[p], orders'[p])
      BY <2>1, <2>2, <2>4, Store!StateTold, SystemAssumption
    <2>6. Server!TypeOK' /\ now' = now /\ now \in Nat
      <3>1. orders' \in [OrderIds -> Store!Order]
        BY <2>1, <2>2, <2>4, Store!StateType, SystemAssumption
      <3>2. Store!TypeOK'
        BY <2>4, <3>1 DEF Store!TypeOK, Store!SetPhoneOrderState
      <3>3. Server!TypeOK'
        BY <3>2, SameTypes, PTL
      <3> QED BY <2>4, <3>3 DEF Store!TypeOK, Store!SetPhoneOrderState
    <2>7. RowOK(orders'[o])
      <3>1. Server!IsReboot(o) => u.result = None
        BY <2>1, RebootResult DEF WellFormed
      <3>2. orders'[o].status \notin Waits /\ orders'[o].type = orders[o].type
        BY <2>5, SameVars DEF Store!Told, Closes, Waits
      <3>3. orders'[o].type = "reboot_router" => orders'[o].result = None
        BY <2>1, <2>5, <3>1, <3>2 DEF Store!Told, SystemInv, StoreInv, RowOK, Server!IsReboot
      <3> QED BY <3>2, <3>3, SameVars DEF RowOK
    <2>8. \A p \in OrderIds : RowOK(orders'[p])
      BY <2>5, <2>7, GentleRow DEF SystemInv, StoreInv
    <2>9. StoreInv'
      BY <2>6, <2>8 DEF StoreInv, RowOK, Server!Waiting
    <2>10. local[o].status \notin {"none"} \cup Waits
      BY <2>1 DEF SystemInv, SilentInv
    <2>11. \A p \in OrderIds \ {o} : Store!Gentle(orders[p], orders'[p])
      BY <2>5
    <2>12. /\ orders[o].status # "none" /\ orders'[o].status \in {"running"} \cup Closes
           /\ orders'[o].type = orders[o].type
           /\ orders'[o].step = orders[o].step \/ orders'[o].step = report.step
      BY <2>3, <2>5, SameVars DEF Store!Told
    <2> QED BY <2>6, <2>9, <2>10, <2>11, <2>12 DEF Heeds
  <1> QED BY <1>1, <1>2 DEF Applied, Update

LEMMA UploadStep ==
  ASSUME SystemInv, NEW r \in ResultIds, results[r].sync = "pending", Stored(r)
  PROVE  Heeds
  <1>1. CASE UNCHANGED serverVars
    BY <1>1, GentleStep DEF SystemInv
  <1>2. ASSUME NEW device \in Devices \cup {None},
               Server!InsertProbeResult(r, results[r].order, device, results[r].status, results[r].started)
        PROVE  Heeds
    <2> DEFINE o == results[r].order
    <2>1. /\ o \in OrderIds \cup {None} /\ results[r].status \in {"done", "failed"}
          /\ results[r].started \in 0..now /\ now \in Nat
      BY DEF SystemInv, ResultsInv, PhoneTypeOK, StoreInv, Server!TypeOK
    <2>2. Store!InsertProbeResult(r, o, device, results[r].status, results[r].started) /\ Store!TypeOK
      BY <1>2, SameCalls, SameTypes DEF SystemInv, StoreInv
    <2>3. Store!Next
      BY <2>1, <2>2 DEF Store!Next, Store!Reporting
    <2>4. Server!TypeOK' /\ now' = now
      BY <2>2, <2>3, TypedStep DEF SystemInv, StoreInv, Store!InsertProbeResult
    <2>5. \A p \in OrderIds :
           \/ orders'[p] = orders[p]
           \/ /\ p = o /\ orders[p].status # "none" /\ orders[p].type # "reboot_router"
              /\ orders'[p].type = orders[p].type /\ orders'[p].step = orders[p].step
              /\ orders'[p].status \in {"done", "failed"}
      <3>1. \A p \in OrderIds :
             \/ orders'[p] = orders[p]
             \/ /\ p = o /\ orders[p].status # "none" /\ orders[p].type # "reboot_router"
                /\ orders'[p].type = orders[p].type /\ orders'[p].step = orders[p].step
                /\ orders'[p].status = results[r].status /\ orders'[p].closedBy = "phone"
        <4> HIDE DEF o
        <4> QED BY <2>1, <2>2, Store!UploadTold, SystemAssumption
      <3> QED BY <2>1, <3>1
    <2>6. \A p \in OrderIds : RowOK(orders'[p])
      BY <2>5, SameVars DEF SystemInv, StoreInv, RowOK, Waits, Closes
    <2>7. StoreInv'
      BY <2>4, <2>6 DEF StoreInv, RowOK, Server!Waiting
    <2>8. o \in OrderIds => local[o].status \notin {"none"} \cup Waits
      BY DEF SystemInv, SilentInv
    <2>9. ASSUME NEW p \in OrderIds
          PROVE  \/ Store!Gentle(orders[p], orders'[p])
                 \/ /\ local[p].status \notin {"none"} \cup Waits
                    /\ orders[p].status # "none" /\ orders'[p].status \in {"running"} \cup Closes
                    /\ orders'[p].type = orders[p].type
                    /\ orders'[p].step = "sent" => orders[p].step = "sent"
      BY <2>5, <2>8, SameVars DEF Store!Gentle, Closes
    <2> QED BY <2>1, <2>4, <2>7, <2>9 DEF Heeds
  <1> QED BY <1>1, <1>2 DEF Stored, serverVars

-----------------------------------------------------------------------------
(* What it leaves of what the phone knows                                  *)

LEMMA Heeded ==
  ASSUME Heeds, NEW o \in OrderIds
  PROVE  /\ Server!Exists(o) => Server!Exists(o)' /\ orders'[o].type = orders[o].type
         /\ Untouched(o) /\ local[o].status \in {"none"} \cup Waits => Untouched(o)'
         /\ orders'[o].step = "sent" =>
              \/ orders[o].step = "sent"
              \/ \E report \in OnTheWay : report.order = o /\ report.step = "sent"
  <1>1. None # "sent" /\ Store!Waiting = Waits /\ Store!Closed = Closes
    BY SystemAssumption, SameVars DEF Server!NamesAssumption
  <1>2. CASE Store!Gentle(orders[o], orders'[o])
    BY <1>1, <1>2 DEF Store!Gentle, Server!Exists, Untouched, Waits, Closes
  <1>3. CASE ~ Store!Gentle(orders[o], orders'[o])
    BY <1>3 DEF Heeds, Server!Exists, Waits, Closes
  <1> QED BY <1>2, <1>3

-----------------------------------------------------------------------------
(* What is on its way                                                      *)

\* A list of all there is to tell, of orders that are finitely many.
LEMMA Listed ==
  ASSUME NEW T \in SUBSET OrderIds, NEW told \in [T -> Reports],
         NEW list \in SetToSeqs({told[o] : o \in T})
  PROVE  /\ list \in Seq(Reports)
         /\ {list[i] : i \in 1..Len(list)} \subseteq {told[o] : o \in T}
  <1> DEFINE S == {told[o] : o \in T}
  <1>1. IsFiniteSet(T)
    BY PhoneAssumption, FS_Subset
  <1>2. told \in Surjection(T, S)
    BY DEF Surjection
  <1>3. IsFiniteSet(S)
    BY <1>1, <1>2, FS_Surjection
  <1>4. Cardinality(S) \in Nat
    BY <1>3, FS_CardinalityType
  <1>5. list \in [1..Cardinality(S) -> S]
    BY DEF SetToSeqs
  <1>6. S \subseteq Reports
    OBVIOUS
  <1> HIDE DEF S
  <1>7. list \in Seq(S) /\ Len(list) = Cardinality(S)
    BY <1>4, <1>5
  <1>8. list \in Seq(Reports)
    BY <1>6, <1>7, SeqMonotonic
  <1> QED BY <1>5, <1>7, <1>8 DEF S

LEMMA Joined ==
  ASSUME outbox \in Seq(Reports), NEW list \in Seq(Reports), outbox' = outbox \o list, late' = late
  PROVE  /\ outbox' \in Seq(Reports) /\ Len(outbox) <= Len(outbox')
         /\ OnTheWay' \subseteq OnTheWay \cup {list[i] : i \in 1..Len(list)}
  <1>1. /\ outbox' \in Seq(Reports) /\ Len(outbox') = Len(outbox) + Len(list)
        /\ \A i \in 1..Len(outbox) + Len(list) :
             outbox'[i] = IF i <= Len(outbox) THEN outbox[i] ELSE list[i - Len(outbox)]
    BY ConcatProperties
  <1>2. Len(outbox) \in Nat /\ Len(list) \in Nat
    BY LenProperties
  <1>3. ASSUME NEW i \in 1..Len(outbox')
        PROVE  outbox'[i] \in OnTheWay \cup {list[j] : j \in 1..Len(list)}
    <2>1. CASE i <= Len(outbox)
      BY <1>1, <1>2, <2>1 DEF OnTheWay
    <2>2. CASE i > Len(outbox)
      <3>1. i - Len(outbox) \in 1..Len(list)
        BY <1>1, <1>2, <2>2
      <3> QED BY <1>1, <1>2, <2>2, <3>1
    <2> QED BY <1>1, <1>2, <2>1, <2>2
  <1> QED BY <1>1, <1>2, <1>3 DEF OnTheWay

LEMMA Appended ==
  ASSUME outbox \in Seq(Reports), NEW report \in Reports, outbox' = Append(outbox, report), late' = late
  PROVE  /\ outbox' \in Seq(Reports) /\ Len(outbox) <= Len(outbox')
         /\ OnTheWay' \subseteq OnTheWay \cup {report}
  <1>1. /\ outbox' \in Seq(Reports) /\ Len(outbox') = Len(outbox) + 1
        /\ \A i \in 1..Len(outbox) + 1 :
             outbox'[i] = IF i = Len(outbox) + 1 THEN report ELSE outbox[i]
    BY AppendProperties
  <1>2. Len(outbox) \in Nat
    BY LenProperties
  <1>3. ASSUME NEW i \in 1..Len(outbox')
        PROVE  outbox'[i] \in OnTheWay \cup {report}
    BY <1>1, <1>2 DEF OnTheWay
  <1> QED BY <1>1, <1>2, <1>3 DEF OnTheWay

LEMMA First ==
  ASSUME outbox \in Seq(Reports), control.left \in 0..Len(outbox), Sending
  PROVE  /\ Head(outbox) \in OnTheWay /\ Head(outbox) \in Reports
         /\ Tail(outbox) \in Seq(Reports) /\ control.left - 1 \in 0..Len(Tail(outbox))
         /\ {Tail(outbox)[i] : i \in 1..Len(Tail(outbox))} \subseteq OnTheWay
  <1>1. Len(outbox) \in Nat /\ Len(outbox) > 0
    BY LenProperties DEF Sending
  <1>2. outbox # <<>>
    BY <1>1
  <1>3. /\ Head(outbox) \in Reports /\ Tail(outbox) \in Seq(Reports)
        /\ Len(Tail(outbox)) = Len(outbox) - 1
        /\ \A i \in 1..Len(Tail(outbox)) : Tail(outbox)[i] = outbox[i + 1]
    BY <1>2, HeadTailProperties
  <1>4. Head(outbox) = outbox[1]
    BY <1>1
  <1>5. ASSUME NEW i \in 1..Len(Tail(outbox)) PROVE Tail(outbox)[i] \in OnTheWay
    BY <1>1, <1>3 DEF OnTheWay
  <1> QED BY <1>1, <1>3, <1>4, <1>5 DEF OnTheWay, Sending

-----------------------------------------------------------------------------
(* What a step of the phone may do                                         *)

\* To an order in its database ...
Follows(o) ==
  /\ local'[o].status # "none" => Known(o, local'[o].type, local'[o].result)
  /\ local'[o].status \in Waits => local[o].status \in {"none"} \cup Waits /\ Untouched(o)
  /\ local'[o].status = "none" => local[o].status = "none"
  /\ local[o].status \in Closes => local'[o].status \in Closes

\* ... and to what it tells.
Spoken(report) ==
  /\ WellFormed(report)
  /\ local'[report.order].status \notin {"none"} \cup Waits
  /\ report.step = "sent" => local'[report.order].status = "running"
  /\ NeverSent(report) /\ Server!IsReboot(report.order) =>
       NotSaidSent(report.order) /\ local'[report.order].status \in Closes

\* All that is told anew is among `new`.
Tells(new) == /\ OnTheWay' \subseteq OnTheWay \cup new
              /\ \A report \in new : Spoken(report)

Attributed == \A r \in ResultIds : \A o \in OrderIds :
                results'[r].order = o => \/ results[r].order = o
                                         \/ local'[o].status \notin {"none"} \cup Waits

LEMMA SilentKept ==
  ASSUME SystemInv, NEW new, Tells(new), \A o \in OrderIds : Follows(o), Attributed
  PROVE  SilentInv'
  <1> SUFFICES ASSUME NEW o \in OrderIds, local'[o].status \in {"none"} \cup Waits
               PROVE  /\ \A report \in OnTheWay' : report.order # o
                      /\ \A r \in ResultIds : results'[r].order # o
    BY DEF SilentInv
  <1>1. local[o].status \in {"none"} \cup Waits
    BY DEF Follows
  <1>2. \A report \in OnTheWay' : report.order # o
    BY <1>1 DEF SystemInv, SilentInv, Tells, Spoken
  <1>3. \A r \in ResultIds : results'[r].order # o
    BY <1>1 DEF SystemInv, SilentInv, Attributed
  <1> QED BY <1>2, <1>3

LEMMA LocalKept ==
  ASSUME Heeds, \A o \in OrderIds : Follows(o)
  PROVE  LocalInv'
  <1> SUFFICES ASSUME NEW o \in OrderIds
               PROVE  /\ local'[o].status # "none" => Known(o, local[o].type, local[o].result)'
                      /\ local'[o].status \in Waits => Untouched(o)'
    BY DEF LocalInv, Known, Server!Exists, Untouched
  <1>1. Follows(o)
    OBVIOUS
  <1>2. local'[o].status # "none" => Known(o, local[o].type, local[o].result)'
    BY <1>1, Heeded DEF Follows, Known, Server!Exists
  <1> QED BY <1>1, <1>2, Heeded DEF Follows

LEMMA ReportsKept ==
  ASSUME SystemInv, Heeds, NEW new, Tells(new), \A o \in OrderIds : Follows(o)
  PROVE  ReportsInv'
  <1> SUFFICES ASSUME NEW report \in OnTheWay'
               PROVE  /\ WellFormed(report)'
                      /\ NeverSent(report) /\ Server!IsReboot(report.order)' =>
                           NotSaidSent(report.order)' /\ local'[report.order].status \in Closes
    BY DEF ReportsInv, NeverSent
  <1>1. WellFormed(report)
    BY DEF SystemInv, ReportsInv, Tells, Spoken
  <1>2. report.order \in OrderIds
    BY <1>1 DEF WellFormed, Reports
  <1>3. Server!Exists(report.order)' /\ (Server!IsReboot(report.order)' <=> Server!IsReboot(report.order))
    BY <1>1, <1>2, Heeded DEF WellFormed, Server!IsReboot
  <1>4. WellFormed(report)'
    BY <1>1, <1>3 DEF WellFormed, Update, Server!PhoneStateUpdate, Server!RebootUpdates, Server!SpeedTestUpdates, Server!Steps
  <1>5. ASSUME NeverSent(report), Server!IsReboot(report.order)
        PROVE  NotSaidSent(report.order)' /\ local'[report.order].status \in Closes
    <2>1. NotSaidSent(report.order) /\ local'[report.order].status \in Closes
      BY <1>2, <1>5 DEF SystemInv, ReportsInv, Tells, Spoken, Follows
    <2>2. orders'[report.order].step # "sent"
      BY <1>2, <2>1, Heeded DEF NotSaidSent
    <2>3. \A other \in OnTheWay' : other.order = report.order => other.step # "sent"
      BY <2>1 DEF NotSaidSent, Tells, Spoken, Closes
    <2> QED BY <2>1, <2>2, <2>3 DEF NotSaidSent
  <1> QED BY <1>3, <1>4, <1>5

LEMMA ResultsKept ==
  ASSUME SystemInv, Heeds,
         \A r \in ResultIds : results'[r] # results[r] =>
           \/ results'[r].sync # "pending"
           \/ /\ results'[r].status \in {"done", "failed"} /\ results'[r].started <= now
              /\ results'[r].order \in OrderIds \cup {None}
              /\ results'[r].order # None =>
                   Server!Exists(results'[r].order) /\ ~Server!IsReboot(results'[r].order),
         results' \in [ResultIds -> [sync: {"none", "pending", "synced"}, order: OrderIds \cup {None},
                                     status: {"none", "done", "failed"}, started: Nat]]
  PROVE  ResultsInv'
  <1> SUFFICES ASSUME NEW r \in ResultIds, results'[r].sync = "pending"
               PROVE  /\ results'[r].status \in {"done", "failed"} /\ results'[r].started <= now'
                      /\ results'[r].order # None =>
                           Server!Exists(results[r].order)' /\ ~Server!IsReboot(results[r].order)'
    BY DEF ResultsInv
  <1> PICK res : res = results'[r]
    OBVIOUS
  <1>1. /\ res.status \in {"done", "failed"} /\ res.started <= now
        /\ res.order # None => Server!Exists(res.order) /\ ~Server!IsReboot(res.order)
    BY DEF SystemInv, ResultsInv
  <1>2. res.order \in OrderIds \cup {None} /\ res.started \in Nat
    OBVIOUS
  <1>3. now \in Nat /\ now' \in Nat /\ now <= now'
    BY DEF SystemInv, StoreInv, Server!TypeOK, Heeds
  <1>4. res.order # None => Server!Exists(res.order)' /\ ~Server!IsReboot(res.order)'
    BY <1>1, <1>2, Heeded DEF Server!IsReboot
  <1>5. res.started <= now'
    BY <1>1, <1>2, <1>3
  <1> QED BY <1>1, <1>4, <1>5 DEF Server!IsReboot, Server!Exists

LEMMA WorkerKept ==
  ASSUME SystemInv, Heeds, NEW new, Tells(new),
         \A report \in new : report.step # "sent", worker' = worker,
         \A o \in OrderIds : local[o].status # "none" =>
           /\ local'[o].status # "none" /\ local'[o].type = local[o].type
           /\ local[o].status = "running" => local'[o].status = "running"
  PROVE  WorkerInv'
  <1>1. worker.since <= now'
    BY DEF SystemInv, WorkerInv, WorkerState, StoreInv, Server!TypeOK, Heeds
  <1>2. ASSUME worker.stage \in Unsaid PROVE NotSaidSent(worker.order)'
    <2>1. worker.order \in OrderIds /\ NotSaidSent(worker.order)
      BY <1>2 DEF SystemInv, WorkerInv, Rebooting
    <2>2. orders'[worker.order].step # "sent"
      BY <2>1, Heeded DEF NotSaidSent
    <2> QED BY <2>1, <2>2 DEF NotSaidSent, Tells
  <1>3. worker.stage \in {"preparing", "testing"} \cup Rebooting =>
          worker.order \in OrderIds /\ local'[worker.order].status # "none"
    BY DEF SystemInv, WorkerInv
  <1>4. /\ worker.stage \in {"testing"} \cup Rebooting => local'[worker.order].status = "running"
        /\ worker.stage = "testing" => local'[worker.order].type = "run_speedtest"
        /\ worker.stage \in Rebooting => local'[worker.order].type = "reboot_router"
        /\ worker.stage \in {"preparing"} \cup Rebooting => worker.result = None
    BY DEF SystemInv, WorkerInv
  <1>5. worker \in WorkerState
    BY DEF SystemInv, WorkerInv
  <1> QED BY <1>1, <1>2, <1>3, <1>4, <1>5 DEF WorkerInv, NotSaidSent

LEMMA WorkerFree ==
  ASSUME StoreInv', worker' \in WorkerState, worker'.since = 0,
         worker'.stage \in {"recovering", "idle", "picking"}
  PROVE  WorkerInv'
  <1>1. worker'.since <= now'
    BY DEF StoreInv, Server!TypeOK
  <1> QED BY <1>1 DEF WorkerInv, Rebooting, WorkerState

LEMMA CommandedKept ==
  ASSUME SystemInv, \A o \in OrderIds : Follows(o), commanded' = commanded, reinstalls' = reinstalls,
         \/ worker' = worker
         \/ worker'.stage \notin {"gateway", "ssh"}
         \/ /\ worker'.order = worker.order
            /\ worker.stage \in {"gateway", "ssh"} \/ local[worker.order].status \in Waits
  PROVE  CommandedInv'
  BY DEF SystemInv, CommandedInv, PhoneTypeOK, Follows

LEMMA ListKept ==
  ASSUME SystemInv, Heeds, control' = control,
         \A o \in OrderIds : local'[o].status = "none" => local[o].status = "none"
  PROVE  ListInv'
  <1>1. ASSUME control.stage \in {"listing", "answered"}, NEW o \in DOMAIN control.rows
        PROVE  /\ Known(o, control.rows[o].type, control.rows[o].result)'
               /\ local'[o].status = "none" /\ control.rows[o].status # "running" => Untouched(o)'
    <2>1. /\ o \in OrderIds /\ Known(o, control.rows[o].type, control.rows[o].result)
          /\ local[o].status = "none" /\ control.rows[o].status # "running" => Untouched(o)
      BY <1>1 DEF SystemInv, ListInv
    <2>2. Known(o, control.rows[o].type, control.rows[o].result)'
      BY <2>1, Heeded DEF Known, Server!Exists
    <2> QED BY <2>1, <2>2, Heeded
  <1>2. /\ control = [stage |-> control.stage, left |-> control.left, rows |-> control.rows,
                      truncated |-> control.truncated, closed |-> control.closed]
        /\ control.stage \in {"listing", "answered"} =>
             DOMAIN control.rows \subseteq OrderIds /\ \A o \in DOMAIN control.rows : control.rows[o] \in OpenRow
        /\ control.stage = "answered" => \A o \in DOMAIN control.closed : control.closed[o] \in Closes
    BY DEF SystemInv, ListInv
  <1> QED BY <1>1, <1>2 DEF ListInv, OpenRow, Server!Open, Server!Waiting, Known, Untouched, Server!Exists

-----------------------------------------------------------------------------
(* Calls that leave the database of the phone alone, but for the outbox    *)

LEMMA Stays ==
  ASSUME SystemInv, local' = local
  PROVE  \A o \in OrderIds : Follows(o)
  BY DEF SystemInv, LocalInv, Follows, Waits, Closes

LEMMA Quietly ==
  ASSUME SystemInv, Heeds, UNCHANGED <<local, results, worker, commanded, reinstalls>>,
         OnTheWay' \subseteq OnTheWay, outbox' \in Seq(Reports), late' \subseteq Reports, crashes' \in Nat,
         control'.left \in 0..Len(outbox'), control'.truncated \in BOOLEAN,
         control'.stage \in {"idle", "listing", "answered", "acking", "flushing", "uploading"},
         ListInv'
  PROVE  SystemInv'
  <1>0. Tells({}) /\ \A report \in {} : report.step # "sent"
    BY DEF Tells
  <1>1. \A o \in OrderIds : Follows(o)
    BY Stays
  <1>2. SilentInv'
    <2>1. Attributed
      BY DEF Attributed
    <2> QED BY <1>0, <1>1, <2>1, SilentKept
  <1>3. LocalInv'
    BY <1>1, LocalKept
  <1>4. ReportsInv'
    BY <1>0, <1>1, ReportsKept
  <1>5. WorkerInv'
    BY <1>0, WorkerKept
  <1>6. ResultsInv'
    BY ResultsKept DEF SystemInv, PhoneTypeOK
  <1>7. CommandedInv'
    BY <1>1, CommandedKept
  <1>8. PhoneTypeOK'
    BY DEF SystemInv, PhoneTypeOK
  <1>9. StoreInv' /\ reinstalls' \in Nat
    BY DEF SystemInv, Heeds
  <1> QED BY <1>2, <1>3, <1>4, <1>5, <1>6, <1>7, <1>8, <1>9 DEF SystemInv

\* Steps of others, and reports that arrive late.
LEMMA OthersStep ==
  ASSUME SystemInv, Heeds, UNCHANGED <<phoneVars, reinstalls>>, late' \subseteq late, crashes' \in Nat
  PROVE  SystemInv'
  <1>1. ListInv'
    BY ListKept DEF phoneVars
  <1>2. OnTheWay' \subseteq OnTheWay
    BY DEF phoneVars, OnTheWay
  <1>3. late' \subseteq Reports /\ outbox' = outbox /\ control' = control
    BY DEF SystemInv, phoneVars
  <1>4. UNCHANGED <<local, results, worker, commanded, reinstalls>>
    BY DEF phoneVars
  <1>5. /\ outbox' \in Seq(Reports)
        /\ control'.left \in 0..Len(outbox') /\ control'.truncated \in BOOLEAN
        /\ control'.stage \in {"idle", "listing", "answered", "acking", "flushing", "uploading"}
    BY <1>3 DEF SystemInv, PhoneTypeOK
  <1> QED BY <1>1, <1>2, <1>3, <1>4, <1>5, Quietly

\* Steps after which the control thread holds no list.
LEMMA ControlStep ==
  ASSUME SystemInv, Heeds, UNCHANGED <<local, results, worker, commanded, network>>,
         outbox' = outbox, NEW stage \in {"idle", "acking", "flushing", "uploading"},
         NEW left \in 0..Len(outbox), control' = [Quiet EXCEPT !.stage = stage, !.left = left]
  PROVE  SystemInv'
  <1>1. control' = [stage |-> stage, left |-> left, rows |-> <<>>, truncated |-> FALSE, closed |-> <<>>]
    BY DEF Quiet
  <1>2. ListInv'
    BY <1>1 DEF ListInv
  <1>3. /\ UNCHANGED <<local, results, worker, commanded, reinstalls>>
        /\ OnTheWay' = OnTheWay /\ late' = late /\ crashes' = crashes
    BY DEF OnTheWay, network
  <1>4. outbox' \in Seq(Reports) /\ late' \subseteq Reports /\ crashes' \in Nat
    BY <1>3 DEF SystemInv, PhoneTypeOK
  <1>5. /\ control'.left \in 0..Len(outbox') /\ control'.truncated \in BOOLEAN
        /\ control'.stage \in {"idle", "listing", "answered", "acking", "flushing", "uploading"}
    <2>1. control'.left = left /\ control'.truncated = FALSE /\ control'.stage = stage
      BY DEF Quiet
    <2> QED BY <2>1
  <1> QED BY <1>1, <1>2, <1>3, <1>4, <1>5, Quietly

LEMMA NoAnswerKept ==
  ASSUME SystemInv, Heeds, NoAnswer, late' \subseteq late \cup OnTheWay, UNCHANGED <<crashes, reinstalls>>
  PROVE  SystemInv'
  <1>1. control' = [stage |-> "idle", left |-> 0, rows |-> <<>>, truncated |-> FALSE, closed |-> <<>>]
    BY DEF NoAnswer, Quiet
  <1>2. ListInv'
    BY <1>1 DEF ListInv
  <1>3. OnTheWay' \subseteq OnTheWay /\ outbox' = outbox
    BY DEF OnTheWay, NoAnswer
  <1>4. outbox' \in Seq(Reports) /\ crashes' \in Nat /\ Len(outbox') \in Nat
    BY <1>3, LenProperties DEF SystemInv, PhoneTypeOK
  <1>5. late' \subseteq Reports
    BY DEF SystemInv, ReportsInv, WellFormed
  <1>6. UNCHANGED <<local, results, worker, commanded, reinstalls>>
    BY DEF NoAnswer
  <1> QED BY <1>1, <1>2, <1>3, <1>4, <1>5, <1>6, Quietly

\* GET /orders: what is listed holds for the orders as they were swept.
LEMMA AskOpenKept ==
  ASSUME SystemInv, NEW listed \in SUBSET OrderIds, NEW truncated \in BOOLEAN, AskOpen(listed, truncated)
  PROVE  SystemInv'
  <1>1. PICK swept : swept = Server!SweptOrders
    OBVIOUS
  <1> DEFINE rows == [o \in listed |-> [type |-> swept[o].type, notAfter |-> swept[o].notAfter,
                                        status |-> swept[o].status, result |-> swept[o].result]]
  <1>2. /\ orders' = swept /\ UNCHANGED <<now, runner, measurements, network>>
        /\ \A o \in listed : swept[o].status \in Server!Open
        /\ ListOpen(rows, truncated)
    BY <1>1 DEF AskOpen, Server!SweepPhoneOrders
  <1>3. Heeds
    BY GentleStep DEF AskOpen, SystemInv
  <1>4. control' = [stage |-> "listing", left |-> 0, rows |-> rows, truncated |-> truncated, closed |-> <<>>]
    BY <1>2 DEF ListOpen, Quiet
  <1>5. /\ UNCHANGED <<local, results, worker, commanded, outbox, late, crashes, reinstalls>>
        /\ outbox' \in Seq(Reports) /\ Len(outbox') \in Nat
        /\ late' \subseteq Reports /\ crashes' \in Nat
    BY <1>2, LenProperties DEF ListOpen, network, SystemInv, PhoneTypeOK
  <1>6. ASSUME NEW o \in listed
        PROVE  /\ rows[o] \in OpenRow
               /\ Known(o, rows[o].type, rows[o].result)'
               /\ rows[o].status # "running" => Untouched(o)'
    <2>1. /\ orders' \in [OrderIds -> Server!Order] /\ RowOK(orders'[o])
          /\ orders'[o].status \in Server!Open /\ orders'[o] = swept[o]
      BY <1>2, <1>3 DEF Heeds, StoreInv, Server!TypeOK, RowOK, Server!Waiting
    <2>2. rows[o] \in OpenRow
      BY <2>1 DEF OpenRow, Server!Order
    <2>3. Known(o, rows[o].type, rows[o].result)'
      BY <2>1, SameVars DEF Known, Server!Exists, RowOK, Waits
    <2>4. ASSUME rows[o].status # "running" PROVE Untouched(o)'
      BY <2>1, <2>4, SameVars DEF Untouched, RowOK, Waits
    <2> QED BY <2>2, <2>3, <2>4
  <1> HIDE DEF rows
  <1>7. DOMAIN rows = listed
    BY DEF rows
  <1>8. ListInv'
    BY <1>4, <1>6, <1>7 DEF ListInv, OpenRow, Server!Open, Server!Waiting, Known, Untouched, Server!Exists
  <1>9. OnTheWay' = OnTheWay
    BY <1>5 DEF OnTheWay
  <1> QED BY <1>3, <1>4, <1>5, <1>8, <1>9, Quietly

LEMMA AskClosedKept ==
  ASSUME SystemInv, AskClosed
  PROVE  SystemInv'
  <1>1. PICK closed : /\ \A o \in DOMAIN closed : closed[o] \in Closes
                      /\ ListClosed(closed) /\ UNCHANGED <<serverVars, network>>
    BY SameVars DEF AskClosed
  <1>2. Heeds
    BY <1>1, GentleStep DEF SystemInv
  <1>3. control' = [stage |-> "answered", left |-> control.left, rows |-> control.rows,
                    truncated |-> control.truncated, closed |-> closed]
    BY <1>1 DEF ListClosed, SystemInv, ListInv
  <1>4. /\ UNCHANGED <<local, results, worker, commanded, outbox, late, crashes, reinstalls, orders>>
        /\ outbox' \in Seq(Reports) /\ late' \subseteq Reports /\ crashes' \in Nat
        /\ control.left \in 0..Len(outbox') /\ control.truncated \in BOOLEAN
        /\ control.stage = "listing"
    BY <1>1 DEF ListClosed, network, serverVars, SystemInv, PhoneTypeOK
  <1>5. ListInv'
    BY <1>1, <1>3, <1>4 DEF SystemInv, ListInv, Known, Untouched, Server!Exists, OpenRow,
                           Server!Open, Server!Waiting
  <1>6. OnTheWay' = OnTheWay
    BY <1>4 DEF OnTheWay
  <1> QED BY <1>2, <1>3, <1>4, <1>5, <1>6, Quietly

-----------------------------------------------------------------------------
(* The other steps of the control thread                                   *)

LEMMA SendReportKept ==
  ASSUME SystemInv, SendReport
  PROVE  SystemInv'
  <1>1. Head(outbox) \in OnTheWay /\ Tail(outbox) \in Seq(Reports) /\ control.left - 1 \in 0..Len(Tail(outbox))
    BY First DEF SendReport, ReportAnswered, SystemInv, PhoneTypeOK
  <1>2. Heeds
    BY <1>1, ReportStep DEF SendReport
  <1>3. /\ UNCHANGED <<local, results, worker, commanded, reinstalls, late, crashes>>
        /\ outbox' = Tail(outbox)
        /\ control' = [stage |-> "flushing", left |-> control.left - 1, rows |-> control.rows,
                       truncated |-> control.truncated, closed |-> control.closed]
    BY DEF SendReport, ReportAnswered, Sending, network, SystemInv, ListInv
  <1>4. ListInv'
    BY <1>3 DEF ListInv
  <1>5. OnTheWay' \subseteq OnTheWay
    BY <1>3, First DEF SystemInv, PhoneTypeOK, SendReport, ReportAnswered, OnTheWay
  <1>6. /\ outbox' \in Seq(Reports) /\ late' \subseteq Reports /\ crashes' \in Nat
        /\ control'.left \in 0..Len(outbox') /\ control'.truncated \in BOOLEAN
        /\ control'.stage \in {"idle", "listing", "answered", "acking", "flushing", "uploading"}
    BY <1>1, <1>3 DEF SystemInv, PhoneTypeOK
  <1> QED BY <1>2, <1>3, <1>4, <1>5, <1>6, Quietly

LEMMA LateReportKept ==
  ASSUME SystemInv, NEW report \in late, LateReport(report)
  PROVE  SystemInv'
  <1>1. report \in OnTheWay
    BY DEF OnTheWay
  <1>2. Heeds
    BY <1>1, ReportStep DEF LateReport
  <1> QED BY <1>2, OthersStep DEF LateReport, SystemInv

LEMMA ReportLostKept ==
  ASSUME SystemInv, ReportLost \/ ReportDelayed
  PROVE  SystemInv'
  <1>1. Head(outbox) \in OnTheWay
    BY First DEF ReportLost, ReportDelayed, SystemInv, PhoneTypeOK
  <1>2. Heeds
    BY <1>1, ReportStep, GentleStep DEF ReportLost, ReportDelayed, SystemInv
  <1> QED BY <1>1, <1>2, NoAnswerKept DEF ReportLost, ReportDelayed, network

\* An answer to POST /ack only marks the orders, and what waited waits still.
LEMMA AckKept ==
  ASSUME SystemInv, Ack
  PROVE  SystemInv'
  <1>1. Heeds
    BY GentleStep DEF Ack, NotAcked, SystemInv
  <1>2. /\ UNCHANGED <<results, worker, commanded, outbox, late, crashes, reinstalls>>
        /\ control' = [stage |-> "flushing", left |-> Len(outbox), rows |-> <<>>,
                       truncated |-> FALSE, closed |-> <<>>]
    BY DEF Ack, AckAnswered, network, Quiet
  <1>3. /\ local' \in [OrderIds -> [type: {"none", "run_speedtest", "reboot_router"},
                                    notAfter: Nat, status: {"none", "running"} \cup Waits \cup Closes,
                                    acked: BOOLEAN, result: ResultIds \cup {None}, sshOk: BOOLEAN]]
        /\ \A o \in OrderIds :
             /\ local'[o].type = local[o].type /\ local'[o].result = local[o].result
             /\ \/ local'[o].status = local[o].status
                \/ local[o].status = "pending" /\ local'[o].status = "delivered"
    <2>1. ASSUME NEW o \in OrderIds
          PROVE  /\ local'[o] \in [type: {"none", "run_speedtest", "reboot_router"}, notAfter: Nat,
                                   status: {"none", "running"} \cup Waits \cup Closes,
                                   acked: BOOLEAN, result: ResultIds \cup {None}, sshOk: BOOLEAN]
                 /\ local'[o].type = local[o].type /\ local'[o].result = local[o].result
                 /\ \/ local'[o].status = local[o].status
                    \/ local[o].status = "pending" /\ local'[o].status = "delivered"
      BY DEF Ack, AckAnswered, SystemInv, PhoneTypeOK, Waits
    <2> QED BY <2>1 DEF Ack, AckAnswered
  <1>4. \A o \in OrderIds : Follows(o)
    BY <1>3 DEF SystemInv, LocalInv, Follows, Waits, Closes
  <1>5. Tells({}) /\ \A report \in {} : report.step # "sent"
    BY <1>2 DEF Tells, OnTheWay
  <1>6. SilentInv' /\ ReportsInv' /\ LocalInv'
    <2>1. Attributed
      BY <1>2 DEF Attributed
    <2> QED BY <1>1, <1>4, <1>5, <2>1, SilentKept, ReportsKept, LocalKept
  <1>7. ListInv'
    BY <1>2 DEF ListInv
  <1>8. WorkerInv'
    BY <1>1, <1>2, <1>3, <1>5, WorkerKept
  <1>9. ResultsInv'
    BY <1>1, <1>2, ResultsKept DEF SystemInv, PhoneTypeOK
  <1>10. CommandedInv'
    BY <1>2, <1>4, CommandedKept
  <1>11. PhoneTypeOK'
    <2>1. Len(outbox') \in Nat /\ outbox' \in Seq(Reports)
      BY <1>2, LenProperties DEF SystemInv, PhoneTypeOK
    <2>2. control'.stage = "flushing" /\ control'.left = Len(outbox') /\ control'.truncated = FALSE
      BY DEF Ack, AckAnswered, Quiet
    <2> QED BY <1>2, <1>3, <2>1, <2>2 DEF SystemInv, PhoneTypeOK
  <1> QED BY <1>1, <1>2, <1>6, <1>7, <1>8, <1>9, <1>10, <1>11 DEF SystemInv, Heeds

LEMMA SendResultKept ==
  ASSUME SystemInv, NEW r \in ResultIds, SendResult(r)
  PROVE  SystemInv'
  <1>1. results[r].sync = "pending" /\ Stored(r)
    BY DEF SendResult, ResultAnswered, Uploading
  <1>2. Heeds
    BY <1>1, UploadStep
  <1>3. /\ UNCHANGED <<local, outbox, worker, control, commanded, late, crashes, reinstalls>>
        /\ results' = [results EXCEPT ![r].sync = "synced"]
    BY DEF SendResult, ResultAnswered, network
  <1>4. /\ results' \in [ResultIds -> [sync: {"none", "pending", "synced"}, order: OrderIds \cup {None},
                                      status: {"none", "done", "failed"}, started: Nat]]
        /\ results'[r].sync = "synced" /\ \A q \in ResultIds : results'[q].order = results[q].order
        /\ \A q \in ResultIds \ {r} : results'[q] = results[q]
    BY <1>3 DEF SystemInv, PhoneTypeOK
  <1>5. \A o \in OrderIds : Follows(o)
    BY <1>3, Stays
  <1>6. Tells({}) /\ \A report \in {} : report.step # "sent"
    BY <1>3 DEF Tells, OnTheWay
  <1>7. SilentInv' /\ ReportsInv' /\ LocalInv'
    <2>1. Attributed
      BY <1>4 DEF Attributed
    <2> QED BY <1>2, <1>5, <1>6, <2>1, SilentKept, ReportsKept, LocalKept
  <1>8. ListInv'
    BY <1>2, <1>3, ListKept
  <1>9. WorkerInv'
    BY <1>2, <1>3, <1>6, WorkerKept
  <1>10. ResultsInv'
    <2>1. ASSUME NEW q \in ResultIds, results'[q] # results[q] PROVE results'[q].sync # "pending"
      BY <1>4, <2>1
    <2> QED BY <1>2, <1>4, <2>1, ResultsKept
  <1>11. CommandedInv'
    BY <1>3, <1>5, CommandedKept
  <1>12. PhoneTypeOK'
    BY <1>3, <1>4 DEF SystemInv, PhoneTypeOK
  <1> QED BY <1>2, <1>3, <1>7, <1>8, <1>9, <1>10, <1>11, <1>12 DEF SystemInv, Heeds

-----------------------------------------------------------------------------
(* The list of the backend goes into the database                          *)

LocalOrder == [type: {"none", "run_speedtest", "reboot_router"},
               notAfter: Nat, status: {"none", "running"} \cup Waits \cup Closes,
               acked: BOOLEAN, result: ResultIds \cup {None}, sshOk: BOOLEAN]

LEMMA ClosedOrderRow ==
  ASSUME NEW ord \in LocalOrder, NEW status \in Closes
  PROVE  /\ ClosedOrder(ord, status) \in LocalOrder
         /\ ClosedOrder(ord, status).type = ord.type /\ ClosedOrder(ord, status).result = ord.result
         /\ IF ord.status \in Waits THEN ClosedOrder(ord, status).status = status
            ELSE ClosedOrder(ord, status).status = ord.status
  BY DEF ClosedOrder, LocalOrder

LEMMA NewRowType ==
  ASSUME NEW row \in OpenRow
  PROVE  /\ NewRow(row) \in LocalOrder /\ NewRow(row).type = row.type
         /\ NewRow(row).result \in {row.result, None}
         /\ NewRow(row).status = IF row.status = "running" THEN "interrupted" ELSE "pending"
  BY DEF NewRow, NoLocal, OpenRow, LocalOrder, Waits, Closes

LEMMA IngestedRow ==
  ASSUME SystemInv, control.stage = "answered", NEW o \in OrderIds
  PROVE  /\ IngestedOrder(o) \in LocalOrder
         /\ Unknown(o) =>
              /\ IngestedOrder(o).type = control.rows[o].type
              /\ IngestedOrder(o).result \in {control.rows[o].result, None}
              /\ IngestedOrder(o).status \in {"pending"} \cup Closes
              /\ control.rows[o].status = "running" => IngestedOrder(o).status = "interrupted"
         /\ ~Unknown(o) =>
              /\ IngestedOrder(o).type = local[o].type /\ IngestedOrder(o).result = local[o].result
              /\ \/ IngestedOrder(o).status = local[o].status
                 \/ local[o].status \in Waits /\ IngestedOrder(o).status \in Closes
  <1>1. PICK ord : ord = IF Unknown(o) THEN NewRow(control.rows[o]) ELSE local[o]
    OBVIOUS
  <1>2. Unknown(o) => control.rows[o] \in OpenRow
    BY DEF SystemInv, ListInv, Unknown
  <1>3. local[o] \in LocalOrder
    BY DEF SystemInv, PhoneTypeOK, LocalOrder
  <1>4. ord \in LocalOrder
    BY <1>1, <1>2, <1>3, NewRowType
  <1>5. \/ IngestedOrder(o) = ord
        \/ \E status \in Closes : IngestedOrder(o) = ClosedOrder(ord, status)
    <2>1. o \in DOMAIN control.closed => control.closed[o] \in Closes
      BY DEF SystemInv, ListInv
    <2> QED BY <1>1, <2>1 DEF IngestedOrder, Closes
  <1>6. /\ IngestedOrder(o) \in LocalOrder
        /\ IngestedOrder(o).type = ord.type /\ IngestedOrder(o).result = ord.result
        /\ \/ IngestedOrder(o).status = ord.status
           \/ ord.status \in Waits /\ IngestedOrder(o).status \in Closes
    BY <1>4, <1>5, ClosedOrderRow
  <1>7. ASSUME Unknown(o)
        PROVE  /\ IngestedOrder(o).type = control.rows[o].type
               /\ IngestedOrder(o).result \in {control.rows[o].result, None}
               /\ IngestedOrder(o).status \in {"pending"} \cup Closes
               /\ control.rows[o].status = "running" => IngestedOrder(o).status = "interrupted"
    <2>1. /\ ord.type = control.rows[o].type /\ ord.result \in {control.rows[o].result, None}
          /\ ord.status = IF control.rows[o].status = "running" THEN "interrupted" ELSE "pending"
      BY <1>1, <1>2, <1>7, NewRowType
    <2> QED BY <1>6, <2>1 DEF Waits, Closes
  <1>8. ~Unknown(o) => ord = local[o]
    BY <1>1
  <1> QED BY <1>6, <1>7, <1>8

LEMMA IngestKept ==
  ASSUME SystemInv, Unseen(Ingest)
  PROVE  SystemInv'
  <1> DEFINE forgotten == {o \in OrderIds : Unknown(o) /\ control.rows[o].status = "running"}
             Lost(o)   == Report(o, "interrupted", control.rows[o].result, "other", None, None)
             told      == [o \in forgotten |-> Lost(o)]
             new       == {told[o] : o \in forgotten}
  <1>1. Heeds
    BY GentleStep DEF Unseen, SystemInv
  <1>2. /\ UNCHANGED <<results, worker, commanded, late, crashes, reinstalls>>
        /\ control.stage = "answered"
        /\ control' = [stage |-> "acking", left |-> 0, rows |-> <<>>, truncated |-> FALSE, closed |-> <<>>]
    BY DEF Unseen, Ingest, network, Quiet
  <1>3. local' = [o \in OrderIds |-> IngestedOrder(o)]
    BY DEF Unseen, Ingest
  <1>4. local' \in [OrderIds -> LocalOrder] /\ \A o \in OrderIds : local'[o] = IngestedOrder(o)
    BY <1>2, <1>3, IngestedRow
  <1>5. ASSUME NEW o \in OrderIds
        PROVE  /\ Follows(o)
               /\ local[o].status # "none" =>
                    /\ local'[o].status # "none" /\ local'[o].type = local[o].type
                    /\ local[o].status = "running" => local'[o].status = "running"
    <2>1. CASE Unknown(o)
      <3>1. /\ local[o].status = "none" /\ Known(o, control.rows[o].type, control.rows[o].result)
            /\ control.rows[o].status # "running" => Untouched(o)
        BY <1>2, <2>1 DEF Unknown, SystemInv, ListInv
      <3>2. /\ local'[o].type = control.rows[o].type
            /\ local'[o].result \in {control.rows[o].result, None}
            /\ local'[o].status \in {"pending"} \cup Closes
            /\ control.rows[o].status = "running" => local'[o].status = "interrupted"
        BY <1>2, <1>4, <2>1, IngestedRow
      <3> QED BY <3>1, <3>2 DEF Follows, Known, Waits, Closes
    <2>2. CASE ~Unknown(o)
      <3>1. /\ local'[o].type = local[o].type /\ local'[o].result = local[o].result
            /\ \/ local'[o].status = local[o].status
               \/ local[o].status \in Waits /\ local'[o].status \in Closes
        BY <1>2, <1>4, <2>2, IngestedRow
      <3> QED BY <3>1 DEF Follows, SystemInv, LocalInv, Waits, Closes
    <2> QED BY <2>1, <2>2
  <1>6. ASSUME NEW o \in forgotten
        PROVE  Spoken(Lost(o)) /\ Lost(o) \in Reports /\ Lost(o).step # "sent"
    <2>1. /\ control.rows[o] \in OpenRow /\ Known(o, control.rows[o].type, control.rows[o].result)
      BY <1>2 DEF SystemInv, ListInv, Unknown
    <2>2. Lost(o) \in Reports
      BY <2>1 DEF Report, Reports, OpenRow
    <2>3. /\ Lost(o).order = o /\ Lost(o).status = "interrupted" /\ Lost(o).error = "other"
          /\ Lost(o).result = control.rows[o].result /\ Lost(o).step = None /\ Lost(o).ssh = None
      BY DEF Report
    <2>4. None # "sent"
      BY SystemAssumption DEF Server!NamesAssumption
    <2>5. Update(Lost(o)) = Server!PhoneStateUpdate("interrupted", control.rows[o].result, "other", None, None)
      BY <2>3 DEF Update
    <2>6. WellFormed(Lost(o))
      BY <2>1, <2>2, <2>3, <2>5 DEF WellFormed, Known, OpenRow, Server!IsReboot, Server!RebootUpdates, Server!SpeedTestUpdates
    <2>7. local'[o].status = "interrupted"
      BY <1>2, <1>4, IngestedRow
    <2> QED BY <2>2, <2>3, <2>4, <2>6, <2>7 DEF Spoken, NeverSent, Waits
  <1>7. PICK list \in SetToSeqs(new) : outbox' = outbox \o list
    <2>1. new = {Lost(o) : o \in forgotten}
      OBVIOUS
    <2> QED BY <2>1 DEF Unseen, Ingest
  <1>8. told \in [forgotten -> Reports]
    BY <1>6
  <1>9. list \in Seq(Reports) /\ {list[i] : i \in 1..Len(list)} \subseteq new
    <2>1. forgotten \in SUBSET OrderIds
      OBVIOUS
    <2> HIDE DEF forgotten, told
    <2> QED BY <1>7, <1>8, <2>1, Listed
  <1>10. /\ outbox' \in Seq(Reports) /\ OnTheWay' \subseteq OnTheWay \cup new
    BY <1>2, <1>7, <1>9, Joined DEF SystemInv, PhoneTypeOK
  <1>11. Tells(new) /\ \A report \in new : report.step # "sent"
    BY <1>6, <1>10 DEF Tells
  <1> HIDE DEF new
  <1>12. SilentInv' /\ ReportsInv' /\ LocalInv'
    <2>1. Attributed
      BY <1>2 DEF Attributed
    <2> QED BY <1>1, <1>5, <1>11, <2>1, SilentKept, ReportsKept, LocalKept
  <1>13. ListInv'
    BY <1>2 DEF ListInv
  <1>14. WorkerInv'
    BY <1>1, <1>2, <1>5, <1>11, WorkerKept
  <1>15. ResultsInv'
    BY <1>1, <1>2, ResultsKept DEF SystemInv, PhoneTypeOK
  <1>16. CommandedInv'
    BY <1>2, <1>5, CommandedKept
  <1>17. PhoneTypeOK'
    <2>1. Len(outbox') \in Nat
      BY <1>10, LenProperties
    <2>2. control'.stage = "acking" /\ control'.left = 0 /\ control'.truncated = FALSE
      BY <1>2
    <2> QED BY <1>2, <1>4, <1>10, <2>1, <2>2 DEF SystemInv, PhoneTypeOK, LocalOrder
  <1> QED BY <1>1, <1>2, <1>12, <1>13, <1>14, <1>15, <1>16, <1>17 DEF SystemInv, Heeds

-----------------------------------------------------------------------------
(* The steps of the worker                                                 *)

ResultRows == [ResultIds -> [sync: {"none", "pending", "synced"}, order: OrderIds \cup {None},
                             status: {"none", "done", "failed"}, started: Nat]]

LEMMA WorkerMoves ==
  ASSUME SystemInv, UNCHANGED <<serverVars, network, control>>,
         local' \in [OrderIds -> LocalOrder], \A o \in OrderIds : Follows(o),
         outbox' \in Seq(Reports), Len(outbox) <= Len(outbox'), NEW new, Tells(new),
         results' \in ResultRows, Attributed, ResultsInv', WorkerInv',
         commanded' \in SUBSET OrderIds, CommandedInv'
  PROVE  SystemInv'
  <1>1. Heeds /\ UNCHANGED <<late, crashes, reinstalls>> /\ control' = control
    BY GentleStep DEF SystemInv, network
  <1>2. SilentInv' /\ LocalInv' /\ ReportsInv'
    BY <1>1, SilentKept, LocalKept, ReportsKept
  <1>3. ListInv'
    BY <1>1, ListKept DEF Follows
  <1>4. PhoneTypeOK'
    <2>1. control.left \in 0..Len(outbox') /\ worker' \in WorkerState
      <3>1. Len(outbox) \in Nat /\ Len(outbox') \in Nat /\ control.left \in 0..Len(outbox)
        BY LenProperties DEF SystemInv, PhoneTypeOK
      <3> QED BY <3>1 DEF WorkerInv, WorkerState, Rebooting
    <2> QED BY <1>1, <2>1 DEF SystemInv, PhoneTypeOK, LocalOrder, ResultRows, WorkerState, Rebooting
  <1> QED BY <1>1, <1>2, <1>3, <1>4 DEF SystemInv, Heeds

LEMMA IdleWorker ==
  ASSUME SystemInv, NEW stage \in {"recovering", "idle", "picking"},
         worker' = [Idle EXCEPT !.stage = stage], now' = now
  PROVE  /\ worker' \in WorkerState /\ worker'.since = 0 /\ worker'.stage = stage
  BY DEF Idle, WorkerState

\* A step that tells nothing of another order than the worker's.
LEMMA OneOrder ==
  ASSUME SystemInv, NEW o \in OrderIds, \A p \in OrderIds \ {o} : local'[p] = local[p],
         local[o].status # "none", local'[o].type = local[o].type,
         local'[o].type = "reboot_router" => local'[o].result \in {local[o].result, None},
         local'[o].status \in {"running"} \cup Closes,
         local[o].status \in Closes => local'[o].status \in Closes
  PROVE  \A p \in OrderIds : Follows(p)
  <1>1. Follows(o)
    BY DEF SystemInv, LocalInv, Follows, Known, Waits, Closes
  <1>2. ASSUME NEW p \in OrderIds \ {o} PROVE Follows(p)
    BY <1>2 DEF SystemInv, LocalInv, Follows, Waits, Closes
  <1> QED BY <1>1, <1>2

LEMMA WorkerOrder ==
  ASSUME SystemInv, worker.stage \in {"preparing", "testing"} \cup Rebooting
  PROVE  /\ worker.order \in OrderIds /\ local[worker.order].status # "none"
         /\ local[worker.order] \in LocalOrder /\ worker \in WorkerState
         /\ Known(worker.order, local[worker.order].type, local[worker.order].result)
         /\ worker.stage # "preparing" => local[worker.order].status = "running"
  BY DEF SystemInv, WorkerInv, LocalInv, PhoneTypeOK, LocalOrder, Rebooting

LEMMA SameOutbox ==
  ASSUME SystemInv, outbox' = outbox, late' = late
  PROVE  outbox' \in Seq(Reports) /\ Len(outbox) <= Len(outbox') /\ Tells({})
  <1>1. outbox \in Seq(Reports) /\ Len(outbox) \in Nat
    BY LenProperties DEF SystemInv, PhoneTypeOK
  <1> QED BY <1>1 DEF Tells, OnTheWay

\* Nothing in the database changes: the worker moves on.
LEMMA OnlyWorker ==
  ASSUME SystemInv, UNCHANGED <<serverVars, network, local, outbox, results, control>>,
         commanded' \in SUBSET OrderIds, WorkerInv', CommandedInv'
  PROVE  SystemInv'
  <1>1. late' = late /\ local' = local /\ outbox' = outbox /\ results' = results /\ UNCHANGED serverVars
    BY DEF network
  <1>2. Heeds
    BY <1>1, GentleStep DEF SystemInv
  <1>3. /\ local' \in [OrderIds -> LocalOrder] /\ \A o \in OrderIds : Follows(o)
        /\ results' \in ResultRows /\ Attributed
    BY <1>1, Stays DEF SystemInv, PhoneTypeOK, LocalOrder, ResultRows, Attributed
  <1>4. ResultsInv'
    BY <1>1, <1>2, <1>3, ResultsKept DEF ResultRows
  <1> QED BY <1>1, <1>3, <1>4, SameOutbox, WorkerMoves

LEMMA RestKept ==
  ASSUME SystemInv, Unseen(Rest)
  PROVE  SystemInv'
  <1>1. /\ UNCHANGED <<serverVars, network, local, outbox, results, control, commanded>>
        /\ worker' = [Idle EXCEPT !.stage = "idle"]
    BY DEF Unseen, Rest, Idle
  <1>2. StoreInv' /\ now' = now /\ local' = local /\ commanded' = commanded /\ reinstalls' = reinstalls
    BY <1>1, GentleStep DEF SystemInv, Heeds, serverVars, network
  <1>3. worker' \in WorkerState /\ worker'.since = 0 /\ worker'.stage = "idle"
    BY <1>1, <1>2, IdleWorker
  <1>4. WorkerInv'
    BY <1>2, <1>3, WorkerFree
  <1>5. CommandedInv'
    BY <1>2, <1>3, Stays, CommandedKept
  <1> QED BY <1>1, <1>4, <1>5, OnlyWorker DEF SystemInv, PhoneTypeOK

LEMMA PickKept ==
  ASSUME SystemInv, NEW o \in OrderIds, Unseen(Pick(o, now))
  PROVE  SystemInv'
  <1>1. /\ UNCHANGED <<serverVars, network, local, outbox, results, control, commanded>>
        /\ worker' = [stage |-> "preparing", order |-> o, result |-> None, attempt |-> 1, since |-> now]
        /\ local[o].status \in Waits
    BY DEF Unseen, Pick, Idle
  <1>2. now' = now /\ now \in Nat /\ local' = local /\ commanded' = commanded /\ reinstalls' = reinstalls
    BY <1>1 DEF SystemInv, StoreInv, Server!TypeOK, serverVars, network
  <1>3. WorkerInv'
    <2>1. worker' \in WorkerState /\ worker'.since <= now'
      BY <1>1, <1>2 DEF WorkerState
    <2>2. worker'.stage = "preparing" /\ worker'.order = o /\ worker'.result = None /\ local'[o].status # "none"
      BY <1>1, <1>2 DEF Waits
    <2> QED BY <2>1, <2>2 DEF WorkerInv, Rebooting
  <1>4. CommandedInv'
    BY <1>1, <1>2, Stays, CommandedKept
  <1> QED BY <1>1, <1>3, <1>4, OnlyWorker DEF SystemInv, PhoneTypeOK

LEMMA SendCommandKept ==
  ASSUME SystemInv, Unseen(SendCommand)
  PROVE  SystemInv'
  <1>1. /\ UNCHANGED <<serverVars, network, local, outbox, results, control>>
        /\ worker.stage = "ssh" /\ commanded' = commanded \cup {worker.order}
    BY DEF Unseen, SendCommand
  <1>2. worker' = [stage |-> "sent", order |-> worker.order, result |-> worker.result,
                   attempt |-> worker.attempt, since |-> worker.since]
    BY DEF Unseen, SendCommand, SystemInv, WorkerInv, WorkerState
  <1>3. /\ worker.order \in OrderIds /\ local[worker.order].status = "running"
        /\ local[worker.order].type = "reboot_router" /\ worker.result = None
        /\ worker \in WorkerState /\ worker.since <= now
    BY <1>1 DEF SystemInv, WorkerInv, Rebooting
  <1>4. now' = now /\ local' = local /\ reinstalls' = reinstalls
    BY <1>1 DEF serverVars, network
  <1>5. WorkerInv'
    <2>1. worker' \in WorkerState /\ worker'.since <= now'
      BY <1>2, <1>3, <1>4 DEF WorkerState, Rebooting
    <2>2. worker'.stage = "sent" /\ worker'.order = worker.order /\ worker'.result = None
      BY <1>2, <1>3
    <2>3. NotSaidSent(worker.order)'
      <3>1. NotSaidSent(worker.order)
        BY <1>1 DEF SystemInv, WorkerInv
      <3>2. orders' = orders /\ OnTheWay' = OnTheWay /\ worker'.order = worker.order
        BY <1>1, <2>2 DEF serverVars, network, OnTheWay
      <3> QED BY <3>1, <3>2 DEF NotSaidSent
    <2> QED BY <1>3, <1>4, <2>1, <2>2, <2>3 DEF WorkerInv, Rebooting
  <1>6. CommandedInv'
    <2>1. worker'.stage = "sent"
      BY <1>2
    <2> QED BY <1>1, <1>3, <1>4, <2>1 DEF SystemInv, CommandedInv, Waits
  <1> QED BY <1>1, <1>3, <1>5, <1>6, OnlyWorker DEF SystemInv, PhoneTypeOK

\* One order changes, and with it what is told of it, and perhaps a result.
LEMMA OrderMoves ==
  ASSUME SystemInv, UNCHANGED <<serverVars, network, control, commanded>>, NEW o \in OrderIds,
         local' \in [OrderIds -> LocalOrder], \A p \in OrderIds \ {o} : local'[p] = local[p],
         local[o].status # "none", local'[o].type = local[o].type,
         local'[o].type = "reboot_router" => local'[o].result \in {local[o].result, None},
         local'[o].status \in {"running"} \cup Closes,
         local[o].status \in Closes => local'[o].status \in Closes,
         outbox' \in Seq(Reports), Len(outbox) <= Len(outbox'), NEW new, Tells(new),
         results' \in ResultRows, Attributed, ResultsInv', WorkerInv',
         \/ worker'.stage \notin {"gateway", "ssh"}
         \/ /\ worker'.order = worker.order
            /\ worker.stage \in {"gateway", "ssh"} \/ local[worker.order].status \in Waits
  PROVE  SystemInv'
  <1>1. \A p \in OrderIds : Follows(p)
    BY OneOrder
  <1>2. commanded' = commanded /\ reinstalls' = reinstalls
    BY DEF network
  <1>3. CommandedInv'
    BY <1>1, <1>2, CommandedKept
  <1>4. commanded' \in SUBSET OrderIds
    BY <1>2 DEF SystemInv, PhoneTypeOK
  <1> QED BY <1>1, <1>3, <1>4, WorkerMoves

LEMMA SameResults ==
  ASSUME SystemInv, results' = results, UNCHANGED serverVars
  PROVE  results' \in ResultRows /\ Attributed /\ ResultsInv'
  <1>1. results' \in ResultRows /\ Attributed
    BY DEF SystemInv, PhoneTypeOK, ResultRows, Attributed
  <1>2. Heeds
    BY GentleStep DEF SystemInv
  <1> QED BY <1>1, <1>2, ResultsKept DEF ResultRows

\* The worker appends a report of its order.
LEMMA SaysOne ==
  ASSUME SystemInv, NEW report \in Reports, Spoken(report), outbox' = Append(outbox, report), late' = late
  PROVE  outbox' \in Seq(Reports) /\ Len(outbox) <= Len(outbox') /\ Tells({report})
  <1>1. \A other \in {report} : Spoken(other)
    OBVIOUS
  <1> QED BY <1>1, Appended DEF SystemInv, PhoneTypeOK, Tells

\* After a transaction that ends the work on an order.
LEMMA WorkerRests ==
  ASSUME SystemInv, UNCHANGED serverVars, worker' = Idle
  PROVE  WorkerInv' /\ worker'.stage = "idle"
  <1>1. StoreInv' /\ now' = now
    BY GentleStep DEF SystemInv, Heeds, serverVars
  <1>2. worker' = [Idle EXCEPT !.stage = "idle"]
    BY DEF Idle
  <1> QED BY <1>1, <1>2, IdleWorker, WorkerFree

LEMMA SaysWell ==
  ASSUME SystemInv, NEW o \in OrderIds, NEW report \in Reports, report.order = o,
         local[o].status # "none", local'[o].status \in {"running"} \cup Closes,
         Update(report) \in IF local[o].type = "reboot_router"
                            THEN Server!RebootUpdates([step |-> None]) ELSE Server!SpeedTestUpdates,
         report.step = "sent" => local'[o].status = "running",
         NeverSent(report) /\ local[o].type = "reboot_router" =>
           NotSaidSent(o) /\ local'[o].status \in Closes
  PROVE  Spoken(report)
  BY DEF SystemInv, LocalInv, Known, Server!IsReboot, Spoken, WellFormed, Waits, Closes

LEMMA UnknownSlotKept ==
  ASSUME SystemInv, Unseen(UnknownSlot)
  PROVE  SystemInv'
  <1>1. PICK o \in OrderIds : o = worker.order
    BY WorkerOrder DEF Unseen, UnknownSlot
  <1>2. /\ local' = [local EXCEPT ![o] = ClosedOrder(local[o], "interrupted")]
        /\ worker' = Idle /\ UNCHANGED <<serverVars, network, results, control, commanded>>
        /\ late' = late /\ worker.stage = "preparing"
    BY <1>1 DEF Unseen, UnknownSlot, network
  <1>3. local[o] \in LocalOrder /\ local[o].status # "none"
    BY <1>1, <1>2, WorkerOrder
  <1>4. /\ local' \in [OrderIds -> LocalOrder] /\ \A p \in OrderIds \ {o} : local'[p] = local[p]
        /\ local'[o].type = local[o].type /\ local'[o].result = local[o].result
        /\ local'[o].status = IF local[o].status \in Waits THEN "interrupted" ELSE local[o].status
    <2>1. "interrupted" \in Closes /\ local \in [OrderIds -> LocalOrder]
      BY DEF Closes, SystemInv, PhoneTypeOK, LocalOrder
    <2>2. local' \in [OrderIds -> LocalOrder] /\ local'[o] = ClosedOrder(local[o], "interrupted")
      BY <1>2, <1>3, <2>1, ClosedOrderRow
    <2> QED BY <1>2, <1>3, <2>1, <2>2, ClosedOrderRow
  <1>5. local'[o].status \in {"running"} \cup Closes
    BY <1>3, <1>4 DEF LocalOrder, Closes
  <1>6. PICK new : outbox' \in Seq(Reports) /\ Len(outbox) <= Len(outbox') /\ Tells(new)
    <2>1. CASE local[o].status \in Waits
      <3>1. PICK error \in {"not-started", "other"} :
              /\ outbox' = Append(outbox, Report(o, "interrupted", None, error, None, None))
              /\ error = IF local[o].type = "reboot_router" THEN "not-started" ELSE "other"
        BY <1>1, <2>1 DEF Unseen, UnknownSlot
      <3>2. PICK report : report = Report(o, "interrupted", None, error, None, None)
        OBVIOUS
      <3>3. /\ report \in Reports /\ report.order = o /\ report.step = None
            /\ report.status = "interrupted" /\ report.error = error
            /\ Update(report) = Server!PhoneStateUpdate("interrupted", None, error, None, None)
        BY <3>2 DEF Report, Reports, Update
      <3>4. Update(report) \in IF local[o].type = "reboot_router"
                               THEN Server!RebootUpdates([step |-> None]) ELSE Server!SpeedTestUpdates
        BY <3>1, <3>3, SystemAssumption DEF Server!RebootUpdates, Server!SpeedTestUpdates, Server!NamesAssumption
      <3>5. NotSaidSent(o)
        BY <2>1 DEF SystemInv, LocalInv, SilentInv, Untouched, NotSaidSent
      <3>6. Spoken(report)
        BY <1>3, <1>4, <2>1, <3>3, <3>4, <3>5, SaysWell, SystemAssumption DEF Server!NamesAssumption, Closes
      <3> QED BY <1>2, <3>1, <3>2, <3>3, <3>6, SaysOne
    <2>2. CASE local[o].status \notin Waits
      BY <1>1, <1>2, <2>2, SameOutbox DEF Unseen, UnknownSlot
    <2> QED BY <2>1, <2>2
  <1>7. results' = results /\ UNCHANGED serverVars /\ worker' = Idle
    BY <1>2
  <1>8. local[o].status \in Closes => local'[o].status \in Closes
    BY <1>4 DEF Closes, Waits
  <1>9. local'[o].type = "reboot_router" => local'[o].result \in {local[o].result, None}
    BY <1>4
  <1>10. results' \in ResultRows /\ Attributed /\ ResultsInv' /\ WorkerInv' /\ worker'.stage = "idle"
    BY <1>7, SameResults, WorkerRests
  <1> QED BY <1>2, <1>3, <1>4, <1>5, <1>6, <1>8, <1>9, <1>10, OrderMoves

\* A step of a test or a reboot that does not go on: the order no longer waits.
LEMMA OneRow ==
  ASSUME SystemInv, NEW o \in OrderIds, NEW row \in LocalOrder, local' = [local EXCEPT ![o] = row]
  PROVE  /\ local' \in [OrderIds -> LocalOrder] /\ local'[o] = row
         /\ \A p \in OrderIds \ {o} : local'[p] = local[p]
  BY DEF SystemInv, PhoneTypeOK, LocalOrder

LEMMA GivesUp ==
  ASSUME SystemInv, worker' = Idle, UNCHANGED <<serverVars, network, local, outbox, results, control, commanded>>
  PROVE  SystemInv'
  <1>1. StoreInv' /\ local' = local /\ commanded' = commanded /\ reinstalls' = reinstalls
    BY GentleStep DEF SystemInv, Heeds, serverVars, network
  <1>2. WorkerInv' /\ worker'.stage = "idle"
    BY WorkerRests
  <1>3. CommandedInv'
    BY <1>1, <1>2, Stays, CommandedKept
  <1> QED BY <1>1, <1>2, <1>3, OnlyWorker DEF SystemInv, PhoneTypeOK

LEMMA MarkRunningKept ==
  ASSUME SystemInv, NEW r \in ResultIds, Unseen(MarkRunning(r))
  PROVE  SystemInv'
  <1>1. PICK o \in OrderIds : o = worker.order
    BY WorkerOrder DEF Unseen, MarkRunning
  <1>2. CASE local[o].status \notin Waits
    <2>1. worker' = Idle /\ UNCHANGED <<serverVars, network, local, outbox, results, control, commanded>>
      BY <1>1, <1>2 DEF Unseen, MarkRunning
    <2> QED BY <2>1, GivesUp
  <1>3. CASE local[o].status \in Waits
    <2>1. PICK report : report = Report(o, "running", r, "none", None, None)
      OBVIOUS
    <2>2. /\ local' = [local EXCEPT ![o].status = "running", ![o].result = r]
          /\ outbox' = Append(outbox, report) /\ worker' = [worker EXCEPT !.stage = "testing", !.result = r]
          /\ UNCHANGED <<serverVars, network, results, control, commanded>> /\ late' = late
          /\ local[o].type = "run_speedtest" /\ worker.stage = "preparing"
      BY <1>1, <1>3, <2>1 DEF Unseen, MarkRunning, network
    <2>3. local[o] \in LocalOrder /\ local[o].status # "none" /\ worker \in WorkerState /\ worker.since <= now
      BY <1>1, <2>2, WorkerOrder DEF SystemInv, WorkerInv
    <2>4. /\ local' \in [OrderIds -> LocalOrder] /\ \A p \in OrderIds \ {o} : local'[p] = local[p]
          /\ local'[o].type = "run_speedtest" /\ local'[o].status = "running"
      <3>1. PICK row \in LocalOrder : /\ row = [local[o] EXCEPT !.status = "running", !.result = r]
                                      /\ row.type = "run_speedtest" /\ row.status = "running"
        <4>1. [local[o] EXCEPT !.status = "running", !.result = r] \in LocalOrder
          BY <2>3 DEF LocalOrder
        <4> QED BY <2>2, <2>3, <4>1 DEF LocalOrder
      <3>2. local' = [local EXCEPT ![o] = row]
        BY <2>2, <3>1
      <3> QED BY <3>1, <3>2, OneRow
    <2>5. /\ report \in Reports /\ report.order = o /\ report.step = None
          /\ report.status = "running"
          /\ Update(report) = Server!PhoneStateUpdate("running", r, "none", None, None)
      BY <2>1 DEF Report, Reports, Update
    <2>6. Spoken(report)
      <3>1. Update(report) \in Server!SpeedTestUpdates
        BY <2>5 DEF Server!SpeedTestUpdates
      <3> QED BY <2>2, <2>3, <2>4, <2>5, <3>1, SaysWell DEF NeverSent
    <2>7. outbox' \in Seq(Reports) /\ Len(outbox) <= Len(outbox') /\ Tells({report})
      BY <2>2, <2>5, <2>6, SaysOne
    <2>8. WorkerInv' /\ worker'.stage = "testing"
      <3>1. /\ worker' \in WorkerState /\ worker'.stage = "testing"
            /\ worker'.order = o /\ worker'.since = worker.since
        BY <1>1, <2>2, <2>3 DEF WorkerState
      <3>2. now' = now
        BY <2>2 DEF serverVars
      <3> QED BY <2>3, <2>4, <3>1, <3>2 DEF WorkerInv, Rebooting
    <2>9. results' \in ResultRows /\ Attributed /\ ResultsInv'
      BY <2>2, SameResults
    <2>10. local'[o].status \in {"running"} \cup Closes /\ ~ (local[o].status \in Closes)
      BY <1>3, <2>4 DEF Waits, Closes
    <2> QED BY <2>2, <2>3, <2>4, <2>7, <2>8, <2>9, <2>10, OrderMoves
  <1> QED BY <1>2, <1>3

LEMMA Running ==
  ASSUME SystemInv, worker.stage \in {"testing"} \cup Rebooting
  PROVE  /\ worker.order \in OrderIds /\ local[worker.order].status = "running"
         /\ worker \in WorkerState /\ worker.since <= now /\ now \in Nat
         /\ local[worker.order].type = IF worker.stage = "testing" THEN "run_speedtest" ELSE "reboot_router"
         /\ worker.stage \in Rebooting => worker.result = None
         /\ worker.stage \in Unsaid => NotSaidSent(worker.order)
         /\ Server!Exists(worker.order) /\ orders[worker.order].type = local[worker.order].type
  BY DEF SystemInv, WorkerInv, StoreInv, LocalInv, Known, Server!TypeOK, Rebooting

LEMMA FallBackKept ==
  ASSUME SystemInv, NEW r \in ResultIds, Unseen(FallBack(r))
  PROVE  SystemInv'
  <1>1. PICK o \in OrderIds : o = worker.order
    BY Running DEF Unseen, FallBack
  <1>2. /\ local' = [local EXCEPT ![o].result = r]
        /\ results' = [results EXCEPT ![worker.result] = Measured(None, "failed", worker.since)]
        /\ worker' = [worker EXCEPT !.result = r, !.attempt = 2]
        /\ UNCHANGED <<serverVars, network, outbox, control, commanded>>
        /\ late' = late /\ outbox' = outbox /\ worker.stage = "testing"
    BY <1>1 DEF Unseen, FallBack, network
  <1>3. /\ local[o].status = "running" /\ local[o].type = "run_speedtest"
        /\ worker \in WorkerState /\ worker.since <= now /\ worker.since \in Nat
    BY <1>1, <1>2, Running DEF WorkerState
  <1>4. /\ local' \in [OrderIds -> LocalOrder] /\ \A p \in OrderIds \ {o} : local'[p] = local[p]
        /\ local'[o].type = "run_speedtest" /\ local'[o].status = "running"
    BY <1>2, <1>3 DEF SystemInv, PhoneTypeOK, LocalOrder
  <1>5. \A q \in ResultIds : \/ results'[q] = results[q]
                            \/ results'[q] = Measured(None, "failed", worker.since)
    BY <1>2 DEF SystemInv, PhoneTypeOK
  <1>6. PICK res \in [sync: {"none", "pending", "synced"}, order: OrderIds \cup {None},
                      status: {"none", "done", "failed"}, started: Nat] :
          /\ res = Measured(None, "failed", worker.since)
          /\ res.order = None /\ res.status = "failed" /\ res.started = worker.since
    <2>1. Measured(None, "failed", worker.since) \in
            [sync: {"none", "pending", "synced"}, order: OrderIds \cup {None},
             status: {"none", "done", "failed"}, started: Nat]
      BY <1>3 DEF Measured
    <2> QED BY <2>1 DEF Measured
  <1>7. results' \in ResultRows
    BY <1>2, <1>6 DEF SystemInv, PhoneTypeOK, ResultRows
  <1>8. Attributed
    BY <1>5, <1>6, SystemAssumption DEF Attributed, Server!NamesAssumption
  <1>9. Heeds
    BY <1>2, GentleStep DEF SystemInv
  <1>10. ResultsInv'
    <2>1. \A q \in ResultIds : results'[q] # results[q] =>
            /\ results'[q].status \in {"done", "failed"} /\ results'[q].started <= now
            /\ results'[q].order = None
      BY <1>3, <1>5, <1>6
    <2> QED BY <1>7, <1>9, <2>1, ResultsKept DEF ResultRows
  <1>11. WorkerInv' /\ worker'.stage = "testing"
    <2>1. /\ worker' \in WorkerState /\ worker'.stage = "testing"
          /\ worker'.order = o /\ worker'.since = worker.since
      BY <1>1, <1>2, <1>3 DEF WorkerState
    <2>2. now' = now
      BY <1>2 DEF serverVars
    <2> QED BY <1>3, <1>4, <2>1, <2>2 DEF WorkerInv, Rebooting
  <1>12. outbox' \in Seq(Reports) /\ Len(outbox) <= Len(outbox') /\ Tells({})
    BY <1>2, SameOutbox
  <1>13. local'[o].status \in {"running"} \cup Closes /\ ~ (local[o].status \in Closes)
    BY <1>3, <1>4 DEF Closes
  <1> QED BY <1>2, <1>3, <1>4, <1>7, <1>8, <1>10, <1>11, <1>12, <1>13, OrderMoves

LEMMA StoreFinalKept ==
  ASSUME SystemInv, NEW status \in {"done", "failed"}, Unseen(StoreFinal(status, now))
  PROVE  SystemInv'
  <1>1. PICK o \in OrderIds : o = worker.order
    BY Running DEF Unseen, StoreFinal
  <1>2. /\ local' = [local EXCEPT ![o].status = status] /\ worker' = Idle
        /\ UNCHANGED <<serverVars, network, outbox, control, commanded>>
        /\ late' = late /\ outbox' = outbox /\ worker.stage = "testing"
    BY <1>1 DEF Unseen, StoreFinal, network
  <1>3. PICK started \in worker.since..now :
          results' = [results EXCEPT ![worker.result] = Measured(o, status, started)]
    BY <1>1 DEF Unseen, StoreFinal
  <1>4. /\ local[o].status = "running" /\ local[o].type = "run_speedtest"
        /\ Server!Exists(o) /\ ~Server!IsReboot(o)
        /\ worker.since \in Nat /\ now \in Nat
    BY <1>1, <1>2, Running DEF WorkerState, Server!IsReboot
  <1>5. /\ local' \in [OrderIds -> LocalOrder] /\ \A p \in OrderIds \ {o} : local'[p] = local[p]
        /\ local'[o].type = "run_speedtest" /\ local'[o].status \in {"done", "failed"}
    <2>1. PICK row \in LocalOrder : /\ row = [local[o] EXCEPT !.status = status]
                                    /\ row.type = "run_speedtest" /\ row.status = status
      BY <1>1, <1>2, <1>4, WorkerOrder DEF LocalOrder, Closes
    <2>2. local' = [local EXCEPT ![o] = row]
      BY <1>2, <2>1
    <2> QED BY <2>1, <2>2, OneRow
  <1>6. \A q \in ResultIds : results'[q] = results[q] \/ results'[q] = Measured(o, status, started)
    BY <1>3 DEF SystemInv, PhoneTypeOK
  <1>7. PICK res \in [sync: {"none", "pending", "synced"}, order: OrderIds \cup {None},
                      status: {"none", "done", "failed"}, started: Nat] :
          /\ res = Measured(o, status, started)
          /\ res.order = o /\ res.status = status /\ res.started = started
    <2>1. Measured(o, status, started) \in
            [sync: {"none", "pending", "synced"}, order: OrderIds \cup {None},
             status: {"none", "done", "failed"}, started: Nat]
      BY <1>3, <1>4 DEF Measured
    <2> QED BY <2>1 DEF Measured
  <1>8. results' \in ResultRows
    BY <1>3, <1>7 DEF SystemInv, PhoneTypeOK, ResultRows
  <1>9. Attributed
    BY <1>5, <1>6, <1>7 DEF Attributed, Waits
  <1>10. Heeds
    BY <1>2, GentleStep DEF SystemInv
  <1>11. ResultsInv'
    <2>1. started <= now
      BY <1>3, <1>4
    <2>2. \A q \in ResultIds : results'[q] # results[q] =>
            /\ results'[q].status \in {"done", "failed"} /\ results'[q].started <= now
            /\ results'[q].order = o
      BY <1>6, <1>7, <2>1
    <2> QED BY <1>4, <1>8, <1>10, <2>2, ResultsKept DEF ResultRows
  <1>12. WorkerInv' /\ worker'.stage = "idle"
    BY <1>2, WorkerRests
  <1>13. outbox' \in Seq(Reports) /\ Len(outbox) <= Len(outbox') /\ Tells({})
    BY <1>2, SameOutbox
  <1>14. local'[o].status \in {"running"} \cup Closes /\ ~ (local[o].status \in Closes)
    BY <1>4, <1>5 DEF Closes
  <1> QED BY <1>2, <1>4, <1>5, <1>8, <1>9, <1>11, <1>12, <1>13, <1>14, OrderMoves

\* The work on an order ends, with one report.
LEMMA Ended ==
  ASSUME SystemInv, worker.stage \in {"testing"} \cup Rebooting, NEW o \in OrderIds, o = worker.order,
         NEW row \in LocalOrder, local' = [local EXCEPT ![o] = row], row.type = local[o].type,
         row.result = local[o].result, row.status \in Closes,
         NEW report \in Reports, report.order = o, report.step = None, outbox' = Append(outbox, report),
         worker' = Idle, UNCHANGED <<serverVars, network, results, control, commanded>>,
         Update(report) \in IF row.type = "reboot_router"
                            THEN Server!RebootUpdates([step |-> None]) ELSE Server!SpeedTestUpdates,
         NeverSent(report) /\ row.type = "reboot_router" => NotSaidSent(o)
  PROVE  SystemInv'
  <1>1. /\ local' \in [OrderIds -> LocalOrder] /\ local'[o] = row
        /\ \A p \in OrderIds \ {o} : local'[p] = local[p]
    BY OneRow
  <1>2. local[o].status = "running"
    BY Running
  <1>3. None # "sent" /\ late' = late /\ results' = results /\ UNCHANGED serverVars
    BY SystemAssumption DEF Server!NamesAssumption, network
  <1>4. Spoken(report)
    BY <1>1, <1>2, <1>3, SaysWell
  <1>5. outbox' \in Seq(Reports) /\ Len(outbox) <= Len(outbox') /\ Tells({report})
    BY <1>3, <1>4, SaysOne
  <1>6. results' \in ResultRows /\ Attributed /\ ResultsInv' /\ WorkerInv' /\ worker'.stage = "idle"
    BY <1>3, SameResults, WorkerRests
  <1>7. /\ local[o].status # "none" /\ local'[o].type = local[o].type
        /\ local'[o].type = "reboot_router" => local'[o].result \in {local[o].result, None}
        /\ local'[o].status \in {"running"} \cup Closes
        /\ local[o].status \in Closes => local'[o].status \in Closes
    BY <1>1, <1>2
  <1>8. UNCHANGED <<serverVars, network, control, commanded>>
    OBVIOUS
  <1> QED BY <1>1, <1>5, <1>6, <1>7, <1>8, OrderMoves

LEMMA BreakOffKept ==
  ASSUME SystemInv, Unseen(BreakOff)
  PROVE  SystemInv'
  <1>1. /\ worker.stage \in {"testing"} \cup Rebooting
        /\ worker.stage \in Rebooting => worker.stage \in {"gateway", "ssh", "watching"}
    BY DEF Unseen, BreakOff, Rebooting
  <1>2. PICK o \in OrderIds : o = worker.order
    BY <1>1, Running
  <1>3. PICK ssh \in {TRUE, None} : ssh = IF worker.stage = "watching" THEN TRUE ELSE None
    OBVIOUS
  <1>4. PICK report : report = Report(o, "interrupted", worker.result, "other", None, ssh)
    OBVIOUS
  <1>5. PICK row \in LocalOrder : /\ row = [local[o] EXCEPT !.status = "interrupted"]
                                  /\ row.type = local[o].type /\ row.result = local[o].result
                                  /\ row.status = "interrupted"
    <2>1. local[o] \in LocalOrder
      BY <1>1, <1>2, WorkerOrder
    <2>2. [local[o] EXCEPT !.status = "interrupted"] \in LocalOrder
      BY <2>1 DEF LocalOrder, Closes
    <2> QED BY <2>1, <2>2 DEF LocalOrder
  <1>6. /\ local' = [local EXCEPT ![o] = row] /\ outbox' = Append(outbox, report) /\ worker' = Idle
        /\ UNCHANGED <<serverVars, network, results, control, commanded>>
    BY <1>2, <1>3, <1>4, <1>5 DEF Unseen, BreakOff
  <1>7. /\ worker.result \in ResultIds \cup {None}
        /\ row.type = IF worker.stage = "testing" THEN "run_speedtest" ELSE "reboot_router"
        /\ row.type = "reboot_router" => worker.result = None
        /\ row.type # "reboot_router" => ssh = None
    BY <1>1, <1>2, <1>3, <1>5, Running DEF WorkerState, Rebooting
  <1>8. /\ report \in Reports /\ report.order = o /\ report.step = None
        /\ report.status = "interrupted" /\ report.error = "other"
        /\ Update(report) = Server!PhoneStateUpdate("interrupted", worker.result, "other", None, ssh)
    BY <1>3, <1>4, <1>7 DEF Report, Reports, Update
  <1>9. Update(report) \in IF row.type = "reboot_router"
                           THEN Server!RebootUpdates([step |-> None]) ELSE Server!SpeedTestUpdates
    BY <1>3, <1>7, <1>8 DEF Server!RebootUpdates, Server!SpeedTestUpdates
  <1>10. ~NeverSent(report) /\ row.status \in Closes
    BY <1>5, <1>8 DEF NeverSent, Closes
  <1> QED BY <1>1, <1>2, <1>5, <1>6, <1>8, <1>9, <1>10, Ended

LEMMA CloseRebootKept ==
  ASSUME SystemInv, worker.stage \in Rebooting, UNCHANGED <<serverVars, network>>,
         NEW status, NEW error, NEW ssh \in BOOLEAN, CloseReboot(status, error, ssh),
         \/ <<status, error, ssh>> = <<"done", "none", TRUE>>
         \/ status = "failed" /\ error \in {"not-sent", "other"} /\ ssh = TRUE
         \/ status = "failed" /\ error \in {"not-sent", "other"} /\ worker.stage \in Unsaid
  PROVE  SystemInv'
  <1>1. PICK o \in OrderIds : o = worker.order
    BY Running
  <1>2. PICK report : report = Report(o, status, None, error, None, ssh)
    OBVIOUS
  <1>3. local[o] \in LocalOrder /\ status \in {"done", "failed"}
    BY <1>1, WorkerOrder
  <1>4. PICK row \in LocalOrder : /\ row = [local[o] EXCEPT !.status = status, !.sshOk = ssh]
                                  /\ row.type = local[o].type /\ row.result = local[o].result
                                  /\ row.status = status
    <2>1. [local[o] EXCEPT !.status = status, !.sshOk = ssh] \in LocalOrder
      BY <1>3 DEF LocalOrder, Closes
    <2> QED BY <1>3, <2>1 DEF LocalOrder
  <1>5. /\ local' = [local EXCEPT ![o] = row] /\ outbox' = Append(outbox, report) /\ worker' = Idle
        /\ UNCHANGED <<serverVars, network, results, control, commanded>>
    BY <1>1, <1>2, <1>4 DEF CloseReboot
  <1>6. row.type = "reboot_router" /\ (worker.stage \in Unsaid => NotSaidSent(o))
    BY <1>1, <1>4, Running DEF Rebooting
  <1>7. /\ report \in Reports /\ report.order = o /\ report.step = None
        /\ report.status = status /\ report.error = error /\ report.ssh = ssh
        /\ Update(report) = Server!PhoneStateUpdate(status, None, error, None, ssh)
    BY <1>2, <1>3 DEF Report, Reports, Update
  <1>8. Update(report) \in Server!RebootUpdates([step |-> None])
    BY <1>7, SystemAssumption DEF Server!RebootUpdates, Server!NamesAssumption
  <1>9. NeverSent(report) => NotSaidSent(o)
    BY <1>3, <1>6, <1>7 DEF NeverSent
  <1>10. row.status \in Closes
    BY <1>3, <1>4 DEF Closes
  <1> QED BY <1>1, <1>4, <1>5, <1>6, <1>7, <1>8, <1>9, <1>10, Ended

LEMMA RebootsEndKept ==
  ASSUME SystemInv,
         \/ \E error \in {"not-sent", "other"} : Unseen(GatewayFails(error))
         \/ Unseen(CommandRefused) \/ Unseen(CommandUnanswered)
         \/ \E status \in {"done", "failed"}, error \in {"none", "not-sent", "other"} :
              Unseen(WatchEnds(status, error))
  PROVE  SystemInv'
  <1>1. CASE \E error \in {"not-sent", "other"} : Unseen(GatewayFails(error))
    BY <1>1, CloseRebootKept DEF Unseen, GatewayFails, Rebooting
  <1>2. CASE Unseen(CommandRefused) \/ Unseen(CommandUnanswered)
    BY <1>2, CloseRebootKept DEF Unseen, CommandRefused, CommandUnanswered, Rebooting
  <1>3. CASE \E status \in {"done", "failed"}, error \in {"none", "not-sent", "other"} :
               Unseen(WatchEnds(status, error))
    BY <1>3, CloseRebootKept DEF Unseen, WatchEnds, Rebooting
  <1> QED BY <1>1, <1>2, <1>3

\* A reboot starts, or reports how far it is.
LEMMA Reported ==
  ASSUME SystemInv, NEW o \in OrderIds, local[o].status # "none",
         NEW row \in LocalOrder, local' = [local EXCEPT ![o] = row],
         row.type = local[o].type, row.type = "reboot_router", row.result = local[o].result,
         row.status = "running", local[o].status \notin Closes,
         NEW step \in {"before", "sent"},
         outbox' = Append(outbox, Report(o, "running", None, "none", step, None)),
         UNCHANGED <<serverVars, network, results, control, commanded>>,
         worker' \in WorkerState, worker'.stage \in Rebooting, worker'.order = o, worker'.result = None,
         worker'.since <= now,
         worker'.stage # "sent",
         worker'.stage \in {"gateway", "ssh"} =>
           /\ NotSaidSent(o) /\ step = "before" /\ worker.order = o
           /\ worker.stage \in {"gateway", "ssh"} \/ local[o].status \in Waits
  PROVE  SystemInv'
  <1>1. /\ local' \in [OrderIds -> LocalOrder] /\ local'[o] = row
        /\ \A p \in OrderIds \ {o} : local'[p] = local[p]
    BY OneRow
  <1>2. late' = late /\ results' = results /\ UNCHANGED serverVars /\ now' = now /\ orders' = orders
    BY DEF network, serverVars
  <1>3. PICK report : report = Report(o, "running", None, "none", step, None)
    OBVIOUS
  <1>4. /\ report \in Reports /\ report.order = o /\ report.step = step /\ report.status = "running"
        /\ Update(report) = Server!PhoneStateUpdate("running", None, "none", step, None)
    BY <1>3 DEF Report, Reports, Update
  <1>5. Update(report) \in Server!RebootUpdates([step |-> None])
    BY <1>4 DEF Server!RebootUpdates, Server!Steps
  <1>6. Spoken(report)
    BY <1>1, <1>4, <1>5, SaysWell DEF NeverSent
  <1>7. outbox' \in Seq(Reports) /\ Len(outbox) <= Len(outbox') /\ Tells({report})
    BY <1>2, <1>3, <1>4, <1>6, SaysOne
  <1>8. results' \in ResultRows /\ Attributed /\ ResultsInv'
    BY <1>2, SameResults
  <1>9. WorkerInv'
    <2>1. worker'.stage \in Unsaid => NotSaidSent(o)'
      BY <1>2, <1>4, <1>7 DEF NotSaidSent, Tells
    <2> QED BY <1>1, <1>2, <2>1 DEF WorkerInv, Rebooting, NotSaidSent
  <1>10. /\ local'[o].type = local[o].type
         /\ local'[o].type = "reboot_router" => local'[o].result \in {local[o].result, None}
         /\ local'[o].status \in {"running"} \cup Closes
         /\ local[o].status \in Closes => local'[o].status \in Closes
    BY <1>1
  <1>11. UNCHANGED <<serverVars, network, control, commanded>>
    OBVIOUS
  <1> QED BY <1>1, <1>7, <1>8, <1>9, <1>10, <1>11, OrderMoves

LEMMA StartRebootKept ==
  ASSUME SystemInv, Unseen(StartReboot)
  PROVE  SystemInv'
  <1>1. PICK o \in OrderIds : o = worker.order
    BY WorkerOrder DEF Unseen, StartReboot
  <1>2. CASE local[o].status \notin Waits
    <2>1. worker' = Idle /\ UNCHANGED <<serverVars, network, local, outbox, results, control, commanded>>
      BY <1>1, <1>2 DEF Unseen, StartReboot
    <2> QED BY <2>1, GivesUp
  <1>3. CASE local[o].status \in Waits
    <2>1. /\ local' = [local EXCEPT ![o].status = "running"]
          /\ outbox' = Append(outbox, Report(o, "running", None, "none", "before", None))
          /\ worker' = [worker EXCEPT !.stage = "gateway"]
          /\ UNCHANGED <<serverVars, network, results, control, commanded>>
          /\ local[o].type = "reboot_router" /\ worker.stage = "preparing"
      BY <1>1, <1>3 DEF Unseen, StartReboot
    <2>2. local[o] \in LocalOrder /\ local[o].status # "none" /\ worker \in WorkerState /\ worker.since <= now
      BY <1>1, <2>1, WorkerOrder DEF SystemInv, WorkerInv
    <2>3. PICK row \in LocalOrder : /\ row = [local[o] EXCEPT !.status = "running"]
                                    /\ row.type = "reboot_router" /\ row.result = local[o].result
                                    /\ row.status = "running"
      <3>1. [local[o] EXCEPT !.status = "running"] \in LocalOrder
        BY <2>2 DEF LocalOrder
      <3> QED BY <2>1, <2>2, <3>1 DEF LocalOrder
    <2>4. local' = [local EXCEPT ![o] = row]
      BY <2>1, <2>3
    <2>5. NotSaidSent(o)
      BY <1>3 DEF SystemInv, LocalInv, SilentInv, Untouched, NotSaidSent
    <2>6. worker.result = None
      BY <2>1 DEF SystemInv, WorkerInv
    <2>7. /\ worker' \in WorkerState /\ worker'.stage = "gateway" /\ worker'.order = o
          /\ worker'.result = None /\ worker'.since = worker.since
      BY <1>1, <2>1, <2>2, <2>6 DEF WorkerState, Rebooting
    <2>8. worker'.stage \in Rebooting /\ local[o].status \notin Closes
      BY <1>3, <2>7 DEF Rebooting, Waits, Closes
    <2> QED BY <1>1, <1>3, <2>1, <2>2, <2>3, <2>4, <2>5, <2>7, <2>8, Reported
  <1> QED BY <1>2, <1>3

LEMMA RebootStepKept ==
  ASSUME SystemInv, Unseen(GatewayRead) \/ Unseen(StartWatch)
  PROVE  SystemInv'
  <1>1. PICK stage \in {"ssh", "watching"}, step \in {"before", "sent"} :
          /\ UNCHANGED <<serverVars, network>> /\ RebootStep(stage, step)
          /\ \/ stage = "ssh" /\ step = "before" /\ worker.stage = "gateway"
             \/ stage = "watching" /\ worker.stage = "kept"
    BY DEF Unseen, GatewayRead, StartWatch
  <1>2. PICK o \in OrderIds : o = worker.order
    BY <1>1, Running DEF Rebooting
  <1>3. /\ UNCHANGED <<serverVars, network, results, control, commanded>>
        /\ outbox' = Append(outbox, Report(o, "running", None, "none", step, None))
        /\ worker' = [worker EXCEPT !.stage = stage] /\ local' = local
    BY <1>1, <1>2 DEF RebootStep
  <1>4. /\ local[o].status = "running" /\ local[o].type = "reboot_router" /\ worker.result = None
        /\ worker \in WorkerState /\ worker.since <= now
        /\ worker.stage = "gateway" => NotSaidSent(o)
    BY <1>1, <1>2, Running DEF Rebooting
  <1>5. PICK row \in LocalOrder : row = local[o] /\ local' = [local EXCEPT ![o] = row]
    BY <1>3 DEF SystemInv, PhoneTypeOK, LocalOrder
  <1>6. /\ worker' \in WorkerState /\ worker'.stage = stage /\ worker'.order = o
        /\ worker'.result = None /\ worker'.since = worker.since
    BY <1>2, <1>3, <1>4 DEF WorkerState, Rebooting
  <1>7. worker'.stage \in Rebooting /\ local[o].status \notin Closes
    BY <1>4, <1>6 DEF Rebooting, Closes
  <1> QED BY <1>1, <1>2, <1>3, <1>4, <1>5, <1>6, <1>7, Reported

LEMMA KeepPartialKept ==
  ASSUME SystemInv, Unseen(KeepPartial)
  PROVE  SystemInv'
  <1>1. PICK o \in OrderIds : o = worker.order
    BY Running DEF Unseen, KeepPartial, Rebooting
  <1>2. /\ local' = [local EXCEPT ![o].sshOk = TRUE] /\ worker' = [worker EXCEPT !.stage = "kept"]
        /\ UNCHANGED <<serverVars, network, control, commanded>> /\ worker.stage = "sent"
        /\ outbox' = outbox /\ results' = results /\ late' = late /\ UNCHANGED serverVars /\ now' = now
    BY <1>1 DEF Unseen, KeepPartial, network, serverVars
  <1>3. /\ local[o].status = "running" /\ local[o].type = "reboot_router" /\ worker.result = None
        /\ worker \in WorkerState /\ worker.since <= now /\ local[o] \in LocalOrder
    BY <1>1, <1>2, Running, WorkerOrder DEF Rebooting
  <1>4. PICK row \in LocalOrder : /\ row = [local[o] EXCEPT !.sshOk = TRUE]
                                  /\ row.type = "reboot_router" /\ row.result = local[o].result
                                  /\ row.status = "running"
    <2>1. [local[o] EXCEPT !.sshOk = TRUE] \in LocalOrder
      BY <1>3 DEF LocalOrder
    <2> QED BY <1>3, <2>1 DEF LocalOrder
  <1>5. local' = [local EXCEPT ![o] = row]
    BY <1>2, <1>4
  <1>6. /\ local' \in [OrderIds -> LocalOrder] /\ local'[o] = row
        /\ \A p \in OrderIds \ {o} : local'[p] = local[p]
    BY <1>5, OneRow
  <1>7. outbox' \in Seq(Reports) /\ Len(outbox) <= Len(outbox') /\ Tells({})
    BY <1>2, SameOutbox
  <1>8. results' \in ResultRows /\ Attributed /\ ResultsInv'
    BY <1>2, SameResults
  <1>9. WorkerInv' /\ worker'.stage = "kept"
    <2>1. /\ worker' \in WorkerState /\ worker'.stage = "kept" /\ worker'.order = o
          /\ worker'.result = None /\ worker'.since = worker.since
      BY <1>1, <1>2, <1>3 DEF WorkerState, Rebooting
    <2> QED BY <1>2, <1>3, <1>4, <1>6, <2>1 DEF WorkerInv, Rebooting
  <1>10. /\ local[o].status # "none" /\ local'[o].type = local[o].type
         /\ local'[o].type = "reboot_router" => local'[o].result \in {local[o].result, None}
         /\ local'[o].status \in {"running"} \cup Closes
         /\ ~ (local[o].status \in Closes)
    BY <1>3, <1>4, <1>6 DEF Closes
  <1> QED BY <1>2, <1>6, <1>7, <1>8, <1>9, <1>10, OrderMoves

\* The orders that the worker closes without executing them, and their reports.
LEMMA ManyMove ==
  ASSUME SystemInv, UNCHANGED <<serverVars, network, results, control, commanded>>,
         NEW T \in SUBSET OrderIds, NEW status \in Closes,
         \A o \in T : local[o].status \in {"running"} \cup Waits,
         local' = [o \in OrderIds |-> IF o \in T THEN [local[o] EXCEPT !.status = status] ELSE local[o]],
         NEW told, told \in [T -> Reports], \E list \in SetToSeqs({told[o] : o \in T}) : outbox' = outbox \o list,
         \A o \in T : /\ told[o].order = o /\ told[o].step = None /\ ~NeverSent(told[o])
                      /\ Update(told[o]) \in IF local[o].type = "reboot_router"
                                             THEN Server!RebootUpdates([step |-> None])
                                             ELSE Server!SpeedTestUpdates,
         NEW stage \in {"idle", "picking"}, worker' = [Idle EXCEPT !.stage = stage]
  PROVE  SystemInv'
  <1>1. /\ late' = late /\ results' = results /\ UNCHANGED serverVars /\ now' = now
        /\ commanded' = commanded /\ reinstalls' = reinstalls
    BY DEF network, serverVars
  <1>2. ASSUME NEW o \in OrderIds
        PROVE  /\ local'[o] \in LocalOrder
               /\ o \in T => /\ local'[o].status = status
                             /\ local'[o].type = local[o].type /\ local'[o].result = local[o].result
               /\ o \notin T => local'[o] = local[o]
    <2>1. local[o] \in LocalOrder
      BY DEF SystemInv, PhoneTypeOK, LocalOrder
    <2>2. [local[o] EXCEPT !.status = status] \in LocalOrder
      BY <2>1 DEF LocalOrder
    <2> QED BY <2>1, <2>2 DEF LocalOrder
  <1>3. local' \in [OrderIds -> LocalOrder]
    BY <1>2
  <1>4. \A o \in OrderIds : Follows(o)
    <2>1. ASSUME NEW o \in T PROVE Follows(o)
      <3>1. /\ local'[o].status = status /\ local'[o].type = local[o].type /\ local'[o].result = local[o].result
            /\ local[o].status # "none" /\ o \in OrderIds
        BY <1>2 DEF Waits
      <3> QED BY <3>1 DEF SystemInv, LocalInv, Follows, Waits, Closes
    <2>2. ASSUME NEW o \in OrderIds \ T PROVE Follows(o)
      <3>1. local'[o] = local[o]
        BY <1>2
      <3> QED BY <3>1 DEF SystemInv, LocalInv, Follows, Waits, Closes
    <2> QED BY <2>1, <2>2
  <1>5. PICK list \in SetToSeqs({told[o] : o \in T}) : outbox' = outbox \o list
    OBVIOUS
  <1>6. list \in Seq(Reports) /\ {list[i] : i \in 1..Len(list)} \subseteq {told[o] : o \in T}
    BY Listed
  <1>7. PICK new : new = {told[o] : o \in T}
    OBVIOUS
  <1>8. outbox' \in Seq(Reports) /\ Len(outbox) <= Len(outbox') /\ OnTheWay' \subseteq OnTheWay \cup new
    BY <1>1, <1>5, <1>6, <1>7, Joined DEF SystemInv, PhoneTypeOK
  <1>9. ASSUME NEW o \in T PROVE Spoken(told[o])
    <2>1. /\ told[o] \in Reports /\ local[o].status # "none" /\ o \in OrderIds
          /\ local'[o].status \in {"running"} \cup Closes /\ None # "sent"
      BY <1>2, SystemAssumption DEF Server!NamesAssumption, Waits
    <2> QED BY <2>1, SaysWell
  <1>10. Tells(new)
    BY <1>7, <1>8, <1>9 DEF Tells
  <1>11. results' \in ResultRows /\ Attributed /\ ResultsInv'
    BY <1>1, SameResults
  <1>12. worker' \in WorkerState /\ worker'.since = 0 /\ worker'.stage = stage
    BY <1>1, IdleWorker
  <1>13. WorkerInv'
    <2>1. StoreInv'
      BY <1>1, GentleStep DEF SystemInv, Heeds
    <2> QED BY <1>12, <2>1, WorkerFree
  <1>14. CommandedInv'
    BY <1>1, <1>4, <1>12, CommandedKept
  <1>15. commanded' \in SUBSET OrderIds
    BY <1>1 DEF SystemInv, PhoneTypeOK
  <1>16. UNCHANGED <<serverVars, network, control>>
    OBVIOUS
  <1> QED BY <1>3, <1>4, <1>8, <1>10, <1>11, <1>13, <1>14, <1>15, <1>16, WorkerMoves

LEMMA RecoverKept ==
  ASSUME SystemInv, Unseen(Recover)
  PROVE  SystemInv'
  <1>1. PICK T \in SUBSET OrderIds : T = ToRecover
    BY DEF ToRecover
  <1>2. PICK told : told = [o \in T |-> LostRun(o)]
    OBVIOUS
  <1>3. ASSUME NEW o \in T
        PROVE  /\ local[o].status = "running" /\ told[o] \in Reports
               /\ told[o].order = o /\ told[o].step = None /\ ~NeverSent(told[o])
               /\ Update(told[o]) \in IF local[o].type = "reboot_router"
                                      THEN Server!RebootUpdates([step |-> None])
                                      ELSE Server!SpeedTestUpdates
    <2>1. /\ local[o].status = "running" /\ local[o] \in LocalOrder
          /\ Known(o, local[o].type, local[o].result)
      BY <1>1 DEF ToRecover, SystemInv, LocalInv, PhoneTypeOK, LocalOrder
    <2>2. PICK ssh \in BOOLEAN \cup {None} :
            /\ ssh = IF local[o].type = "reboot_router" THEN local[o].sshOk ELSE None
            /\ told[o] = Report(o, "interrupted", local[o].result, "other", None, ssh)
      BY <1>2, <2>1 DEF LostRun, LocalOrder
    <2>3. /\ told[o] \in Reports /\ told[o].order = o /\ told[o].step = None
          /\ told[o].status = "interrupted" /\ told[o].error = "other"
          /\ Update(told[o]) = Server!PhoneStateUpdate("interrupted", local[o].result, "other", None, ssh)
      BY <2>1, <2>2 DEF Report, Reports, Update, LocalOrder
    <2>4. CASE local[o].type = "reboot_router"
      <3>1. local[o].result = None /\ ssh \in BOOLEAN
        BY <2>1, <2>2, <2>4 DEF Known, LocalOrder
      <3> QED BY <2>1, <2>3, <2>4, <3>1 DEF NeverSent, Server!RebootUpdates
    <2>5. CASE local[o].type # "reboot_router"
      <3>1. local[o].result \in ResultIds \cup {None} /\ ssh = None
        BY <2>1, <2>2, <2>5 DEF LocalOrder
      <3> QED BY <2>1, <2>3, <2>5, <3>1 DEF NeverSent, Server!SpeedTestUpdates
    <2> QED BY <2>4, <2>5
  <1>4. told \in [T -> Reports] /\ {told[o] : o \in T} = {LostRun(o) : o \in T}
    BY <1>2, <1>3
  <1>5. /\ UNCHANGED <<serverVars, network, results, control, commanded>>
        /\ worker' = [Idle EXCEPT !.stage = "idle"]
        /\ \E list \in SetToSeqs({told[o] : o \in T}) : outbox' = outbox \o list
    <2>1. Idle = [Idle EXCEPT !.stage = "idle"]
      BY DEF Idle
    <2> QED BY <1>1, <1>4, <2>1 DEF Unseen, Recover
  <1>6. local' = [o \in OrderIds |-> IF o \in T THEN [local[o] EXCEPT !.status = "interrupted"] ELSE local[o]]
    BY <1>1 DEF Unseen, Recover
  <1>7. "interrupted" \in Closes /\ "idle" \in {"idle", "picking"}
    BY DEF Closes
  <1>8. \A o \in T : local[o].status \in {"running"} \cup Waits
    BY <1>3
  <1>9. \A o \in T : /\ told[o].order = o /\ told[o].step = None /\ ~NeverSent(told[o])
                     /\ Update(told[o]) \in IF local[o].type = "reboot_router"
                                            THEN Server!RebootUpdates([step |-> None])
                                            ELSE Server!SpeedTestUpdates
    BY <1>3
  <1>10. told \in [T -> Reports]
    BY <1>4
  <1> QED BY <1>5, <1>6, <1>7, <1>8, <1>9, <1>10, ManyMove

LEMMA ExpireDueKept ==
  ASSUME SystemInv, Unseen(ExpireDue(now))
  PROVE  SystemInv'
  <1>1. PICK T \in SUBSET OrderIds : T = Overdue(now)
    BY DEF Overdue
  <1>2. PICK told : told = [o \in T |-> Report(o, "expired", None, "other", None, None)]
    OBVIOUS
  <1>3. ASSUME NEW o \in T
        PROVE  /\ local[o].status \in Waits /\ told[o] \in Reports
               /\ told[o].order = o /\ told[o].step = None /\ ~NeverSent(told[o])
               /\ Update(told[o]) \in IF local[o].type = "reboot_router"
                                      THEN Server!RebootUpdates([step |-> None])
                                      ELSE Server!SpeedTestUpdates
    <2>1. local[o].status \in Waits
      BY <1>1 DEF Overdue
    <2>2. /\ told[o] \in Reports /\ told[o].order = o /\ told[o].step = None
          /\ told[o].status = "expired" /\ told[o].error = "other"
          /\ Update(told[o]) = Server!PhoneStateUpdate("expired", None, "other", None, None)
      BY <1>2 DEF Report, Reports, Update
    <2> QED BY <2>1, <2>2 DEF NeverSent, Server!RebootUpdates, Server!SpeedTestUpdates
  <1>4. /\ told \in [T -> Reports]
        /\ {told[o] : o \in T} = {Report(o, "expired", None, "other", None, None) : o \in T}
    BY <1>2, <1>3
  <1>5. \A o \in T : ClosedOrder(local[o], "expired") = [local[o] EXCEPT !.status = "expired"]
    BY <1>3 DEF ClosedOrder
  <1>6. /\ UNCHANGED <<serverVars, network, results, control, commanded>>
        /\ worker' = [Idle EXCEPT !.stage = "picking"]
        /\ \E list \in SetToSeqs({told[o] : o \in T}) : outbox' = outbox \o list
    BY <1>1, <1>4 DEF Unseen, ExpireDue
  <1>7. local' = [o \in OrderIds |-> IF o \in T THEN [local[o] EXCEPT !.status = "expired"] ELSE local[o]]
    BY <1>1, <1>5 DEF Unseen, ExpireDue
  <1>8. "expired" \in Closes
    BY DEF Closes
  <1> QED BY <1>3, <1>4, <1>6, <1>7, <1>8, ManyMove

-----------------------------------------------------------------------------
(* The process dies, or the phone loses its data                           *)

LEMMA DiesKept ==
  ASSUME SystemInv, Dies
  PROVE  SystemInv'
  <1>1. /\ worker' = [Idle EXCEPT !.stage = "recovering"]
        /\ control' = [stage |-> "idle", left |-> 0, rows |-> <<>>, truncated |-> FALSE, closed |-> <<>>]
        /\ local' = local /\ outbox' = outbox /\ results' = results /\ commanded' = commanded
        /\ UNCHANGED serverVars /\ late' = late /\ reinstalls' = reinstalls /\ crashes' = crashes + 1
    BY DEF Dies, Crash, Quiet
  <1>2. Heeds /\ now' = now
    BY <1>1, GentleStep DEF SystemInv, serverVars
  <1>3. \A o \in OrderIds : Follows(o)
    BY <1>1, Stays
  <1>4. outbox' \in Seq(Reports) /\ Len(outbox) \in Nat /\ Tells({})
    BY <1>1, SameOutbox, LenProperties DEF SystemInv, PhoneTypeOK
  <1>5. results' \in ResultRows /\ Attributed /\ ResultsInv'
    BY <1>1, SameResults
  <1>6. SilentInv' /\ LocalInv' /\ ReportsInv'
    BY <1>2, <1>3, <1>4, <1>5, SilentKept, LocalKept, ReportsKept
  <1>7. worker' \in WorkerState /\ worker'.since = 0 /\ worker'.stage = "recovering"
    BY <1>1, <1>2, IdleWorker
  <1>8. WorkerInv'
    BY <1>2, <1>7, WorkerFree DEF Heeds
  <1>9. CommandedInv'
    BY <1>1, <1>3, <1>7, CommandedKept
  <1>10. ListInv'
    BY <1>1 DEF ListInv
  <1>11. PhoneTypeOK'
    <2>1. control'.stage = "idle" /\ control'.left \in 0..Len(outbox') /\ control'.truncated \in BOOLEAN
      BY <1>1, <1>4
    <2> QED BY <1>1, <1>7, <2>1 DEF SystemInv, PhoneTypeOK
  <1>12. late' \subseteq Reports /\ crashes' \in Nat /\ reinstalls' \in Nat
    BY <1>1 DEF SystemInv
  <1> QED BY <1>2, <1>5, <1>6, <1>8, <1>9, <1>10, <1>11, <1>12 DEF SystemInv, Heeds

\* An empty database, and nothing on its way.
Blank ==
  /\ StoreInv /\ late = {} /\ crashes \in Nat /\ reinstalls \in Nat
  /\ local = [o \in OrderIds |-> NoLocal] /\ outbox = <<>> /\ control = Quiet /\ worker = Idle
  /\ results \in ResultRows
  /\ \A r \in ResultIds : results[r].order = None /\ results[r].sync # "pending"
  /\ commanded \in SUBSET OrderIds
  /\ commanded = {} \/ reinstalls # 0

LEMMA BlankSystem == Blank => SystemInv
  <1> SUFFICES ASSUME Blank PROVE SystemInv
    OBVIOUS
  <1> USE DEF Blank
  <1>1. \A o \in OrderIds : local[o] = NoLocal /\ local[o].status = "none"
    BY DEF NoLocal
  <1>2. OnTheWay = {}
    BY DEF OnTheWay
  <1>3. SilentInv /\ ReportsInv
    BY <1>2, SystemAssumption DEF SilentInv, ReportsInv, Server!NamesAssumption
  <1>4. LocalInv
    BY <1>1 DEF LocalInv, Waits
  <1>5. control = [stage |-> "idle", left |-> 0, rows |-> <<>>, truncated |-> FALSE, closed |-> <<>>]
    BY DEF Quiet
  <1>6. ListInv
    BY <1>5 DEF ListInv
  <1>7. worker \in WorkerState /\ worker.since = 0 /\ worker.stage = "idle"
    BY DEF Idle, WorkerState
  <1>8. now \in Nat
    BY DEF StoreInv, Server!TypeOK
  <1>9. WorkerInv
    BY <1>7, <1>8 DEF WorkerInv, Rebooting
  <1>10. ResultsInv /\ CommandedInv
    BY DEF ResultsInv, CommandedInv
  <1>11. PhoneTypeOK
    <2>1. NoLocal \in LocalOrder
      BY DEF NoLocal, LocalOrder
    <2>2. local \in [OrderIds -> LocalOrder]
      BY <2>1
    <2>3. outbox \in Seq(Reports) /\ Len(outbox) = 0
      OBVIOUS
    <2>4. control.stage = "idle" /\ control.left \in 0..Len(outbox) /\ control.truncated \in BOOLEAN
      BY <1>5, <2>3
    <2>5. results \in ResultRows /\ commanded \subseteq OrderIds
      OBVIOUS
    <2> QED BY <1>7, <2>2, <2>3, <2>4, <2>5 DEF PhoneTypeOK, LocalOrder, ResultRows
  <1>12. late \subseteq Reports
    OBVIOUS
  <1> QED BY <1>3, <1>4, <1>6, <1>9, <1>10, <1>11, <1>12 DEF SystemInv

LEMMA ForgetsKept ==
  ASSUME SystemInv, Forgets
  PROVE  SystemInv'
  <1>1. /\ local' = [o \in OrderIds |-> NoLocal] /\ outbox' = <<>> /\ control' = Quiet /\ worker' = Idle
        /\ commanded' = commanded /\ UNCHANGED serverVars /\ late' = {}
        /\ crashes' = crashes /\ reinstalls' = reinstalls + 1
        /\ results' = [r \in ResultIds |-> [NoResult EXCEPT !.sync = IF r \in Fresh THEN "none" ELSE "synced"]]
    BY DEF Forgets, Reinstall
  <1>2. StoreInv'
    BY <1>1, GentleStep DEF SystemInv, Heeds
  <1>3. ASSUME NEW sync \in {"none", "synced"}, NEW row, row = [NoResult EXCEPT !.sync = sync]
        PROVE  /\ row \in [sync: {"none", "pending", "synced"}, order: OrderIds \cup {None},
                           status: {"none", "done", "failed"}, started: Nat]
               /\ row.order = None /\ row.sync = sync
    BY <1>3 DEF NoResult
  <1>4. ASSUME NEW r \in ResultIds
        PROVE  /\ results'[r] \in [sync: {"none", "pending", "synced"}, order: OrderIds \cup {None},
                                   status: {"none", "done", "failed"}, started: Nat]
               /\ results'[r].order = None /\ results'[r].sync # "pending"
    <2>1. PICK sync \in {"none", "synced"} : results'[r] = [NoResult EXCEPT !.sync = sync]
      BY <1>1
    <2> QED BY <1>3, <2>1
  <1>5. results' \in ResultRows
    BY <1>1, <1>4 DEF ResultRows
  <1>6. reinstalls' \in Nat /\ reinstalls' # 0 /\ crashes' \in Nat /\ commanded' \in SUBSET OrderIds
    BY <1>1 DEF SystemInv, PhoneTypeOK
  <1>7. Blank'
    <2>1. \A r \in ResultIds : results'[r].order = None /\ results'[r].sync # "pending"
      BY <1>4
    <2> QED BY <1>1, <1>2, <1>5, <1>6, <2>1 DEF Blank, ResultRows
  <1> QED BY <1>7, BlankSystem, PTL

-----------------------------------------------------------------------------
(* The theorems                                                            *)

LEMMA InitSystem == Init => SystemInv
  <1> SUFFICES ASSUME Init PROVE SystemInv
    OBVIOUS
  <1>1. Store!Init
    BY DEF Init, Server!Init, Store!Init, Server!NoOrder, Store!NoOrder, Server!NoMeasurement, Store!NoMeasurement
  <1>2. Server!TypeOK
    BY <1>1, Store!InitType, SameTypes, SystemAssumption
  <1>3. \A o \in OrderIds : RowOK(orders[o])
    BY DEF Init, Server!Init, Server!NoOrder, RowOK, Server!Waiting
  <1>4. \A r \in ResultIds : results[r] = NoResult
    BY DEF Init, PhoneInit
  <1>5. results \in ResultRows /\ \A r \in ResultIds : results[r].order = None /\ results[r].sync # "pending"
    BY <1>4 DEF Init, PhoneInit, NoResult, ResultRows
  <1>6. Blank
    BY <1>2, <1>3, <1>5 DEF Init, PhoneInit, StoreInv, Blank
  <1> QED BY <1>6, BlankSystem

LEMMA NextSystem ==
  ASSUME SystemInv, [Next]_vars
  PROVE  SystemInv'
  <1>1. CASE UNCHANGED vars
    <2>1. UNCHANGED serverVars /\ UNCHANGED <<phoneVars, reinstalls>> /\ late' = late /\ crashes' = crashes
      BY <1>1 DEF vars
    <2> QED BY <2>1, GentleStep, OthersStep DEF SystemInv
  <1>2. CASE ControlStarts
    <2>1. CASE Unseen(StartFlush)
      <3>1. Heeds
        BY <2>1, GentleStep DEF Unseen, SystemInv
      <3>2. Len(outbox) \in 0..Len(outbox)
        BY LenProperties DEF SystemInv, PhoneTypeOK
      <3>3. /\ UNCHANGED <<local, results, worker, commanded, network>> /\ outbox' = outbox
            /\ control' = [Quiet EXCEPT !.stage = "flushing", !.left = Len(outbox)]
        BY <2>1 DEF Unseen, StartFlush
      <3> QED BY <3>1, <3>2, <3>3, ControlStep
    <2> QED BY <1>2, <2>1, AskOpenKept DEF ControlStarts
  <1>3. CASE ControlGoesOn
    <2>1. CASE Unseen(AckRefused) \/ Unseen(OutboxSent) \/ Unseen(UploadEnds)
      <3>1. Heeds
        BY <2>1, GentleStep DEF Unseen, SystemInv
      <3>2. 0 \in 0..Len(outbox) /\ Len(outbox) \in 0..Len(outbox)
        BY LenProperties DEF SystemInv, PhoneTypeOK
      <3>3. UNCHANGED <<local, results, worker, commanded, network>> /\ outbox' = outbox
        BY <2>1 DEF Unseen, AckRefused, OutboxSent, UploadEnds
      <3>4. \/ control' = [Quiet EXCEPT !.stage = "flushing", !.left = Len(outbox)]
            \/ control' = [Quiet EXCEPT !.stage = "uploading", !.left = 0]
            \/ control' = [Quiet EXCEPT !.stage = "idle", !.left = 0]
        <4>1. Quiet = [Quiet EXCEPT !.left = 0] /\ Quiet = [Quiet EXCEPT !.stage = "idle"]
          BY DEF Quiet
        <4> QED BY <2>1, <4>1 DEF Unseen, AckRefused, OutboxSent, UploadEnds
      <3> QED BY <3>1, <3>2, <3>3, <3>4, ControlStep
    <2>2. CASE AckLost \/ Unseen(NoAnswer)
      <3>1. Heeds
        BY <2>2, GentleStep DEF AckLost, Unseen, NotAcked, SystemInv
      <3> QED BY <2>2, <3>1, NoAnswerKept DEF AckLost, Unseen, network
    <2>3. ASSUME NEW r \in ResultIds, ResultLost(r) PROVE SystemInv'
      <3>1. Heeds
        BY <2>3, UploadStep DEF ResultLost, Uploading
      <3> QED BY <2>3, <3>1, NoAnswerKept DEF ResultLost, network
    <2> QED BY <1>3, <2>1, <2>2, <2>3, AskClosedKept, IngestKept, AckKept, SendReportKept,
               ReportLostKept, SendResultKept DEF ControlGoesOn
  <1>4. CASE Unseen(WorkerStep(now))
    <2>1. Fresh \subseteq ResultIds
      BY DEF Fresh
    <2>2. CASE Unseen(Recover) \/ Unseen(ExpireDue(now)) \/ Unseen(Rest) \/ Unseen(UnknownSlot) \/ Unseen(BreakOff)
      BY <2>2, RecoverKept, ExpireDueKept, RestKept, UnknownSlotKept, BreakOffKept
    <2>3. CASE \E o \in OrderIds : Unseen(Pick(o, now))
      BY <2>3, PickKept
    <2>4. CASE \E r \in Fresh : Unseen(MarkRunning(r)) \/ Unseen(FallBack(r))
      BY <2>1, <2>4, MarkRunningKept, FallBackKept
    <2>5. CASE \E status \in {"done", "failed"} : Unseen(StoreFinal(status, now))
      BY <2>5, StoreFinalKept
    <2>6. CASE \/ Unseen(StartReboot) \/ Unseen(GatewayRead) \/ Unseen(SendCommand)
               \/ Unseen(KeepPartial) \/ Unseen(StartWatch)
      BY <2>6, StartRebootKept, RebootStepKept, SendCommandKept, KeepPartialKept
    <2>7. CASE \/ \E error \in {"not-sent", "other"} : Unseen(GatewayFails(error))
               \/ Unseen(CommandRefused) \/ Unseen(CommandUnanswered)
               \/ \E status \in {"done", "failed"}, error \in {"none", "not-sent", "other"} :
                    Unseen(WatchEnds(status, error))
      BY <2>7, RebootsEndKept
    <2> QED BY <1>4, <2>2, <2>3, <2>4, <2>5, <2>6, <2>7 DEF Unseen, WorkerStep
  <1>5. CASE \E report \in late : LateReport(report)
    BY <1>5, LateReportKept
  <1>6. CASE ServerSteps
    <2>1. Heeds
      BY <1>6, GentleStep DEF ServerSteps, Alone, SystemInv
    <2>2. UNCHANGED <<phoneVars, reinstalls>> /\ late' = late /\ crashes' = crashes
      BY <1>6 DEF ServerSteps, Alone, network
    <2> QED BY <2>1, <2>2, OthersStep DEF SystemInv
  <1> QED BY <1>1, <1>2, <1>3, <1>4, <1>5, <1>6, DiesKept, ForgetsKept DEF Next

\* SystemInv is an invariant: among others, every value keeps its type.
THEOREM SystemTypeCorrect == Spec => []TypeOK
  <1>1. SystemInv => TypeOK
    BY DEF SystemInv, StoreInv, TypeOK
  <1> QED BY <1>1, InitSystem, NextSystem, PTL DEF Spec

LEMMA ReportContract ==
  ASSUME SystemInv, NEW report \in OnTheWay
  PROVE  KeepsContract(report)
  <1>1. WellFormed(report)
    BY DEF SystemInv, ReportsInv
  <1>2. CASE ~Server!IsReboot(report.order)
    BY <1>1, <1>2 DEF WellFormed, KeepsContract, Update, Server!StateUpdates
  <1>3. CASE Server!IsReboot(report.order)
    <2>1. Update(report) \in Server!RebootUpdates([step |-> None])
      BY <1>1, <1>3 DEF WellFormed
    <2>2. NeverSent(report) => orders[report.order].step # "sent"
      BY <1>3 DEF SystemInv, ReportsInv, NotSaidSent
    <2>3. /\ Update(report).status = report.status /\ Update(report).error = report.error
          /\ Update(report).ssh = report.ssh
      BY DEF Update, Server!PhoneStateUpdate
    <2>4. Update(report) \in Server!RebootUpdates(orders[report.order])
      BY <2>1, <2>2, <2>3 DEF NeverSent, Server!RebootUpdates, Server!PhoneStateUpdate
    <2> QED BY <1>3, <2>4 DEF KeepsContract, Update, Server!StateUpdates
  <1> QED BY <1>2, <1>3

LEMMA ContractKept == SystemInv => PhoneKeepsContract
  <1> SUFFICES ASSUME SystemInv PROVE PhoneKeepsContract
    OBVIOUS
  <1>1. \A report \in late : KeepsContract(report)
    BY ReportContract DEF OnTheWay
  <1>2. Sending => KeepsContract(Head(outbox))
    BY ReportContract, First DEF SystemInv, PhoneTypeOK
  <1>3. \A r \in ResultIds : Uploading(r) =>
          /\ results[r].status \in {"done", "failed"} /\ results[r].started <= now
          /\ results[r].order # None =>
               Server!Exists(results[r].order) /\ ~Server!IsReboot(results[r].order)
    BY DEF SystemInv, ResultsInv, Uploading
  <1> QED BY <1>1, <1>2, <1>3 DEF PhoneKeepsContract

\* What arrives of a phone is what PhoneOrders lets arrive, whatever crashed or
\* came late (StateUpdates of PhoneOrders is no assumption about this phone).
THEOREM PhoneKeepsContractHolds == Spec => []PhoneKeepsContract
  BY ContractKept, InitSystem, NextSystem, PTL DEF Spec

\* An order that started never waits again while the phone keeps its data.
Goes(o) ==
  /\ local'[o].status = "running" => local[o].status \in {"running"} \cup Waits
  /\ local[o].status \in {"running"} \cup Closes /\ reinstalls' = reinstalls =>
       local'[o].status \in {"running"} \cup Closes

LEMMA GoesTransactions ==
  ASSUME SystemInv, NEW o \in OrderIds
  PROVE  /\ AckAnswered => Goes(o)
         /\ Ingest => Goes(o)
         /\ Recover => Goes(o)
         /\ ExpireDue(now) => Goes(o)
  <1>0. local[o] \in LocalOrder
    BY DEF SystemInv, PhoneTypeOK, LocalOrder
  <1>1. AckAnswered => Goes(o)
    <2>1. AckAnswered => \/ local'[o] = local[o]
                         \/ local'[o] = [local[o] EXCEPT !.acked = TRUE,
                                           !.status = IF @ = "pending" THEN "delivered" ELSE @]
      BY DEF AckAnswered
    <2>2. AckAnswered => \/ local'[o].status = local[o].status
                         \/ local[o].status = "pending" /\ local'[o].status = "delivered"
      BY <1>0, <2>1 DEF LocalOrder
    <2> QED BY <1>0, <2>2 DEF Goes, LocalOrder, Waits, Closes
  <1>2. ASSUME Ingest PROVE Goes(o)
    <2>1. control.stage = "answered" /\ local'[o] = IngestedOrder(o)
      BY <1>2 DEF Ingest
    <2>2. Unknown(o) => local[o].status = "none"
      BY DEF Unknown
    <2> QED BY <2>1, <2>2, IngestedRow DEF Goes, Waits, Closes
  <1>3. Recover => Goes(o)
    BY <1>0 DEF Recover, ToRecover, Goes, LocalOrder, Waits, Closes
  <1>4. ExpireDue(now) => Goes(o)
    BY <1>0 DEF ExpireDue, Overdue, ClosedOrder, Goes, LocalOrder, Waits, Closes
  <1> QED BY <1>1, <1>2, <1>3, <1>4

\* The steps of the worker change at most the row of its order.
LEMMA GoesWorker ==
  ASSUME SystemInv, WorkerStep(now), NEW o \in OrderIds
  PROVE  Goes(o)
  <1> DEFINE w == worker.order
  <1>0. local \in [OrderIds -> LocalOrder] /\ local[o] \in LocalOrder
    BY DEF SystemInv, PhoneTypeOK, LocalOrder
  <1>1. ASSUME local' = local PROVE Goes(o)
    BY <1>0, <1>1 DEF Goes
  <1>2. ASSUME NEW row, local' = [local EXCEPT ![w] = row], w \in OrderIds,
               \/ row.status \in Closes /\ local[w].status # "none"
               \/ row.status = "running" /\ local[w].status \in {"running"} \cup Waits
        PROVE  Goes(o)
    BY <1>0, <1>2 DEF Goes, Waits, Closes
  <1>3. ASSUME UnknownSlot PROVE Goes(o)
    <2>1. w \in OrderIds /\ local[w] \in LocalOrder /\ local' = [local EXCEPT ![w] = ClosedOrder(local[w], "interrupted")]
      BY <1>3, WorkerOrder DEF UnknownSlot
    <2>2. \/ ClosedOrder(local[w], "interrupted") = local[w]
          \/ local[w].status \in Waits /\ ClosedOrder(local[w], "interrupted").status = "interrupted"
      BY <2>1, ClosedOrderRow DEF ClosedOrder, Closes
    <2>3. CASE ClosedOrder(local[w], "interrupted") = local[w]
      <3>1. local' = local
        BY <1>0, <2>1, <2>3
      <3> QED BY <1>1, <3>1
    <2>4. CASE local[w].status \in Waits /\ ClosedOrder(local[w], "interrupted").status = "interrupted"
      BY <1>2, <2>1, <2>4 DEF Waits, Closes
    <2> QED BY <2>2, <2>3, <2>4
  <1>4. ASSUME NEW r \in Fresh, MarkRunning(r) PROVE Goes(o)
    <2>1. CASE local[w].status \in Waits
      <3>1. w \in OrderIds /\ local[w] \in LocalOrder
        BY <1>4, WorkerOrder DEF MarkRunning
      <3>2. PICK row : row = [local[w] EXCEPT !.status = "running", !.result = r]
        OBVIOUS
      <3>3. local' = [local EXCEPT ![w] = row] /\ row.status = "running"
        BY <1>4, <2>1, <3>1, <3>2 DEF MarkRunning, LocalOrder
      <3> QED BY <1>2, <2>1, <3>1, <3>3
    <2>2. CASE local[w].status \notin Waits
      BY <1>1, <1>4, <2>2 DEF MarkRunning
    <2> QED BY <2>1, <2>2
  <1>5. ASSUME StartReboot PROVE Goes(o)
    <2>1. CASE local[w].status \in Waits
      <3>1. w \in OrderIds /\ local[w] \in LocalOrder
        BY <1>5, WorkerOrder DEF StartReboot
      <3>2. PICK row : row = [local[w] EXCEPT !.status = "running"]
        OBVIOUS
      <3>3. local' = [local EXCEPT ![w] = row] /\ row.status = "running"
        BY <1>5, <2>1, <3>1, <3>2 DEF StartReboot, LocalOrder
      <3> QED BY <1>2, <2>1, <3>1, <3>3
    <2>2. CASE local[w].status \notin Waits
      BY <1>1, <1>5, <2>2 DEF StartReboot
    <2> QED BY <2>1, <2>2
  <1>6. ASSUME worker.stage \in {"testing"} \cup Rebooting, NEW row, local' = [local EXCEPT ![w] = row],
               row.status \in {"running"} \cup Closes
        PROVE  Goes(o)
    <2>1. w \in OrderIds /\ local[w].status = "running"
      BY <1>6, Running
    <2> QED BY <1>2, <1>6, <2>1
  <1>7. worker.stage \in {"testing"} \cup Rebooting => local[w] \in LocalOrder /\ local[w].status = "running"
    BY WorkerOrder, Running
  <1>8. ASSUME NEW r \in Fresh, FallBack(r) PROVE Goes(o)
    <2>1. PICK row : row = [local[w] EXCEPT !.result = r]
      OBVIOUS
    <2>2. local' = [local EXCEPT ![w] = row] /\ row.status = "running" /\ worker.stage = "testing"
      BY <1>7, <1>8, <2>1 DEF FallBack, LocalOrder
    <2> QED BY <1>6, <2>2
  <1>9. ASSUME NEW status \in {"done", "failed"}, StoreFinal(status, now) PROVE Goes(o)
    <2>1. PICK row : row = [local[w] EXCEPT !.status = status]
      OBVIOUS
    <2>2. local' = [local EXCEPT ![w] = row] /\ row.status = status /\ worker.stage = "testing"
      BY <1>7, <1>9, <2>1 DEF StoreFinal, LocalOrder
    <2> QED BY <1>6, <2>2 DEF Closes
  <1>10. ASSUME BreakOff PROVE Goes(o)
    <2>1. PICK row : row = [local[w] EXCEPT !.status = "interrupted"]
      OBVIOUS
    <2>2. worker.stage \in {"testing"} \cup Rebooting
      BY <1>10 DEF BreakOff, Rebooting
    <2>3. local' = [local EXCEPT ![w] = row] /\ row.status = "interrupted"
      BY <1>7, <1>10, <2>1, <2>2 DEF BreakOff, LocalOrder
    <2> QED BY <1>6, <2>2, <2>3 DEF Closes
  <1>11. ASSUME KeepPartial PROVE Goes(o)
    <2>1. PICK row : row = [local[w] EXCEPT !.sshOk = TRUE]
      OBVIOUS
    <2>2. worker.stage \in {"testing"} \cup Rebooting
      BY <1>11 DEF KeepPartial, Rebooting
    <2>3. local' = [local EXCEPT ![w] = row] /\ row.status = "running"
      BY <1>7, <1>11, <2>1, <2>2 DEF KeepPartial, LocalOrder
    <2> QED BY <1>6, <2>2, <2>3
  <1>12. ASSUME NEW status \in {"done", "failed"}, NEW error, NEW ssh, CloseReboot(status, error, ssh),
                worker.stage \in Rebooting
         PROVE  Goes(o)
    <2>1. PICK row : row = [local[w] EXCEPT !.status = status, !.sshOk = ssh]
      OBVIOUS
    <2>2. local' = [local EXCEPT ![w] = row] /\ row.status = status
      BY <1>7, <1>12, <2>1 DEF CloseReboot, LocalOrder
    <2> QED BY <1>6, <1>12, <2>2 DEF Closes
  <1>13. ASSUME \/ \E error \in {"not-sent", "other"} : GatewayFails(error)
                \/ CommandRefused \/ CommandUnanswered
                \/ \E status \in {"done", "failed"}, error \in {"none", "not-sent", "other"} : WatchEnds(status, error)
         PROVE  Goes(o)
    BY <1>12, <1>13 DEF GatewayFails, CommandRefused, CommandUnanswered, WatchEnds, Rebooting
  <1>14. Rest \/ GatewayRead \/ SendCommand \/ StartWatch \/ (\E p \in OrderIds : Pick(p, now)) => local' = local
    BY DEF Rest, GatewayRead, SendCommand, StartWatch, Pick, RebootStep
  <1> HIDE DEF w
  <1> QED BY <1>1, <1>3, <1>4, <1>5, <1>8, <1>9, <1>10, <1>11, <1>13, <1>14, GoesTransactions DEF WorkerStep

LEMMA GoesNext ==
  ASSUME SystemInv, [Next]_vars, NEW o \in OrderIds
  PROVE  Goes(o)
  <1>1. ASSUME local' = local PROVE Goes(o)
    BY <1>1 DEF Goes
  <1>2. CASE UNCHANGED vars
    BY <1>1, <1>2 DEF vars, phoneVars
  <1>3. CASE ControlStarts
    BY <1>1, <1>3 DEF ControlStarts, AskOpen, ListOpen, Unseen, StartFlush
  <1>4. CASE ControlGoesOn
    <2>1. CASE Unseen(Ingest) \/ Ack
      BY <2>1, GoesTransactions DEF Unseen, Ack
    <2>2. CASE ~ (Unseen(Ingest) \/ Ack)
      <3>1. local' = local
        BY <1>4, <2>2 DEF ControlGoesOn, AskClosed, ListClosed, AckLost, NoAnswer, Unseen, AckRefused,
             SendReport, ReportAnswered, ReportLost, ReportDelayed, OutboxSent, SendResult,
             ResultAnswered, ResultLost, UploadEnds
      <3> QED BY <1>1, <3>1
    <2> QED BY <2>1, <2>2
  <1>5. CASE Unseen(WorkerStep(now))
    BY <1>5, GoesWorker DEF Unseen
  <1>6. CASE (\E report \in late : LateReport(report)) \/ ServerSteps \/ Dies
    <2>1. local' = local
      BY <1>6 DEF LateReport, ServerSteps, Alone, Dies, Crash, phoneVars
    <2> QED BY <1>1, <2>1
  <1>7. CASE Forgets
    <2>1. local'[o].status = "none" /\ reinstalls' # reinstalls
      BY <1>7 DEF Forgets, Reinstall, NoLocal, SystemInv
    <2> QED BY <2>1 DEF Goes
  <1> QED BY <1>2, <1>3, <1>4, <1>5, <1>6, <1>7 DEF Next

\* An order starts at most once and never after somebody closed it, and the
\* command of a reboot goes out at most once, in any interleaving of the two
\* threads, the backend, crashes and late reports.
THEOREM StartsOnceHolds == Spec => StartsOnce
  <1>1. ASSUME SystemInv, [Next]_vars, NEW o \in OrderIds
        PROVE  /\ Starts(o) => /\ local[o].status \in Waits
                               /\ orders[o].status # "running" /\ orders[o].closedBy # "phone"
               /\ local[o].status \in {"running"} \cup Server!Closed /\ reinstalls' = reinstalls
                    => local'[o].status \in {"running"} \cup Server!Closed
               /\ SendCommand /\ worker.order = o /\ reinstalls = 0 => o \notin commanded
    <2>1. Goes(o)
      BY <1>1, GoesNext
    <2>2. Starts(o) => /\ local[o].status \in Waits
                       /\ orders[o].status # "running" /\ orders[o].closedBy # "phone"
      BY <1>1, <2>1 DEF Starts, Goes, SystemInv, LocalInv, Untouched
    <2>3. SendCommand /\ worker.order = o /\ reinstalls = 0 => o \notin commanded
      BY <1>1 DEF SendCommand, SystemInv, CommandedInv
    <2> QED BY <2>1, <2>2, <2>3, SameVars DEF Goes
  <1>2. SystemInv /\ [Next]_vars =>
          [\A o \in OrderIds :
             /\ Starts(o) => /\ local[o].status \in Waits
                             /\ orders[o].status # "running" /\ orders[o].closedBy # "phone"
             /\ local[o].status \in {"running"} \cup Server!Closed /\ reinstalls' = reinstalls
                  => local'[o].status \in {"running"} \cup Server!Closed
             /\ SendCommand /\ worker.order = o /\ reinstalls = 0 => o \notin commanded]_vars
    BY <1>1
  <1> QED BY <1>2, InitSystem, NextSystem, PTL DEF Spec, StartsOnce

-----------------------------------------------------------------------------
(* The store of the system is PhoneOrders, and keeps what PhoneOrders does *)

LEMMA SameUpdates == \A o \in OrderIds : Server!StateUpdates(o) = Store!StateUpdates(o)
  BY DEF Server!StateUpdates, Store!StateUpdates, Server!RebootUpdates, Store!RebootUpdates,
         Server!SpeedTestUpdates, Store!SpeedTestUpdates, Server!PhoneStateUpdate,
         Store!PhoneStateUpdate, Server!IsReboot, Store!IsReboot, Server!Steps, Store!Steps

LEMMA AppliedByStore ==
  ASSUME SystemInv, NEW report \in OnTheWay, Applied(report)
  PROVE  Store!Next \/ UNCHANGED serverVars
  <1> DEFINE o == report.order
             u == Update(report)
  <1>1. o \in OrderIds
    BY DEF SystemInv, ReportsInv, WellFormed, Reports
  <1>2. u \in Store!StateUpdates(o)
    BY <1>1, ReportContract, SameUpdates DEF KeepsContract, Update
  <1>3. CASE Server!SetPhoneOrderState(o, u)
    <2>1. Store!SetPhoneOrderState(o, u)
      BY <1>3, SameState
    <2> QED BY <1>1, <1>2, <2>1 DEF Store!Next, Store!Reporting
  <1> QED BY <1>3 DEF Applied, Update

LEMMA StoredByStore ==
  ASSUME SystemInv, NEW r \in ResultIds, results[r].sync = "pending", Stored(r)
  PROVE  Store!Next \/ UNCHANGED serverVars
  <1>1. /\ results[r].order \in OrderIds \cup {None} /\ results[r].status \in {"done", "failed"}
        /\ results[r].started \in 0..now
    BY DEF SystemInv, ResultsInv, PhoneTypeOK, StoreInv, Server!TypeOK
  <1>2. CASE UNCHANGED serverVars
    BY <1>2
  <1>3. ASSUME NEW device \in Devices \cup {None},
               Server!InsertProbeResult(r, results[r].order, device, results[r].status, results[r].started)
        PROVE  Store!Next
    <2>1. Store!InsertProbeResult(r, results[r].order, device, results[r].status, results[r].started)
      BY <1>3, SameCalls
    <2> QED BY <1>1, <2>1 DEF Store!Next, Store!Reporting
  <1> QED BY <1>2, <1>3 DEF Stored

LEMMA StepOfStore ==
  ASSUME SystemInv, [Next]_vars
  PROVE  Store!Next \/ UNCHANGED serverVars
  <1>1. \A report \in late : report \in OnTheWay
    BY DEF OnTheWay
  <1>2. Sending => Head(outbox) \in OnTheWay
    BY First DEF SystemInv, PhoneTypeOK
  <1>3. CASE ControlStarts
    BY <1>3, SameSweeps DEF ControlStarts, AskOpen, Unseen, Store!Next
  <1>4. CASE Ack \/ AckLost
    <2>1. NotAcked \in SUBSET OrderIds /\ Server!AckPhoneOrders(NotAcked)
      BY <1>4 DEF Ack, AckLost, NotAcked
    <2>2. Store!AckPhoneOrders(NotAcked)
      BY <2>1, SameCalls
    <2> QED BY <2>1, <2>2 DEF Store!Next, Store!Reporting
  <1>5. CASE SendReport \/ ReportLost
    BY <1>2, <1>5, AppliedByStore DEF SendReport, ReportAnswered, ReportLost
  <1>6. ASSUME NEW r \in ResultIds, SendResult(r) \/ ResultLost(r)
        PROVE  Store!Next \/ UNCHANGED serverVars
    BY <1>6, StoredByStore DEF SendResult, ResultAnswered, ResultLost, Uploading
  <1>7. CASE ControlGoesOn
    BY <1>4, <1>5, <1>6, <1>7 DEF ControlGoesOn, AskClosed, Unseen, ReportDelayed, serverVars
  <1>8. CASE \E report \in late : LateReport(report)
    BY <1>1, <1>8, AppliedByStore DEF LateReport
  <1>9. CASE ServerSteps
    BY <1>9, SameCreating, SameAdministering, SameSweeps DEF ServerSteps, Alone, Store!Next
  <1>10. CASE Unseen(WorkerStep(now)) \/ Dies \/ Forgets \/ UNCHANGED vars
    BY <1>10 DEF Unseen, Dies, Forgets, vars
  <1> QED BY <1>3, <1>7, <1>8, <1>9, <1>10 DEF Next

LEMMA NextOfServer == Store!Next => Server!Next
  <1>1. Store!Reporting => Server!Reporting
    <2> SUFFICES ASSUME Store!Reporting PROVE Server!Reporting
      OBVIOUS
    <2>1. ASSUME NEW ids \in SUBSET OrderIds, Store!AckPhoneOrders(ids)
          PROVE  Server!Reporting
      <3>1. Server!AckPhoneOrders(ids)
        BY <2>1, SameCalls
      <3> QED BY <3>1 DEF Server!Reporting
    <2>2. ASSUME NEW o \in OrderIds, NEW u \in Store!StateUpdates(o), Store!SetPhoneOrderState(o, u)
          PROVE  Server!Reporting
      <3>1. u \in Server!StateUpdates(o) /\ Server!SetPhoneOrderState(o, u)
        BY <2>2, SameUpdates, SameState
      <3> QED BY <3>1 DEF Server!Reporting
    <2>3. ASSUME NEW r \in ResultIds, NEW o \in OrderIds \cup {None}, NEW d \in Devices \cup {None},
                 NEW status \in {"done", "failed"}, NEW started \in 0..now,
                 Store!InsertProbeResult(r, o, d, status, started)
          PROVE  Server!Reporting
      <3>1. Server!InsertProbeResult(r, o, d, status, started)
        BY <2>3, SameCalls
      <3> QED BY <3>1 DEF Server!Reporting
    <2> QED BY <2>1, <2>2, <2>3 DEF Store!Reporting
  <1> QED BY <1>1, SameCreating, SameAdministering, SameSweeps DEF Server!Next, Store!Next

LEMMA SamePromises ==
  /\ Server!LinkIntegrity <=> Store!LinkIntegrity
  /\ Server!NoResultLeftOut <=> Store!NoResultLeftOut
  /\ Server!OneRebootQueued <=> Store!OneRebootQueued
  <1>1. Server!LinkIntegrity <=> Store!LinkIntegrity
    BY DEF Server!LinkIntegrity, Store!LinkIntegrity, Server!LinkAgrees, Store!LinkAgrees,
           Server!MeasuredIfDone, Store!MeasuredIfDone, Server!NamesSpeedTest,
           Store!NamesSpeedTest, Server!Exists, Store!Exists, Server!IsReboot, Store!IsReboot
  <1>2. Server!NoResultLeftOut <=> Store!NoResultLeftOut
    BY SameVars DEF Server!NoResultLeftOut, Store!NoResultLeftOut, Server!SoftFinal, Store!SoftFinal
  <1>3. Server!OneRebootQueued <=> Store!OneRebootQueued
    BY SameVars DEF Server!OneRebootQueued, Store!OneRebootQueued, Server!IsReboot, Store!IsReboot
  <1> QED BY <1>1, <1>2, <1>3

\* What the theorems of PhoneOrders show, of the store of the system.
Promises == /\ Store!TypeOK /\ Store!TypedRows
            /\ Store!LinkIntegrity /\ Store!NoResultLeftOut /\ Store!OneRebootQueued
            /\ Store!SentRowsKept

LEMMA InitOfStore == Init => Store!Init
  BY DEF Init, Server!Init, Store!Init, Server!NoOrder, Store!NoOrder,
         Server!NoMeasurement, Store!NoMeasurement

LEMMA InitPromises == Init => Promises
  <1> SUFFICES ASSUME Init PROVE Promises
    OBVIOUS
  <1>1. Store!Init
    BY InitOfStore
  <1> QED BY <1>1, Store!InitType, Store!LinkInit, Store!NoResultInit, Store!QueueInit,
             Store!SentInit, SystemAssumption DEF Promises

LEMMA NextPromises ==
  ASSUME SystemInv, Promises, [Next]_vars
  PROVE  Promises'
  <1>1. [Store!Next]_(Store!vars)
    BY StepOfStore DEF Store!vars, serverVars
  <1> QED BY <1>1, Store!NextType, Store!TypedNext, Store!LinkNext, Store!NoResultNext,
             Store!QueueNext, Store!SentNext, SystemAssumption DEF Promises

\* What the backend does in the system, with this phone and this network, is what
\* PhoneOrders says of it: nothing that is shown of PhoneOrders alone rests on a
\* phone that behaves better than this one.
THEOREM StoreIsPhoneOrders == Spec => Server!Init /\ [][Server!Next]_serverVars
  <1>1. SystemInv /\ [Next]_vars => [Server!Next]_serverVars
    BY StepOfStore, NextOfServer
  <1>2. Init => Server!Init
    BY DEF Init
  <1> QED BY <1>1, <1>2, InitSystem, NextSystem, PTL DEF Spec

\* So orders and measurements agree, no result in time is left out, and no reboot
\* waits while another of its router waits or runs, whatever crashed, was lost or
\* came late.
THEOREM StoreKeepsPromises ==
  Spec => [](Server!LinkIntegrity /\ Server!NoResultLeftOut /\ Server!OneRebootQueued)
  <1>1. Promises => Server!LinkIntegrity /\ Server!NoResultLeftOut /\ Server!OneRebootQueued
    BY SamePromises DEF Promises
  <1> QED BY <1>1, InitSystem, NextSystem, InitPromises, NextPromises, PTL DEF Spec

\* The cooldown covers every reboot the phone ever said it sent, in the system too.
THEOREM SystemKeepsCooldown == Spec => Server!CooldownCoversSentReboots
  <1>1. ASSUME Promises, NEW o \in OrderIds, NEW p \in OrderIds, NEW d \in Devices,
               Server!CreateRebootOrder(o, d, FALSE), Server!IsReboot(p), orders[p].device = d,
               orders[p].status # "cancelled"
        PROVE  ~Server!WithinCooldown(p)
    <2>1. Store!CreateRebootOrder(o, d, FALSE)
      BY <1>1, SameReboots
    <2>2. Store!IsReboot(p)
      BY <1>1 DEF Server!IsReboot, Store!IsReboot
    <2>3. ~Store!WithinCooldown(p)
      BY <1>1, <2>1, <2>2, Store!CooldownHolds, SystemAssumption DEF Promises
    <2> QED BY <2>3 DEF Server!WithinCooldown, Store!WithinCooldown
  <1>2. Promises => [\A o, p \in OrderIds, d \in Devices :
                       /\ Server!CreateRebootOrder(o, d, FALSE)
                       /\ Server!IsReboot(p) /\ orders[p].device = d /\ orders[p].status # "cancelled"
                       => ~Server!WithinCooldown(p)]_serverVars
    BY <1>1
  <1>3. Spec => []Promises
    BY InitSystem, NextSystem, InitPromises, NextPromises, PTL DEF Spec
  <1> QED BY <1>2, <1>3, PTL DEF Server!CooldownCoversSentReboots, serverVars, Server!vars

LEMMA SameLifecycle ==
  /\ Store!Abs!Init => Server!Abs!Init
  /\ [Store!Abs!Next]_(Store!Abs!vars) => [Server!Abs!Next]_(Server!Abs!vars)
  <1>1. \A ord : Server!Phase(ord) = Store!Phase(ord)
    BY SameVars DEF Server!Phase, Store!Phase, Server!SoftFinal, Store!SoftFinal
  <1>2. Store!Abs!Init => Server!Abs!Init
    BY <1>1 DEF Server!Abs!Init, Store!Abs!Init
  <1>3. Store!Abs!Next => Server!Abs!Next
    BY <1>1 DEF Server!Abs!Next, Store!Abs!Next, Server!Abs!Create, Store!Abs!Create, Server!Abs!Start,
           Store!Abs!Start, Server!Abs!GiveUp, Store!Abs!GiveUp, Server!Abs!Report, Store!Abs!Report,
           Server!Abs!Measure, Store!Abs!Measure, Server!Abs!Same, Store!Abs!Same,
           Server!Abs!Moves, Store!Abs!Moves
  <1>4. Store!Abs!vars = Server!Abs!vars /\ (Store!Abs!vars)' = (Server!Abs!vars)'
    BY <1>1 DEF Store!Abs!vars, Server!Abs!vars
  <1> QED BY <1>2, <1>3, <1>4

\* The whole system, phone and network included, implements the life cycle the
\* contract promises for every order (OrderLifecycle).
THEOREM SystemImplementsLifecycle == Spec => Server!ImplementsOrderLifecycle
  <1>1. SystemInv /\ Promises /\ [Next]_vars => [Server!Abs!Next]_(Server!Abs!vars)
    <2> SUFFICES ASSUME SystemInv, Promises, [Next]_vars
                 PROVE  [Server!Abs!Next]_(Server!Abs!vars)
      OBVIOUS
    <2>1. [Store!Next]_(Store!vars)
      BY StepOfStore DEF Store!vars, serverVars
    <2> QED BY <2>1, Store!AbsNext, SameLifecycle, SystemAssumption DEF Promises
  <1>2. Init => Server!Abs!Init
    BY InitOfStore, Store!AbsInit, SameLifecycle, SystemAssumption
  <1>3. Spec => [](SystemInv /\ Promises)
    BY InitSystem, NextSystem, InitPromises, NextPromises, PTL DEF Spec
  <1> QED BY <1>1, <1>2, <1>3, PTL DEF Spec, Server!ImplementsOrderLifecycle, Server!Abs!Spec
=============================================================================
