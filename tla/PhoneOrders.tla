---------------------------- MODULE PhoneOrders ----------------------------
(***************************************************************************)
(* The backend side of the phone-probe orders: the rows of `commands` with *)
(* runner = 'phone' and the measurements uploaded for them                 *)
(* (server/internal/store/phoneprobe.go, reboot.go and the part of         *)
(* probes.go that cancels orders).  Every action is one transaction or one *)
(* UPDATE of the store, so it is atomic; the clock is the server's.        *)
(*                                                                         *)
(* Abstractions: one probe; the execute_at of an order only shows in its  *)
(* deadline; an error text is the class the cooldown query tells apart;    *)
(* result_json is the value of its ssh_ok and a step whether the command   *)
(* has been sent; a measurement is the order it names, the device it is    *)
(* attributed to, its outcome and the start of the test in server time     *)
(* (the handler corrects the phone's clock skew).                          *)
(*                                                                         *)
(* A definition whose name ends in _Something is the one after it with a   *)
(* plausible bug: the properties are checked to notice it.                 *)
(***************************************************************************)
EXTENDS Naturals, FiniteSets

CONSTANTS
  OrderIds,        \* client-generated order ids (batch ids are sets of them)
  ResultIds,       \* client-generated result ids
  Devices,         \* the routers of the probe
  ProbeDevice,     \* the device_id of an order for "next": the probe itself
  None,            \* SQL NULL
  Windows,         \* not_after - execute_at of the speed tests asked for
  RunningStale,    \* phoneRunningStale
  RebootWindow,    \* rebootWindow
  RebootCooldown,  \* RebootCooldown
  Runners,         \* the runners an administrator saves for the probe
  OrderTypes,      \* the kinds of orders asked for
  MaxTime          \* bound: the clock stops here

ASSUME TimesAssumption == /\ Windows \subseteq Nat
                          /\ RunningStale \in Nat
                          /\ RebootWindow \in Nat
                          /\ RebootCooldown \in Nat
                          /\ MaxTime \in Nat

ASSUME NamesAssumption == /\ None \notin ResultIds
                          /\ {None, "absent"} \cap OrderIds = {}
                          /\ None \notin Nat
                          /\ None \notin {"before", "sent"}
                          /\ None \notin BOOLEAN
                          /\ None \notin Devices
                          /\ ProbeDevice \notin Devices
                          /\ OrderTypes \subseteq {"run_speedtest", "reboot_router"}
                          /\ Runners \subseteq {"phone", "probe"}

VARIABLES
  now,           \* the server's clock
  runner,        \* probes.runner
  orders,        \* the order with each id (status "none": no row yet)
  measurements   \* the measurement with each result_id (order "absent": no row)

vars == <<now, runner, orders, measurements>>

Waiting  == {"pending", "delivered"}
Open     == Waiting \cup {"running"}             \* openPhoneStatuses
Closed   == {"done", "failed", "expired", "interrupted", "cancelled"}
Statuses == {"none"} \cup Open \cup Closed

\* Classes of commands.error: rebootNotSentErrors, rebootNotStartedErrors, any other.
Errors == {"none", "not-sent", "not-started", "other"}

\* Classes of commands.step: reading_gateway and ssh, then waiting_down and on.
Steps == {"before", "sent"}

NoOrder == [type |-> "none", device |-> None, status |-> "none", closedBy |-> "none",
            error |-> "none", base |-> 0, updated |-> 0, notAfter |-> 0,
            result |-> None, measurement |-> None, step |-> None, sshOk |-> FALSE]

Order == [type: {"none", "run_speedtest", "reboot_router"},
          device: Devices \cup {ProbeDevice, None},
          status: Statuses,
          closedBy: {"none", "phone", "server", "dashboard"},
          error: Errors,
          base: Nat,       \* rebootBaseCol of a reboot: delivered_at, or created_at
          updated: Nat,    \* updated_at of a running order: nobody else's is read
          notAfter: Nat,
          result: ResultIds \cup {None},
          measurement: ResultIds \cup {None},
          step: Steps \cup {None},
          sshOk: BOOLEAN]

NoMeasurement == [order |-> "absent", device |-> None, status |-> "none", started |-> 0]

Measurement == [order: OrderIds \cup {"absent", None},
                device: Devices \cup {None},
                status: {"none", "done", "failed"},
                started: Nat]

TypeOK == /\ now \in Nat
          /\ runner \in {"phone", "probe"}
          /\ orders \in [OrderIds -> Order]
          /\ measurements \in [ResultIds -> Measurement]

Init == /\ now = 0
        /\ runner = "phone"
        /\ orders = [o \in OrderIds |-> NoOrder]
        /\ measurements = [r \in ResultIds |-> NoMeasurement]

Exists(o)   == orders[o].status # "none"
IsReboot(o) == orders[o].type = "reboot_router"

-----------------------------------------------------------------------------
(* Creating orders                                                         *)

NewOrder(type, device, notAfter) ==
  [NoOrder EXCEPT !.type = type, !.device = device, !.status = "pending",
                  !.base = IF type = "reboot_router" THEN now ELSE 0,
                  !.notAfter = notAfter]

Delivered_NoTime(ord) == [ord EXCEPT !.status = "delivered", !.base = None]

Delivered(ord) ==
  [ord EXCEPT !.status = "delivered",
              !.base = IF ord.type = "reboot_router" THEN now ELSE 0]

Started(ord, result) ==
  [ord EXCEPT !.status = "running", !.closedBy = "none", !.error = "none",
              !.updated = now, !.result = result]

ClosedAs(ord, status, by, error) ==
  [ord EXCEPT !.status = status, !.closedBy = by, !.error = error, !.updated = 0]

\* One order, or the orders of a sequence, in one transaction; a repeated
\* order_id finds its batch and changes nothing.  execute_at = now for the
\* first order, later for the others: each has a deadline of its own.
CreatePhoneOrders(batch, device, window) ==
  /\ "run_speedtest" \in OrderTypes
  /\ runner = "phone"
  /\ \A o \in batch : ~Exists(o)
  /\ orders' = [o \in OrderIds |->
                  IF o \in batch
                  THEN NewOrder("run_speedtest", device[o], now + window[o])
                  ELSE orders[o]]
  /\ UNCHANGED <<now, runner, measurements>>

\* One INSERT of POST /commands or of an automatic cycle: they read the runner
\* before it, in another query, so it may have changed since.
createPhoneOrderForDevice(o, device, window) ==
  /\ "run_speedtest" \in OrderTypes
  /\ ~Exists(o)
  /\ orders' = [orders EXCEPT ![o] = NewOrder("run_speedtest", device, now + window)]
  /\ UNCHANGED <<now, runner, measurements>>

Expired_OnlyPending(ord) ==
  IF ord.status = "pending" /\ ord.notAfter < now
  THEN ClosedAs(ord, "expired", "server", "other")
  ELSE ord

\* The two UPDATEs of SweepPhoneOrders, on one row.  They are two statements:
\* anything may run between them.
Expired(ord) ==
  IF ord.status \in Waiting /\ ord.notAfter < now
  THEN ClosedAs(ord, "expired", "server", "other")
  ELSE ord

Interrupted(ord) ==
  IF ord.status = "running" /\ ord.updated + RunningStale < now
  THEN ClosedAs(ord, "interrupted", "server", "other")
  ELSE ord

SweepExpires ==
  /\ orders' = [o \in OrderIds |-> Expired(orders[o])]
  /\ UNCHANGED <<now, runner, measurements>>

SweepInterrupts ==
  /\ orders' = [o \in OrderIds |-> Interrupted(orders[o])]
  /\ UNCHANGED <<now, runner, measurements>>

SweptOrders == [o \in OrderIds |-> Interrupted(Expired(orders[o]))]

\* Both, when nothing runs between them.
SweepPhoneOrders ==
  /\ orders' = SweptOrders
  /\ UNCHANGED <<now, runner, measurements>>

\* rebootOpenCond: a reboot that can still run.
RebootOpen(ord) ==
  /\ ord.type = "reboot_router"
  /\ \/ ord.status \in Waiting /\ ord.notAfter >= now
     \/ ord.status = "running" /\ ord.updated + RunningStale >= now

RebootCounts_BlindToSsh(ord) ==
  /\ ord.type = "reboot_router"
  /\ ord.status \notin {"cancelled", "expired"}
  /\ ~(ord.status = "failed" /\ ord.error = "not-sent")

\* rebootCountsCond: a reboot that may have reached the router.
RebootCounts(ord) ==
  /\ ord.type = "reboot_router"
  /\ ord.status \notin {"cancelled", "expired"}
  /\ ~ /\ ~ord.sshOk
       /\ \/ ord.status = "failed" /\ ord.error = "not-sent"
          \/ ord.status = "interrupted" /\ ord.error = "not-started"

\* The cooldown runs from the delivery, or from the creation (rebootBaseCol).
CoolingDown(ord) == RebootCounts(ord) /\ ord.base + RebootCooldown >= now

\* POST /devices/{id}/reboot sweeps every probe and then creates the order.  An
\* open reboot refuses it even with force, the cooldown only without.  A
\* refusal (409) leaves what the sweep did: SweepExpires and SweepInterrupts.
CreateRebootOrder(o, device, force) ==
  /\ "reboot_router" \in OrderTypes
  /\ runner = "phone"
  /\ ~Exists(o)
  /\ \A p \in OrderIds : SweptOrders[p].device = device => ~RebootOpen(SweptOrders[p])
  /\ force \/ \A p \in OrderIds : SweptOrders[p].device = device => ~CoolingDown(SweptOrders[p])
  /\ orders' = [SweptOrders EXCEPT ![o] = NewOrder("reboot_router", device, now + RebootWindow)]
  /\ UNCHANGED <<now, runner, measurements>>

-----------------------------------------------------------------------------
(* Calls of the phone and of the dashboard                                 *)

AckPhoneOrders(ids) ==
  /\ orders' = [o \in OrderIds |->
                  IF o \in ids /\ orders[o].status = "pending"
                  THEN Delivered(orders[o])
                  ELSE orders[o]]
  /\ UNCHANGED <<now, runner, measurements>>

\* By order_ids, by batch_id or all_open: each is a set of ids.
CancelPhoneOrders(ids) ==
  /\ orders' = [o \in OrderIds |->
                  IF o \in ids /\ orders[o].status \in Waiting
                  THEN ClosedAs(orders[o], "cancelled", "dashboard", "other")
                  ELSE orders[o]]
  /\ UNCHANGED <<now, runner, measurements>>

\* UpsertProbe: from phone to script nobody is left to run the open orders.
ChangeRunner(to) ==
  /\ runner' = to
  /\ orders' = IF runner = "phone" /\ to = "probe"
               THEN [o \in OrderIds |->
                       IF orders[o].status \in Open
                       THEN ClosedAs(orders[o], "cancelled", "dashboard", "other")
                       ELSE orders[o]]
               ELSE orders
  /\ UNCHANGED <<now, measurements>>

SoftFinal(ord) == ord.status \in {"expired", "interrupted"} /\ ord.closedBy = "server"

\* A reboot closed by the server or the dashboard: what the phone says prevails.
RebootReopen(ord) ==
  /\ ord.type = "reboot_router"
  /\ SoftFinal(ord) \/ (ord.status = "cancelled" /\ ord.closedBy # "phone")

phoneTransitions == [pending   |-> {"delivered", "running", "interrupted", "expired"},
                     delivered |-> {"running", "interrupted", "expired"},
                     running   |-> {"interrupted"}]

\* The body of a state report (None: the field did not come; ssh: the ssh_ok of
\* its result, when there is one).
PhoneStateUpdate(status, result, error, step, ssh) ==
  [status |-> status, result |-> result, error |-> error, step |-> step, ssh |-> ssh]

\* Only a reboot keeps the step and the result_json.
WithProgress(ord, u) ==
  IF ord.type # "reboot_router" THEN ord
  ELSE [ord EXCEPT !.step  = IF u.step = None THEN @ ELSE u.step,
                   !.sshOk = IF u.ssh = None THEN @ ELSE u.ssh]

CancelDuplicates_Forgotten(o, ord) == [orders EXCEPT ![o] = ord]

\* A reboot that starts cancels the others still waiting for the same router.
CancelDuplicates(o, ord) ==
  [p \in OrderIds |->
     IF p = o THEN ord
     ELSE IF IsReboot(p) /\ orders[p].device = ord.device /\ orders[p].status \in Waiting
          THEN ClosedAs(orders[p], "cancelled", "server", "other")
          ELSE orders[p]]

\* done or failed (reboots only), or interrupted over a close of somebody else.
Closes(o, u) ==
  /\ IsReboot(o)
  /\ \/ u.status \in {"done", "failed"} /\ (orders[o].status \in Open \/ RebootReopen(orders[o]))
     \/ u.status = "interrupted" /\ RebootReopen(orders[o])

StateClose(o, u) ==
  /\ Closes(o, u)
  /\ orders' = [orders EXCEPT ![o] = WithProgress(ClosedAs(@, u.status, "phone", u.error), u)]

\* running over a close of somebody else: the reboot is open again.
Reopens(o, u) == u.status = "running" /\ RebootReopen(orders[o])

StateReopen(o, u) ==
  /\ Reopens(o, u)
  /\ orders' = CancelDuplicates(o, WithProgress(Started(orders[o], u.result), u))

\* running again with another step or with a result: the reboot's progress.
Progresses(o, u) ==
  /\ IsReboot(o)
  /\ u.status = "running" /\ orders[o].status = "running"
  /\ u.step # None \/ u.ssh # None

StateProgress(o, u) ==
  /\ Progresses(o, u)
  /\ orders' = [orders EXCEPT ![o] = WithProgress([@ EXCEPT !.updated = now], u)]

\* The transitions of phoneTransitions.
Advances(o, u) ==
  orders[o].status \in Open /\ u.status \in phoneTransitions[orders[o].status]

StateAdvance(o, u) ==
  LET ord == orders[o] IN
  /\ Advances(o, u)
  /\ orders' =
       CASE u.status = "delivered" ->
              [orders EXCEPT ![o] = WithProgress(Delivered(ord), u)]
         [] u.status = "running" /\ IsReboot(o) ->
              CancelDuplicates(o, WithProgress(Started(ord, u.result), u))
         [] u.status = "running" /\ ~IsReboot(o) ->
              [orders EXCEPT ![o] = Started(ord, u.result)]
         [] OTHER ->
              [orders EXCEPT ![o] = WithProgress(ClosedAs(ord, u.status, "phone", u.error), u)]

\* Any other report is answered "ignored" and changes nothing.
Ignored(o, u) == ~(Closes(o, u) \/ Reopens(o, u) \/ Progresses(o, u) \/ Advances(o, u))

SetPhoneOrderState(o, u) ==
  /\ Exists(o)
  /\ \/ StateClose(o, u) \/ StateReopen(o, u) \/ StateProgress(o, u) \/ StateAdvance(o, u)
  /\ UNCHANGED <<now, runner, measurements>>

orderAcceptsResult_AnyCloser(ord, started) ==
  ord.status \in Open \cup {"expired", "interrupted"} /\ started <= ord.notAfter

orderAcceptsResult_Strict(ord, started) ==
  \/ ord.status \in Open
  \/ SoftFinal(ord) /\ started < ord.notAfter

\* An open order, or one the sweep closed whose test started in time.
orderAcceptsResult(ord, started) ==
  \/ ord.status \in Open
  \/ SoftFinal(ord) /\ started <= ord.notAfter

Linked_KeepsDevice(ord, r, device, status) ==
  [ClosedAs(ord, status, "phone", IF status = "done" THEN "none" ELSE "other")
     EXCEPT !.measurement = r, !.result = r]

\* Closed by a measurement; one attributed to a router says which one it was.
Linked(ord, r, device, status) ==
  [ClosedAs(ord, status, "phone", IF status = "done" THEN "none" ELSE "other")
     EXCEPT !.measurement = r, !.result = r,
            !.device = IF device # None THEN device ELSE @]

\* A result for order o (None: without an order, or one of another probe).  A
\* result_id already stored changes nothing, a reboot refuses measurements.
InsertProbeResult(r, o, device, status, started) ==
  /\ measurements[r].order = "absent"
  /\ o # None => Exists(o) /\ ~IsReboot(o)
  /\ measurements' = [measurements EXCEPT ![r] =
       [order |-> o, device |-> device, status |-> status, started |-> started]]
  /\ orders' =
       IF o # None /\ orderAcceptsResult(orders[o], started)
       THEN [orders EXCEPT ![o] = Linked(@, r, device, status)]
       ELSE orders
  /\ UNCHANGED <<now, runner>>

Tick == now < MaxTime /\ now' = now + 1 /\ UNCHANGED <<runner, orders, measurements>>

-----------------------------------------------------------------------------
Creating ==
  \/ \E batch \in (SUBSET OrderIds) \ {{}} :
       \E device \in [batch -> Devices \cup {ProbeDevice}], window \in [batch -> Windows] :
         CreatePhoneOrders(batch, device, window)
  \/ \E o \in OrderIds, d \in Devices \cup {ProbeDevice}, w \in Windows :
       createPhoneOrderForDevice(o, d, w)
  \/ \E o \in OrderIds, d \in Devices, force \in BOOLEAN : CreateRebootOrder(o, d, force)

\* What the phone sends to /state.  A speed test that runs names its result and
\* closes here only without one; a reboot reports its steps, and its close says
\* whether the command went out.  The phone's outbox is FIFO: once a step after
\* the command was reported, no close says it never went out.
SpeedTestUpdates ==
  {PhoneStateUpdate("delivered", None, "none", None, None),
   PhoneStateUpdate("expired", None, "other", None, None)}
    \cup {PhoneStateUpdate("running", r, "none", None, None) : r \in ResultIds}
    \cup {PhoneStateUpdate("interrupted", r, "other", None, None) : r \in ResultIds \cup {None}}

RebootUpdates(ord) ==
  {PhoneStateUpdate("delivered", None, "none", None, None),
   PhoneStateUpdate("expired", None, "other", None, None),
   PhoneStateUpdate("interrupted", None, "other", None, None),
   PhoneStateUpdate("done", None, "none", None, TRUE)}
    \cup {PhoneStateUpdate("running", None, "none", step, None) : step \in Steps}
    \cup {PhoneStateUpdate("interrupted", None, "other", None, ssh) : ssh \in BOOLEAN}
    \cup {PhoneStateUpdate("failed", None, error, None, TRUE) : error \in {"not-sent", "other"}}
    \cup (IF ord.step = "sent" THEN {}
          ELSE {PhoneStateUpdate("failed", None, "not-sent", None, FALSE),
                PhoneStateUpdate("failed", None, "other", None, FALSE),
                PhoneStateUpdate("interrupted", None, "not-started", None, None)})

StateUpdates(o) == IF IsReboot(o) THEN RebootUpdates(orders[o]) ELSE SpeedTestUpdates

Reporting ==
  \/ \E ids \in SUBSET OrderIds : AckPhoneOrders(ids)
  \/ \E o \in OrderIds : \E u \in StateUpdates(o) : SetPhoneOrderState(o, u)
  \/ \E r \in ResultIds, o \in OrderIds \cup {None}, d \in Devices \cup {None},
        status \in {"done", "failed"}, started \in 0..now :
       InsertProbeResult(r, o, d, status, started)

Administering ==
  \/ \E ids \in SUBSET OrderIds : CancelPhoneOrders(ids)
  \/ \E to \in Runners : ChangeRunner(to)

Next == \/ Creating \/ Reporting \/ Administering
        \/ SweepExpires \/ SweepInterrupts \/ SweepPhoneOrders \/ Tick

\* probeSchedulerLoop sweeps every 30 s while the backend runs, and time passes.
Fairness == WF_vars(SweepExpires) /\ WF_vars(SweepInterrupts) /\ WF_vars(Tick)

Spec == Init /\ [][Next]_vars /\ Fairness

-----------------------------------------------------------------------------
(* What makes the store correct                                            *)

LinkAgrees(o) ==
  LET ord == orders[o]
      m   == measurements[ord.measurement] IN
  ord.measurement # None =>
    /\ ord.type = "run_speedtest" /\ ord.closedBy = "phone"
    /\ ord.status \in {"done", "failed"} /\ ord.status = m.status
    /\ ord.result = ord.measurement /\ m.order = o
    /\ m.device # None => m.device = ord.device

MeasuredIfDone(o) ==
  orders[o].type = "run_speedtest" /\ orders[o].status \in {"done", "failed"} =>
    orders[o].measurement # None

NamesSpeedTest(r) ==
  LET o == measurements[r].order IN o \in OrderIds => Exists(o) /\ ~IsReboot(o)

\* A speed test is done or failed exactly because of one measurement, and the
\* two rows agree: the measurement names the order back, has its outcome and is
\* attributed to its router; no measurement closes two orders or a reboot.  The
\* hazard: the upload races the sweep, a cancellation and the phone's own close.
LinkIntegrity == /\ \A o \in OrderIds : LinkAgrees(o) /\ MeasuredIfDone(o)
                 /\ \A r \in ResultIds : NamesSpeedTest(r)

\* No result is left out: while a speed test is open nothing was uploaded for
\* it, and if the sweep closed it, whatever was uploaded started too late.
NoResultLeftOut ==
  \A o \in OrderIds, r \in ResultIds :
    measurements[r].order = o =>
      /\ orders[o].status \notin Open
      /\ SoftFinal(orders[o]) => measurements[r].started > orders[o].notAfter

\* Never two reboots in a row: a reboot of a router waits in the queue only if
\* no other waits for, or runs on, the same router, whatever the phone takes up
\* again after the server or the dashboard closed it.
OneRebootQueued ==
  \A o, p \in OrderIds :
    /\ IsReboot(o) /\ IsReboot(p) /\ o # p /\ orders[o].device = orders[p].device
    /\ orders[o].status \in Waiting
    => orders[p].status \notin Open

\* What the phone closed stays as it is, against late sweeps, cancellations,
\* retried reports and second results; so does a cancelled speed test.
HardFinalIsFinal ==
  [][\A o \in OrderIds :
       \/ orders[o].status \in Closed /\ orders[o].closedBy = "phone"
       \/ orders[o].status = "cancelled" /\ ~IsReboot(o)
       => orders'[o] = orders[o]]_vars

\* Without force no reboot is accepted for a router that, as far as the phone
\* reported, was sent the command of another one within the cooldown, whoever
\* closed that one and however ("pudo haber llegado al router", reboot.go:101).
WithinCooldown(p) ==
  /\ orders[p].sshOk \/ orders[p].step = "sent"
  /\ orders[p].base + RebootCooldown >= now

CooldownCoversAllSentReboots ==
  [][\A o, p \in OrderIds, d \in Devices :
       /\ CreateRebootOrder(o, d, FALSE)
       /\ IsReboot(p) /\ orders[p].device = d
       => ~WithinCooldown(p)]_vars

\* The same but for a cancelled one: of a reboot that had been sent, only a
\* change of runner cancels it, and CooldownCoversAllSentReboots is about that.
CooldownCoversSentReboots ==
  [][\A o, p \in OrderIds, d \in Devices :
       /\ CreateRebootOrder(o, d, FALSE)
       /\ IsReboot(p) /\ orders[p].device = d /\ orders[p].status # "cancelled"
       => ~WithinCooldown(p)]_vars

\* No order stays open for ever behind a phone that went silent: one that waits
\* leaves the queue after its deadline, one that runs reports again or is swept.
SilentOrdersAreSwept ==
  \A o \in OrderIds :
    /\ (orders[o].status \in Waiting /\ orders[o].notAfter < MaxTime)
         ~> (orders[o].status \notin Waiting)
    /\ \A t \in 0..MaxTime :
         (orders[o].status = "running" /\ orders[o].updated = t /\ t + RunningStale < MaxTime)
           ~> (orders[o].status # "running" \/ orders[o].updated > t)

\* The phase of an order in OrderLifecycle.
Phase(ord) == CASE ord.status \in Waiting -> "waiting"
                [] ord.status \in {"none", "running", "cancelled"} -> ord.status
                [] SoftFinal(ord) -> "soft"
                [] OTHER -> "closed"

Abs == INSTANCE OrderLifecycle
         WITH kind  <- [o \in OrderIds |-> orders[o].type],
              phase <- [o \in OrderIds |-> Phase(orders[o])],
              link  <- [o \in OrderIds |-> orders[o].measurement]

\* The store implements the life cycle the contract promises for every order.
ImplementsOrderLifecycle == Abs!Spec
=============================================================================
