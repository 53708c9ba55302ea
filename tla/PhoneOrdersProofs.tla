------------------------- MODULE PhoneOrdersProofs -------------------------
(***************************************************************************)
(* Theorems of PhoneOrders, for any number of orders, results and routers, *)
(* any windows and an unbounded phone: type correctness, the link between  *)
(* orders and measurements, no result left out, one reboot in the queue,   *)
(* and the implementation of OrderLifecycle.                               *)
(***************************************************************************)
EXTENDS PhoneOrders, TLAPS

-----------------------------------------------------------------------------
(* Rows: what the operators that build one return                          *)

\* What the phone reports is well formed.
Update == [status: Statuses, result: ResultIds \cup {None}, error: Errors,
           step: Steps \cup {None}, ssh: BOOLEAN \cup {None}]

LEMMA StateUpdatesType == \A o \in OrderIds : \A u \in StateUpdates(o) : u \in Update
  <1>1. \A status \in Statuses, result \in ResultIds \cup {None}, error \in Errors,
           step \in Steps \cup {None}, ssh \in BOOLEAN \cup {None} :
          PhoneStateUpdate(status, result, error, step, ssh) \in Update
    BY DEF PhoneStateUpdate, Update
  <1>2. SpeedTestUpdates \subseteq Update
    BY <1>1 DEF SpeedTestUpdates, Statuses, Open, Waiting, Closed, Errors
  <1>3. \A ord : RebootUpdates(ord) \subseteq Update
    <2> TAKE ord
    <2>1. /\ {"delivered", "expired", "interrupted", "done", "running", "failed"} \subseteq Statuses
          /\ {"none", "other", "not-sent", "not-started"} \subseteq Errors
          /\ {TRUE, FALSE, None} \subseteq BOOLEAN \cup {None}
      BY DEF Statuses, Open, Waiting, Closed, Errors
    <2>2. /\ PhoneStateUpdate("delivered", None, "none", None, None) \in Update
          /\ PhoneStateUpdate("expired", None, "other", None, None) \in Update
          /\ PhoneStateUpdate("interrupted", None, "other", None, None) \in Update
          /\ PhoneStateUpdate("done", None, "none", None, TRUE) \in Update
          /\ PhoneStateUpdate("failed", None, "not-sent", None, FALSE) \in Update
          /\ PhoneStateUpdate("failed", None, "other", None, FALSE) \in Update
          /\ PhoneStateUpdate("interrupted", None, "not-started", None, None) \in Update
      BY <1>1, <2>1
    <2>3. \A step \in Steps : PhoneStateUpdate("running", None, "none", step, None) \in Update
      BY <1>1, <2>1
    <2>4. \A ssh \in BOOLEAN : PhoneStateUpdate("interrupted", None, "other", None, ssh) \in Update
      BY <1>1, <2>1
    <2>5. \A error \in {"not-sent", "other"} :
            PhoneStateUpdate("failed", None, error, None, TRUE) \in Update
      BY <1>1, <2>1
    <2> QED BY <2>2, <2>3, <2>4, <2>5 DEF RebootUpdates
  <1> QED BY <1>2, <1>3 DEF StateUpdates

\* A closed row keeps everything but its state.
LEMMA ClosedAsType ==
  ASSUME NEW ord \in Order, NEW status \in Closed,
         NEW by \in {"none", "phone", "server", "dashboard"}, NEW error \in Errors
  PROVE  ClosedAs(ord, status, by, error) \in Order
  <1>1. status \in Statuses
    BY DEF Statuses
  <1> QED BY <1>1 DEF ClosedAs, Order

LEMMA StartedType ==
  ASSUME NEW ord \in Order, NEW result \in ResultIds \cup {None}, now \in Nat
  PROVE  Started(ord, result) \in Order
  BY DEF Started, Order, Statuses, Open, Errors

LEMMA DeliveredType ==
  ASSUME NEW ord \in Order, now \in Nat
  PROVE  Delivered(ord) \in Order
  BY DEF Delivered, Order, Statuses, Open, Waiting

LEMMA WithProgressType ==
  ASSUME NEW ord \in Order, NEW u \in Update
  PROVE  WithProgress(ord, u) \in Order
  <1> DEFINE step == IF u.step = None THEN ord.step ELSE u.step
             ssh  == IF u.ssh = None THEN ord.sshOk ELSE u.ssh
  <1>1. step \in Steps \cup {None} /\ ssh \in BOOLEAN
    BY DEF Order, Update
  <1>2. \A a \in Steps \cup {None}, b \in BOOLEAN : [ord EXCEPT !.step = a, !.sshOk = b] \in Order
    BY DEF Order
  <1> QED BY <1>1, <1>2 DEF WithProgress

LEMMA NewOrderType ==
  ASSUME NEW type \in {"run_speedtest", "reboot_router"},
         NEW device \in Devices \cup {ProbeDevice}, NEW notAfter \in Nat, now \in Nat
  PROVE  NewOrder(type, device, notAfter) \in Order
  BY DEF NewOrder, NoOrder, Order, Statuses, Open, Waiting, Errors

LEMMA LinkedType ==
  ASSUME NEW ord \in Order, NEW r \in ResultIds, NEW device \in Devices \cup {None},
         NEW status \in {"done", "failed"}
  PROVE  Linked(ord, r, device, status) \in Order
  <1> DEFINE closed == ClosedAs(ord, status, "phone", IF status = "done" THEN "none" ELSE "other")
             dev == IF device # None THEN device ELSE closed.device
  <1>1. closed \in Order
    BY ClosedAsType DEF Closed, Errors
  <1>2. dev \in Devices \cup {ProbeDevice, None}
    BY <1>1 DEF Order
  <1>3. \A x \in Order, d \in Devices \cup {ProbeDevice, None} :
          [x EXCEPT !.measurement = r, !.result = r, !.device = d] \in Order
    BY DEF Order
  <1> QED BY <1>1, <1>2, <1>3 DEF Linked

LEMMA SweptType ==
  ASSUME NEW ord \in Order
  PROVE  /\ Expired(ord) \in Order
         /\ Interrupted(ord) \in Order
         /\ Interrupted(Expired(ord)) \in Order
  <1>1. \A x \in Order : Expired(x) \in Order /\ Interrupted(x) \in Order
    BY ClosedAsType DEF Expired, Interrupted, Closed, Errors
  <1> QED BY <1>1

LEMMA CancelDuplicatesType ==
  ASSUME orders \in [OrderIds -> Order], NEW o \in OrderIds, NEW ord \in Order
  PROVE  CancelDuplicates(o, ord) \in [OrderIds -> Order]
  BY ClosedAsType DEF CancelDuplicates, Closed, Errors

-----------------------------------------------------------------------------
(* Type correctness                                                        *)

LEMMA InitType == Init => TypeOK
  BY DEF Init, TypeOK, NoOrder, Order, NoMeasurement, Measurement, Statuses, Errors

LEMMA StateType ==
  ASSUME TypeOK, NEW o \in OrderIds, NEW u \in Update, SetPhoneOrderState(o, u)
  PROVE  orders' \in [OrderIds -> Order]
  <1> DEFINE ord == orders[o]
  <1>1. u \in Update /\ ord \in Order /\ now \in Nat
    BY DEF TypeOK
  <1>2. u.result \in ResultIds \cup {None} /\ u.error \in Errors
    BY <1>1 DEF Update
  <1>3. /\ WithProgress(Started(ord, u.result), u) \in Order
        /\ Started(ord, u.result) \in Order
        /\ WithProgress(Delivered(ord), u) \in Order
        /\ WithProgress([ord EXCEPT !.updated = now], u) \in Order
    <2>1. [ord EXCEPT !.updated = now] \in Order
      BY <1>1 DEF Order
    <2> QED BY <1>1, <1>2, <2>1, StartedType, DeliveredType, WithProgressType
  <1>4. \A status \in Closed : WithProgress(ClosedAs(ord, status, "phone", u.error), u) \in Order
    BY <1>1, <1>2, ClosedAsType, WithProgressType
  <1>5. CASE StateClose(o, u)
    BY <1>4, <1>5 DEF StateClose, Closes, TypeOK, Closed
  <1>6. CASE StateReopen(o, u)
    BY <1>3, <1>6, CancelDuplicatesType DEF StateReopen, Reopens, TypeOK
  <1>7. CASE StateProgress(o, u)
    BY <1>3, <1>7 DEF StateProgress, Progresses, TypeOK
  <1>8. CASE StateAdvance(o, u)
    <2>1. u.status \in {"delivered", "running", "interrupted", "expired"}
      BY <1>8 DEF StateAdvance, Advances, phoneTransitions, Open, Waiting
    <2>2. CASE u.status = "delivered"
      BY <1>3, <1>8, <2>2 DEF StateAdvance, Advances, TypeOK
    <2>3. CASE u.status = "running"
      BY <1>3, <1>8, <2>3, CancelDuplicatesType DEF StateAdvance, Advances, TypeOK
    <2>4. CASE u.status \in {"interrupted", "expired"}
      BY <1>4, <1>8, <2>4 DEF StateAdvance, Advances, TypeOK, Closed
    <2> QED BY <2>1, <2>2, <2>3, <2>4
  <1> QED BY <1>5, <1>6, <1>7, <1>8 DEF SetPhoneOrderState

LEMMA NextType == TypeOK /\ [Next]_vars => TypeOK'
  <1> SUFFICES ASSUME TypeOK, [Next]_vars PROVE TypeOK'
    OBVIOUS
  <1> USE TimesAssumption
  <1>1. ASSUME NEW batch \in SUBSET OrderIds,
               NEW device \in [batch -> Devices \cup {ProbeDevice}], NEW window \in [batch -> Windows],
               CreatePhoneOrders(batch, device, window)
        PROVE  TypeOK'
    <2>1. \A o \in batch : now + window[o] \in Nat
      <3>1. \A o \in batch : window[o] \in Nat OBVIOUS
      <3>2. now \in Nat BY DEF TypeOK
      <3> QED BY <3>1, <3>2
    <2> QED BY <1>1, <2>1, NewOrderType DEF CreatePhoneOrders, TypeOK
  <1>2. ASSUME NEW o \in OrderIds, NEW d \in Devices \cup {ProbeDevice}, NEW w \in Windows,
               createPhoneOrderForDevice(o, d, w)
        PROVE  TypeOK'
    <2>1. now + w \in Nat BY DEF TypeOK
    <2> QED BY <1>2, <2>1, NewOrderType DEF createPhoneOrderForDevice, TypeOK
  <1>3. ASSUME NEW o \in OrderIds, NEW d \in Devices, NEW force \in BOOLEAN,
               CreateRebootOrder(o, d, force)
        PROVE  TypeOK'
    <2>1. SweptOrders \in [OrderIds -> Order]
      BY SweptType DEF SweptOrders, TypeOK
    <2>2. NewOrder("reboot_router", d, now + RebootWindow) \in Order
      BY NewOrderType DEF TypeOK
    <2> QED BY <1>3, <2>1, <2>2 DEF CreateRebootOrder, TypeOK
  <1>4. ASSUME NEW ids \in SUBSET OrderIds, AckPhoneOrders(ids) PROVE TypeOK'
    BY <1>4, DeliveredType DEF AckPhoneOrders, TypeOK
  <1>5. ASSUME NEW o \in OrderIds, NEW u \in StateUpdates(o), SetPhoneOrderState(o, u)
        PROVE  TypeOK'
    BY <1>5, StateType, StateUpdatesType DEF SetPhoneOrderState, TypeOK
  <1>6. ASSUME NEW r \in ResultIds, NEW o \in OrderIds \cup {None}, NEW d \in Devices \cup {None},
               NEW status \in {"done", "failed"}, NEW started \in 0..now,
               InsertProbeResult(r, o, d, status, started)
        PROVE  TypeOK'
    <2>1. [order |-> o, device |-> d, status |-> status, started |-> started] \in Measurement
      BY DEF Measurement, TypeOK
    <2>2. o \in OrderIds => Linked(orders[o], r, d, status) \in Order
      BY LinkedType DEF TypeOK
    <2> QED BY <1>6, <2>1, <2>2 DEF InsertProbeResult, TypeOK
  <1>7. ASSUME NEW ids \in SUBSET OrderIds, CancelPhoneOrders(ids) PROVE TypeOK'
    BY <1>7, ClosedAsType DEF CancelPhoneOrders, TypeOK, Closed, Errors
  <1>8. ASSUME NEW to \in Runners, ChangeRunner(to) PROVE TypeOK'
    BY <1>8, ClosedAsType, NamesAssumption DEF ChangeRunner, TypeOK, Closed, Errors
  <1>9. CASE SweepExpires
    BY <1>9, SweptType DEF SweepExpires, TypeOK
  <1>10. CASE SweepInterrupts
    BY <1>10, SweptType DEF SweepInterrupts, TypeOK
  <1>11. CASE SweepPhoneOrders
    BY <1>11, SweptType DEF SweepPhoneOrders, SweptOrders, TypeOK
  <1>16. CASE Tick
    BY <1>16 DEF Tick, TypeOK
  <1>12. CASE UNCHANGED vars
    BY <1>12 DEF vars, TypeOK
  <1>13. CASE Creating
    BY <1>1, <1>2, <1>3, <1>13 DEF Creating
  <1>14. CASE Reporting
    BY <1>4, <1>5, <1>6, <1>14 DEF Reporting
  <1>15. CASE Administering
    BY <1>7, <1>8, <1>15 DEF Administering
  <1> QED BY <1>9, <1>10, <1>11, <1>12, <1>13, <1>14, <1>15, <1>16 DEF Next

\* Every row of the store keeps its type, whatever is called in whatever order.
THEOREM TypeCorrect == Spec => []TypeOK
  BY InitType, NextType, PTL DEF Spec

-----------------------------------------------------------------------------
(* What any call but an uploaded result may do to a row                    *)

LEMMA PhaseFacts ==
  ASSUME NEW ord \in Order
  PROVE  /\ Phase(ord) = "none" <=> ord.status = "none"
         /\ Phase(ord) = "waiting" <=> ord.status \in Waiting
         /\ Phase(ord) = "running" <=> ord.status = "running"
         /\ Phase(ord) = "cancelled" <=> ord.status = "cancelled"
         /\ Phase(ord) = "soft" <=> SoftFinal(ord)
         /\ Phase(ord) \in {"none", "waiting", "running", "cancelled", "soft", "closed"}
  BY DEF Phase, SoftFinal, Waiting, Order, Statuses, Open, Closed

\* The row stays, appears, or moves along its phases without a measurement; a
\* speed test never becomes done or failed this way.
Moved(a, b) ==
  \/ b = a
  \/ /\ a.status = "none" /\ Phase(b) = "waiting" /\ b.measurement = None
     /\ b.type \in {"run_speedtest", "reboot_router"}
  \/ /\ b.type = a.type /\ b.notAfter = a.notAfter /\ b.measurement = a.measurement
     /\ a.status \in Open \/ RebootReopen(a)
     /\ Phase(b) # "none"
     /\ Phase(b) = "waiting" => Phase(a) = "waiting"
     /\ Phase(b) \in {"soft", "cancelled"} => Phase(a) \in {"waiting", "running"}
     /\ b.status \in {"done", "failed"} => a.type = "reboot_router"

LEMMA NewOrderMoved ==
  ASSUME NEW a \in Order, a.status = "none", NEW type \in {"run_speedtest", "reboot_router"},
         NEW device \in Devices \cup {ProbeDevice}, NEW notAfter \in Nat, now \in Nat
  PROVE  Moved(a, NewOrder(type, device, notAfter))
  <1> DEFINE b == NewOrder(type, device, notAfter)
  <1>1. b \in Order
    BY NewOrderType
  <1>2. b.status = "pending" /\ b.type = type /\ b.measurement = None
    BY DEF NewOrder, NoOrder
  <1>3. Phase(b) = "waiting"
    BY <1>1, <1>2, PhaseFacts DEF Waiting
  <1> QED BY <1>2, <1>3 DEF Moved

LEMMA ClosedAsMoved ==
  ASSUME NEW a \in Order, a.status \in Open, NEW status \in {"expired", "interrupted", "cancelled"},
         NEW by \in {"phone", "server", "dashboard"}, NEW error \in Errors
  PROVE  Moved(a, ClosedAs(a, status, by, error))
  <1>1. ClosedAs(a, status, by, error) \in Order
    BY ClosedAsType DEF Closed
  <1>2. Phase(a) \in {"waiting", "running"}
    BY PhaseFacts DEF Open
  <1>3. Phase(ClosedAs(a, status, by, error)) \notin {"none", "waiting"}
    <2>1. ClosedAs(a, status, by, error).status = status
      BY DEF ClosedAs, Order
    <2> QED BY <1>1, <2>1, PhaseFacts DEF Waiting
  <1> QED BY <1>1, <1>2, <1>3 DEF Moved, ClosedAs, Order

LEMMA SweptMoved ==
  ASSUME NEW a \in Order
  PROVE  Moved(a, Expired(a)) /\ Moved(a, Interrupted(a)) /\ Moved(a, Interrupted(Expired(a)))
  <1>1. Moved(a, Expired(a)) /\ Moved(a, Interrupted(a))
    BY ClosedAsMoved DEF Expired, Interrupted, Moved, Open, Errors
  <1>2. Expired(a) = a \/ Interrupted(Expired(a)) = Expired(a)
    BY DEF Expired, Interrupted, ClosedAs, Order
  <1> QED BY <1>1, <1>2

LEMMA DeliveredMoved ==
  ASSUME NEW a \in Order, a.status \in Waiting, now \in Nat
  PROVE  Moved(a, Delivered(a))
  <1>1. Delivered(a) \in Order /\ Delivered(a).status = "delivered"
    BY DeliveredType DEF Delivered, Order
  <1>2. Phase(a) = "waiting" /\ Phase(Delivered(a)) = "waiting"
    BY <1>1, PhaseFacts DEF Waiting
  <1> QED BY <1>1, <1>2 DEF Moved, Delivered, Order, Open

LEMMA StartedMoved ==
  ASSUME NEW a \in Order, NEW result \in ResultIds \cup {None}, now \in Nat,
         a.status \in Waiting \/ RebootReopen(a)
  PROVE  Moved(a, Started(a, result))
  <1>1. Started(a, result) \in Order /\ Started(a, result).status = "running"
    BY StartedType DEF Started, Order
  <1>2. Phase(Started(a, result)) = "running"
    BY <1>1, PhaseFacts
  <1>3. Phase(a) = "waiting" \/ (a.type = "reboot_router" /\ Phase(a) \in {"soft", "cancelled"})
    BY PhaseFacts DEF RebootReopen
  <1> QED BY <1>1, <1>2, <1>3 DEF Moved, Started, Order, Open

\* Adding the progress of a report to a moved row moves it the same way.
LEMMA WithProgressMoved ==
  ASSUME NEW a \in Order, NEW b \in Order, NEW u \in Update, Moved(a, b), b # a
  PROVE  Moved(a, WithProgress(b, u))
  <1> DEFINE c == WithProgress(b, u)
  <1>1. /\ c.type = b.type /\ c.notAfter = b.notAfter /\ c.measurement = b.measurement
        /\ c.status = b.status /\ c.closedBy = b.closedBy
    BY DEF WithProgress, Order
  <1>2. Phase(c) = Phase(b)
    BY <1>1 DEF Phase, SoftFinal
  <1> QED BY <1>1, <1>2 DEF Moved

LEMMA CancelDuplicatesMoved ==
  ASSUME orders \in [OrderIds -> Order], NEW o \in OrderIds, NEW ord \in Order, Moved(orders[o], ord)
  PROVE  \A p \in OrderIds : Moved(orders[p], CancelDuplicates(o, ord)[p])
  <1>1. \A p \in OrderIds : orders[p].status \in Waiting =>
          Moved(orders[p], ClosedAs(orders[p], "cancelled", "server", "other"))
    BY ClosedAsMoved DEF Open, Errors
  <1>2. \A a : Moved(a, a)
    BY DEF Moved
  <1> QED BY <1>1, <1>2 DEF CancelDuplicates

LEMMA StateMoves ==
  ASSUME TypeOK, NEW o \in OrderIds, NEW u \in StateUpdates(o), SetPhoneOrderState(o, u)
  PROVE  \A p \in OrderIds : Moved(orders[p], orders'[p])
  <1> DEFINE ord == orders[o]
  <1>1. /\ u \in Update /\ ord \in Order /\ now \in Nat
        /\ u.result \in ResultIds \cup {None} /\ u.error \in Errors
        /\ orders \in [OrderIds -> Order]
    BY StateUpdatesType DEF TypeOK, Update
  <1>2. \A a : Moved(a, a)
    BY DEF Moved
  <1>3. ord.status \in Waiting \/ RebootReopen(ord) =>
          /\ WithProgress(Started(ord, u.result), u) \in Order
          /\ Moved(ord, WithProgress(Started(ord, u.result), u))
          /\ Moved(ord, Started(ord, u.result))
    <2>1. Started(ord, u.result) \in Order /\ Started(ord, u.result).status = "running"
      BY <1>1, StartedType DEF Started, Order
    <2>2. ord.status \in Waiting \/ RebootReopen(ord) => Started(ord, u.result) # ord
      BY <2>1 DEF Waiting, RebootReopen, SoftFinal
    <2> QED BY <1>1, <2>1, <2>2, StartedMoved, WithProgressType, WithProgressMoved
  <1>4. CASE StateClose(o, u)
    <2> DEFINE b == ClosedAs(ord, u.status, "phone", u.error)
               c == WithProgress(b, u)
    <2>1. u.status \in Closed /\ ord.type = "reboot_router"
          /\ (ord.status \in Open \/ RebootReopen(ord)) /\ orders' = [orders EXCEPT ![o] = c]
          /\ u.status \in {"done", "failed", "interrupted"}
      BY <1>4 DEF StateClose, Closes, Closed, IsReboot
    <2>2. b \in Order /\ b.type = ord.type /\ b.notAfter = ord.notAfter
          /\ b.measurement = ord.measurement /\ b.status = u.status /\ b.closedBy = "phone"
      <3>1. b \in Order
        BY <1>1, <2>1, ClosedAsType
      <3> QED BY <1>1, <3>1 DEF ClosedAs, Order
    <2>3. Phase(b) = "closed"
      <3>1. ~SoftFinal(b) /\ b.status \notin {"none", "running", "cancelled"} \cup Waiting
        BY <2>1, <2>2 DEF SoftFinal, Waiting
      <3> QED BY <2>2, <3>1, PhaseFacts
    <2>4. Phase(ord) \in {"waiting", "running", "soft", "cancelled"}
      BY <1>1, <2>1, PhaseFacts DEF RebootReopen, Open
    <2>5. Moved(ord, b)
      BY <2>1, <2>2, <2>3, <2>4 DEF Moved
    <2>6. b # ord
      BY <2>3, <2>4
    <2>7. Moved(ord, c)
      BY <1>1, <2>2, <2>5, <2>6, WithProgressMoved
    <2> QED BY <1>1, <1>2, <2>1, <2>7
  <1>5. CASE StateReopen(o, u)
    BY <1>1, <1>3, <1>5, CancelDuplicatesMoved DEF StateReopen, Reopens
  <1>6. CASE StateProgress(o, u)
    <2> DEFINE b == [ord EXCEPT !.updated = now]
               c == WithProgress(b, u)
    <2>1. b \in Order /\ ord.status = "running" /\ ord.type = "reboot_router"
          /\ orders' = [orders EXCEPT ![o] = c]
      BY <1>1, <1>6 DEF StateProgress, Progresses, IsReboot, Order
    <2>2. /\ c.type = ord.type /\ c.notAfter = ord.notAfter /\ c.measurement = ord.measurement
          /\ c.status = ord.status /\ c \in Order
      <3>1. c \in Order
        BY <1>1, <2>1, WithProgressType
      <3>2. /\ b.type = ord.type /\ b.notAfter = ord.notAfter
            /\ b.measurement = ord.measurement /\ b.status = ord.status
        BY <1>1 DEF Order
      <3>3. /\ c.type = b.type /\ c.notAfter = b.notAfter
            /\ c.measurement = b.measurement /\ c.status = b.status
        BY <2>1 DEF WithProgress, Order
      <3> QED BY <3>1, <3>2, <3>3
    <2>3. Phase(ord) = "running" /\ Phase(c) = "running"
      BY <1>1, <2>1, <2>2, PhaseFacts
    <2>4. Moved(ord, c)
      BY <2>1, <2>2, <2>3 DEF Moved, Open
    <2> QED BY <1>1, <1>2, <2>1, <2>4
  <1>7. CASE StateAdvance(o, u)
    <2>1. ord.status \in Open /\ u.status \in phoneTransitions[ord.status]
      BY <1>7 DEF StateAdvance, Advances
    <2>2. /\ u.status \in {"delivered", "running", "interrupted", "expired"}
          /\ u.status \in {"delivered", "running"} => ord.status \in Waiting
          /\ u.status = "delivered" => ord.status = "pending"
      BY <2>1 DEF phoneTransitions, Open, Waiting
    <2>3. CASE u.status = "delivered"
      <3>1. Delivered(ord) \in Order /\ Delivered(ord).status = "delivered" /\ ord.status = "pending"
        BY <1>1, <2>2, <2>3, DeliveredType DEF Delivered, Order
      <3>2. Moved(ord, Delivered(ord)) /\ Delivered(ord) # ord
        BY <1>1, <2>2, <2>3, <3>1, DeliveredMoved
      <3>3. Moved(ord, WithProgress(Delivered(ord), u))
        BY <1>1, <3>1, <3>2, WithProgressMoved
      <3> QED BY <1>1, <1>2, <1>7, <2>3, <3>3 DEF StateAdvance, Advances
    <2>4. CASE u.status = "running"
      <3>1. CASE IsReboot(o)
        BY <1>1, <1>3, <1>7, <2>2, <2>4, <3>1, CancelDuplicatesMoved DEF StateAdvance, Advances
      <3>2. CASE ~IsReboot(o)
        BY <1>1, <1>2, <1>3, <1>7, <2>2, <2>4, <3>2 DEF StateAdvance, Advances
      <3> QED BY <3>1, <3>2
    <2>5. CASE u.status \in {"interrupted", "expired"}
      <3> DEFINE b == ClosedAs(ord, u.status, "phone", u.error)
      <3>1. b \in Order /\ b.status = u.status /\ Moved(ord, b) /\ b # ord
        <4>1. b \in Order /\ b.status = u.status
          <5>1. b \in Order
            BY <1>1, <2>5, ClosedAsType DEF Closed
          <5>2. b.status = u.status
            BY <1>1 DEF ClosedAs, Order
          <5> QED BY <5>1, <5>2
        <4>2. b # ord
          BY <2>1, <2>5, <4>1 DEF Open, Waiting
        <4>3. Moved(ord, b)
          BY <1>1, <2>1, <2>5, ClosedAsMoved
        <4> QED BY <4>1, <4>2, <4>3
      <3>2. Moved(ord, WithProgress(b, u))
        BY <1>1, <3>1, WithProgressMoved
      <3> QED BY <1>1, <1>2, <1>7, <2>5, <3>2 DEF StateAdvance, Advances
    <2> QED BY <2>2, <2>3, <2>4, <2>5
  <1> QED BY <1>4, <1>5, <1>6, <1>7 DEF SetPhoneOrderState

\* The uploaded result, the only other way a row changes.
Uploaded(r, o, d, status, started) ==
  /\ r \in ResultIds /\ o \in OrderIds \cup {None} /\ d \in Devices \cup {None}
  /\ status \in {"done", "failed"} /\ started \in Nat
  /\ InsertProbeResult(r, o, d, status, started)

LEMMA StepMoves ==
  ASSUME TypeOK, [Next]_vars
  PROVE  \/ measurements' = measurements /\ \A p \in OrderIds : Moved(orders[p], orders'[p])
         \/ \E r, o, d, status, started : Uploaded(r, o, d, status, started)
  <1> DEFINE Moves == measurements' = measurements /\ \A p \in OrderIds : Moved(orders[p], orders'[p])
  <1> USE TimesAssumption
  <1>1. /\ now \in Nat /\ orders \in [OrderIds -> Order]
        /\ \A p \in OrderIds : orders[p] \in Order
    BY DEF TypeOK
  <1>2. \A a : Moved(a, a)
    BY DEF Moved
  <1>3. ASSUME NEW batch \in SUBSET OrderIds,
               NEW device \in [batch -> Devices \cup {ProbeDevice}], NEW window \in [batch -> Windows],
               CreatePhoneOrders(batch, device, window)
        PROVE  Moves
    <2>1. \A o \in batch : Moved(orders[o], NewOrder("run_speedtest", device[o], now + window[o]))
      <3> SUFFICES ASSUME NEW o \in batch
                   PROVE  Moved(orders[o], NewOrder("run_speedtest", device[o], now + window[o]))
        OBVIOUS
      <3>1. window[o] \in Nat /\ device[o] \in Devices \cup {ProbeDevice} OBVIOUS
      <3>2. now + window[o] \in Nat BY <1>1, <3>1
      <3>3. orders[o].status = "none" BY <1>3 DEF CreatePhoneOrders, Exists
      <3> QED BY <1>1, <3>1, <3>2, <3>3, NewOrderMoved
    <2> QED BY <1>2, <1>3, <2>1 DEF CreatePhoneOrders
  <1>4. ASSUME NEW o \in OrderIds, NEW d \in Devices \cup {ProbeDevice}, NEW w \in Windows,
               createPhoneOrderForDevice(o, d, w)
        PROVE  Moves
    <2>1. now + w \in Nat BY <1>1
    <2>2. Moved(orders[o], NewOrder("run_speedtest", d, now + w))
      BY <1>1, <1>4, <2>1, NewOrderMoved DEF createPhoneOrderForDevice, Exists
    <2> QED BY <1>1, <1>2, <1>4, <2>2 DEF createPhoneOrderForDevice
  <1>5. ASSUME NEW o \in OrderIds, NEW d \in Devices, NEW force \in BOOLEAN,
               CreateRebootOrder(o, d, force)
        PROVE  Moves
    <2>1. now + RebootWindow \in Nat BY <1>1
    <2>2. Moved(orders[o], NewOrder("reboot_router", d, now + RebootWindow))
      BY <1>1, <1>5, <2>1, NewOrderMoved DEF CreateRebootOrder, Exists
    <2>3. \A p \in OrderIds : Moved(orders[p], SweptOrders[p])
      BY <1>1, SweptMoved DEF SweptOrders
    <2> QED BY <1>5, <2>2, <2>3 DEF CreateRebootOrder, SweptOrders
  <1>6. ASSUME NEW ids \in SUBSET OrderIds, AckPhoneOrders(ids) PROVE Moves
    BY <1>1, <1>2, <1>6, DeliveredMoved DEF AckPhoneOrders, Waiting
  <1>7. ASSUME NEW o \in OrderIds, NEW u \in StateUpdates(o), SetPhoneOrderState(o, u) PROVE Moves
    BY <1>7, StateMoves DEF SetPhoneOrderState
  <1>8. ASSUME NEW r \in ResultIds, NEW o \in OrderIds \cup {None}, NEW d \in Devices \cup {None},
               NEW status \in {"done", "failed"}, NEW started \in 0..now,
               InsertProbeResult(r, o, d, status, started)
        PROVE  Uploaded(r, o, d, status, started)
    BY <1>1, <1>8 DEF Uploaded
  <1>9. ASSUME NEW ids \in SUBSET OrderIds, CancelPhoneOrders(ids) PROVE Moves
    BY <1>1, <1>2, <1>9, ClosedAsMoved DEF CancelPhoneOrders, Open, Errors
  <1>10. ASSUME NEW to \in Runners, ChangeRunner(to) PROVE Moves
    BY <1>1, <1>2, <1>10, ClosedAsMoved DEF ChangeRunner, Errors
  <1>11. CASE SweepExpires
    BY <1>1, <1>11, SweptMoved DEF SweepExpires
  <1>12. CASE SweepInterrupts
    BY <1>1, <1>12, SweptMoved DEF SweepInterrupts
  <1>17. CASE SweepPhoneOrders
    BY <1>1, <1>17, SweptMoved DEF SweepPhoneOrders, SweptOrders
  <1>13. CASE Tick \/ UNCHANGED vars
    BY <1>2, <1>13 DEF Tick, vars
  <1>14. CASE Creating
    BY <1>3, <1>4, <1>5, <1>14 DEF Creating
  <1>15. CASE Reporting
    BY <1>6, <1>7, <1>8, <1>15 DEF Reporting
  <1>16. CASE Administering
    BY <1>9, <1>10, <1>16 DEF Administering
  <1> QED BY <1>11, <1>12, <1>13, <1>14, <1>15, <1>16, <1>17 DEF Next

-----------------------------------------------------------------------------
(* Orders and measurements                                                 *)

LEMMA AcceptsFacts ==
  ASSUME NEW ord \in Order, NEW started \in Nat
  PROVE  /\ orderAcceptsResult(ord, started) => ord.status \in Open \/ SoftFinal(ord)
         /\ ~orderAcceptsResult(ord, started) =>
              ord.status \notin Open /\ (SoftFinal(ord) => started > ord.notAfter)
  BY DEF orderAcceptsResult, Order

LEMMA LinkedFacts ==
  ASSUME NEW ord \in Order, NEW r \in ResultIds, NEW d \in Devices \cup {None},
         NEW status \in {"done", "failed"}
  PROVE  LET b == Linked(ord, r, d, status) IN
         /\ b \in Order /\ b.type = ord.type /\ b.notAfter = ord.notAfter
         /\ b.status = status /\ b.closedBy = "phone" /\ b.measurement = r /\ b.result = r
         /\ d # None => b.device = d
  <1>1. Linked(ord, r, d, status) \in Order
    BY LinkedType
  <1> QED BY <1>1 DEF Linked, ClosedAs, Order

\* What an upload does to the two tables.
LEMMA UploadFacts ==
  ASSUME TypeOK, NEW r, NEW o, NEW d, NEW status, NEW started, Uploaded(r, o, d, status, started)
  PROVE  LET m == [order |-> o, device |-> d, status |-> status, started |-> started] IN
         /\ r \in ResultIds /\ measurements[r].order = "absent"
         /\ o \in OrderIds \/ o = None
         /\ o \in OrderIds => Exists(o) /\ ~IsReboot(o)
         /\ measurements' = [measurements EXCEPT ![r] = m]
         /\ \A p \in OrderIds :
              IF p = o /\ orderAcceptsResult(orders[o], started)
              THEN orders'[p] = Linked(orders[p], r, d, status)
              ELSE orders'[p] = orders[p]
  <1>1. None \notin OrderIds
    BY NamesAssumption
  <1> QED BY <1>1 DEF Uploaded, InsertProbeResult, TypeOK

\* An order that exists asks for something.
TypedRows == \A o \in OrderIds : Exists(o) => orders[o].type # "none"

LEMMA TypedNext == TypeOK /\ TypedRows /\ [Next]_vars => TypedRows'
  <1> SUFFICES ASSUME TypeOK, TypedRows, [Next]_vars, NEW o \in OrderIds
               PROVE  orders'[o].status # "none" => orders'[o].type # "none"
    BY DEF TypedRows, Exists
  <1>1. orders[o] \in Order
    BY DEF TypeOK
  <1>2. CASE measurements' = measurements /\ \A p \in OrderIds : Moved(orders[p], orders'[p])
    <2>1. Moved(orders[o], orders'[o])
      BY <1>2
    <2> QED BY <1>1, <2>1 DEF Moved, TypedRows, Exists, RebootReopen, Open, Waiting
  <1>3. ASSUME NEW r, NEW q, NEW d, NEW status, NEW started, Uploaded(r, q, d, status, started)
        PROVE  orders'[o].status # "none" => orders'[o].type # "none"
    <2>1. d \in Devices \cup {None} /\ status \in {"done", "failed"} /\ r \in ResultIds
      BY <1>3 DEF Uploaded
    <2>2. orders'[o] # orders[o] => o = q /\ Exists(o) /\ orders'[o] = Linked(orders[o], r, d, status)
      BY <1>3, UploadFacts
    <2>3. Linked(orders[o], r, d, status).type = orders[o].type
      BY <1>1, <2>1, LinkedFacts
    <2> QED BY <2>2, <2>3 DEF TypedRows, Exists
  <1> QED BY <1>2, <1>3, StepMoves

LEMMA LinkNext == TypeOK /\ TypedRows /\ LinkIntegrity /\ [Next]_vars => LinkIntegrity'
  <1> SUFFICES ASSUME TypeOK, TypedRows, LinkIntegrity, [Next]_vars PROVE LinkIntegrity'
    OBVIOUS
  <1>1. /\ \A o \in OrderIds : orders[o] \in Order /\ orders'[o] \in Order
        /\ \A r \in ResultIds : measurements[r] \in Measurement
    BY NextType DEF TypeOK
  <1>2. /\ \A o \in OrderIds : LinkAgrees(o) /\ MeasuredIfDone(o)
        /\ \A r \in ResultIds : NamesSpeedTest(r)
    BY DEF LinkIntegrity
  <1>3. CASE measurements' = measurements /\ \A p \in OrderIds : Moved(orders[p], orders'[p])
    <2>1. ASSUME NEW o \in OrderIds PROVE LinkAgrees(o)' /\ MeasuredIfDone(o)'
      <3> DEFINE a == orders[o]
                 b == orders'[o]
      <3>1. CASE b = a
        BY <1>2, <1>3, <3>1 DEF LinkAgrees, MeasuredIfDone
      <3>2. CASE Phase(b) = "waiting" /\ b.measurement = None
        BY <1>1, <3>2, PhaseFacts DEF LinkAgrees, MeasuredIfDone, Waiting
      <3>3. CASE /\ b.measurement = a.measurement /\ b.type = a.type
                 /\ a.status \in Open \/ RebootReopen(a)
                 /\ b.status \in {"done", "failed"} => a.type = "reboot_router"
        <4>1. a.measurement = None
          <5>1. a.measurement # None => a.type = "run_speedtest" /\ a.status \in {"done", "failed"}
            BY <1>2 DEF LinkAgrees
          <5> QED BY <3>3, <5>1 DEF RebootReopen, Open, Waiting
        <4> QED BY <3>3, <4>1 DEF LinkAgrees, MeasuredIfDone
      <3> QED BY <1>3, <3>1, <3>2, <3>3 DEF Moved
    <2>2. ASSUME NEW r \in ResultIds PROVE NamesSpeedTest(r)'
      <3>1. \A o \in OrderIds : Exists(o) /\ ~IsReboot(o) => Exists(o)' /\ ~IsReboot(o)'
        <4> SUFFICES ASSUME NEW o \in OrderIds, Exists(o), ~IsReboot(o)
                     PROVE  Exists(o)' /\ ~IsReboot(o)'
          OBVIOUS
        <4>1. Phase(orders'[o]) = "none" <=> orders'[o].status = "none"
          BY <1>1, PhaseFacts
        <4> QED BY <1>3, <4>1 DEF Moved, Exists, IsReboot
      <3> QED BY <1>2, <1>3, <3>1 DEF NamesSpeedTest
    <2> QED BY <2>1, <2>2 DEF LinkIntegrity
  <1>4. ASSUME NEW r, NEW o, NEW d, NEW status, NEW started, Uploaded(r, o, d, status, started)
        PROVE  LinkIntegrity'
    <2> DEFINE m == [order |-> o, device |-> d, status |-> status, started |-> started]
    <2>1. /\ r \in ResultIds /\ measurements[r].order = "absent"
          /\ o \in OrderIds \/ o = None
          /\ o \in OrderIds => Exists(o) /\ ~IsReboot(o)
          /\ measurements' = [measurements EXCEPT ![r] = m]
          /\ \A p \in OrderIds :
               IF p = o /\ orderAcceptsResult(orders[o], started)
               THEN orders'[p] = Linked(orders[p], r, d, status)
               ELSE orders'[p] = orders[p]
      BY <1>4, UploadFacts
    <2>2. /\ measurements'[r] = m
          /\ \A q \in ResultIds : q # r => measurements'[q] = measurements[q]
      BY <2>1 DEF TypeOK
    <2>3. /\ d \in Devices \cup {None} /\ status \in {"done", "failed"} /\ started \in Nat
      BY <1>4 DEF Uploaded
    <2>4. ASSUME NEW p \in OrderIds PROVE LinkAgrees(p)' /\ MeasuredIfDone(p)'
      <3>1. CASE p = o /\ orderAcceptsResult(orders[o], started)
        <4>1. LET b == orders'[p] IN
              /\ b.type = orders[p].type /\ b.status = status /\ b.closedBy = "phone"
              /\ b.measurement = r /\ b.result = r /\ (d # None => b.device = d)
          BY <1>1, <2>1, <2>3, <3>1, LinkedFacts
        <4>2. orders[p].type = "run_speedtest"
          <5>1. orders[p].type \in {"none", "run_speedtest", "reboot_router"}
            BY <1>1 DEF Order
          <5> QED BY <2>1, <3>1, <5>1 DEF TypedRows, IsReboot
        <4>3. r # None
          BY <2>1, NamesAssumption
        <4> QED BY <2>2, <2>3, <3>1, <4>1, <4>2, <4>3 DEF LinkAgrees, MeasuredIfDone
      <3>2. CASE ~(p = o /\ orderAcceptsResult(orders[o], started))
        <4>1. orders'[p] = orders[p]
          BY <2>1, <3>2
        <4>2. orders[p].measurement # r
          <5>1. p # "absent"
            BY NamesAssumption
          <5>2. r # None
            BY <2>1, NamesAssumption
          <5> QED BY <1>2, <2>1, <5>1, <5>2 DEF LinkAgrees
        <4>3. orders[p].measurement # None => orders[p].measurement \in ResultIds
          BY <1>1 DEF Order
        <4> QED BY <1>2, <2>2, <4>1, <4>2, <4>3 DEF LinkAgrees, MeasuredIfDone
      <3> QED BY <3>1, <3>2
    <2>5. ASSUME NEW q \in ResultIds PROVE NamesSpeedTest(q)'
      <3>1. \A p \in OrderIds : orders'[p].type = orders[p].type
                              /\ (Exists(p) => orders'[p].status # "none")
        BY <1>1, <2>1, <2>3, LinkedFacts DEF Exists
      <3>2. \A p \in OrderIds : Exists(p) /\ ~IsReboot(p) => Exists(p)' /\ ~IsReboot(p)'
        BY <3>1 DEF Exists, IsReboot
      <3>3. CASE q = r
        BY <2>1, <2>2, <3>2, <3>3 DEF NamesSpeedTest
      <3>4. CASE q # r
        BY <1>2, <2>2, <3>2, <3>4 DEF NamesSpeedTest
      <3> QED BY <3>3, <3>4
    <2> QED BY <2>4, <2>5 DEF LinkIntegrity
  <1> QED BY <1>3, <1>4, StepMoves

LEMMA LinkInit == Init => TypedRows /\ LinkIntegrity
  BY NamesAssumption DEF Init, TypedRows, Exists, LinkIntegrity, LinkAgrees, MeasuredIfDone,
     NamesSpeedTest, NoOrder, NoMeasurement

\* A speed test is done or failed exactly because of one measurement, and both
\* rows agree, whatever races the upload (InsertProbeResult).
THEOREM LinksAgree == Spec => []LinkIntegrity
  BY InitType, NextType, TypedNext, LinkInit, LinkNext, PTL DEF Spec

-----------------------------------------------------------------------------
(* No result is left out                                                   *)

LEMMA NoResultNext ==
  TypeOK /\ LinkIntegrity /\ NoResultLeftOut /\ [Next]_vars => NoResultLeftOut'
  <1> SUFFICES ASSUME TypeOK, LinkIntegrity, NoResultLeftOut, [Next]_vars,
                      NEW o \in OrderIds, NEW r \in ResultIds, measurements'[r].order = o
               PROVE  /\ orders'[o].status \notin Open
                      /\ SoftFinal(orders'[o]) => measurements'[r].started > orders'[o].notAfter
    BY DEF NoResultLeftOut
  <1> DEFINE a == orders[o]
             b == orders'[o]
  <1>1. a \in Order /\ b \in Order /\ measurements[r] \in Measurement
    BY NextType DEF TypeOK
  <1>2. measurements[r].order = o =>
          /\ a.status \notin Open
          /\ SoftFinal(a) => measurements[r].started > a.notAfter
          /\ a.status # "none" /\ a.type # "reboot_router"
    BY DEF NoResultLeftOut, LinkIntegrity, NamesSpeedTest, Exists, IsReboot
  <1>3. CASE measurements' = measurements /\ \A p \in OrderIds : Moved(orders[p], orders'[p])
    <2>1. b = a
      BY <1>2, <1>3 DEF Moved, RebootReopen
    <2> QED BY <1>2, <1>3, <2>1
  <1>4. ASSUME NEW q, NEW p, NEW d, NEW status, NEW started, Uploaded(q, p, d, status, started)
        PROVE  /\ b.status \notin Open
               /\ SoftFinal(b) => measurements'[r].started > b.notAfter
    <2> DEFINE m == [order |-> p, device |-> d, status |-> status, started |-> started]
    <2>1. /\ q \in ResultIds
          /\ measurements' = [measurements EXCEPT ![q] = m]
          /\ IF o = p /\ orderAcceptsResult(orders[p], started)
             THEN b = Linked(a, q, d, status)
             ELSE b = a
      BY <1>4, UploadFacts
    <2>2. /\ measurements'[q] = m
          /\ r # q => measurements'[r] = measurements[r]
      BY <2>1 DEF TypeOK
    <2>3. d \in Devices \cup {None} /\ status \in {"done", "failed"} /\ started \in Nat
      BY <1>4 DEF Uploaded
    <2>4. CASE o = p /\ orderAcceptsResult(orders[p], started)
      <3>1. b.status = status
        BY <1>1, <2>1, <2>3, <2>4, LinkedFacts
      <3> QED BY <2>3, <3>1 DEF Open, Waiting, SoftFinal
    <2>5. CASE ~(o = p /\ orderAcceptsResult(orders[p], started))
      <3>1. b = a
        BY <2>1, <2>5
      <3>2. CASE r = q
        <4>1. o = p /\ ~orderAcceptsResult(a, started) /\ measurements'[r].started = started
          BY <2>2, <2>5, <3>2
        <4> QED BY <1>1, <2>3, <3>1, <4>1, AcceptsFacts
      <3>3. CASE r # q
        BY <1>2, <2>2, <3>1, <3>3
      <3> QED BY <3>2, <3>3
    <2> QED BY <2>4, <2>5
  <1> QED BY <1>3, <1>4, StepMoves

LEMMA NoResultInit == Init => NoResultLeftOut
  BY NamesAssumption DEF Init, NoResultLeftOut, NoMeasurement

\* While a speed test is open, or closed by the sweep, no result that started
\* in time has been uploaded for it without closing it.
THEOREM NothingLeftOut == Spec => []NoResultLeftOut
  BY InitType, NextType, TypedNext, LinkInit, LinkNext, NoResultInit, NoResultNext, PTL DEF Spec

-----------------------------------------------------------------------------
(* Final is final                                                          *)

LEMMA FinalNext ==
  ASSUME TypeOK, [Next]_vars, NEW o \in OrderIds,
         \/ orders[o].status \in Closed /\ orders[o].closedBy = "phone"
         \/ orders[o].status = "cancelled" /\ ~IsReboot(o)
  PROVE  orders'[o] = orders[o]
  <1>1. orders[o] \in Order /\ orders'[o] \in Order
    BY NextType DEF TypeOK
  <1>2. orders[o].status \notin Open \cup {"none"} /\ ~SoftFinal(orders[o]) /\ ~RebootReopen(orders[o])
    BY DEF Open, Waiting, Closed, SoftFinal, RebootReopen, IsReboot
  <1>3. CASE measurements' = measurements /\ \A p \in OrderIds : Moved(orders[p], orders'[p])
    BY <1>2, <1>3 DEF Moved
  <1>4. ASSUME NEW r, NEW q, NEW d, NEW status, NEW started, Uploaded(r, q, d, status, started)
        PROVE  orders'[o] = orders[o]
    <2>1. started \in Nat
      BY <1>4 DEF Uploaded
    <2> QED BY <1>1, <1>2, <1>4, <2>1, UploadFacts, AcceptsFacts
  <1> QED BY <1>3, <1>4, StepMoves

\* No call changes an order the phone closed, or a cancelled speed test.
THEOREM FinalStays == Spec => HardFinalIsFinal
  <1>1. TypeOK /\ [Next]_vars =>
          [\A o \in OrderIds :
             \/ orders[o].status \in Closed /\ orders[o].closedBy = "phone"
             \/ orders[o].status = "cancelled" /\ ~IsReboot(o)
             => orders'[o] = orders[o]]_vars
    BY FinalNext
  <1> QED BY <1>1, TypeCorrect, PTL DEF Spec, HardFinalIsFinal

-----------------------------------------------------------------------------
(* Never two reboots in a row                                              *)

\* The row does not enter the queue of a router, nor start a reboot that was
\* not waiting: any row but a new reboot or one taken up again.
Quiet(a, b) ==
  b.type = "reboot_router" /\ b.status \in Open =>
    /\ a.type = "reboot_router" /\ a.device = b.device /\ a.status \in Open
    /\ b.status \in Waiting => a.status \in Waiting

LEMMA QuietKeeps ==
  ASSUME OneRebootQueued, \A o \in OrderIds : Quiet(orders[o], orders'[o])
  PROVE  OneRebootQueued'
  BY DEF OneRebootQueued, Quiet, IsReboot, Open, Waiting

LEMMA ClosedAsQuiet ==
  ASSUME NEW a, NEW ord \in Order, NEW status \in Closed, NEW by, NEW error
  PROVE  Quiet(a, ClosedAs(ord, status, by, error))
  <1>1. ClosedAs(ord, status, by, error).status = status
    BY DEF ClosedAs, Order
  <1> QED BY <1>1 DEF Quiet, Open, Waiting, Closed

LEMMA WithProgressFacts ==
  ASSUME NEW b \in Order, NEW u
  PROVE  LET c == WithProgress(b, u) IN
         c.type = b.type /\ c.device = b.device /\ c.status = b.status
  BY DEF WithProgress, Order

LEMMA SweptQuiet ==
  ASSUME NEW a \in Order
  PROVE  Quiet(a, Expired(a)) /\ Quiet(a, Interrupted(a)) /\ Quiet(a, Interrupted(Expired(a)))
  <1>1. Quiet(a, a)
    BY DEF Quiet
  <1>2. Expired(a) \in Order
    BY SweptType
  <1> QED BY <1>1, <1>2, ClosedAsQuiet DEF Expired, Interrupted, Closed

LEMMA DeliveredQuiet ==
  ASSUME NEW a \in Order, a.status \in Waiting
  PROVE  Quiet(a, Delivered(a))
  BY DEF Quiet, Delivered, Order, Open

LEMMA CancelDuplicatesQuiet ==
  ASSUME orders \in [OrderIds -> Order], NEW o \in OrderIds, NEW ord \in Order
  PROVE  /\ CancelDuplicates(o, ord)[o] = ord
         /\ \A p \in OrderIds : p # o => Quiet(orders[p], CancelDuplicates(o, ord)[p])
         /\ \A p \in OrderIds : LET b == CancelDuplicates(o, ord)[p] IN
              p # o /\ b.type = "reboot_router" /\ b.device = ord.device => b.status \notin Waiting
  <1>1. \A p \in OrderIds : /\ Quiet(orders[p], orders[p])
                            /\ Quiet(orders[p], ClosedAs(orders[p], "cancelled", "server", "other"))
    BY ClosedAsQuiet DEF Quiet, Closed
  <1>2. \A p \in OrderIds : ClosedAs(orders[p], "cancelled", "server", "other").status = "cancelled"
    BY DEF ClosedAs, Order
  <1> QED BY <1>1, <1>2 DEF CancelDuplicates, IsReboot, Waiting

\* A reboot that starts, alone or over the others that wait for its router.
LEMMA StartKeepsQueue ==
  ASSUME TypeOK, OneRebootQueued, NEW o \in OrderIds, NEW ord \in Order,
         ord.status = "running", ord.type = "reboot_router", ord.device = orders[o].device,
         orders' = CancelDuplicates(o, ord)
  PROVE  OneRebootQueued'
  <1> SUFFICES ASSUME NEW p \in OrderIds, NEW q \in OrderIds, p # q,
                      orders'[p].type = "reboot_router", orders'[q].type = "reboot_router",
                      orders'[p].device = orders'[q].device, orders'[p].status \in Waiting,
                      orders'[q].status \in Open
               PROVE  FALSE
    BY DEF OneRebootQueued, IsReboot
  <1>1. orders'[o] = ord
    BY CancelDuplicatesQuiet DEF TypeOK
  <1>2. p # o
    BY <1>1 DEF Waiting
  <1>3. q # o
    BY <1>1, <1>2, CancelDuplicatesQuiet DEF TypeOK
  <1>4. Quiet(orders[p], orders'[p]) /\ Quiet(orders[q], orders'[q])
    BY <1>2, <1>3, CancelDuplicatesQuiet DEF TypeOK
  <1> QED BY <1>4 DEF Quiet, OneRebootQueued, IsReboot, Open

LEMMA StateQueue ==
  ASSUME TypeOK, OneRebootQueued, NEW o \in OrderIds, NEW u \in StateUpdates(o),
         SetPhoneOrderState(o, u)
  PROVE  OneRebootQueued'
  <1> DEFINE ord == orders[o]
             started == WithProgress(Started(ord, u.result), u)
  <1>1. /\ u \in Update /\ ord \in Order /\ now \in Nat
        /\ u.result \in ResultIds \cup {None} /\ u.error \in Errors
        /\ orders \in [OrderIds -> Order]
    BY StateUpdatesType DEF TypeOK, Update
  <1>2. /\ Started(ord, u.result) \in Order /\ started \in Order
        /\ started.status = "running" /\ started.type = ord.type /\ started.device = ord.device
    <2>1. Started(ord, u.result) \in Order /\ started \in Order
      BY <1>1, StartedType, WithProgressType
    <2>2. LET s == Started(ord, u.result) IN
          s.status = "running" /\ s.type = ord.type /\ s.device = ord.device
      BY <1>1 DEF Started, Order
    <2> QED BY <2>1, <2>2, WithProgressFacts
  <1>3. \A a : Quiet(a, a)
    BY DEF Quiet
  <1>4. ASSUME NEW b \in Order, Quiet(ord, b),
               orders' = [orders EXCEPT ![o] = WithProgress(b, u)] \/ orders' = [orders EXCEPT ![o] = b]
        PROVE  OneRebootQueued'
    <2>1. Quiet(ord, WithProgress(b, u))
      BY <1>4, WithProgressFacts DEF Quiet
    <2> QED BY <1>1, <1>3, <1>4, <2>1, QuietKeeps
  <1>5. CASE StateClose(o, u)
    <2>1. u.status \in Closed
      BY <1>5 DEF StateClose, Closes, Closed
    <2>2. /\ ClosedAs(ord, u.status, "phone", u.error) \in Order
          /\ Quiet(ord, ClosedAs(ord, u.status, "phone", u.error))
      BY <1>1, <2>1, ClosedAsType, ClosedAsQuiet
    <2> QED BY <1>4, <1>5, <2>2 DEF StateClose, Closes
  <1>6. CASE StateReopen(o, u)
    BY <1>2, <1>6, StartKeepsQueue DEF StateReopen, Reopens, RebootReopen
  <1>7. CASE StateProgress(o, u)
    <2>1. [ord EXCEPT !.updated = now] \in Order /\ Quiet(ord, [ord EXCEPT !.updated = now])
      BY <1>1 DEF Order, Quiet
    <2> QED BY <1>4, <1>7, <2>1 DEF StateProgress, Progresses
  <1>8. CASE StateAdvance(o, u)
    <2>1. ord.status \in Open /\ u.status \in phoneTransitions[ord.status]
      BY <1>8 DEF StateAdvance, Advances
    <2>2. /\ u.status \in {"delivered", "running", "interrupted", "expired"}
          /\ u.status \in {"delivered", "running"} => ord.status \in Waiting
      BY <2>1 DEF phoneTransitions, Open, Waiting
    <2>3. CASE u.status = "delivered"
      <3>1. Delivered(ord) \in Order /\ Quiet(ord, Delivered(ord))
        BY <1>1, <2>2, <2>3, DeliveredType, DeliveredQuiet
      <3> QED BY <1>4, <1>8, <2>3, <3>1 DEF StateAdvance, Advances
    <2>4. CASE u.status = "running" /\ IsReboot(o)
      BY <1>2, <1>8, <2>4, StartKeepsQueue DEF StateAdvance, Advances, IsReboot
    <2>5. CASE u.status = "running" /\ ~IsReboot(o)
      <3>1. Started(ord, u.result).type # "reboot_router"
        BY <1>1, <2>5 DEF Started, Order, IsReboot
      <3>2. Quiet(ord, Started(ord, u.result))
        BY <3>1 DEF Quiet
      <3> QED BY <1>2, <1>4, <1>8, <2>5, <3>2 DEF StateAdvance, Advances
    <2>6. CASE u.status \in {"interrupted", "expired"}
      <3>1. /\ ClosedAs(ord, u.status, "phone", u.error) \in Order
            /\ Quiet(ord, ClosedAs(ord, u.status, "phone", u.error))
        BY <1>1, <2>6, ClosedAsType, ClosedAsQuiet DEF Closed
      <3> QED BY <1>4, <1>8, <2>6, <3>1 DEF StateAdvance, Advances
    <2> QED BY <2>2, <2>3, <2>4, <2>5, <2>6
  <1> QED BY <1>5, <1>6, <1>7, <1>8 DEF SetPhoneOrderState

\* The sweep leaves no reboot of the router queued that could still hide from
\* rebootOpenCond: what it keeps in the queue or running, the check sees.
LEMMA SweptIsOpen ==
  ASSUME TypeOK, NEW p \in OrderIds, SweptOrders[p].type = "reboot_router",
         SweptOrders[p].status \in Open
  PROVE  RebootOpen(SweptOrders[p])
  <1>1. orders[p] \in Order /\ Expired(orders[p]) \in Order /\ now \in Nat
    BY SweptType DEF TypeOK
  <1>2. SweptOrders[p] = Interrupted(Expired(orders[p]))
    BY DEF SweptOrders
  <1>3. \A x \in Order : /\ ClosedAs(x, "expired", "server", "other").status = "expired"
                         /\ ClosedAs(x, "interrupted", "server", "other").status = "interrupted"
    BY DEF ClosedAs, Order
  <1>4. Expired(orders[p]).status \in Waiting => Expired(orders[p]).notAfter >= now
    BY <1>1, <1>3 DEF Expired, Waiting, Order
  <1>5. SweptOrders[p] = Expired(orders[p])
    BY <1>1, <1>2, <1>3 DEF Interrupted, Open, Waiting
  <1>6. Expired(orders[p]).status = "running" => Expired(orders[p]).updated + RunningStale >= now
    BY <1>1, <1>2, <1>3, <1>5, TimesAssumption DEF Interrupted, Order, Open, Waiting
  <1> QED BY <1>4, <1>5, <1>6 DEF RebootOpen, Open

LEMMA QueueNext == TypeOK /\ OneRebootQueued /\ [Next]_vars => OneRebootQueued'
  <1> SUFFICES ASSUME TypeOK, OneRebootQueued, [Next]_vars PROVE OneRebootQueued'
    OBVIOUS
  <1> USE TimesAssumption
  <1>1. /\ now \in Nat /\ orders \in [OrderIds -> Order]
        /\ \A p \in OrderIds : orders[p] \in Order
    BY DEF TypeOK
  <1>2. \A a : Quiet(a, a)
    BY DEF Quiet
  <1>3. \A a, d, t : Quiet(a, NewOrder("run_speedtest", d, t))
    BY DEF Quiet, NewOrder, NoOrder
  <1>4. ASSUME NEW batch \in SUBSET OrderIds,
               NEW device \in [batch -> Devices \cup {ProbeDevice}], NEW window \in [batch -> Windows],
               CreatePhoneOrders(batch, device, window)
        PROVE  OneRebootQueued'
    BY <1>2, <1>3, <1>4, QuietKeeps DEF CreatePhoneOrders
  <1>5. ASSUME NEW o \in OrderIds, NEW d \in Devices \cup {ProbeDevice}, NEW w \in Windows,
               createPhoneOrderForDevice(o, d, w)
        PROVE  OneRebootQueued'
    BY <1>1, <1>2, <1>3, <1>5, QuietKeeps DEF createPhoneOrderForDevice
  <1>6. ASSUME NEW o \in OrderIds, NEW d \in Devices, NEW force \in BOOLEAN,
               CreateRebootOrder(o, d, force)
        PROVE  OneRebootQueued'
    <2> SUFFICES ASSUME NEW p \in OrderIds, NEW q \in OrderIds, p # q,
                        orders'[p].type = "reboot_router", orders'[q].type = "reboot_router",
                        orders'[p].device = orders'[q].device, orders'[p].status \in Waiting,
                        orders'[q].status \in Open
                 PROVE  FALSE
      BY DEF OneRebootQueued, IsReboot
    <2>1. /\ orders'[o].device = d
          /\ \A x \in OrderIds : x # o => orders'[x] = SweptOrders[x]
      BY <1>1, <1>6 DEF CreateRebootOrder, SweptOrders, NewOrder, NoOrder
    <2>2. \A x \in OrderIds : x # o /\ orders'[x].type = "reboot_router" /\ orders'[x].device = d =>
                                orders'[x].status \notin Open
      BY <1>6, <2>1, SweptIsOpen DEF CreateRebootOrder
    <2>3. p # o /\ q # o
      BY <2>1, <2>2 DEF Open
    <2>4. Quiet(orders[p], orders'[p]) /\ Quiet(orders[q], orders'[q])
      BY <1>1, <2>1, <2>3, SweptQuiet DEF SweptOrders
    <2> QED BY <2>4 DEF Quiet, OneRebootQueued, IsReboot, Open
  <1>7. ASSUME NEW ids \in SUBSET OrderIds, AckPhoneOrders(ids) PROVE OneRebootQueued'
    BY <1>1, <1>2, <1>7, DeliveredQuiet, QuietKeeps DEF AckPhoneOrders, Waiting
  <1>8. ASSUME NEW o \in OrderIds, NEW u \in StateUpdates(o), SetPhoneOrderState(o, u)
        PROVE  OneRebootQueued'
    BY <1>8, StateQueue
  <1>9. ASSUME NEW r \in ResultIds, NEW o \in OrderIds \cup {None}, NEW d \in Devices \cup {None},
               NEW status \in {"done", "failed"}, NEW started \in 0..now,
               InsertProbeResult(r, o, d, status, started)
        PROVE  OneRebootQueued'
    <2>1. o \in OrderIds => Linked(orders[o], r, d, status).status = status
      BY <1>1, LinkedFacts
    <2>2. o \in OrderIds => Quiet(orders[o], Linked(orders[o], r, d, status))
      BY <2>1 DEF Quiet, Open, Waiting
    <2> QED BY <1>1, <1>2, <1>9, <2>2, QuietKeeps DEF InsertProbeResult
  <1>10. ASSUME NEW ids \in SUBSET OrderIds, CancelPhoneOrders(ids) PROVE OneRebootQueued'
    BY <1>1, <1>2, <1>10, ClosedAsQuiet, QuietKeeps DEF CancelPhoneOrders, Closed
  <1>11. ASSUME NEW to \in Runners, ChangeRunner(to) PROVE OneRebootQueued'
    BY <1>1, <1>2, <1>11, ClosedAsQuiet, QuietKeeps DEF ChangeRunner, Closed
  <1>12. CASE SweepExpires
    BY <1>1, <1>12, SweptQuiet, QuietKeeps DEF SweepExpires
  <1>13. CASE SweepInterrupts
    BY <1>1, <1>13, SweptQuiet, QuietKeeps DEF SweepInterrupts
  <1>18. CASE SweepPhoneOrders
    BY <1>1, <1>18, SweptQuiet, QuietKeeps DEF SweepPhoneOrders, SweptOrders
  <1>14. CASE Tick \/ UNCHANGED vars
    BY <1>2, <1>14, QuietKeeps DEF Tick, vars
  <1>15. CASE Creating
    BY <1>4, <1>5, <1>6, <1>15 DEF Creating
  <1>16. CASE Reporting
    BY <1>7, <1>8, <1>9, <1>16 DEF Reporting
  <1>17. CASE Administering
    BY <1>10, <1>11, <1>17 DEF Administering
  <1> QED BY <1>12, <1>13, <1>14, <1>15, <1>16, <1>17, <1>18 DEF Next

LEMMA QueueInit == Init => OneRebootQueued
  BY DEF Init, OneRebootQueued, IsReboot, NoOrder

\* Never two reboots in a row for a router: SweepPhoneOrders in front of
\* CreateRebootOrder and the duplicates cancelled in SetPhoneOrderState suffice.
THEOREM NeverTwoQueued == Spec => []OneRebootQueued
  BY InitType, NextType, QueueInit, QueueNext, PTL DEF Spec

-----------------------------------------------------------------------------
(* The store implements OrderLifecycle                                     *)

LEMMA AbsInit == Init => Abs!Init
  <1> SUFFICES ASSUME Init PROVE Abs!Init
    OBVIOUS
  <1>1. \A o \in OrderIds : /\ orders[o].type = "none" /\ orders[o].status = "none"
                            /\ orders[o].measurement = None /\ orders[o] \in Order
    BY InitType DEF Init, NoOrder, TypeOK
  <1>2. \A o \in OrderIds : Phase(orders[o]) = "none"
    BY <1>1, PhaseFacts
  <1> QED BY <1>1, <1>2 DEF Abs!Init

\* What the abstract automaton sees of one order before and after a step.
LEMMA AbsRow ==
  ASSUME TypeOK, TypedRows, LinkIntegrity, [Next]_vars, NEW o \in OrderIds
  PROVE  \/ Abs!Create(o) \/ Abs!Start(o) \/ Abs!GiveUp(o)
         \/ Abs!Report(o) \/ Abs!Measure(o) \/ Abs!Same(o)
  <1> DEFINE a == orders[o]
             b == orders'[o]
             Row == /\ [x \in OrderIds |-> orders[x].type][o] = a.type
                    /\ [x \in OrderIds |-> orders[x].type]'[o] = b.type
                    /\ [x \in OrderIds |-> Phase(orders[x])][o] = Phase(a)
                    /\ [x \in OrderIds |-> Phase(orders[x])]'[o] = Phase(b)
                    /\ [x \in OrderIds |-> orders[x].measurement][o] = a.measurement
                    /\ [x \in OrderIds |-> orders[x].measurement]'[o] = b.measurement
  <1>1. Row
    OBVIOUS
  <1>2. a \in Order /\ b \in Order
    BY NextType DEF TypeOK
  <1>3. b = a => Abs!Same(o)
    BY <1>1 DEF Abs!Same
  <1>4. CASE measurements' = measurements /\ \A p \in OrderIds : Moved(orders[p], orders'[p])
    <2>1. Moved(a, b)
      BY <1>4
    <2>2. CASE a.status = "none" /\ Phase(b) = "waiting" /\ b.measurement = None
               /\ b.type \in {"run_speedtest", "reboot_router"}
      <3>1. Phase(a) = "none"
        BY <1>2, <2>2, PhaseFacts
      <3> QED BY <1>1, <2>2, <3>1 DEF Abs!Create, Abs!Moves
    <2>3. CASE /\ b.type = a.type /\ b.measurement = a.measurement
               /\ a.status \in Open \/ RebootReopen(a)
               /\ Phase(b) # "none"
               /\ Phase(b) = "waiting" => Phase(a) = "waiting"
               /\ Phase(b) \in {"soft", "cancelled"} => Phase(a) \in {"waiting", "running"}
      <3>1. \/ Phase(a) \in {"waiting", "running"}
            \/ a.type = "reboot_router" /\ Phase(a) \in {"soft", "cancelled"}
        BY <1>2, <2>3, PhaseFacts DEF RebootReopen, Open
      <3>2. Phase(b) \in {"waiting", "running", "soft", "cancelled", "closed"}
        BY <1>2, <2>3, PhaseFacts
      <3>3. CASE Phase(b) = Phase(a)
        BY <1>1, <2>3, <3>3 DEF Abs!Same
      <3>4. CASE Phase(b) = "running" /\ Phase(a) # "running"
        BY <1>1, <2>3, <3>1, <3>4 DEF Abs!Start, Abs!Moves
      <3>5. CASE Phase(b) \in {"soft", "cancelled"}
        BY <1>1, <2>3, <3>5 DEF Abs!GiveUp, Abs!Moves
      <3>6. CASE Phase(b) = "closed"
        BY <1>1, <2>3, <3>1, <3>6 DEF Abs!Report, Abs!Moves
      <3> QED BY <2>3, <3>2, <3>3, <3>4, <3>5, <3>6
    <2> QED BY <1>3, <2>1, <2>2, <2>3 DEF Moved
  <1>5. ASSUME NEW r, NEW q, NEW d, NEW status, NEW started, Uploaded(r, q, d, status, started)
        PROVE  Abs!Measure(o) \/ Abs!Same(o)
    <2>1. /\ d \in Devices \cup {None} /\ status \in {"done", "failed"} /\ started \in Nat
          /\ r \in ResultIds
      BY <1>5 DEF Uploaded
    <2>2. CASE o = q /\ orderAcceptsResult(orders[q], started)
      <3>1. b = Linked(a, r, d, status) /\ Exists(o) /\ ~IsReboot(o)
        BY <1>5, <2>2, UploadFacts
      <3>2. /\ b.type = a.type /\ b.status = status /\ b.closedBy = "phone" /\ b.measurement = r
        BY <1>2, <2>1, <3>1, LinkedFacts
      <3>3. a.type = "run_speedtest"
        <4>1. a.type \in {"none", "run_speedtest", "reboot_router"}
          BY <1>2 DEF Order
        <4> QED BY <3>1, <4>1 DEF TypedRows, IsReboot
      <3>4. a.status \in Open \/ SoftFinal(a)
        BY <1>2, <2>1, <2>2, AcceptsFacts
      <3>5. Phase(a) \in {"waiting", "running", "soft"}
        BY <1>2, <3>4, PhaseFacts DEF Open
      <3>6. Phase(b) = "closed"
        <4>1. ~SoftFinal(b) /\ b.status \notin {"none", "running", "cancelled"} \cup Waiting
          BY <2>1, <3>2 DEF SoftFinal, Waiting
        <4> QED BY <1>2, <4>1, PhaseFacts
      <3>7. a.measurement = None
        <4>1. LinkAgrees(o)
          BY DEF LinkIntegrity
        <4> QED BY <3>4, <4>1 DEF LinkAgrees, Open, Waiting, SoftFinal
      <3> QED BY <1>1, <2>1, <3>2, <3>3, <3>5, <3>6, <3>7 DEF Abs!Measure, Abs!Moves
    <2>3. CASE ~(o = q /\ orderAcceptsResult(orders[q], started))
      <3>1. b = a
        BY <1>5, <2>3, UploadFacts
      <3> QED BY <1>3, <3>1
    <2> QED BY <2>2, <2>3
  <1> QED BY <1>4, <1>5, StepMoves

LEMMA AbsNext ==
  ASSUME TypeOK, TypedRows, LinkIntegrity, [Next]_vars
  PROVE  Abs!Next
  <1>1. \A o \in OrderIds : \/ Abs!Create(o) \/ Abs!Start(o) \/ Abs!GiveUp(o)
                            \/ Abs!Report(o) \/ Abs!Measure(o) \/ Abs!Same(o)
    BY AbsRow
  <1>2. LinkIntegrity'
    BY LinkNext
  <1>3. ASSUME NEW o \in OrderIds, NEW p \in OrderIds,
               orders'[o].measurement = orders'[p].measurement, orders'[o].measurement # None
        PROVE  o = p
    BY <1>2, <1>3 DEF LinkIntegrity, LinkAgrees
  <1> QED BY <1>1, <1>3 DEF Abs!Next

\* Every behaviour of the store is one the life cycle of the contract allows.
THEOREM Implements == Spec => ImplementsOrderLifecycle
  <1>1. TypeOK /\ TypedRows /\ LinkIntegrity /\ [Next]_vars => [Abs!Next]_(Abs!vars)
    BY AbsNext
  <1>2. Spec => [](TypeOK /\ TypedRows /\ LinkIntegrity)
    BY InitType, NextType, TypedNext, LinkInit, LinkNext, PTL DEF Spec
  <1> QED BY <1>1, <1>2, AbsInit, PTL DEF Spec, ImplementsOrderLifecycle, Abs!Spec

-----------------------------------------------------------------------------
(* What the phone may count on                                             *)

\* A row that the phone had no part in: of a new order, or closed, delivered or
\* cancelled without a word of it.
Gentle(a, b) ==
  \/ b = a
  \/ a.status = "none" /\ b.status = "pending" /\ b.closedBy = "none" /\ b.step = None /\ b.result = None
  \/ /\ a.status \in Open /\ b.type = a.type /\ b.step = a.step /\ b.result = a.result
     /\ \/ a.status \in Waiting /\ b.status \in Waiting /\ b.closedBy = a.closedBy
        \/ <<b.status, b.closedBy>> \in {<<"expired", "server">>, <<"interrupted", "server">>,
                                       <<"cancelled", "server">>, <<"cancelled", "dashboard">>}

LEMMA NewOrderGentle ==
  ASSUME NEW a, a.status = "none", NEW type, NEW device, NEW notAfter
  PROVE  Gentle(a, NewOrder(type, device, notAfter))
  BY DEF Gentle, NewOrder, NoOrder

LEMMA ClosedAsGentle ==
  ASSUME NEW ord \in Order, ord.status \in Open, NEW status, NEW by, NEW error,
         <<status, by>> \in {<<"expired", "server">>, <<"interrupted", "server">>,
                            <<"cancelled", "server">>, <<"cancelled", "dashboard">>}
  PROVE  Gentle(ord, ClosedAs(ord, status, by, error))
  <1>1. LET c == ClosedAs(ord, status, by, error) IN
        c.status = status /\ c.closedBy = by /\ c.type = ord.type /\ c.step = ord.step /\ c.result = ord.result
    BY DEF ClosedAs, Order
  <1> QED BY <1>1 DEF Gentle

LEMMA SweptGentle ==
  ASSUME NEW ord \in Order
  PROVE  /\ Gentle(ord, Expired(ord))
         /\ Gentle(ord, Interrupted(ord))
         /\ Gentle(ord, Interrupted(Expired(ord)))
  <1>1. Gentle(ord, ord)
    BY DEF Gentle
  <1>2. Gentle(ord, Expired(ord)) /\ Gentle(ord, Interrupted(ord))
    BY <1>1, ClosedAsGentle DEF Expired, Interrupted, Open
  <1>3. CASE Expired(ord) = ord
    BY <1>2, <1>3
  <1>4. CASE Expired(ord) = ClosedAs(ord, "expired", "server", "other")
    <2>1. Expired(ord).status = "expired"
      BY <1>4 DEF ClosedAs, Order
    <2>2. Interrupted(Expired(ord)) = Expired(ord)
      BY <2>1 DEF Interrupted
    <2> QED BY <1>2, <2>2
  <1> QED BY <1>2, <1>3, <1>4 DEF Expired

LEMMA DeliveredGentle ==
  ASSUME NEW ord \in Order, ord.status \in Waiting
  PROVE  Gentle(ord, Delivered(ord))
  <1>1. LET d == Delivered(ord) IN
        d.status = "delivered" /\ d.closedBy = ord.closedBy /\ d.type = ord.type
        /\ d.step = ord.step /\ d.result = ord.result
    BY DEF Delivered, Order
  <1> QED BY <1>1 DEF Gentle, Waiting, Open

\* What the backend does of its own accord, and an acknowledgement.
LEMMA GentleSteps ==
  ASSUME TypeOK,
         \/ Creating \/ Administering \/ SweepExpires \/ SweepInterrupts \/ SweepPhoneOrders \/ Tick
         \/ \E ids \in SUBSET OrderIds : AckPhoneOrders(ids)
  PROVE  \A o \in OrderIds : Gentle(orders[o], orders'[o])
  <1>0. \A o \in OrderIds : orders[o] \in Order /\ Gentle(orders[o], orders[o])
    BY DEF TypeOK, Gentle
  <1>1. ASSUME NEW batch \in SUBSET OrderIds,
               NEW device \in [batch -> Devices \cup {ProbeDevice}], NEW window \in [batch -> Windows],
               CreatePhoneOrders(batch, device, window)
        PROVE  \A o \in OrderIds : Gentle(orders[o], orders'[o])
    BY <1>0, <1>1, NewOrderGentle DEF CreatePhoneOrders, Exists
  <1>2. ASSUME NEW o \in OrderIds, NEW d \in Devices \cup {ProbeDevice}, NEW w \in Windows,
               createPhoneOrderForDevice(o, d, w)
        PROVE  \A p \in OrderIds : Gentle(orders[p], orders'[p])
    BY <1>0, <1>2, NewOrderGentle DEF createPhoneOrderForDevice, Exists, TypeOK
  <1>3. \A p \in OrderIds : Gentle(orders[p], SweptOrders[p])
    BY <1>0, SweptGentle DEF SweptOrders
  <1>4. ASSUME NEW o \in OrderIds, NEW d \in Devices, NEW force \in BOOLEAN, CreateRebootOrder(o, d, force)
        PROVE  \A p \in OrderIds : Gentle(orders[p], orders'[p])
    BY <1>0, <1>3, <1>4, NewOrderGentle DEF CreateRebootOrder, Exists, SweptOrders
  <1>5. ASSUME NEW ids \in SUBSET OrderIds, AckPhoneOrders(ids)
        PROVE  \A o \in OrderIds : Gentle(orders[o], orders'[o])
    BY <1>0, <1>5, DeliveredGentle DEF AckPhoneOrders, Waiting
  <1>6. ASSUME NEW ids \in SUBSET OrderIds, CancelPhoneOrders(ids)
        PROVE  \A o \in OrderIds : Gentle(orders[o], orders'[o])
    BY <1>0, <1>6, ClosedAsGentle DEF CancelPhoneOrders, Open
  <1>7. ASSUME NEW to \in Runners, ChangeRunner(to)
        PROVE  \A o \in OrderIds : Gentle(orders[o], orders'[o])
    BY <1>0, <1>7, ClosedAsGentle DEF ChangeRunner
  <1>8. CASE SweepExpires
    BY <1>0, <1>8, SweptGentle DEF SweepExpires
  <1>9. CASE SweepInterrupts
    BY <1>0, <1>9, SweptGentle DEF SweepInterrupts
  <1>10. CASE Tick
    BY <1>0, <1>10 DEF Tick
  <1>11. CASE Creating
    BY <1>1, <1>2, <1>4, <1>11 DEF Creating
  <1>12. CASE Administering
    BY <1>6, <1>7, <1>12 DEF Administering
  <1>13. CASE SweepPhoneOrders
    BY <1>3, <1>13 DEF SweepPhoneOrders
  <1> QED BY <1>5, <1>8, <1>9, <1>10, <1>11, <1>12, <1>13

\* A report of the phone, which never says "delivered", leaves a row that has been
\* told of: it waits no more, and its step is at most what it was told.
Told(a, b, u) == /\ a.status # "none" /\ b.status \in {"running"} \cup Closed
                 /\ b.type = a.type
                 /\ b.step = a.step \/ b.step = u.step
                 /\ b.result = a.result \/ b.result = u.result

LEMMA WithProgressTold ==
  ASSUME NEW ord \in Order, NEW u \in Update
  PROVE  LET c == WithProgress(ord, u) IN
         /\ c.type = ord.type /\ c.status = ord.status /\ c.result = ord.result
         /\ c.step = ord.step \/ c.step = u.step
  BY DEF WithProgress, Order

LEMMA StateTold ==
  ASSUME TypeOK, NEW o \in OrderIds, NEW u \in Update, u.status # "delivered", SetPhoneOrderState(o, u)
  PROVE  /\ Told(orders[o], orders'[o], u)
         /\ \A p \in OrderIds \ {o} : Gentle(orders[p], orders'[p])
  <1> DEFINE ord == orders[o]
             started == WithProgress(Started(ord, u.result), u)
  <1>1. /\ ord \in Order /\ now \in Nat /\ orders \in [OrderIds -> Order]
        /\ u.result \in ResultIds \cup {None} /\ u.error \in Errors
        /\ ord.status # "none"
    BY DEF TypeOK, Update, SetPhoneOrderState, Exists
  <1>2. \A p \in OrderIds : Gentle(orders[p], orders[p])
    BY DEF Gentle
  <1>3. ASSUME NEW b \in Order, orders' = [orders EXCEPT ![o] = WithProgress(b, u)],
               b.status \in {"running"} \cup Closed, b.type = ord.type, b.step = ord.step,
               b.result = ord.result \/ b.result = u.result
        PROVE  /\ Told(orders[o], orders'[o], u)
               /\ \A p \in OrderIds \ {o} : Gentle(orders[p], orders'[p])
    BY <1>1, <1>2, <1>3, WithProgressTold DEF Told
  <1>4. \A status \in Closed : LET c == ClosedAs(ord, status, "phone", u.error) IN
          /\ c \in Order /\ c.status = status
          /\ c.type = ord.type /\ c.step = ord.step /\ c.result = ord.result
    <2>1. \A status \in Closed : ClosedAs(ord, status, "phone", u.error) \in Order
      BY <1>1, ClosedAsType
    <2> QED BY <1>1, <2>1 DEF ClosedAs, Order
  <1>5. /\ Started(ord, u.result) \in Order
        /\ LET s == Started(ord, u.result) IN
           s.status = "running" /\ s.type = ord.type /\ s.step = ord.step /\ s.result = u.result
    BY <1>1, StartedType DEF Started, Order
  <1>6. ASSUME orders' = CancelDuplicates(o, started)
        PROVE  /\ Told(orders[o], orders'[o], u)
               /\ \A p \in OrderIds \ {o} : Gentle(orders[p], orders'[p])
    <2>1. Told(ord, started, u)
      BY <1>1, <1>5, WithProgressTold DEF Told
    <2>2. ASSUME NEW p \in OrderIds \ {o} PROVE Gentle(orders[p], orders'[p])
      BY <1>1, <1>2, <1>6, ClosedAsGentle DEF CancelDuplicates, Open
    <2> QED BY <1>6, <2>1, <2>2 DEF CancelDuplicates
  <1>7. CASE StateClose(o, u)
    <2>1. u.status \in Closed
      BY <1>7 DEF StateClose, Closes, Closed
    <2> QED BY <1>3, <1>4, <1>7, <2>1 DEF StateClose
  <1>8. CASE StateReopen(o, u)
    BY <1>6, <1>8 DEF StateReopen
  <1>9. CASE StateProgress(o, u)
    <2>1. LET b == [ord EXCEPT !.updated = now] IN
          /\ b \in Order /\ b.status = "running" /\ b.type = ord.type
          /\ b.step = ord.step /\ b.result = ord.result
      BY <1>1, <1>9 DEF Order, StateProgress, Progresses
    <2> QED BY <1>3, <1>9, <2>1 DEF StateProgress
  <1>10. CASE StateAdvance(o, u)
    <2>1. u.status \in {"running", "interrupted", "expired"}
      BY <1>10 DEF StateAdvance, Advances, phoneTransitions, Open, Waiting
    <2>2. CASE u.status = "running" /\ IsReboot(o)
      BY <1>6, <1>10, <2>2 DEF StateAdvance
    <2>3. CASE u.status = "running" /\ ~IsReboot(o)
      <3>1. WithProgress(Started(ord, u.result), u) = Started(ord, u.result)
        BY <1>5, <2>3 DEF WithProgress, IsReboot
      <3> QED BY <1>3, <1>5, <1>10, <2>3, <3>1 DEF StateAdvance
    <2>4. CASE u.status \in {"interrupted", "expired"}
      BY <1>3, <1>4, <1>10, <2>4 DEF StateAdvance, Closed
    <2> QED BY <2>1, <2>2, <2>3, <2>4
  <1> QED BY <1>7, <1>8, <1>9, <1>10 DEF SetPhoneOrderState

\* A result changes at most the row of its order, which is of a speed test, and
\* closes it with its own outcome.
LEMMA UploadTold ==
  ASSUME TypeOK, NEW r \in ResultIds, NEW o \in OrderIds \cup {None}, NEW d \in Devices \cup {None},
         NEW status \in {"done", "failed"}, NEW started, InsertProbeResult(r, o, d, status, started)
  PROVE  \A p \in OrderIds :
           \/ orders'[p] = orders[p]
           \/ /\ p = o /\ orders[p].status # "none" /\ orders[p].type # "reboot_router"
              /\ orders'[p].type = orders[p].type /\ orders'[p].step = orders[p].step
              /\ orders'[p].status = status /\ orders'[p].closedBy = "phone"
  <1> SUFFICES ASSUME NEW p \in OrderIds, orders'[p] # orders[p]
      PROVE  /\ p = o /\ orders[p].status # "none" /\ orders[p].type # "reboot_router"
             /\ orders'[p].type = orders[p].type /\ orders'[p].step = orders[p].step
             /\ orders'[p].status = status /\ orders'[p].closedBy = "phone"
    OBVIOUS
  <1>1. orders \in [OrderIds -> Order]
    BY DEF TypeOK
  <1>2. o = p /\ o # None /\ orders'[p] = Linked(orders[p], r, d, status)
    BY <1>1 DEF InsertProbeResult
  <1>3. LET l == Linked(orders[p], r, d, status) IN
        l.status = status /\ l.type = orders[p].type /\ l.step = orders[p].step /\ l.closedBy = "phone"
    BY <1>1 DEF Linked, ClosedAs, Order
  <1> QED BY <1>2, <1>3 DEF InsertProbeResult, Exists, IsReboot

-----------------------------------------------------------------------------
(* Who closed a row                                                        *)

RowClosed(ord) ==
  /\ ord.status \in Open \cup {"none"} <=> ord.closedBy = "none"
  /\ ord.closedBy \in {"server", "dashboard"} => ord.status \in {"expired", "interrupted", "cancelled"}
  /\ ord.closedBy = "dashboard" => ord.status = "cancelled"

LEMMA GentleClosed ==
  ASSUME NEW a \in Order, NEW b \in Order, RowClosed(a), Gentle(a, b)
  PROVE  RowClosed(b)
  BY DEF RowClosed, Gentle, Open, Waiting

\* The row after a report that is not ignored: running, or closed as reported.
Taken(a, b, u) ==
  /\ a.status \in Open \/ RebootReopen(a)
  /\ \/ /\ u.status = "running" /\ b.status = "running"
        /\ \/ b.closedBy = "none"
           \/ a.status = "running" /\ b.closedBy = a.closedBy
     \/ /\ u.status \in Closed /\ b.status = u.status /\ b.closedBy = "phone" /\ b.error = u.error
        /\ u.status = "expired" => a.status \in Waiting
        /\ a.type = "reboot_router" => b.sshOk = IF u.ssh = None THEN a.sshOk ELSE u.ssh

LEMMA StateTaken ==
  ASSUME TypeOK, NEW o \in OrderIds, NEW u \in Update, u.status # "delivered", SetPhoneOrderState(o, u)
  PROVE  Taken(orders[o], orders'[o], u)
  <1> DEFINE ord == orders[o]
  <1>1. /\ ord \in Order /\ now \in Nat /\ orders \in [OrderIds -> Order]
        /\ u.result \in ResultIds \cup {None} /\ u.error \in Errors
    BY DEF TypeOK, Update
  <1>2. ASSUME NEW b \in Order
        PROVE  LET c == WithProgress(b, u) IN
               /\ c.status = b.status /\ c.closedBy = b.closedBy /\ c.error = b.error
               /\ b.type = "reboot_router" => c.sshOk = IF u.ssh = None THEN b.sshOk ELSE u.ssh
    BY DEF WithProgress, Order
  <1>3. ASSUME u.status \in Closed, ord.status \in Open \/ RebootReopen(ord),
               u.status = "expired" => ord.status \in Waiting,
               orders' = [orders EXCEPT ![o] = WithProgress(ClosedAs(ord, u.status, "phone", u.error), u)]
        PROVE  Taken(orders[o], orders'[o], u)
    <2>1. LET c == ClosedAs(ord, u.status, "phone", u.error) IN
          /\ c \in Order /\ c.status = u.status /\ c.type = ord.type
          /\ c.closedBy = "phone" /\ c.error = u.error /\ c.sshOk = ord.sshOk
      <3>1. ClosedAs(ord, u.status, "phone", u.error) \in Order
        BY <1>1, <1>3, ClosedAsType
      <3> QED BY <1>1, <3>1 DEF ClosedAs, Order
    <2> QED BY <1>1, <1>2, <1>3, <2>1 DEF Taken
  <1>4. ASSUME u.status = "running", ord.status \in Open \/ RebootReopen(ord),
               \/ orders'[o] = WithProgress(Started(ord, u.result), u)
               \/ orders'[o] = Started(ord, u.result)
        PROVE  Taken(orders[o], orders'[o], u)
    <2>1. /\ Started(ord, u.result) \in Order
          /\ LET s == Started(ord, u.result) IN s.status = "running" /\ s.closedBy = "none"
      BY <1>1, StartedType DEF Started, Order
    <2> QED BY <1>2, <1>4, <2>1 DEF Taken
  <1>5. CASE StateClose(o, u)
    BY <1>3, <1>5 DEF StateClose, Closes, Closed
  <1>6. CASE StateReopen(o, u)
    BY <1>4, <1>6 DEF StateReopen, Reopens, CancelDuplicates
  <1>7. CASE StateProgress(o, u)
    <2>1. LET b == [ord EXCEPT !.updated = now] IN
          b \in Order /\ b.status = "running" /\ b.closedBy = ord.closedBy
      BY <1>1, <1>7 DEF Order, StateProgress, Progresses
    <2>2. orders'[o] = WithProgress([ord EXCEPT !.updated = now], u)
      BY <1>1, <1>7 DEF StateProgress
    <2>3. u.status = "running" /\ ord.status = "running" /\ orders'[o].status = "running"
          /\ orders'[o].closedBy = ord.closedBy
      BY <1>2, <1>7, <2>1, <2>2 DEF StateProgress, Progresses
    <2> QED BY <2>3 DEF Taken, Open
  <1>8. CASE StateAdvance(o, u)
    <2>1. /\ u.status \in {"running", "interrupted", "expired"} /\ ord.status \in Open
          /\ u.status = "expired" => ord.status \in Waiting
      BY <1>8 DEF StateAdvance, Advances, phoneTransitions, Open, Waiting
    <2>2. CASE u.status = "running"
      BY <1>1, <1>4, <1>8, <2>1, <2>2 DEF StateAdvance, CancelDuplicates
    <2>3. CASE u.status \in {"interrupted", "expired"}
      BY <1>3, <1>8, <2>1, <2>3 DEF StateAdvance, Closed
    <2> QED BY <2>1, <2>2, <2>3
  <1> QED BY <1>5, <1>6, <1>7, <1>8 DEF SetPhoneOrderState

\* A report that closes and is ignored finds the row closed, of a reboot by the
\* phone, unless it says that the order was never started.
LEMMA IgnoredMeans ==
  ASSUME NEW o \in OrderIds, NEW u, orders[o] \in Order, RowClosed(orders[o]), Ignored(o, u)
  PROVE  /\ u.status = "interrupted" => /\ orders[o].status \notin Open
                                        /\ IsReboot(o) /\ Exists(o) => orders[o].closedBy = "phone"
         /\ u.status \in {"done", "failed"} /\ IsReboot(o) /\ Exists(o) => orders[o].closedBy = "phone"
         /\ u.status = "expired" => orders[o].status \notin Waiting
  <1> DEFINE ord == orders[o]
  <1>1. ord.status \in Open => /\ "interrupted" \in phoneTransitions[ord.status]
                               /\ ord.status \in Waiting => "expired" \in phoneTransitions[ord.status]
    BY DEF Open, Waiting, phoneTransitions
  <1>2. u.status = "interrupted" => ord.status \notin Open
    BY <1>1 DEF Ignored, Advances
  <1>3. u.status = "expired" => ord.status \notin Waiting
    BY <1>1 DEF Ignored, Advances, Open
  <1>4. IsReboot(o) /\ u.status \in {"done", "failed", "interrupted"} => ord.status \notin Open /\ ~RebootReopen(ord)
    BY <1>2 DEF Ignored, Closes
  <1>5. IsReboot(o) /\ ~RebootReopen(ord) /\ ord.status \notin Open \cup {"none"} => ord.closedBy = "phone"
    BY DEF RowClosed, RebootReopen, SoftFinal, IsReboot, Order
  <1> QED BY <1>2, <1>3, <1>4, <1>5 DEF Exists

-----------------------------------------------------------------------------
(* The cooldown                                                            *)

\* A reboot whose command went out, as far as the phone said: it runs or ran,
\* and no close of it says the contrary.
Sent(ord) == ord.type = "reboot_router" /\ (ord.sshOk \/ ord.step = "sent")

SentKept(ord) ==
  Sent(ord) => /\ ord.status \in {"running", "done", "failed", "interrupted", "cancelled"}
               /\ ord.status = "failed" /\ ord.error = "not-sent" => ord.sshOk
               /\ ord.status = "interrupted" /\ ord.error = "not-started" => ord.sshOk

SentRowsKept == \A o \in OrderIds : SentKept(orders[o])

LEMMA ClosedAsSent ==
  ASSUME NEW a \in Order, SentKept(a), NEW status \in {"expired", "interrupted", "cancelled"}, NEW by,
         status = "expired" => a.status \in Waiting
  PROVE  SentKept(ClosedAs(a, status, by, "other"))
  <1>1. PICK b : b = ClosedAs(a, status, by, "other")
    OBVIOUS
  <1>2. /\ b.type = a.type /\ b.status = status /\ b.error = "other"
        /\ b.sshOk = a.sshOk /\ b.step = a.step
    BY <1>1 DEF ClosedAs, Order
  <1>3. SentKept(b)
    BY <1>2 DEF SentKept, Sent, Waiting
  <1> QED BY <1>1, <1>3

LEMMA SweptSent ==
  ASSUME NEW a \in Order, SentKept(a)
  PROVE  /\ SentKept(Expired(a)) /\ SentKept(Interrupted(a)) /\ SentKept(Interrupted(Expired(a)))
         /\ LET b == Interrupted(Expired(a)) IN
            /\ b.type = a.type /\ b.device = a.device /\ b.base = a.base
            /\ b.sshOk = a.sshOk /\ b.step = a.step
            /\ b.status = "cancelled" => a.status = "cancelled"
  <1>1. \A x \in Order : Expired(x) \in Order
    BY SweptType
  <1>2. \A x \in Order : SentKept(x) => SentKept(Expired(x)) /\ SentKept(Interrupted(x))
    BY ClosedAsSent DEF Expired, Interrupted
  <1>3. \A x \in Order : /\ Expired(x).type = x.type /\ Expired(x).device = x.device
                         /\ Expired(x).base = x.base /\ Expired(x).sshOk = x.sshOk
                         /\ Expired(x).step = x.step
                         /\ Expired(x).status = "cancelled" => x.status = "cancelled"
    BY DEF Expired, ClosedAs, Order
  <1>4. \A x \in Order : /\ Interrupted(x).type = x.type /\ Interrupted(x).device = x.device
                         /\ Interrupted(x).base = x.base /\ Interrupted(x).sshOk = x.sshOk
                         /\ Interrupted(x).step = x.step
                         /\ Interrupted(x).status = "cancelled" => x.status = "cancelled"
    BY DEF Interrupted, ClosedAs, Order
  <1> QED BY <1>1, <1>2, <1>3, <1>4

\* What the phone may say of a reboot: once it told of a step after the command
\* it does not say that the command never went out.
HonestReport(ord, u) ==
  /\ u.status \in {"delivered", "running", "expired", "interrupted", "done", "failed"}
  /\ u.status # "running" => u.step = None
  /\ u.status \in {"delivered", "expired"} => u.ssh = None
  /\ u.status \in {"delivered", "expired"} => u.error \in {"none", "other"}
  /\ u.status = "failed" => u.ssh \in {TRUE, FALSE}
  /\ u.status = "failed" /\ u.error = "not-sent" => u.ssh = TRUE \/ ord.step # "sent"
  /\ u.status = "interrupted" /\ u.error = "not-started" => ord.step # "sent"

LEMMA ReportsAreHonest ==
  ASSUME NEW ord, NEW u \in RebootUpdates(ord)
  PROVE  HonestReport(ord, u)
  <1>1. /\ HonestReport(ord, PhoneStateUpdate("delivered", None, "none", None, None))
        /\ HonestReport(ord, PhoneStateUpdate("expired", None, "other", None, None))
        /\ HonestReport(ord, PhoneStateUpdate("interrupted", None, "other", None, None))
        /\ HonestReport(ord, PhoneStateUpdate("done", None, "none", None, TRUE))
    BY DEF HonestReport, PhoneStateUpdate
  <1>2. \A step \in Steps : HonestReport(ord, PhoneStateUpdate("running", None, "none", step, None))
    BY DEF HonestReport, PhoneStateUpdate
  <1>3. \A ssh \in BOOLEAN : HonestReport(ord, PhoneStateUpdate("interrupted", None, "other", None, ssh))
    BY DEF HonestReport, PhoneStateUpdate
  <1>4. \A error \in {"not-sent", "other"} :
          HonestReport(ord, PhoneStateUpdate("failed", None, error, None, TRUE))
    BY DEF HonestReport, PhoneStateUpdate
  <1>5. ord.step # "sent" =>
          /\ HonestReport(ord, PhoneStateUpdate("failed", None, "not-sent", None, FALSE))
          /\ HonestReport(ord, PhoneStateUpdate("failed", None, "other", None, FALSE))
          /\ HonestReport(ord, PhoneStateUpdate("interrupted", None, "not-started", None, None))
    BY DEF HonestReport, PhoneStateUpdate
  <1> HIDE DEF HonestReport
  <1> QED BY <1>1, <1>2, <1>3, <1>4, <1>5 DEF RebootUpdates

Progressed(b, c, u) ==
  /\ c.type = b.type /\ c.status = b.status /\ c.error = b.error
  /\ b.type = "reboot_router" =>
       /\ c.step = IF u.step = None THEN b.step ELSE u.step
       /\ u.ssh = None => (c.sshOk <=> b.sshOk)
       /\ u.ssh = TRUE => c.sshOk
       /\ u.ssh = FALSE => ~c.sshOk

LEMMA WithProgressSent ==
  ASSUME NEW b \in Order, NEW u \in Update
  PROVE  Progressed(b, WithProgress(b, u), u)
  <1>1. PICK c : c = WithProgress(b, u)
    OBVIOUS
  <1> DEFINE step == IF u.step = None THEN b.step ELSE u.step
             ssh  == IF u.ssh = None THEN b.sshOk ELSE u.ssh
  <1>2. CASE b.type # "reboot_router"
    BY <1>2 DEF WithProgress, Progressed
  <1>3. CASE b.type = "reboot_router"
    <2>1. c = [b EXCEPT !.step = step, !.sshOk = ssh]
      BY <1>1, <1>3 DEF WithProgress
    <2>2. c.type = b.type /\ c.status = b.status /\ c.error = b.error /\ c.step = step /\ c.sshOk = ssh
      BY <2>1 DEF Order
    <2>3. /\ u.ssh = None => (c.sshOk <=> b.sshOk)
          /\ u.ssh = TRUE => c.sshOk
          /\ u.ssh = FALSE => ~c.sshOk
      BY <2>2, NamesAssumption
    <2>4. Progressed(b, c, u)
      BY <1>3, <2>2, <2>3, Zenon DEF Progressed
    <2> QED BY <1>1, <2>4
  <1> QED BY <1>2, <1>3

LEMMA StateSent ==
  ASSUME TypeOK, SentRowsKept, NEW o \in OrderIds, NEW u \in StateUpdates(o), SetPhoneOrderState(o, u)
  PROVE  SentRowsKept'
  <1> DEFINE ord == orders[o]
  <1>1. /\ u \in Update /\ ord \in Order /\ now \in Nat /\ SentKept(ord)
        /\ u.result \in ResultIds \cup {None} /\ u.error \in Errors
        /\ orders \in [OrderIds -> Order]
    BY StateUpdatesType DEF TypeOK, Update, SentRowsKept
  <1>2. IsReboot(o) => HonestReport(ord, u)
    BY ReportsAreHonest DEF StateUpdates
  <1>3. ASSUME NEW b \in Order, b.type # "reboot_router"
        PROVE  SentKept(b) /\ SentKept(WithProgress(b, u))
    <2>1. WithProgress(b, u).type = b.type
      BY <1>1, WithProgressSent DEF Progressed
    <2> QED BY <1>3, <2>1 DEF SentKept, Sent
  <1>4. ASSUME NEW b \in Order, b.status = "running"
        PROVE  SentKept(b) /\ SentKept(WithProgress(b, u))
    <2>1. WithProgress(b, u).status = b.status
      BY <1>1, WithProgressSent DEF Progressed
    <2> QED BY <1>4, <2>1 DEF SentKept
  <1>5. ASSUME u.status \in {"done", "failed", "interrupted", "expired"},
               u.status = "expired" => ord.status \in Waiting
        PROVE  SentKept(WithProgress(ClosedAs(ord, u.status, "phone", u.error), u))
    <2>1. PICK b : b = ClosedAs(ord, u.status, "phone", u.error)
      OBVIOUS
    <2>2. /\ b \in Order
          /\ b.type = ord.type /\ b.status = u.status /\ b.error = u.error
          /\ (b.sshOk <=> ord.sshOk) /\ b.step = ord.step
      <3>1. b \in Order
        BY <1>1, <1>5, <2>1, ClosedAsType DEF Closed
      <3> QED BY <1>1, <2>1, <3>1 DEF ClosedAs, Order
    <2>3. CASE ord.type # "reboot_router"
      BY <1>3, <2>1, <2>2, <2>3
    <2>4. CASE ord.type = "reboot_router"
      <3>1. HonestReport(ord, u)
        BY <1>2, <2>4 DEF IsReboot
      <3>2. PICK c : c = WithProgress(b, u)
        OBVIOUS
      <3>3. /\ c.type = "reboot_router" /\ c.status = u.status /\ c.error = u.error
            /\ c.step = ord.step
            /\ u.ssh = None => (c.sshOk <=> ord.sshOk)
            /\ u.ssh = TRUE => c.sshOk
            /\ u.ssh = FALSE => ~c.sshOk
        <4>1. Progressed(b, c, u)
          BY <1>1, <2>2, <3>2, WithProgressSent
        <4>2. u.step = None
          BY <1>5, <3>1 DEF HonestReport
        <4> QED BY <2>2, <2>4, <4>1, <4>2, Zenon DEF Progressed
      <3>4. CASE u.status = "expired"
        <4>1. ~Sent(ord)
          BY <1>1, <1>5, <3>4 DEF SentKept, Waiting
        <4>2. ~Sent(c)
          BY <2>4, <3>1, <3>3, <3>4, <4>1 DEF Sent, HonestReport
        <4> QED BY <2>1, <3>2, <4>2 DEF SentKept
      <3>5. CASE u.status # "expired"
        <4>1. u.status = "failed" /\ u.error = "not-sent" /\ Sent(c) => c.sshOk
          BY <3>1, <3>3 DEF Sent, HonestReport
        <4>2. u.status = "interrupted" /\ u.error = "not-started" /\ Sent(c) => c.sshOk
          BY <3>1, <3>3 DEF Sent, HonestReport
        <4>3. SentKept(c)
          BY <1>5, <3>3, <3>5, <4>1, <4>2 DEF SentKept
        <4> QED BY <2>1, <3>2, <4>3
      <3> QED BY <3>4, <3>5
    <2> QED BY <2>3, <2>4
  <1>6. /\ Started(ord, u.result) \in Order /\ Started(ord, u.result).status = "running"
        /\ Started(ord, u.result).type = ord.type
    <2>1. Started(ord, u.result) \in Order
      BY <1>1, StartedType
    <2> QED BY <1>1, <2>1 DEF Started, Order
  <1>7. ASSUME NEW b, SentKept(b), orders' = [orders EXCEPT ![o] = b] \/ orders' = CancelDuplicates(o, b)
        PROVE  SentRowsKept'
    <2>1. \A p \in OrderIds : SentKept(ClosedAs(orders[p], "cancelled", "server", "other"))
      BY <1>1, ClosedAsSent DEF SentRowsKept
    <2> QED BY <1>1, <1>7, <2>1 DEF SentRowsKept, CancelDuplicates
  <1>8. CASE StateClose(o, u)
    <2>1. u.status \in {"done", "failed", "interrupted"}
      BY <1>8 DEF StateClose, Closes
    <2> QED BY <1>5, <1>7, <1>8, <2>1 DEF StateClose
  <1>9. CASE StateReopen(o, u)
    BY <1>4, <1>6, <1>7, <1>9 DEF StateReopen
  <1>10. CASE StateProgress(o, u)
    <2>1. [ord EXCEPT !.updated = now] \in Order /\ [ord EXCEPT !.updated = now].status = "running"
      BY <1>1, <1>10 DEF Order, StateProgress, Progresses
    <2> QED BY <1>4, <1>7, <1>10, <2>1 DEF StateProgress
  <1>11. CASE StateAdvance(o, u)
    <2>1. /\ u.status \in {"delivered", "running", "interrupted", "expired"} /\ ord.status \in Open
          /\ u.status \in {"delivered", "expired"} => ord.status \in Waiting
      BY <1>11 DEF StateAdvance, Advances, phoneTransitions, Open, Waiting
    <2>2. CASE u.status = "delivered"
      <3>1. PICK b : b = Delivered(ord)
        OBVIOUS
      <3>2. /\ b \in Order /\ b.type = ord.type
            /\ (b.sshOk <=> ord.sshOk) /\ b.step = ord.step
        <4>1. b \in Order
          BY <1>1, <2>1, <2>2, <3>1, DeliveredType
        <4> QED BY <1>1, <3>1, <4>1 DEF Delivered, Order
      <3>3. SentKept(WithProgress(b, u))
        <4>1. CASE ord.type # "reboot_router"
          BY <1>3, <3>2, <4>1
        <4>2. CASE ord.type = "reboot_router"
          <5>1. HonestReport(ord, u)
            BY <1>2, <4>2 DEF IsReboot
          <5>2. ~Sent(ord)
            BY <1>1, <2>1, <2>2 DEF SentKept, Waiting
          <5>3. PICK c : c = WithProgress(b, u)
            OBVIOUS
          <5>4. c.type = ord.type /\ c.step = ord.step /\ (c.sshOk <=> ord.sshOk)
            <6>1. Progressed(b, c, u)
              BY <1>1, <3>2, <5>3, WithProgressSent
            <6>2. u.step = None /\ u.ssh = None
              BY <2>2, <5>1 DEF HonestReport
            <6> QED BY <3>2, <4>2, <6>1, <6>2, Zenon DEF Progressed
          <5>5. ~Sent(c)
            BY <5>2, <5>4 DEF Sent
          <5> QED BY <5>3, <5>5 DEF SentKept
        <4> QED BY <4>1, <4>2
      <3> QED BY <1>7, <1>11, <2>2, <3>1, <3>3 DEF StateAdvance
    <2>3. CASE u.status = "running"
      <3>1. SentKept(Started(ord, u.result)) /\ SentKept(WithProgress(Started(ord, u.result), u))
        BY <1>4, <1>6
      <3> QED BY <1>7, <1>11, <2>3, <3>1 DEF StateAdvance
    <2>4. CASE u.status \in {"interrupted", "expired"}
      BY <1>5, <1>7, <1>11, <2>1, <2>4 DEF StateAdvance
    <2> QED BY <2>1, <2>2, <2>3, <2>4
  <1> QED BY <1>8, <1>9, <1>10, <1>11 DEF SetPhoneOrderState

LEMMA SentNext == TypeOK /\ SentRowsKept /\ [Next]_vars => SentRowsKept'
  <1> SUFFICES ASSUME TypeOK, SentRowsKept, [Next]_vars PROVE SentRowsKept'
    OBVIOUS
  <1> USE NamesAssumption
  <1>1. /\ now \in Nat /\ orders \in [OrderIds -> Order]
        /\ \A p \in OrderIds : orders[p] \in Order /\ SentKept(orders[p])
    BY DEF TypeOK, SentRowsKept
  <1>2. ASSUME \A p \in OrderIds : SentKept(orders'[p]) PROVE SentRowsKept'
    BY <1>2 DEF SentRowsKept
  <1>3. \A type, d, t : SentKept(NewOrder(type, d, t))
    BY DEF SentKept, Sent, NewOrder, NoOrder
  <1>4. \A p \in OrderIds, by \in {"server", "dashboard"} :
          SentKept(ClosedAs(orders[p], "cancelled", by, "other"))
    BY <1>1, ClosedAsSent
  <1>5. \A p \in OrderIds : /\ SentKept(Expired(orders[p])) /\ SentKept(Interrupted(orders[p]))
                            /\ SentKept(SweptOrders[p])
    BY <1>1, SweptSent DEF SweptOrders
  <1>6. CASE Creating
    <2>1. ASSUME NEW batch \in SUBSET OrderIds,
                 NEW device \in [batch -> Devices \cup {ProbeDevice}], NEW window \in [batch -> Windows],
                 CreatePhoneOrders(batch, device, window)
          PROVE  SentRowsKept'
      BY <1>1, <1>2, <1>3, <2>1 DEF CreatePhoneOrders
    <2>2. ASSUME NEW o \in OrderIds, NEW d \in Devices \cup {ProbeDevice}, NEW w \in Windows,
                 createPhoneOrderForDevice(o, d, w)
          PROVE  SentRowsKept'
      BY <1>1, <1>2, <1>3, <2>2 DEF createPhoneOrderForDevice
    <2>3. ASSUME NEW o \in OrderIds, NEW d \in Devices, NEW force \in BOOLEAN,
                 CreateRebootOrder(o, d, force)
          PROVE  SentRowsKept'
      <3>1. orders' = [SweptOrders EXCEPT ![o] = NewOrder("reboot_router", d, now + RebootWindow)]
        BY <2>3 DEF CreateRebootOrder
      <3>2. \A p \in OrderIds : orders'[p] = SweptOrders[p]
                               \/ orders'[p] = NewOrder("reboot_router", d, now + RebootWindow)
        BY <3>1 DEF SweptOrders
      <3> QED BY <1>2, <1>3, <1>5, <3>2
    <2> QED BY <1>6, <2>1, <2>2, <2>3 DEF Creating
  <1>7. ASSUME NEW ids \in SUBSET OrderIds, AckPhoneOrders(ids) PROVE SentRowsKept'
    <2>1. ASSUME NEW p \in OrderIds, orders[p].status = "pending" PROVE SentKept(Delivered(orders[p]))
      <3>1. ~Sent(orders[p])
        BY <1>1, <2>1 DEF SentKept
      <3>2. ~Sent(Delivered(orders[p]))
        BY <1>1, <3>1 DEF Sent, Delivered, Order
      <3> QED BY <3>2 DEF SentKept
    <2> QED BY <1>1, <1>2, <1>7, <2>1 DEF AckPhoneOrders
  <1>8. ASSUME NEW o \in OrderIds, NEW u \in StateUpdates(o), SetPhoneOrderState(o, u)
        PROVE  SentRowsKept'
    BY <1>8, StateSent
  <1>9. ASSUME NEW r \in ResultIds, NEW o \in OrderIds \cup {None}, NEW d \in Devices \cup {None},
               NEW status \in {"done", "failed"}, NEW started \in 0..now,
               InsertProbeResult(r, o, d, status, started)
        PROVE  SentRowsKept'
    <2>1. o \in OrderIds /\ orders[o].type # "reboot_router" => SentKept(Linked(orders[o], r, d, status))
      BY <1>1 DEF SentKept, Sent, Linked, ClosedAs, Order
    <2> QED BY <1>1, <1>2, <1>9, <2>1 DEF InsertProbeResult, IsReboot
  <1>10. ASSUME NEW ids \in SUBSET OrderIds, CancelPhoneOrders(ids) PROVE SentRowsKept'
    BY <1>1, <1>2, <1>4, <1>10 DEF CancelPhoneOrders
  <1>11. ASSUME NEW to \in Runners, ChangeRunner(to) PROVE SentRowsKept'
    BY <1>1, <1>2, <1>4, <1>11 DEF ChangeRunner
  <1>12. CASE SweepExpires \/ SweepInterrupts \/ SweepPhoneOrders
    BY <1>2, <1>5, <1>12 DEF SweepExpires, SweepInterrupts, SweepPhoneOrders
  <1>13. CASE Tick \/ UNCHANGED vars
    BY <1>1, <1>2, <1>13 DEF Tick, vars
  <1>14. CASE Reporting
    BY <1>7, <1>8, <1>9, <1>14 DEF Reporting
  <1>15. CASE Administering
    BY <1>10, <1>11, <1>15 DEF Administering
  <1> QED BY <1>6, <1>12, <1>13, <1>14, <1>15 DEF Next

LEMMA SentInit == Init => SentRowsKept
  BY NamesAssumption DEF Init, SentRowsKept, SentKept, Sent, NoOrder

\* The reboot that is accepted meets no other within the cooldown: the sweep in
\* front of it may close one that was sent, but never as one that does not count.
LEMMA CooldownHolds ==
  ASSUME TypeOK, SentRowsKept, NEW o \in OrderIds, NEW p \in OrderIds, NEW d \in Devices,
         CreateRebootOrder(o, d, FALSE), IsReboot(p), orders[p].device = d,
         orders[p].status # "cancelled"
  PROVE  ~WithinCooldown(p)
  <1> SUFFICES ASSUME WithinCooldown(p) PROVE FALSE
    OBVIOUS
  <1> DEFINE b == SweptOrders[p]
  <1>1. orders[p] \in Order /\ SentKept(orders[p]) /\ Sent(orders[p])
    BY DEF TypeOK, SentRowsKept, Sent, WithinCooldown, IsReboot
  <1>2. /\ SentKept(b) /\ b.type = orders[p].type /\ b.device = d /\ b.base = orders[p].base
        /\ b.sshOk = orders[p].sshOk /\ b.step = orders[p].step /\ b.status # "cancelled"
    BY <1>1, SweptSent DEF SweptOrders
  <1>3. Sent(b)
    BY <1>1, <1>2 DEF Sent
  <1>4. CoolingDown(b)
    BY <1>2, <1>3 DEF CoolingDown, RebootCounts, SentKept, Sent, WithinCooldown
  <1> QED BY <1>2, <1>4 DEF CreateRebootOrder

\* Without force no reboot follows one that was sent within the cooldown, however
\* that one was closed: the server's sweep, the phone's own close, a report that
\* came late or out of turn; but for a change of runner, which cancels it.
THEOREM SentRebootsAreCovered == Spec => CooldownCoversSentReboots
  <1>1. TypeOK /\ SentRowsKept /\ [Next]_vars =>
          [\A o, p \in OrderIds, d \in Devices :
             /\ CreateRebootOrder(o, d, FALSE)
             /\ IsReboot(p) /\ orders[p].device = d /\ orders[p].status # "cancelled"
             => ~WithinCooldown(p)]_vars
    BY CooldownHolds
  <1> QED BY <1>1, InitType, NextType, SentInit, SentNext, PTL DEF Spec, CooldownCoversSentReboots
=============================================================================
