----------------------------- MODULE ProbePhone -----------------------------
(***************************************************************************)
(* The phone of a probe: its database (orders, outbox, results) and the    *)
(* two threads that share it, ProbeWorker (expires, picks and executes     *)
(* orders) and ProbeControl (asks for orders, acknowledges them, sends the *)
(* outbox and the results).  An action of the worker or of the control     *)
(* thread is one transaction of the database or one call that leaves the   *)
(* phone; between two of them the other thread, or a crash, may step in.   *)
(*                                                                         *)
(* Abstractions: only the orders of the server (origin = 'server'); all of *)
(* them within the horizon and due; t is the corrected clock (corrNow);    *)
(* the routes, the router and the test itself are their outcome.           *)
(*                                                                         *)
(* The steps of the control thread that call the backend take from their   *)
(* argument what it answered; ProbeSystem joins them to the backend's.     *)
(***************************************************************************)
EXTENDS Naturals, Sequences, FiniteSets, SequencesExt

CONSTANTS
  OrderIds,
  ResultIds,   \* the uuids the phone draws for its results
  None         \* NULL

\* What there is to tell of several orders at once makes a list.
ASSUME PhoneAssumption == IsFiniteSet(OrderIds)

VARIABLES
  local,       \* table orders: the order with each id (status "none": no row)
  outbox,      \* table outbox: the state reports to send, oldest first
  results,     \* table results
  worker,      \* where ProbeWorker is
  control,     \* where ProbeControl is
  commanded    \* the orders whose reboot command has left for the router

phoneVars == <<local, outbox, results, worker, control, commanded>>

Waits  == {"pending", "delivered"}                                 \* ProbeDb.OPEN
Closes == {"done", "failed", "expired", "interrupted", "cancelled"}

NoLocal  == [type |-> "none", notAfter |-> 0, status |-> "none",
             acked |-> FALSE, result |-> None, sshOk |-> FALSE]
NoResult == [sync |-> "none", order |-> None, status |-> "none", started |-> 0]
Idle     == [stage |-> "idle", order |-> None, result |-> None, attempt |-> 1, since |-> 0]

\* left: the rows of the outbox that the flush in course has yet to send.
Quiet    == [stage |-> "idle", left |-> 0, rows |-> <<>>, truncated |-> FALSE, closed |-> <<>>]

Reports == [order: OrderIds,
            status: {"running", "expired", "interrupted", "done", "failed"},
            result: ResultIds \cup {None},
            error: {"none", "not-sent", "not-started", "other"},
            step: {"before", "sent", None},
            ssh: BOOLEAN \cup {None}]

PhoneTypeOK ==
  /\ local \in [OrderIds -> [type: {"none", "run_speedtest", "reboot_router"},
                             notAfter: Nat, status: {"none", "running"} \cup Waits \cup Closes,
                             acked: BOOLEAN, result: ResultIds \cup {None}, sshOk: BOOLEAN]]
  /\ outbox \in Seq(Reports)
  /\ results \in [ResultIds -> [sync: {"none", "pending", "synced"}, order: OrderIds \cup {None},
                                status: {"none", "done", "failed"}, started: Nat]]
  /\ worker.stage \in {"recovering", "idle", "picking", "preparing", "testing",
                       "gateway", "ssh", "sent", "kept", "watching"}
  /\ control.stage \in {"idle", "listing", "answered", "acking", "flushing", "uploading"}
  /\ control.left \in 0..Len(outbox)
  /\ control.truncated \in BOOLEAN
  /\ commanded \subseteq OrderIds

PhoneInit == /\ local = [o \in OrderIds |-> NoLocal]
             /\ outbox = <<>>
             /\ results = [r \in ResultIds |-> NoResult]
             /\ worker = Idle
             /\ control = Quiet
             /\ commanded = {}

\* The body of a state report (stateBody, and the step and result of a reboot).
Report(o, status, result, error, step, ssh) ==
  [order |-> o, status |-> status, result |-> result, error |-> error, step |-> step, ssh |-> ssh]

\* casOrder, for an order closed without being executed.
ClosedOrder(ord, status) == IF ord.status \in Waits THEN [ord EXCEPT !.status = status] ELSE ord

HasResult(r) == r # None /\ results[r].sync # "none"
Fresh        == {r \in ResultIds : ~HasResult(r) /\ \A o \in OrderIds : local[o].result # r}

-----------------------------------------------------------------------------
(* ProbeWorker                                                             *)

\* What recover sends of an order that was running when the process died.
LostRun(o) ==
  Report(o, "interrupted", local[o].result, "other", None,
         IF local[o].type = "reboot_router" THEN local[o].sshOk ELSE None)

ToRecover == {o \in OrderIds : local[o].status = "running" /\ ~HasResult(local[o].result)}

Recover_Retries ==
  /\ worker.stage = "recovering"
  /\ local' = [o \in OrderIds |->
                 IF o \in ToRecover THEN [local[o] EXCEPT !.status = "pending"] ELSE local[o]]
  /\ worker' = Idle
  /\ UNCHANGED <<outbox, results, control, commanded>>

\* At the start of the process: what was running is not done again.
Recover ==
  /\ worker.stage = "recovering"
  /\ local' = [o \in OrderIds |->
                 IF o \in ToRecover THEN [local[o] EXCEPT !.status = "interrupted"] ELSE local[o]]
  /\ \E lost \in SetToSeqs({LostRun(o) : o \in ToRecover}) : outbox' = outbox \o lost
  /\ worker' = Idle
  /\ UNCHANGED <<results, control, commanded>>

\* A tick closes first what is past its deadline (expireDue) ...
Overdue(t) == {o \in OrderIds : local[o].status \in Waits /\ local[o].notAfter < t}

ExpireDue(t) ==
  /\ worker.stage = "idle"
  /\ local' = [o \in OrderIds |->
                 IF o \in Overdue(t) THEN ClosedOrder(local[o], "expired") ELSE local[o]]
  /\ \E expired \in SetToSeqs({Report(o, "expired", None, "other", None, None) : o \in Overdue(t)}) :
       outbox' = outbox \o expired
  /\ worker' = [Idle EXCEPT !.stage = "picking"]
  /\ UNCHANGED <<results, control, commanded>>

\* ... and takes then an order that waits: pick does not look at the deadline.
Pick(o, t) ==
  /\ worker.stage = "picking"
  /\ local[o].status \in Waits
  /\ worker' = [Idle EXCEPT !.stage = "preparing", !.order = o, !.since = t]
  /\ UNCHANGED <<local, outbox, results, control, commanded>>

\* Nothing to do; or a test without its network, or whose route the MikroTik
\* does not confirm: the order keeps waiting.
Rest ==
  /\ \/ worker.stage = "picking"
     \/ worker.stage = "preparing" /\ local[worker.order].type = "run_speedtest"
  /\ worker' = Idle
  /\ UNCHANGED <<local, outbox, results, control, commanded>>

\* The order asks for a router that is not one of the probe's.
UnknownSlot ==
  LET o == worker.order IN
  /\ worker.stage = "preparing"
  /\ local' = [local EXCEPT ![o] = ClosedOrder(@, "interrupted")]
  /\ outbox' = IF local[o].status \in Waits
               THEN Append(outbox, Report(o, "interrupted", None,
                                          IF local[o].type = "reboot_router" THEN "not-started" ELSE "other",
                                          None, None))
               ELSE outbox
  /\ worker' = Idle
  /\ UNCHANGED <<results, control, commanded>>

\* The route is confirmed: the order runs only if it still waits.
MarkRunning(r) ==
  LET o == worker.order IN
  /\ worker.stage = "preparing"
  /\ local[o].type = "run_speedtest"
  /\ IF local[o].status \in Waits
     THEN /\ local' = [local EXCEPT ![o].status = "running", ![o].result = r]
          /\ outbox' = Append(outbox, Report(o, "running", r, "none", None, None))
          /\ worker' = [worker EXCEPT !.stage = "testing", !.result = r]
     ELSE worker' = Idle /\ UNCHANGED <<local, outbox>>
  /\ UNCHANGED <<results, control, commanded>>

Measured(o, status, started) ==
  [sync |-> "pending", order |-> o, status |-> status, started |-> started]

\* The router has no Internet: the failed attempt is kept without its order, the
\* order gets the result_id of the attempt with the other router.
FallBack(r) ==
  /\ worker.stage = "testing" /\ worker.attempt = 1
  /\ results' = [results EXCEPT ![worker.result] = Measured(None, "failed", worker.since)]
  /\ local' = [local EXCEPT ![worker.order].result = r]
  /\ worker' = [worker EXCEPT !.result = r, !.attempt = 2]
  /\ UNCHANGED <<outbox, control, commanded>>

\* storeFinal: the result and the close of the order are one transaction.
StoreFinal(status, t) ==
  /\ worker.stage = "testing"
  /\ \E started \in worker.since..t :
       results' = [results EXCEPT ![worker.result] = Measured(worker.order, status, started)]
  /\ local' = [local EXCEPT ![worker.order].status = status]
  /\ worker' = Idle
  /\ UNCHANGED <<outbox, control, commanded>>

\* Somebody stops the probe, or the test fails and cannot be stored.
BreakOff ==
  LET o == worker.order IN
  /\ worker.stage \in {"testing", "gateway", "ssh", "watching"}
  /\ local' = [local EXCEPT ![o].status = "interrupted"]
  /\ outbox' = Append(outbox, Report(o, "interrupted", worker.result, "other", None,
                                     IF worker.stage = "watching" THEN TRUE ELSE None))
  /\ worker' = Idle
  /\ UNCHANGED <<results, control, commanded>>

StartReboot ==
  LET o == worker.order IN
  /\ worker.stage = "preparing"
  /\ local[o].type = "reboot_router"
  /\ IF local[o].status \in Waits
     THEN /\ local' = [local EXCEPT ![o].status = "running"]
          /\ outbox' = Append(outbox, Report(o, "running", None, "none", "before", None))
          /\ worker' = [worker EXCEPT !.stage = "gateway"]
     ELSE worker' = Idle /\ UNCHANGED <<local, outbox>>
  /\ UNCHANGED <<results, control, commanded>>

CloseReboot_NoResult(status, error, ssh) ==
  /\ local' = [local EXCEPT ![worker.order].status = status, ![worker.order].sshOk = ssh]
  /\ outbox' = Append(outbox, Report(worker.order, status, None, error, None, None))
  /\ worker' = Idle
  /\ UNCHANGED <<results, control, commanded>>

\* closeReboot, with the ssh_ok of its result.
CloseReboot(status, error, ssh) ==
  /\ local' = [local EXCEPT ![worker.order].status = status, ![worker.order].sshOk = ssh]
  /\ outbox' = Append(outbox, Report(worker.order, status, None, error, None, ssh))
  /\ worker' = Idle
  /\ UNCHANGED <<results, control, commanded>>

\* rebootStep: a report of the step the reboot has reached.
RebootStep(stage, step) ==
  /\ outbox' = Append(outbox, Report(worker.order, "running", None, "none", step, None))
  /\ worker' = [worker EXCEPT !.stage = stage]
  /\ UNCHANGED <<local, results, control, commanded>>

\* No cable, no gateway, not the expected router, or an internal error.
GatewayFails(error) ==
  worker.stage = "gateway" /\ error \in {"not-sent", "other"} /\ CloseReboot("failed", error, FALSE)

GatewayRead == worker.stage = "gateway" /\ RebootStep("ssh", "before")

\* No connection, no login, or no channel to ask for the command on.
CommandRefused == worker.stage = "ssh" /\ CloseReboot("failed", "not-sent", FALSE)

\* The request with the command goes out; whether the router got it, only its
\* answer tells.
SendCommand ==
  /\ worker.stage = "ssh"
  /\ commanded' = commanded \cup {worker.order}
  /\ worker' = [worker EXCEPT !.stage = "sent"]
  /\ UNCHANGED <<local, outbox, results, control>>

\* The answer does not come, or the session breaks before it does: the same close
\* as if nothing had been sent, although the router may be going down.
CommandUnanswered == worker.stage = "sent" /\ CloseReboot("failed", "not-sent", FALSE)

\* The router answered: the partial result (ssh_ok) goes to the database, for
\* recover.
KeepPartial ==
  /\ worker.stage = "sent"
  /\ local' = [local EXCEPT ![worker.order].sshOk = TRUE]
  /\ worker' = [worker EXCEPT !.stage = "kept"]
  /\ UNCHANGED <<outbox, results, control, commanded>>

\* watchReboot reports waiting_down; waiting_back and waiting_internet, which
\* come after it, tell the backend nothing else.
StartWatch == worker.stage = "kept" /\ RebootStep("watching", "sent")

WatchEnds_Anew(status, error) ==
  /\ worker.stage = "watching"
  /\ <<status, error>> \in {<<"done", "none">>, <<"failed", "not-sent">>, <<"failed", "other">>}
  /\ CloseReboot(status, error, FALSE)

WatchEnds(status, error) ==
  /\ worker.stage = "watching"
  /\ <<status, error>> \in {<<"done", "none">>, <<"failed", "not-sent">>, <<"failed", "other">>}
  /\ CloseReboot(status, error, TRUE)

WorkerStep(t) ==
  \/ Recover \/ ExpireDue(t) \/ Rest \/ UnknownSlot \/ BreakOff
  \/ \E o \in OrderIds : Pick(o, t)
  \/ \E r \in Fresh : MarkRunning(r) \/ FallBack(r)
  \/ \E status \in {"done", "failed"} : StoreFinal(status, t)
  \/ StartReboot \/ GatewayRead \/ CommandRefused \/ SendCommand
  \/ CommandUnanswered \/ KeepPartial \/ StartWatch
  \/ \E error \in {"not-sent", "other"} : GatewayFails(error)
  \/ \E status \in {"done", "failed"}, error \in {"none", "not-sent", "other"} :
       WatchEnds(status, error)

-----------------------------------------------------------------------------
(* ProbeControl                                                            *)

\* GET /orders: the open orders, or the first of them, and, in another query,
\* those that the server or the dashboard closed (each row as the function of its
\* order).
ListOpen(rows, truncated) ==
  /\ control.stage = "idle"
  /\ control' = [Quiet EXCEPT !.stage = "listing", !.rows = rows, !.truncated = truncated]
  /\ UNCHANGED <<local, outbox, results, worker, commanded>>

ListClosed(closed) ==
  /\ control.stage = "listing"
  /\ control' = [control EXCEPT !.stage = "answered", !.closed = closed]
  /\ UNCHANGED <<local, outbox, results, worker, commanded>>

\* An order the phone does not know waits, or was running before it lost its data.
NewRow(row) ==
  [NoLocal EXCEPT !.type = row.type, !.notAfter = row.notAfter,
                  !.status = IF row.status = "running" THEN "interrupted" ELSE "pending",
                  !.result = IF row.status = "running" THEN row.result ELSE None]

Unknown(o) == o \in DOMAIN control.rows /\ local[o].status = "none"

IngestedOrder_Absent(o) ==
  LET ord == IF Unknown(o) THEN NewRow(control.rows[o]) ELSE local[o]
  IN  IF o \in DOMAIN control.closed THEN ClosedOrder(ord, control.closed[o])
      ELSE IF o \notin DOMAIN control.rows THEN ClosedOrder(ord, "cancelled")
      ELSE ord

\* New, closed by somebody else, or no longer open in the backend, which only a
\* list that is complete can tell.
IngestedOrder(o) ==
  LET ord == IF Unknown(o) THEN NewRow(control.rows[o]) ELSE local[o]
  IN  IF o \in DOMAIN control.closed THEN ClosedOrder(ord, control.closed[o])
      ELSE IF o \notin DOMAIN control.rows /\ ~control.truncated THEN ClosedOrder(ord, "cancelled")
      ELSE ord

Ingest ==
  LET forgotten == {o \in OrderIds : Unknown(o) /\ control.rows[o].status = "running"}
      Lost(o)   == Report(o, "interrupted", control.rows[o].result, "other", None, None)
  IN
  /\ control.stage = "answered"
  /\ local' = [o \in OrderIds |-> IngestedOrder(o)]
  /\ \E lost \in SetToSeqs({Lost(o) : o \in forgotten}) : outbox' = outbox \o lost
  /\ control' = [Quiet EXCEPT !.stage = "acking"]
  /\ UNCHANGED <<results, worker, commanded>>

NotAcked == {o \in OrderIds : local[o].status # "none" /\ ~local[o].acked}

\* POST /ack is answered: acknowledged, unchanged or unknown is all the same.
AckAnswered ==
  /\ control.stage = "acking"
  /\ local' = [o \in OrderIds |->
                 IF o \notin NotAcked THEN local[o]
                 ELSE [local[o] EXCEPT !.acked = TRUE,
                                       !.status = IF @ = "pending" THEN "delivered" ELSE @]]
  /\ control' = [Quiet EXCEPT !.stage = "flushing", !.left = Len(outbox)]
  /\ UNCHANGED <<outbox, results, worker, commanded>>

\* POST /ack is refused, and the cycle goes on.
AckRefused ==
  /\ control.stage = "acking"
  /\ control' = [Quiet EXCEPT !.stage = "flushing", !.left = Len(outbox)]
  /\ UNCHANGED <<local, outbox, results, worker, commanded>>

\* flush, without asking for orders: kickControl.
StartFlush ==
  /\ control.stage = "idle"
  /\ control' = [Quiet EXCEPT !.stage = "flushing", !.left = Len(outbox)]
  /\ UNCHANGED <<local, outbox, results, worker, commanded>>

Sending == control.stage = "flushing" /\ control.left > 0

ReportAnswered_SameLeft ==
  /\ Sending
  /\ outbox' = Tail(outbox)
  /\ UNCHANGED <<local, results, worker, control, commanded>>

ReportAnswered ==
  /\ Sending
  /\ outbox' = Tail(outbox)
  /\ control' = [control EXCEPT !.left = @ - 1]
  /\ UNCHANGED <<local, results, worker, commanded>>

OutboxSent_Only ==
  /\ control.stage = "flushing" /\ control.left = 0
  /\ control' = Quiet
  /\ UNCHANGED <<local, outbox, results, worker, commanded>>

OutboxSent ==
  /\ control.stage = "flushing" /\ control.left = 0
  /\ control' = [Quiet EXCEPT !.stage = "uploading"]
  /\ UNCHANGED <<local, outbox, results, worker, commanded>>

Uploading(r) == control.stage = "uploading" /\ results[r].sync = "pending"

\* The item of the result is answered inserted or duplicate.
ResultAnswered(r) ==
  /\ Uploading(r)
  /\ results' = [results EXCEPT ![r].sync = "synced"]
  /\ UNCHANGED <<local, outbox, worker, control, commanded>>

UploadEnds ==
  /\ control.stage = "uploading"
  /\ \A r \in ResultIds : results[r].sync # "pending"
  /\ control' = Quiet
  /\ UNCHANGED <<local, outbox, results, worker, commanded>>

\* Any call without an answer: the cycle ends there and is tried again later.
NoAnswer ==
  /\ control.stage # "idle"
  /\ control' = Quiet
  /\ UNCHANGED <<local, outbox, results, worker, commanded>>

-----------------------------------------------------------------------------
(* The process dies: the database stays.  Or it goes too, with the app.    *)

Crash ==
  /\ worker' = [Idle EXCEPT !.stage = "recovering"]
  /\ control' = Quiet
  /\ UNCHANGED <<local, outbox, results, commanded>>

\* Result ids are random, so those in use before are never drawn again.
Reinstall ==
  /\ local' = [o \in OrderIds |-> NoLocal]
  /\ outbox' = <<>>
  /\ results' = [r \in ResultIds |-> [NoResult EXCEPT !.sync = IF r \in Fresh THEN "none" ELSE "synced"]]
  /\ worker' = Idle
  /\ control' = Quiet
  /\ UNCHANGED commanded
=============================================================================
