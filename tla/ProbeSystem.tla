---------------------------- MODULE ProbeSystem ----------------------------
(***************************************************************************)
(* A phone (ProbePhone) and the order store of the backend (PhoneOrders)   *)
(* joined by the calls the phone makes over HTTP.  A call may reach the    *)
(* backend or not; when it does, its answer may be lost and the phone then *)
(* tries again.  A state report that got no answer may still arrive later  *)
(* (it is in `late`): because it was on its way when the phone gave up, or *)
(* because the "sync now" of the app, on another thread, had read the same *)
(* rows of the outbox.  The clocks of both sides agree: the phone corrects *)
(* its own with the server_time of the answers.                            *)
(***************************************************************************)
EXTENDS ProbePhone

CONSTANTS
  Devices, ProbeDevice, Windows, RunningStale, RebootWindow, RebootCooldown,
  Runners, OrderTypes, MaxTime,   \* of PhoneOrders
  MaxLate,       \* bound: reports late at the same time
  MaxFaults      \* bound: crashes and reinstallations of the app, together

VARIABLES
  now, runner, orders, measurements,   \* of PhoneOrders
  late,          \* the reports that gave up waiting for an answer
  crashes, reinstalls

Server == INSTANCE PhoneOrders

ASSUME SystemAssumption == Server!TimesAssumption /\ Server!NamesAssumption

serverVars == <<now, runner, orders, measurements>>
vars == <<phoneVars, serverVars, late, crashes, reinstalls>>

TypeOK == /\ PhoneTypeOK
          /\ Server!TypeOK
          /\ late \subseteq Reports
          /\ crashes \in Nat
          /\ reinstalls \in Nat

Init == /\ PhoneInit
        /\ Server!Init
        /\ late = {}
        /\ crashes = 0
        /\ reinstalls = 0

network == <<late, crashes, reinstalls>>

-----------------------------------------------------------------------------
(* The calls of the phone                                                  *)

\* GET /orders sweeps, reads the open orders and then the closed ones.  Orders of
\* the probe that are not in this instance may fill the list, and then any of
\* these may be left out.
AskOpen(listed, truncated) ==
  LET swept == Server!SweptOrders
      open  == {o \in OrderIds : swept[o].status \in Server!Open}
  IN  /\ IF truncated THEN listed \subseteq open ELSE listed = open
      /\ ListOpen([o \in listed |-> [type     |-> swept[o].type,
                                     notAfter |-> swept[o].notAfter,
                                     status   |-> swept[o].status,
                                     result   |-> swept[o].result]], truncated)
      /\ Server!SweepPhoneOrders
      /\ UNCHANGED network

AskClosed ==
  LET closed == {o \in OrderIds : /\ orders[o].status \in Server!Closed
                                  /\ orders[o].closedBy \in {"server", "dashboard"}}
  IN  /\ ListClosed([o \in closed |-> orders[o].status])
      /\ UNCHANGED <<serverVars, network>>

Ack == /\ AckAnswered
       /\ Server!AckPhoneOrders(NotAcked)
       /\ UNCHANGED network

\* The backend acknowledges and the phone does not hear of it.
AckLost == /\ control.stage = "acking"
           /\ NoAnswer
           /\ Server!AckPhoneOrders(NotAcked)
           /\ UNCHANGED network

\* What a report does in the backend: nothing, when it is ignored.
Applied(report) ==
  LET update == Server!PhoneStateUpdate(report.status, report.result, report.error,
                                        report.step, report.ssh)
  IN  \/ Server!SetPhoneOrderState(report.order, update)
      \/ Server!Ignored(report.order, update) /\ UNCHANGED serverVars

SendReport == /\ ReportAnswered
              /\ Applied(Head(outbox))
              /\ UNCHANGED network

ReportLost == /\ Sending
              /\ NoAnswer
              /\ Applied(Head(outbox))
              /\ UNCHANGED network

ReportDelayed == /\ Sending
                 /\ NoAnswer
                 /\ Cardinality(late) < MaxLate
                 /\ late' = late \cup {Head(outbox)}
                 /\ UNCHANGED <<serverVars, crashes, reinstalls>>

LateReport(report) == /\ report \in late
                      /\ Applied(report)
                      /\ late' = late \ {report}
                      /\ UNCHANGED <<phoneVars, crashes, reinstalls>>

\* What a result does in the backend: nothing, when it is stored already.
Stored(r) ==
  \/ \E device \in Devices \cup {None} :
       Server!InsertProbeResult(r, results[r].order, device, results[r].status, results[r].started)
  \/ measurements[r].order # "absent" /\ UNCHANGED serverVars

SendResult(r) == /\ ResultAnswered(r)
                 /\ Stored(r)
                 /\ UNCHANGED network

ResultLost(r) == /\ Uploading(r)
                 /\ NoAnswer
                 /\ Stored(r)
                 /\ UNCHANGED network

-----------------------------------------------------------------------------
\* A step of one side that the other does not see.
Unseen(step) == step /\ UNCHANGED <<serverVars, network>>

\* The control thread begins a poll or a flush, and goes on with it to its end.
ControlStarts ==
  \/ \E listed \in SUBSET OrderIds, truncated \in BOOLEAN : AskOpen(listed, truncated)
  \/ Unseen(StartFlush)

ControlGoesOn ==
  \/ AskClosed \/ Unseen(Ingest)
  \/ Ack \/ AckLost \/ Unseen(AckRefused)
  \/ SendReport \/ ReportLost \/ ReportDelayed \/ Unseen(OutboxSent)
  \/ \E r \in ResultIds : SendResult(r) \/ ResultLost(r)
  \/ Unseen(UploadEnds) \/ Unseen(NoAnswer)

\* A step of the backend that the phone does not see.
Alone(step) == step /\ UNCHANGED <<phoneVars, network>>

ServerSteps == Alone(\/ Server!Creating \/ Server!Administering
                     \/ Server!SweepExpires \/ Server!SweepInterrupts \/ Server!Tick)

Dies == /\ crashes + reinstalls < MaxFaults
        /\ Crash
        /\ crashes' = crashes + 1
        /\ UNCHANGED <<serverVars, late, reinstalls>>

\* Installing the app again takes longer than any request stays on its way.
Forgets == /\ crashes + reinstalls < MaxFaults
           /\ late = {}
           /\ Reinstall
           /\ reinstalls' = reinstalls + 1
           /\ UNCHANGED <<serverVars, late, crashes>>

Next == \/ ControlStarts \/ ControlGoesOn \/ Unseen(WorkerStep(now))
        \/ \E report \in late : LateReport(report)
        \/ ServerSteps \/ Dies \/ Forgets

\* The handler of the control thread takes its tasks in order, so a flush that
\* was asked for gets its turn, and it is asked for again and again; every call
\* ends, with an answer or a timeout; and the network is not down for ever: a
\* call that is tried again and again is answered some time.  The scheduler sweeps
\* every 30 s, and the clock goes on.
Fairness == /\ SF_vars(Unseen(StartFlush))
            /\ WF_vars(ControlGoesOn)
            /\ SF_vars(SendReport)
            /\ SF_vars(Unseen(OutboxSent))
            /\ \A r \in ResultIds : SF_vars(SendResult(r))
            /\ WF_vars(Alone(Server!SweepExpires))
            /\ WF_vars(Alone(Server!SweepInterrupts))
            /\ WF_vars(Alone(Server!Tick))

Spec == Init /\ [][Next]_vars
LiveSpec == Spec /\ Fairness

-----------------------------------------------------------------------------
(* What the two sides keep together                                        *)

\* Nothing of the order is on its way from the phone to the backend.
Settled(o) ==
  /\ local[o].status # "none"
  /\ \A i \in 1..Len(outbox) : outbox[i].order # o
  /\ \A r \in ResultIds : ~(results[r].order = o /\ results[r].sync = "pending")

TooLate(o) == \A r \in ResultIds : results[r].order = o => results[r].started > orders[o].notAfter

\* An order never stays running in the phone without the worker on it, and once
\* its reports and results have arrived the backend shows what happened to it:
\* the outcome of the phone (a test cancelled meanwhile, or started after the
\* sweep had closed it, keeps the close of the backend), and no order that the
\* phone has done with stays open.  Hazards: a crash between two transactions,
\* a report or result lost, repeated or late, a sweep or a cancellation meanwhile.
Agreement ==
  \A o \in OrderIds :
    /\ local[o].status = "running" => worker.order = o \/ worker.stage = "recovering"
    /\ Settled(o) /\ local[o].status \in Server!Closed => orders[o].status \notin Server!Open
    /\ Settled(o) /\ local[o].status \in {"done", "failed"} =>
         \/ orders[o].status = local[o].status
         \/ ~Server!IsReboot(o) /\ orders[o].status = "cancelled"
         \/ ~Server!IsReboot(o) /\ Server!SoftFinal(orders[o]) /\ TooLate(o)

\* PhoneOrders takes for granted what a phone may say of an order (StateUpdates):
\* a reboot that was reported as sent is never said not to have been, for one.
\* This phone keeps to it, in whatever order its reports come after crashes,
\* delays and the loss of its data; and what it uploads as a result belongs to a
\* speed test that exists.
KeepsContract(report) ==
  Server!PhoneStateUpdate(report.status, report.result, report.error, report.step, report.ssh)
    \in Server!StateUpdates(report.order)

PhoneKeepsContract ==
  /\ \A report \in late : KeepsContract(report)
  /\ Sending => KeepsContract(Head(outbox))
  /\ \A r \in ResultIds : Uploading(r) =>
       /\ results[r].status \in {"done", "failed"} /\ results[r].started <= now
       /\ results[r].order # None =>
            Server!Exists(results[r].order) /\ ~Server!IsReboot(results[r].order)

\* The phone closed the reboot without knowing whether its command got through.
Unanswered(o) == local[o].status = "failed" /\ ~local[o].sshOk

\* A reboot command that left for the router ("pudo haber llegado al router",
\* reboot.go:101) counts for the cooldown as soon as the phone has told all it
\* knows of it, whatever the server or the dashboard had done with the order and
\* wherever the app died, unless it lost its data.  The one exception is a command
\* whose answer was lost: RouterSsh.run calls that "ssh-connect", the backend takes
\* it for never sent, and nothing in either of them tells the difference.
SentRebootsCount ==
  \A o \in OrderIds :
    o \in commanded /\ Settled(o) /\ local[o].status # "running" /\ reinstalls = 0
      => Server!RebootCounts(orders[o]) \/ Unanswered(o)

Starts(o) == local[o].status # "running" /\ local'[o].status = "running"

\* An order starts at most once, also after a crash ("no se repite"), and never
\* after the phone learned that somebody else closed it; a phone that lost its
\* data starts none that it had already reported.  The command of a reboot goes
\* out at most once.
StartsOnce ==
  [][\A o \in OrderIds :
       /\ Starts(o) => /\ local[o].status \in Waits
                       /\ orders[o].status # "running" /\ orders[o].closedBy # "phone"
       /\ local[o].status \in {"running"} \cup Server!Closed /\ reinstalls' = reinstalls
            => local'[o].status \in {"running"} \cup Server!Closed
       /\ SendCommand /\ worker.order = o /\ reinstalls = 0 => o \notin commanded]_vars

\* The phone may keep silent at any point, for ever: the sweep closes what it left
\* waiting past its deadline, or running without news.
SilentOrdersAreSwept == Server!SilentOrdersAreSwept

\* Every stored result reaches the backend, and every report too.
EverythingArrives ==
  /\ \A r \in ResultIds : (results[r].sync = "pending") ~> (results[r].sync # "pending")
  /\ (outbox # <<>>) ~> (outbox = <<>>)

\* "Nunca dos reboot seguidos" (phoneprobe.go:1050): the command of a reboot does
\* not go out while the backend takes for never executed an earlier one whose
\* command went out to the same router, one whose answer was lost apart.
NeverTwoRebootsInARow ==
  [][\A o, p \in OrderIds :
       /\ o \notin commanded /\ o \in commanded'
       /\ p \in commanded /\ orders[p].device = orders[o].device
       => Server!RebootCounts(orders[p]) \/ Unanswered(p)]_vars
=============================================================================
