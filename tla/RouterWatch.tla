---------------------------- MODULE RouterWatch ----------------------------
(***************************************************************************)
(* From the ping of a router to the advice to reboot it.  The phone of the *)
(* probe checks its routers when it is idle and keeps, per slot, since     *)
(* when a router is down (RouterHealth.kt); it sends its status again and  *)
(* again (ProbeBus.kt, ProbeControl.kt); the backend keeps the last one    *)
(* (store/phoneprobe.go) and works out from it, from the heartbeats of the *)
(* agent and from the reboots already asked for what the dashboard advises *)
(* (store/reboot.go).  The clocks of the two differ by Skew.               *)
(*                                                                         *)
(* Abstractions: the slots of the probe do not change, and the device of a *)
(* slot has its name; of the orders, only what the advice and the creation *)
(* of a reboot read of them (PhoneOrders has the rest); a status carries   *)
(* the time it was built, which every build of this app puts in it.  A     *)
(* session that fails only writes its error: recordUnchecked keeps the     *)
(* health, so it is no step here.                                          *)
(***************************************************************************)
EXTENDS Integers, Sequences, FiniteSets

CONSTANTS
  Slots,          \* the routers of the probe
  Skew,           \* the clock of the phone minus the clock of the backend
  HealthFresh,    \* phoneHealthFresh
  CheckStale,     \* healthCheckStale
  OfflineAfter,   \* RebootOfflineAfter
  AgentLookback,  \* agentLookback
  Cooldown,       \* RebootCooldown
  MaxDelay,       \* a status that travels longer is lost (time out of the phone)
  Never,          \* an absent time
  Pages,          \* what the page of a router is found to say, when it is read
  MaxTime,        \* bound: the clock stops here
  MaxChecks,      \* bound: checks of a router, and one of each at a time
  MaxSends,       \* bound: statuses the first service sends; each next one, one less
  MaxOther        \* bound: heartbeats, requests of a reboot and restarts of the
                  \* service, together

ASSUME WatchAssumption == /\ Skew \in Int
                          /\ HealthFresh \in Nat
                          /\ CheckStale \in Nat
                          /\ OfflineAfter \in Nat
                          /\ AgentLookback \in Nat
                          /\ Cooldown \in Nat
                          /\ MaxDelay \in Nat
                          /\ Never \notin Int
                          /\ Pages \subseteq {"unknown", "expected", "other"}

VARIABLES
  time,       \* of the backend
  health,     \* kv routers_health of the phone
  service,    \* which start of the service is running (service_started_at)
  seq,        \* the statuses it has built
  sent,       \* statuses on their way; one may arrive more than once
  stored,     \* the row of probe_status
  agent,      \* the last heartbeat of the agent of each router
  reboots,    \* the reboot asked for of each router, and those that count
  checks,     \* history: what each check of a router saw, and when
  other       \* the heartbeats, requests and restarts there have been

watchVars == <<time, health, service, seq, sent, stored, agent, reboots, checks, other>>

Seen    == {"up", "down", "unknown"}             \* internet_ok: true, false, null
Times   == Int \cup {Never}
Health  == [internet: Seen, checked: Times, down: Times]

Unchecked == [internet |-> "unknown", checked |-> Never, down |-> Never]

Status == [service: Nat, seq: Nat, at: Int, health: [Slots -> Health], known: [Slots -> Nat],
           received: Times]

\* seq 0: there is no row yet.
NoStatus == [service |-> 0, seq |-> 0, at |-> 0, health |-> [s \in Slots |-> Unchecked],
             known |-> [s \in Slots |-> 0], received |-> Never]

\* When the reboot that is open was taken, or asked for (rebootBase), if there is
\* one, and that of every other that counts for the cooldown (rebootCountsCond).
Reboots == [open: Times, counted: SUBSET Int]

WatchTypeOK == /\ time \in Nat
               /\ health \in [Slots -> Health]
               /\ service \in Nat
               /\ seq \in Nat
               /\ sent \subseteq Status
               /\ stored \in Status
               /\ agent \in [Slots -> Times]
               /\ reboots \in [Slots -> Reboots]
               /\ checks \in [Slots -> Seq([at: Nat, saw: Seen, page: Pages \cup {"unread"}])]
               /\ other \in Nat

WatchInit == /\ time = 0
             /\ health = [s \in Slots |-> Unchecked]
             /\ service = 1
             /\ seq = 0
             /\ sent = {}
             /\ stored = NoStatus
             /\ agent = [s \in Slots |-> Never]
             /\ reboots = [s \in Slots |-> [open |-> Never, counted |-> {}]]
             /\ checks = [s \in Slots |-> <<>>]
             /\ other = 0

PhoneTime == time + Skew

-----------------------------------------------------------------------------
(* The phone                                                               *)

Recorded_DownForGood(h, saw) ==
  [internet |-> saw, checked |-> PhoneTime,
   down |-> IF saw = "down" /\ h.down = Never THEN PhoneTime ELSE h.down]

Recorded_NewOutage(h, saw) ==
  [internet |-> saw, checked |-> PhoneTime,
   down |-> CASE saw = "up" -> Never [] saw = "down" -> PhoneTime [] OTHER -> h.down]

\* RouterHealth.record: down_since is the first check of the run that saw the
\* router down; a check that could not tell keeps it.
Recorded(h, saw) ==
  [internet |-> saw, checked |-> PhoneTime,
   down |-> CASE saw = "up" -> Never
              [] saw = "down" /\ h.down = Never -> PhoneTime
              [] OTHER -> h.down]

\* The idle check, of every router, and the watch of a reboot, of its own.  Now
\* and then the idle check reads the page of the router as well: another router
\* than the expected one raises an alert, and the health is kept all the same.
Check(some, saw, page) ==
  /\ \A s \in some : /\ Len(checks[s]) < MaxChecks
                      /\ \A i \in 1 .. Len(checks[s]) : checks[s][i].at < time
  /\ health' = [s \in Slots |-> IF s \in some THEN Recorded(health[s], saw[s]) ELSE health[s]]
  /\ checks' = [s \in Slots |-> IF s \in some
                                THEN Append(checks[s], [at |-> time, saw |-> saw[s], page |-> page[s]])
                                ELSE checks[s]]
  /\ UNCHANGED <<time, service, seq, sent, stored, agent, reboots, other>>

\* buildAndPublish and sendStatus.  Until another is built the same status is
\* sent again, so it stays in `sent` for as long as it may still arrive.
SendStatus ==
  /\ service + seq <= MaxSends
  /\ seq' = seq + 1
  /\ sent' = sent \cup {[service |-> service, seq |-> seq', at |-> PhoneTime, health |-> health,
                         known |-> [s \in Slots |-> Len(checks[s])],
                         received |-> Never]}
  /\ UNCHANGED <<time, health, service, stored, agent, reboots, checks, other>>

StartService_Unset ==
  /\ other < MaxOther
  /\ other' = other + 1
  /\ service' = service + 1
  /\ seq' = Never
  /\ UNCHANGED <<time, health, sent, stored, agent, reboots, checks>>

\* The service is stopped or killed, and started again: what is in kv stays.
StartService ==
  /\ other < MaxOther
  /\ other' = other + 1
  /\ service' = service + 1
  /\ seq' = 0
  /\ UNCHANGED <<time, health, sent, stored, agent, reboots, checks>>

-----------------------------------------------------------------------------
(* The backend                                                             *)

Late_Never(m) == FALSE

\* UpsertProbeStatus: an older status of the same service is discarded.
Late(m) == m.service = stored.service /\ m.seq < stored.seq

PostStatus(m) ==
  /\ m \in sent
  /\ stored' = IF Late(m) THEN stored ELSE [m EXCEPT !.received = time]
  /\ UNCHANGED <<time, health, service, seq, sent, agent, reboots, checks, other>>

AgentHeartbeat(s) ==
  /\ other < MaxOther
  /\ other' = other + 1
  /\ agent' = [agent EXCEPT ![s] = time]
  /\ UNCHANGED <<time, health, service, seq, sent, stored, reboots, checks>>

StatusAge == time - stored.received

\* parseRouterHealth: the status is recent, and so was the check when it left.
Fresh(s) ==
  /\ stored.seq > 0
  /\ StatusAge <= HealthFresh
  /\ stored.health[s].checked # Never => stored.at - stored.health[s].checked <= CheckStale

DownFor_ServerClock(s) == LET d == time - stored.health[s].down IN IF d < 0 THEN 0 ELSE d

\* Both times of the phone, plus the age of the status here.
DownFor(s) ==
  LET d == stored.at - stored.health[s].down + StatusAge
  IN IF stored.health[s].down = Never \/ d < 0 THEN 0 ELSE d

PhoneSaysOffline(s) ==
  /\ Fresh(s)
  /\ stored.health[s].internet = "down"
  /\ DownFor(s) > OfflineAfter

\* agentLastSeen looks back AgentLookback: then the router has no agent.
AgentSaysOffline(s) ==
  /\ agent[s] # Never
  /\ time - agent[s] <= AgentLookback
  /\ time - agent[s] > OfflineAfter

CoolingDown_EndsEarly(s) == \E t \in reboots[s].counted : t + Cooldown - 1 > time

CoolingDown(s) == \E t \in reboots[s].counted : t + Cooldown > time

RebootInProgress(s) == reboots[s].open # Never

\* evalReboot
Recommended(s) ==
  /\ ~RebootInProgress(s)
  /\ ~CoolingDown(s)
  /\ AgentSaysOffline(s) \/ PhoneSaysOffline(s)

\* CreateRebootOrder refuses: a reboot is open, the app never sent the health of
\* its routers, or one counts in the cooldown and the request does not force it.
Refused(s, force) ==
  \/ RebootInProgress(s)
  \/ stored.seq = 0
  \/ ~force /\ \E t \in reboots[s].counted : t >= time - Cooldown

RequestReboot(s, force) ==
  /\ other < MaxOther
  /\ other' = other + 1
  /\ ~Refused(s, force)
  /\ reboots' = [reboots EXCEPT ![s] = [open |-> time, counted |-> reboots[s].counted]]
  /\ UNCHANGED <<time, health, service, seq, sent, stored, agent, checks>>

\* The phone takes the order: delivered_at is the base from now on.
RebootDelivered(s) ==
  /\ RebootInProgress(s)
  /\ reboots' = [reboots EXCEPT ![s] = [open |-> time, counted |-> reboots[s].counted]]
  /\ UNCHANGED <<time, health, service, seq, sent, stored, agent, checks, other>>

\* It is done, or it failed, expired or was cancelled, and then it may not count.
RebootOver(s, counts) ==
  /\ RebootInProgress(s)
  /\ reboots' = [reboots EXCEPT ![s] =
                   [open |-> Never,
                    counted |-> IF counts THEN reboots[s].counted \cup {reboots[s].open}
                                ELSE reboots[s].counted]]
  /\ UNCHANGED <<time, health, service, seq, sent, stored, agent, checks, other>>

-----------------------------------------------------------------------------
Tick ==
  /\ time < MaxTime
  /\ time' = time + 1
  /\ sent' = {m \in sent : m.at - Skew + MaxDelay > time}
  /\ UNCHANGED <<health, service, seq, stored, agent, reboots, checks, other>>

WatchNext ==
  \/ \E some \in SUBSET Slots : some # {} /\
       \E saw \in [some -> Seen], page \in [some -> Pages \cup {"unread"}] : Check(some, saw, page)
  \/ SendStatus
  \/ StartService
  \/ \E m \in sent : PostStatus(m)
  \/ \E s \in Slots :
       \/ AgentHeartbeat(s)
       \/ \E force \in BOOLEAN : RequestReboot(s, force)
       \/ RebootDelivered(s)
       \/ \E counts \in BOOLEAN : RebootOver(s, counts)
  \/ Tick

WatchSpec == WatchInit /\ [][WatchNext]_watchVars

-----------------------------------------------------------------------------
(* What makes the advice correct                                           *)

\* Checks i to j of a slot never saw it up, and saw it down at both ends.
Outage(s, i, j) ==
  /\ i \in 1 .. j
  /\ checks[s][i].saw = "down" /\ checks[s][j].saw = "down"
  /\ \A k \in i .. j : checks[s][k].saw # "up"

\* An advice for which the agent gives no reason is earned by what the phone saw:
\* the last check that the backend knows of saw the router down and is recent, and
\* the outage it belongs to began more than OfflineAfter ago by the clock of the
\* backend, whatever the clock of the phone says and however late, often or
\* disordered the statuses came.
AdviceIsEarned ==
  \A s \in Slots : Recommended(s) /\ ~AgentSaysOffline(s) =>
    LET j == stored.known[s] IN
    /\ j \in DOMAIN checks[s] /\ time - checks[s][j].at <= CheckStale + MaxDelay + HealthFresh
    /\ \E i \in 1 .. j : Outage(s, i, j) /\ time - checks[s][i].at > OfflineAfter

\* The other way round: when the status that is stored knows of an outage that
\* is that old, even counting how long the status travelled, the router is to be
\* rebooted, or it is being or has just been.
AdviceIsNotMissed ==
  \A s \in Slots : \A i \in 1 .. stored.known[s] :
    LET j     == stored.known[s]
        built == stored.at - Skew
    IN /\ Outage(s, i, j)
       /\ built - checks[s][j].at <= CheckStale
       /\ time - stored.received <= HealthFresh
       /\ time - checks[s][i].at > OfflineAfter + (stored.received - built)
       => Recommended(s) \/ RebootInProgress(s) \/ CoolingDown(s)

\* What the dashboard advises the backend accepts, without force, unless only the
\* agent speaks for it and the app is old; and but for the very second in which
\* the cooldown ends, which is over for evalReboot and not for CreateRebootOrder.
AdviceIsActionable ==
  \A s \in Slots : Recommended(s) =>
    \/ ~Refused(s, FALSE)
    \/ stored.seq = 0
    \/ \E t \in reboots[s].counted : t + Cooldown = time

\* While a service runs, what the backend knows of a router is never replaced by
\* what it looked like before: statuses may overtake each other.
StatusNeverGoesBack ==
  [][stored'.service = stored.service => \A s \in Slots : stored'.known[s] >= stored.known[s]]_watchVars

\* "si en ese puerto hay otro router (se cambiaron los cables), su señal y su
\* salud no se atribuyen a este slot" (ProbeWorker.kt:425): a check that found
\* another router behind the port is no reason to reboot the one of the slot.
SwappedRouterIsNotBlamed ==
  \A s \in Slots : Recommended(s) /\ ~AgentSaysOffline(s) =>
    checks[s][stored.known[s]].page # "other"
=============================================================================
