------------------------------ MODULE NetRoute ------------------------------
(***************************************************************************)
(* Which network did a measurement go through?  A technician runs a speed  *)
(* test in the browser of a phone that may be on the WiFi of the router    *)
(* under test, on its own SIM or on another WiFi.  The server learns the   *)
(* public address of the router from the requests the router makes anyway  *)
(* (heartbeats, closed commands), compares it with the addresses the test  *)
(* came from, and stores a verdict with the measurement; a background      *)
(* worker revises the verdict once it knows the operators of the two       *)
(* addresses.  The dashboard then shows a device's headline speed only     *)
(* from measurements with a trustworthy verdict.                           *)
(*                                                                         *)
(* One device.  The database runs one statement at a time, and a handler   *)
(* that reads and then writes is two steps.                                *)
(***************************************************************************)
EXTENDS Naturals, Sequences, FiniteSets

CONSTANTS
    Addresses,      \* public addresses
    Family,         \* Family[a]: "v4" or "v6"
    Pool,           \* Pool[a]: its /24 (v4) or /48 (v6)
    Link,           \* Link[a]: the address itself (v4) or its /64 (v6)
    Asn,            \* Asn[a]: the operator that announces it
    RelayAsns,      \* operators of relays and VPN exits
    Uplinks,        \* states of the router's WAN: [agent, clients]
    SimAddresses,   \* where the phone's own SIM may come out
    OtherAddresses, \* where another WiFi may come out
    Tests,          \* speed tests of the browser, each run once
    Commands,       \* commands the router (or a probe behind it) closes
    ObsMax,         \* obsMaxEntries
    QueueMax,       \* netEnrichQueue
    NoAddress,
    MaxEvents       \* bound: tests, commands and changes of the world, together

\* A /64 lies in a /48, a block has one family and is announced by one
\* operator (nothing longer than a /24 or a /48 is announced in BGP).
ASSUME AddressAssumption ==
    /\ NoAddress \notin Addresses
    /\ Family \in [Addresses -> {"v4", "v6"}]
    /\ Asn \in [Addresses -> Nat \ {0}]
    /\ 0 \notin RelayAsns
    /\ \A a, b \in Addresses : Pool[a] = Pool[b] => Family[a] = Family[b] /\ Asn[a] = Asn[b]
    /\ \A a, b \in Addresses : Link[a] = Link[b] => Pool[a] = Pool[b]
    /\ \A a, b \in Addresses : Family[a] = "v4" => (Link[a] = Link[b] <=> a = b)

\* What the source takes for granted about the operators: a /64 is one
\* subscriber's, while a v4 address may be shared by many (CGNAT) and a /48 is a
\* pool of the operator: the phone's SIM or another WiFi may come out of either;
\* in each family the router keeps its operator, unless a relay carries the
\* traffic.
ASSUME NetworkAssumption ==
    /\ Uplinks \subseteq [agent : Addresses, clients : SUBSET Addresses] /\ Uplinks # {}
    /\ SimAddresses \subseteq Addresses
    /\ OtherAddresses \subseteq Addresses
    /\ \A u \in Uplinks : u.clients # {}
    /\ \A u \in Uplinks, a \in SimAddresses \cup OtherAddresses :
            Family[u.agent] = "v6" => Link[a] # Link[u.agent]
    /\ \A u, w \in Uplinks : \A a \in w.clients \cup {w.agent} :
            Family[a] = Family[u.agent] => Asn[a] = Asn[u.agent] \/ Asn[a] \in RelayAsns

ASSUME BoundAssumption ==
    /\ ObsMax \in Nat \ {0} /\ QueueMax \in Nat \ {0} /\ MaxEvents \in Nat
    /\ Tests \cap Commands = {}

VARIABLES
    uplink,    \* the router's WAN now
    place,     \* the network the phone is on: "router", "sim" or "otherwifi"
    proxy,     \* what the server knows of its tunnel: "never", "known", "outdated"
    egress,    \* row of device_egress: [ip, asn, fresh]; asn 0 is NULL
    ledger,    \* obsLedger: test -> [first, last, status, n, old, seen]
    test,      \* the page's state of each test
    command,   \* handleCompleteCommand, for each command
    ender,     \* handleSetCommandEndLocation, for each command
    row,       \* rows of measurements
    queue,     \* the channel netEnrich
    worker,    \* netEnrichLoop
    preview,   \* handleNetInfo: the address whose operator it is resolving
    events     \* how many of the actions that begin with Event have happened

netVars == <<uplink, place, proxy, egress, ledger, test, command, ender, row,
             queue, worker, preview, events>>

---------------------------------------------------------------------------
Places == {"router", "sim", "otherwifi"}
Routes == {"router", "other-network", "unknown"}
Confidences == {"high", "medium", "low"}
MaybeAddress == Addresses \cup {NoAddress}
Measurements == Tests \cup Commands

\* The addresses a request of the phone may come from (Happy Eyeballs picks
\* one for each connection).
ExitAddresses == CASE place = "router" -> uplink.clients
                   [] place = "sim" -> SimAddresses
                   [] place = "otherwifi" -> OtherAddresses

\* clientIP: what the server makes of the address that the tunnel reports.
clientIP(a) ==
    CASE proxy = "known" -> [ip |-> a, status |-> "ok"]
      [] proxy = "never" -> [ip |-> a, status |-> "proxy-unverified"]
      [] proxy = "outdated" -> [ip |-> NoAddress, status |-> "forged-header"]

usableClientIP_AllButAbsent(status) == status # "absent"
usableClientIP(status) == status \in {"ok", "proxy-unverified"}

---------------------------------------------------------------------------
\* The evidence and the verdict.
MaybeAsn == {Asn[a] : a \in Addresses} \cup {0}
DeviceEgress == [ip : MaybeAddress, asn : MaybeAsn, fresh : BOOLEAN]
Statuses == {"ok", "proxy-unverified", "forged-header"}
NetEvidence == [obs : MaybeAddress, status : Statuses,
                changed : BOOLEAN, ref : DeviceEgress, hint : {"cellular", "wifi", ""},
                obsASN : MaybeAsn, refASN : MaybeAsn, byEquipment : BOOLEAN]

Signal(route, weak) == [route |-> route, weak |-> weak]
NoSignal == Signal("", FALSE)

ipSignal(e) ==
    CASE e.ref.ip = NoAddress \/ ~e.ref.fresh \/ e.obs = NoAddress -> NoSignal
      [] OTHER ->
         CASE Family[e.obs] # Family[e.ref.ip] -> NoSignal
           [] Link[e.obs] = Link[e.ref.ip] -> Signal("router", Family[e.obs] = "v4")
           [] Link[e.obs] # Link[e.ref.ip] /\ Pool[e.obs] = Pool[e.ref.ip] ->
                 IF Family[e.obs] = "v4" THEN NoSignal ELSE Signal("router", TRUE)
           [] OTHER -> Signal("other-network", FALSE)

\* History: what the address showed.
Match(e) == CASE ipSignal(e) = Signal("router", FALSE) -> "own"
              [] ipSignal(e) = Signal("router", TRUE) -> "shared"
              [] OTHER -> "none"

hintSignal(e) == IF e.hint = "cellular" THEN Signal("other-network", FALSE) ELSE NoSignal

asnSignal(e) ==
    IF e.obsASN # 0 /\ e.refASN # 0 /\ e.obsASN # e.refASN
    THEN Signal("other-network", FALSE) ELSE NoSignal

hintCorroborates_NotCellular(e, route) == route = "router" /\ e.hint # "cellular"
hintCorroborates(e, route) == route = "router" /\ e.hint = "wifi"

Unknown == [route |-> "unknown", conf |-> "low"]

\* An exit that carries anybody's traffic says nothing of the network behind.
relay_OfTheRouter(e) == e.refASN \in RelayAsns
relay(e) == e.obsASN \in RelayAsns

Signals(e) == <<ipSignal(e), hintSignal(e), asnSignal(e)>>
Saying(e, route) == {i \in 1..3 : Signals(e)[i].route = route}

\* A strong signal, or a weak one, and whether another one supports it; none,
\* or two that disagree, say nothing.
classifySignals(e) ==
    LET route == IF Saying(e, "router") # {} THEN "router" ELSE "other-network"
        strong == \E i \in Saying(e, route) : ~Signals(e)[i].weak
        corroborated == \/ \E i, k \in Saying(e, route) : i # k
                        \/ hintCorroborates(e, route)
    IN  IF \/ e.changed \/ ~usableClientIP(e.status) \/ relay(e)
           \/ Saying(e, "router") = {} <=> Saying(e, "other-network") = {}
        THEN Unknown
        ELSE [route |-> route,
              conf |-> IF strong /\ corroborated THEN "high"
                       ELSE IF strong \/ corroborated THEN "medium" ELSE "low"]

Capped(e, v) == IF e.status = "proxy-unverified" THEN [v EXCEPT !.conf = "low"] ELSE v
BySelf == [route |-> "router", conf |-> "high"]

classify_CapFirst(e) ==
    Capped(e, IF e.byEquipment THEN BySelf ELSE classifySignals(e))
classify(e) == IF e.byEquipment THEN BySelf ELSE Capped(e, classifySignals(e))

---------------------------------------------------------------------------
\* The shapes of the state.
Observation == [first : Addresses, last : Addresses,
                status : {"ok", "proxy-unverified"},
                n : Nat,              \* requests seen
                old : BOOLEAN,        \* last seen more than obsTTL ago
                seen : SUBSET {"ok", "proxy-unverified"}]  \* history: their statuses

TestState == [stage : {"idle", "started", "read", "down", "up", "reread", "ended"},
              kind : {"backend", "cloudflare"},
              hint : {"cellular", "wifi", ""},
              watch : BOOLEAN,                    \* a change event arrived
              cfStart : MaybeAddress, cfEnd : MaybeAddress,
              went : SUBSET Places,               \* history: networks it measured
              steady : BOOLEAN]                   \* history: it never moved

Contents == [route : Routes \cup {""}, conf : Confidences \cup {""}, end : BOOLEAN]

CommandState == [stage : {"open", "inserted", "learned", "read", "ended"},
                 ip : MaybeAddress, status : Statuses \cup {""},
                 ref : DeviceEgress, raw : Contents]

\* What clientIP said of its request is known while it is underway.
Answered(r) == r.stage \in {"inserted", "learned", "read"} =>
    r.status # "" /\ (usableClientIP(r.status) => r.ip # NoAddress)

EnderState == [stage : {"idle", "read", "ended"}, raw : Contents]

\* A measurement: its columns, its raw JSON and, as history, what is true of it.
Row == [state : {"none", "stored", "deleted"}, col : Contents, raw : Contents,
        by : {"browser", "equipment"},
        went : SUBSET Places, steady : BOOLEAN,
        window : BOOLEAN,              \* the server saw both requests of the test
        unverified : BOOLEAN,          \* one of those it was judged by came unverified
        match : {"none", "shared", "own"}]  \* its address was the router's, or may be

\* netEnrichJob, queued only with an address; the worker has none or one.
Job == [id : Measurements, ev : {e \in NetEvidence : e.obs # NoAddress}]
WorkerState == [stage : {"idle", "resolved", "saved", "read"}, job : Seq(Job), raw : Contents]

Blank == [route |-> "", conf |-> "", end |-> FALSE]
NoEgress == [ip |-> NoAddress, asn |-> 0, fresh |-> FALSE]
NewTest == [stage |-> "idle", kind |-> "backend", hint |-> "", watch |-> FALSE,
            cfStart |-> NoAddress, cfEnd |-> NoAddress, went |-> {}, steady |-> TRUE]
EndedTest == [NewTest EXCEPT !.stage = "ended"]
OpenCommand == [stage |-> "open", ip |-> NoAddress, status |-> "",
                ref |-> NoEgress, raw |-> Blank]
EndedCommand == [OpenCommand EXCEPT !.stage = "ended"]
NoRow == [state |-> "none", col |-> Blank, raw |-> Blank, by |-> "browser", went |-> {},
          steady |-> TRUE, window |-> FALSE, unverified |-> FALSE, match |-> "none"]
IdleWorker == [stage |-> "idle", job |-> <<>>, raw |-> Blank]

NetInit ==
    /\ uplink \in Uplinks
    /\ place \in Places
    /\ proxy \in {"never", "known"}
    /\ egress = NoEgress
    /\ ledger = <<>>
    /\ test = [t \in Tests |-> NewTest]
    /\ command = [c \in Commands |-> OpenCommand]
    /\ ender = [c \in Commands |-> [stage |-> "idle", raw |-> Blank]]
    /\ row = [m \in Measurements |-> NoRow]
    /\ queue = <<>>
    /\ worker = IdleWorker
    /\ preview = NoAddress
    /\ events = 0

---------------------------------------------------------------------------
\* The world around the server.
Event(weight) == events + weight <= MaxEvents /\ events' = events + weight

InProgress(t) == test[t].stage \notin {"idle", "ended"}

\* The operator gives the router another address.
Rotate ==
    /\ Event(1)
    /\ \E u \in Uplinks \ {uplink} : uplink' = u
    /\ UNCHANGED <<place, proxy, egress, ledger, test, command, ender, row, queue,
                   worker, preview>>

\* The phone joins or leaves a network.
Move ==
    /\ Event(1)
    /\ \E p \in Places \ {place} : place' = p
    /\ test' = [t \in Tests |-> IF InProgress(t) THEN [test[t] EXCEPT !.steady = FALSE] ELSE test[t]]
    /\ UNCHANGED <<uplink, proxy, egress, ledger, command, ender, row, queue, worker,
                   preview>>

\* Ten minutes without a heartbeat of this router: its address and the
\* observations of the tests under way are too old.
TenMinutes ==
    /\ Event(1)
    /\ egress' = [egress EXCEPT !.fresh = FALSE]
    /\ ledger' = [t \in DOMAIN ledger |-> [ledger[t] EXCEPT !.old = TRUE]]
    /\ UNCHANGED <<uplink, place, proxy, test, command, ender, row, queue, worker,
                   preview>>

\* trustedProxy.refresh finds the tunnel, which may come back elsewhere.
ProxyResolves ==
    /\ Event(1)
    /\ proxy # "known"
    /\ proxy' = "known"
    /\ UNCHANGED <<uplink, place, egress, ledger, test, command, ender, row, queue,
                   worker, preview>>

TunnelMoves ==
    /\ Event(1)
    /\ proxy = "known"
    /\ proxy' = "outdated"
    /\ UNCHANGED <<uplink, place, egress, ledger, test, command, ender, row, queue,
                   worker, preview>>

\* The process starts again: what it kept in memory is gone and its handlers
\* are cut where they were; the page of the browser stays open.
Restart ==
    /\ Event(1)
    /\ proxy' \in {"never", "known"}
    /\ ledger' = <<>>
    /\ queue' = <<>>
    /\ worker' = IdleWorker
    /\ preview' = NoAddress
    /\ command' = [c \in Commands |-> IF command[c].stage = "open" THEN command[c] ELSE EndedCommand]
    /\ ender' = [c \in Commands |-> IF ender[c].stage = "read"
                                    THEN [stage |-> "ended", raw |-> Blank] ELSE ender[c]]
    /\ UNCHANGED <<uplink, place, egress, test, row>>

---------------------------------------------------------------------------
\* SetDeviceEgress: an address that changes takes its operator along.
SetDeviceEgress(ip) ==
    egress' = [ip |-> ip, asn |-> IF ip = egress.ip THEN egress.asn ELSE 0, fresh |-> TRUE]

\* SetDeviceEgressASN: only if the address is still the one resolved.
SetDeviceEgressASN_Blind(ip, asn) == egress' = [egress EXCEPT !.asn = asn]
SetDeviceEgressASN(ip, asn) ==
    egress' = IF egress.ip = ip THEN [egress EXCEPT !.asn = asn] ELSE egress

\* handlePostHeartbeat.
Heartbeat ==
    LET c == clientIP(uplink.agent)
    IN  /\ usableClientIP(c.status)
        /\ SetDeviceEgress(c.ip)
        /\ UNCHANGED <<uplink, place, proxy, ledger, test, command, ender, row, queue,
                       worker, preview, events>>

\* handleNetInfo, which the page calls before a test: it resolves the operator
\* of the address it read, and saves it afterwards.
NetInfoReads ==
    /\ Event(1)
    /\ preview = NoAddress
    /\ egress.ip # NoAddress /\ egress.asn = 0
    /\ preview' = egress.ip
    /\ UNCHANGED <<uplink, place, proxy, egress, ledger, test, command, ender, row, queue,
                   worker>>

NetInfoSaves ==
    /\ preview # NoAddress
    /\ preview' = NoAddress
    /\ \/ SetDeviceEgressASN(preview, Asn[preview])
       \/ UNCHANGED egress                          \* the DNS failed
    /\ UNCHANGED <<uplink, place, proxy, ledger, test, command, ender, row, queue,
                   worker, events>>

---------------------------------------------------------------------------
\* The speed tests of the page (runBrowserSpeedtestBtn, runCfSpeedtestBtn).
StartTest(t) ==
    /\ Event(2)
    /\ test[t].stage = "idle"
    /\ \E k \in {"backend", "cloudflare"}, h \in {"", IF place = "sim" THEN "cellular" ELSE "wifi"} :
            test' = [test EXCEPT ![t] = [NewTest EXCEPT !.stage = "started", !.kind = k, !.hint = h]]
    /\ UNCHANGED <<uplink, place, proxy, egress, ledger, command, ender, row, queue,
                   worker, preview>>

\* A change event of navigator.connection: late, never, or for no reason.
ChangeEvent(t) ==
    /\ Event(1)
    /\ InProgress(t) /\ ~test[t].watch
    /\ test' = [test EXCEPT ![t] = [test[t] EXCEPT !.watch = TRUE]]
    /\ UNCHANGED <<uplink, place, proxy, egress, ledger, command, ender, row, queue,
                   worker, preview>>

\* cfMetaIp before and after a test against Cloudflare; it never fails the test.
CfMetaIp(t) ==
    /\ test[t].kind = "cloudflare"
    /\ \E a \in ExitAddresses \cup {NoAddress} :
            \/ /\ test[t].stage = "started"
               /\ test' = [test EXCEPT ![t] = [test[t] EXCEPT !.stage = "read", !.cfStart = a]]
            \/ /\ test[t].stage = "up"
               /\ test' = [test EXCEPT ![t] = [test[t] EXCEPT !.stage = "reread", !.cfEnd = a]]
    /\ UNCHANGED <<uplink, place, proxy, egress, ledger, command, ender, row, queue,
                   worker, preview, events>>

\* One doubtful request makes the whole window doubtful.
WorstStatus_Last(before, now) == now
WorstStatus(before, now) == IF now = "proxy-unverified" THEN now ELSE before

\* obsLedger.observe: the old entries go first; a full ledger takes no new one.
Observe(t, ip, status) ==
    LET kept == [u \in {u \in DOMAIN ledger : ~ledger[u].old} |-> ledger[u]]
        entry == IF t \in DOMAIN kept THEN kept[t]
                 ELSE [first |-> ip, last |-> ip, status |-> status, n |-> 0,
                       old |-> FALSE, seen |-> {}]
        updated == [first |-> entry.first, last |-> ip, n |-> entry.n + 1, old |-> FALSE,
                    status |-> WorstStatus(entry.status, status),
                    seen |-> entry.seen \cup {status}]
    IN  ledger' = IF t \notin DOMAIN kept /\ Cardinality(DOMAIN kept) >= ObsMax THEN kept
                  ELSE [u \in DOMAIN kept \cup {t} |-> IF u = t THEN updated ELSE kept[u]]

\* handleSpeedDownload and handleSpeedUpload.  A transfer that loses its
\* network fails, and the test with it, so each uses one network.
Transfer(t) ==
    /\ \/ /\ test[t].stage = (IF test[t].kind = "backend" THEN "started" ELSE "read")
          /\ test' = [test EXCEPT ![t] = [test[t] EXCEPT !.stage = "down", !.went = {place}]]
       \/ /\ test[t].stage = "down"
          /\ test' = [test EXCEPT ![t] = [test[t] EXCEPT !.stage = "up", !.went = test[t].went \cup {place}]]
    /\ \E a \in ExitAddresses :
            LET c == clientIP(a)
            IN  IF test[t].kind = "backend" /\ usableClientIP(c.status)
                THEN Observe(t, c.ip, c.status) ELSE UNCHANGED ledger
    /\ UNCHANGED <<uplink, place, proxy, egress, command, ender, row, queue, worker,
                   preview, events>>

\* A transfer or the final request fails: nothing is stored.
AbortTest(t) ==
    /\ Event(1)
    /\ InProgress(t)
    /\ test' = [test EXCEPT ![t] = EndedTest]
    /\ UNCHANGED <<uplink, place, proxy, egress, ledger, command, ender, row, queue,
                   worker, preview>>

\* classifyItem: what the test came from, against what is known of the router.
\* What was seen while it measured counts before the address of this request.
Evidence(t, c) ==
    LET seen == t \in DOMAIN ledger
        start == test[t].cfStart
        end == test[t].cfEnd
    IN  [obs |-> IF seen THEN ledger[t].first ELSE c.ip,
         status |-> IF seen THEN ledger[t].status ELSE c.status,
         changed |-> \/ seen /\ ledger[t].first # ledger[t].last
                     \/ test[t].watch
                     \/ start # NoAddress /\ end # NoAddress /\ start # end,
         ref |-> egress, hint |-> test[t].hint, obsASN |-> 0, refASN |-> egress.asn,
         byEquipment |-> FALSE]

enqueueNetEnrich(id, e) ==
    queue' = IF Len(queue) < QueueMax THEN Append(queue, [id |-> id, ev |-> e]) ELSE queue

\* handlePostMeasurements: the verdict is stored with the row (InsertClassified).
PostMeasurement(t) ==
    /\ test[t].stage = (IF test[t].kind = "backend" THEN "up" ELSE "reread")
    /\ \E a \in ExitAddresses :
        LET c == clientIP(a)
            seen == t \in DOMAIN ledger
            e == Evidence(t, c)
            v == classify(e)
            contents == [route |-> v.route, conf |-> v.conf, end |-> FALSE]
        IN  /\ row' = [row EXCEPT ![t] =
                   [state |-> "stored", col |-> contents, raw |-> contents, by |-> "browser",
                    went |-> test[t].went, steady |-> test[t].steady,
                    window |-> seen /\ ledger[t].n = 2,
                    unverified |-> IF seen THEN "proxy-unverified" \in ledger[t].seen
                                   ELSE c.status = "proxy-unverified",
                    match |-> Match(e)]]
            /\ IF e.obs = NoAddress THEN UNCHANGED queue ELSE enqueueNetEnrich(t, e)
    /\ ledger' = [u \in DOMAIN ledger \ {t} |-> ledger[u]]
    /\ test' = [test EXCEPT ![t] = EndedTest]
    /\ UNCHANGED <<uplink, place, proxy, egress, command, ender, worker, preview, events>>

---------------------------------------------------------------------------
\* SetMeasurementNet and SetMeasurementEndLocation read the raw JSON of the
\* row in one statement and write it back, with the columns, in another.
Classified(contents, v) == [contents EXCEPT !.route = v.route, !.conf = v.conf]
Located(contents) == [contents EXCEPT !.end = TRUE]

WriteNet(id, raw, v) ==
    row' = IF row[id].state # "stored" THEN row
           ELSE [row EXCEPT ![id] = [row[id] EXCEPT !.col = Classified(row[id].col, v),
                                                    !.raw = Classified(raw, v)]]

WriteEndLocation(id, raw) ==
    row' = IF row[id].state # "stored" THEN row
           ELSE [row EXCEPT ![id] = [row[id] EXCEPT !.col = Located(row[id].col),
                                                    !.raw = Located(raw)]]

\* handleCompleteCommand: CompleteCommand inserts the measurement, then
\* noteDeviceMeasurement learns the address the request came from ...
CompleteCommand(c) ==
    /\ Event(2)
    /\ command[c].stage = "open"
    /\ LET ip == clientIP(uplink.agent)
       IN command' = [command EXCEPT ![c] =
                         [OpenCommand EXCEPT !.stage = "inserted", !.ip = ip.ip, !.status = ip.status]]
    /\ row' = [row EXCEPT ![c] = [NoRow EXCEPT !.state = "stored", !.by = "equipment", !.went = {"router"}]]
    /\ UNCHANGED <<uplink, place, proxy, egress, ledger, test, ender, queue, worker,
                   preview>>

CommandLearns(c) ==
    /\ command[c].stage = "inserted"
    /\ IF usableClientIP(command[c].status) THEN SetDeviceEgress(command[c].ip) ELSE UNCHANGED egress
    /\ command' = [command EXCEPT ![c] = [command[c] EXCEPT !.stage = "learned"]]
    /\ UNCHANGED <<uplink, place, proxy, ledger, test, ender, row, queue, worker,
                   preview, events>>

\* ... and classifies the measurement: read the reference and the row ...
CommandReads(c) ==
    /\ command[c].stage = "learned"
    /\ command' = IF row[c].state = "stored"
                  THEN [command EXCEPT ![c] = [command[c] EXCEPT !.stage = "read", !.ref = egress,
                                                                           !.raw = row[c].raw]]
                  ELSE [command EXCEPT ![c] = EndedCommand]
    /\ UNCHANGED <<uplink, place, proxy, egress, ledger, test, ender, row, queue, worker,
                   preview, events>>

\* ... and write it, leaving the operators to the worker.
CommandWrites(c) ==
    /\ command[c].stage = "read"
    /\ LET e == [obs |-> command[c].ip, status |-> command[c].status, changed |-> FALSE,
                 ref |-> command[c].ref, hint |-> "", obsASN |-> 0,
                 refASN |-> command[c].ref.asn, byEquipment |-> TRUE]
       IN  /\ WriteNet(c, command[c].raw, classify(e))
           /\ IF usableClientIP(e.status) THEN enqueueNetEnrich(c, e) ELSE UNCHANGED queue
    /\ command' = [command EXCEPT ![c] = EndedCommand]
    /\ UNCHANGED <<uplink, place, proxy, egress, ledger, test, ender, worker, preview, events>>

\* The request is cut short: its context is cancelled.
CommandCut(c) ==
    /\ command[c].stage \in {"inserted", "learned", "read"}
    /\ command' = [command EXCEPT ![c] = EndedCommand]
    /\ UNCHANGED <<uplink, place, proxy, egress, ledger, test, ender, row, queue, worker,
                   preview, events>>

\* handleSetCommandEndLocation: the page saw the command done and sends where
\* the phone is now.
EndLocationReads(c) ==
    /\ Event(1)
    /\ ender[c].stage = "idle"
    /\ row[c].state = "stored"
    /\ ender' = [ender EXCEPT ![c] = [stage |-> "read", raw |-> row[c].raw]]
    /\ UNCHANGED <<uplink, place, proxy, egress, ledger, test, command, row, queue,
                   worker, preview>>

EndLocationWrites(c) ==
    /\ ender[c].stage = "read"
    /\ WriteEndLocation(c, ender[c].raw)
    /\ ender' = [ender EXCEPT ![c] = [stage |-> "ended", raw |-> Blank]]
    /\ UNCHANGED <<uplink, place, proxy, egress, ledger, test, command, queue, worker,
                   preview, events>>

\* DeleteMeasurement.
Delete(id) ==
    /\ Event(1)
    /\ row[id].state = "stored"
    /\ row' = [row EXCEPT ![id] = [NoRow EXCEPT !.state = "deleted"]]
    /\ UNCHANGED <<uplink, place, proxy, egress, ledger, test, command, ender, queue,
                   worker, preview>>

---------------------------------------------------------------------------
\* enrichNet: resolve both operators (the DNS may fail for each) ...
WorkerResolves ==
    /\ worker.stage = "idle" /\ queue # <<>>
    /\ LET e == Head(queue).ev
           known == e.ref.asn # 0 \/ e.ref.ip = NoAddress
       IN  \E o \in {0, Asn[e.obs]}, r \in IF known THEN {e.ref.asn} ELSE {0, Asn[e.ref.ip]} :
               worker' = [worker EXCEPT
                   !.stage = IF ~known /\ r # 0 THEN "resolved" ELSE "saved",
                   !.job = <<[id |-> Head(queue).id, ev |-> [e EXCEPT !.obsASN = o, !.refASN = r]]>>]
    /\ queue' = Tail(queue)
    /\ UNCHANGED <<uplink, place, proxy, egress, ledger, test, command, ender, row,
                   preview, events>>

\* ... save the router's, if it was not known ...
WorkerSaves ==
    /\ worker.stage = "resolved"
    /\ LET e == worker.job[1].ev IN SetDeviceEgressASN(e.ref.ip, e.refASN)
    /\ worker' = [worker EXCEPT !.stage = "saved"]
    /\ UNCHANGED <<uplink, place, proxy, ledger, test, command, ender, row, queue,
                   preview, events>>

\* ... and classify again with one signal more.
WorkerReads ==
    /\ worker.stage = "saved"
    /\ LET id == worker.job[1].id
       IN worker' = IF row[id].state = "stored"
                    THEN [worker EXCEPT !.stage = "read", !.raw = row[id].raw] ELSE IdleWorker
    /\ UNCHANGED <<uplink, place, proxy, egress, ledger, test, command, ender, row, queue,
                   preview, events>>

WorkerWrites_AgainstNow ==
    /\ worker.stage = "read"
    /\ LET j == worker.job[1] IN WriteNet(j.id, worker.raw, classify([j.ev EXCEPT !.ref = egress]))
    /\ worker' = IdleWorker
    /\ UNCHANGED <<uplink, place, proxy, egress, ledger, test, command, ender, queue,
                   preview, events>>

WorkerWrites ==
    /\ worker.stage = "read"
    /\ LET j == worker.job[1] IN WriteNet(j.id, worker.raw, classify(j.ev))
    /\ worker' = IdleWorker
    /\ UNCHANGED <<uplink, place, proxy, egress, ledger, test, command, ender, queue,
                   preview, events>>

---------------------------------------------------------------------------
NetNext ==
    \/ Rotate \/ Move \/ TenMinutes \/ ProxyResolves \/ TunnelMoves \/ Restart
    \/ Heartbeat \/ NetInfoReads \/ NetInfoSaves
    \/ WorkerResolves \/ WorkerSaves \/ WorkerReads \/ WorkerWrites
    \/ \E t \in Tests : \/ StartTest(t) \/ ChangeEvent(t) \/ CfMetaIp(t) \/ Transfer(t)
                        \/ AbortTest(t) \/ PostMeasurement(t)
    \/ \E c \in Commands : \/ CompleteCommand(c) \/ CommandLearns(c) \/ CommandReads(c)
                           \/ CommandWrites(c) \/ CommandCut(c)
                           \/ EndLocationReads(c) \/ EndLocationWrites(c)
    \/ \E m \in Measurements : Delete(m)

NetSpec == NetInit /\ [][NetNext]_netVars

---------------------------------------------------------------------------
(* The model stays within its shapes (netclass.go and device_egress). *)
NetTypeOK ==
    /\ uplink \in Uplinks /\ place \in Places
    /\ proxy \in {"never", "known", "outdated"}
    /\ egress \in DeviceEgress
    /\ DOMAIN ledger \subseteq Tests /\ ledger \in [DOMAIN ledger -> Observation]
    /\ test \in [Tests -> TestState]
    /\ command \in [Commands -> CommandState]
    /\ \A c \in Commands : Answered(command[c])
    /\ ender \in [Commands -> EnderState]
    /\ row \in [Measurements -> Row]
    /\ queue \in Seq(Job)
    /\ worker \in WorkerState /\ (worker.stage = "idle" <=> worker.job = <<>>)
    /\ preview \in MaybeAddress
    /\ events \in 0..MaxEvents

(* The operator kept beside the address of the router is the operator of that *)
(* very address, although heartbeats replace the address while two others are *)
(* waiting for the DNS (SetDeviceEgress, SetDeviceEgressASN).                 *)
EgressAsnIsOfItsAddress ==
    egress.asn # 0 => egress.ip # NoAddress /\ egress.asn = Asn[egress.ip]

\* What ListDeviceSummaries takes for the headline speed of the device.
Headline(id) ==
    /\ row[id].state = "stored"
    /\ \/ row[id].col.route = ""
       \/ row[id].col.route = "router" /\ row[id].col.conf \in {"high", "medium"}

(* A browser test that reaches the headline did measure the router: whenever   *)
(* the phone stayed on its network, and, when the server saw the test from the *)
(* /64 of the router at both ends, even if it did not.  The one exception is   *)
(* another WiFi with an exit that the router may use too, its CGNAT address    *)
(* (netclass.go:366) or, which that comment leaves out, its operator's /48: a  *)
(* hint of some WiFi is then enough.  The phone's own SIM never gets in.       *)
HeadlineIsHonest ==
    \A t \in Tests :
        /\ Headline(t)
        /\ row[t].steady \/ (row[t].window /\ row[t].match = "own")
        => \/ row[t].went = {"router"}
           \/ row[t].match = "shared" /\ row[t].went = {"otherwifi"}

(* "Another network", with high confidence, is never said of a test that went *)
(* through the router, its address just rotated or its exit a relay.          *)
SureOtherNetworkIsTrue ==
    \A t \in Tests :
        /\ row[t].state = "stored" /\ row[t].steady
        /\ row[t].col.route = "other-network" /\ row[t].col.conf = "high"
        => "router" \notin row[t].went

(* A test one of whose own requests came from a tunnel nobody could verify    *)
(* stays at low confidence, whatever the worker learns afterwards.  It does    *)
(* not speak of the address of the router: one that was learned so is used     *)
(* like any other once the tunnel is known (api.go:373).                       *)
UnverifiedRequestIsNeverSure ==
    \A t \in Tests : row[t].unverified => row[t].col.conf = "low" /\ row[t].raw.conf = "low"

(* A measurement of the equipment itself always counts for the headline,      *)
(* whatever its address was and wherever its classification was cut.          *)
EquipmentAlwaysCounts ==
    \A c \in Commands : row[c].state = "stored" => Headline(c)

(* No test enters the headline after it was stored: what the worker learns    *)
(* can only take it out.                                                      *)
NoLatePromotion ==
    [][\A t \in Tests : row[t].state = "stored" /\ Headline(t)' => Headline(t)]_netVars

(* The columns of a measurement and its raw JSON say the same.                *)
ColumnsMatchRaw ==
    \A id \in Measurements : row[id].col = row[id].raw
=============================================================================
