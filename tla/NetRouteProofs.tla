--------------------------- MODULE NetRouteProofs ---------------------------
(* Proofs about NetRoute, for every set of addresses, tests and commands.    *)
EXTENDS NetRoute, SequenceTheorems, TLAPS

Verdicts == [route : Routes, conf : Confidences]

\* A verdict is one of the three routes with one of the three confidences.
LEMMA VerdictType == \A e : classify(e) \in Verdicts
<1> SUFFICES ASSUME NEW e PROVE classify(e) \in Verdicts
    OBVIOUS
<1>1. classifySignals(e) \in Verdicts
    BY DEF classifySignals, Unknown, Verdicts, Routes, Confidences
<1>2. Capped(e, classifySignals(e)) \in Verdicts
    BY <1>1 DEF Capped, Verdicts, Confidences
<1>3. BySelf \in Verdicts
    BY DEF BySelf, Verdicts, Routes, Confidences
<1> QED
    BY <1>2, <1>3, Zenon DEF classify

\* An address the server uses is the one the request came from.
LEMMA ClientIPType ==
    ASSUME NEW a \in Addresses, proxy \in {"never", "known", "outdated"}
    PROVE  /\ clientIP(a).ip \in MaybeAddress
           /\ clientIP(a).status \in Statuses
           /\ usableClientIP(clientIP(a).status) => clientIP(a).ip = a
           /\ clientIP(a).status # "forged-header" => clientIP(a).ip = a
BY DEF clientIP, usableClientIP, Statuses, MaybeAddress

\* The values everything starts from have their shapes.
LEMMA BlankType ==
    /\ Blank \in Contents
    /\ NoEgress \in DeviceEgress
    /\ Answered(OpenCommand) /\ Answered(EndedCommand)
    /\ NewTest \in TestState
    /\ EndedTest \in TestState
    /\ OpenCommand \in CommandState
    /\ EndedCommand \in CommandState
    /\ [stage |-> "idle", raw |-> Blank] \in EnderState
    /\ [stage |-> "ended", raw |-> Blank] \in EnderState
    /\ NoRow \in Row
    /\ IdleWorker \in WorkerState
<1>1. Blank \in Contents
    BY DEF Blank, Contents
<1>2. NoEgress \in DeviceEgress
    BY DEF NoEgress, DeviceEgress, MaybeAddress, MaybeAsn
<1>3. NewTest \in TestState /\ EndedTest \in TestState
    BY DEF NewTest, EndedTest, TestState, MaybeAddress
<1>4. /\ OpenCommand \in CommandState /\ EndedCommand \in CommandState
      /\ Answered(OpenCommand) /\ Answered(EndedCommand)
    BY <1>1, <1>2 DEF OpenCommand, EndedCommand, CommandState, Answered, MaybeAddress
<1>5. /\ [stage |-> "idle", raw |-> Blank] \in EnderState
      /\ [stage |-> "ended", raw |-> Blank] \in EnderState
    BY <1>1 DEF EnderState
<1>6. NoRow \in Row
    BY <1>1 DEF NoRow, Row
<1>7. IdleWorker \in WorkerState
    <2>1. <<>> \in Seq(Job)
        BY EmptySeq
    <2> QED
        BY <1>1, <2>1 DEF IdleWorker, WorkerState
<1> QED
    BY <1>1, <1>2, <1>3, <1>4, <1>5, <1>6, <1>7

LEMMA InitType == NetInit => NetTypeOK
<1> SUFFICES ASSUME NetInit PROVE NetTypeOK
    OBVIOUS
<1> USE DEF NetInit
<1>1. ledger = <<>> => DOMAIN ledger \subseteq Tests /\ ledger \in [DOMAIN ledger -> Observation]
    OBVIOUS
<1>2. queue \in Seq(Job)
    BY EmptySeq
<1>3. worker \in WorkerState /\ (worker.stage = "idle" <=> worker.job = <<>>)
    BY BlankType DEF IdleWorker
<1>4. events \in 0..MaxEvents
    BY BoundAssumption
<1> QED
    BY <1>1, <1>2, <1>3, <1>4, BlankType DEF NetTypeOK, MaybeAddress

---------------------------------------------------------------------------
\* What the helpers of the handlers do to the state.
LEMMA UplinkType ==
    ASSUME NetTypeOK
    PROVE  uplink.agent \in Addresses /\ ExitAddresses \subseteq Addresses
<1>1. uplink \in [agent : Addresses, clients : SUBSET Addresses]
    BY NetworkAssumption DEF NetTypeOK
<1> QED
    BY <1>1, NetworkAssumption DEF NetTypeOK, ExitAddresses, Places

LEMMA EgressStep ==
    ASSUME NetTypeOK, NEW ip \in Addresses, SetDeviceEgress(ip)
    PROVE  egress' \in DeviceEgress
BY DEF NetTypeOK, SetDeviceEgress, DeviceEgress, MaybeAddress, MaybeAsn

LEMMA EgressAsnStep ==
    ASSUME NetTypeOK, NEW ip, NEW asn \in MaybeAsn, SetDeviceEgressASN(ip, asn)
    PROVE  egress' \in DeviceEgress
BY DEF NetTypeOK, SetDeviceEgressASN, DeviceEgress

LEMMA ObserveStep ==
    ASSUME NetTypeOK, NEW t \in Tests, NEW ip \in Addresses,
           NEW status \in {"ok", "proxy-unverified"}, Observe(t, ip, status)
    PROVE  DOMAIN ledger' \subseteq Tests /\ ledger' \in [DOMAIN ledger' -> Observation]
<1> DEFINE kept == [u \in {u \in DOMAIN ledger : ~ledger[u].old} |-> ledger[u]]
           entry == IF t \in DOMAIN kept THEN kept[t]
                    ELSE [first |-> ip, last |-> ip, status |-> status, n |-> 0,
                          old |-> FALSE, seen |-> {}]
           updated == [first |-> entry.first, last |-> ip, n |-> entry.n + 1, old |-> FALSE,
                       status |-> WorstStatus(entry.status, status),
                       seen |-> entry.seen \cup {status}]
<1>1. ledger \in [DOMAIN ledger -> Observation] /\ DOMAIN ledger \subseteq Tests
    BY DEF NetTypeOK
<1>2. kept \in [DOMAIN kept -> Observation] /\ DOMAIN kept \subseteq Tests
    BY <1>1
<1>3. entry \in Observation
    BY <1>2 DEF Observation
<1>4. updated \in Observation
    BY <1>3 DEF Observation, WorstStatus
<1>5. ledger' = kept \/ ledger' = [u \in DOMAIN kept \cup {t} |-> IF u = t THEN updated ELSE kept[u]]
    BY Zenon DEF Observe
<1> QED
    BY <1>2, <1>4, <1>5

LEMMA MatchType == \A e : Match(e) \in {"none", "shared", "own"}
BY DEF Match

LEMMA EvidenceType ==
    ASSUME NetTypeOK, NEW t \in Tests, NEW a \in Addresses
    PROVE  Evidence(t, clientIP(a)) \in NetEvidence
<1>1. clientIP(a).ip \in MaybeAddress /\ clientIP(a).status \in Statuses
    BY ClientIPType DEF NetTypeOK
<1>2. test[t] \in TestState /\ egress \in DeviceEgress
    BY DEF NetTypeOK
<1>3. t \in DOMAIN ledger => ledger[t] \in Observation
    BY DEF NetTypeOK
<1> DEFINE e == Evidence(t, clientIP(a))
<1>4. e.obs \in MaybeAddress
    BY <1>1, <1>3 DEF Evidence, Observation, MaybeAddress
<1>5. e.status \in Statuses
    BY <1>1, <1>3 DEF Evidence, Observation, Statuses
<1>6. e.changed \in BOOLEAN
    BY <1>2 DEF Evidence, TestState
<1>7. e.hint \in {"cellular", "wifi", ""}
    BY <1>2 DEF Evidence, TestState
<1>8. e.obsASN \in MaybeAsn /\ e.refASN \in MaybeAsn /\ e.ref \in DeviceEgress /\ e.byEquipment \in BOOLEAN
    BY <1>2 DEF Evidence, DeviceEgress, MaybeAsn
<1>9. e = [obs |-> e.obs, status |-> e.status, changed |-> e.changed, ref |-> e.ref,
           hint |-> e.hint, obsASN |-> e.obsASN, refASN |-> e.refASN,
           byEquipment |-> e.byEquipment]
    BY DEF Evidence
<1>10. e = Evidence(t, clientIP(a))
    OBVIOUS
<1> HIDE DEF e
<1>11. e \in NetEvidence
    BY <1>4, <1>5, <1>6, <1>7, <1>8, <1>9 DEF NetEvidence, Statuses
<1> QED
    BY <1>10, <1>11

LEMMA EnqueueStep ==
    ASSUME queue \in Seq(Job), NEW id \in Measurements, NEW e \in NetEvidence,
           e.obs # NoAddress, enqueueNetEnrich(id, e)
    PROVE  queue' \in Seq(Job)
<1>1. [id |-> id, ev |-> e] \in Job
    BY DEF Job
<1> QED
    BY <1>1, AppendProperties DEF enqueueNetEnrich

LEMMA ClassifiedType ==
    ASSUME NEW c \in Contents, NEW v \in Verdicts
    PROVE  Classified(c, v) \in Contents /\ Located(c) \in Contents
BY DEF Classified, Located, Contents, Verdicts

LEMMA WriteNetStep ==
    ASSUME NetTypeOK, NEW id \in Measurements, NEW raw \in Contents, NEW v \in Verdicts,
           WriteNet(id, raw, v)
    PROVE  row' \in [Measurements -> Row]
<1>1. row[id] \in Row /\ row[id].col \in Contents
    BY DEF NetTypeOK, Row
<1>2. [row[id] EXCEPT !.col = Classified(row[id].col, v), !.raw = Classified(raw, v)] \in Row
    BY <1>1, ClassifiedType DEF Row
<1> QED
    BY <1>2 DEF WriteNet, NetTypeOK

LEMMA WriteEndLocationStep ==
    ASSUME NetTypeOK, NEW id \in Measurements, NEW raw \in Contents, WriteEndLocation(id, raw)
    PROVE  row' \in [Measurements -> Row]
<1>1. row[id] \in Row /\ row[id].col \in Contents
    BY DEF NetTypeOK, Row
<1>2. Located(row[id].col) \in Contents /\ Located(raw) \in Contents
    BY <1>1 DEF Located, Contents
<1>3. [row[id] EXCEPT !.col = Located(row[id].col), !.raw = Located(raw)] \in Row
    BY <1>1, <1>2 DEF Row
<1> QED
    BY <1>3 DEF WriteEndLocation, NetTypeOK

---------------------------------------------------------------------------
\* Every step keeps the shapes.
LEMMA EventStep ==
    ASSUME NetTypeOK, NEW w \in {1, 2}, Event(w)
    PROVE  events' \in 0..MaxEvents
<1>1. events \in 0..MaxEvents /\ MaxEvents \in Nat
    BY BoundAssumption DEF NetTypeOK
<1> QED
    BY <1>1 DEF Event

LEMMA WorldType ==
    ASSUME NetTypeOK,
           Rotate \/ Move \/ TenMinutes \/ ProxyResolves \/ TunnelMoves \/ Restart
    PROVE  NetTypeOK'
<1>1. CASE Rotate
    <2>1. events' \in 0..MaxEvents
        BY <1>1, EventStep DEF Rotate
    <2> QED
        BY <1>1, <2>1 DEF NetTypeOK, Rotate
<1>2. CASE Move
    <2>1. events' \in 0..MaxEvents
        BY <1>2, EventStep DEF Move
    <2>2. ASSUME NEW t \in Tests
          PROVE  [test[t] EXCEPT !.steady = FALSE] \in TestState
        BY DEF NetTypeOK, TestState
    <2>3. test' \in [Tests -> TestState]
        BY <1>2, <2>2 DEF Move, NetTypeOK
    <2> QED
        BY <1>2, <2>1, <2>3 DEF NetTypeOK, Move
<1>3. CASE TenMinutes
    <2>1. events' \in 0..MaxEvents
        BY <1>3, EventStep DEF TenMinutes
    <2>2. egress' \in DeviceEgress
        BY <1>3 DEF TenMinutes, NetTypeOK, DeviceEgress
    <2>3. ASSUME NEW t \in DOMAIN ledger
          PROVE  [ledger[t] EXCEPT !.old = TRUE] \in Observation
        <3>1. ledger[t] \in Observation
            BY DEF NetTypeOK
        <3> QED
            BY <3>1 DEF Observation
    <2>4. DOMAIN ledger' \subseteq Tests /\ ledger' \in [DOMAIN ledger' -> Observation]
        BY <1>3, <2>3 DEF TenMinutes, NetTypeOK
    <2> QED
        BY <1>3, <2>1, <2>2, <2>4 DEF NetTypeOK, TenMinutes
<1>4. CASE ProxyResolves \/ TunnelMoves
    <2>1. events' \in 0..MaxEvents
        BY <1>4, EventStep DEF ProxyResolves, TunnelMoves
    <2> QED
        BY <1>4, <2>1 DEF NetTypeOK, ProxyResolves, TunnelMoves
<1>5. CASE Restart
    <2>1. events' \in 0..MaxEvents
        BY <1>5, EventStep DEF Restart
    <2>2. DOMAIN ledger' \subseteq Tests /\ ledger' \in [DOMAIN ledger' -> Observation]
        BY <1>5 DEF Restart
    <2>3. queue' \in Seq(Job)
        BY <1>5, EmptySeq DEF Restart
    <2>4. worker' \in WorkerState /\ (worker'.stage = "idle" <=> worker'.job = <<>>)
        BY <1>5, BlankType DEF Restart, IdleWorker
    <2>5. command' \in [Commands -> CommandState] /\ \A c \in Commands : Answered(command'[c])
        BY <1>5, BlankType DEF Restart, NetTypeOK
    <2>6. ender' \in [Commands -> EnderState]
        BY <1>5, BlankType DEF Restart, NetTypeOK
    <2> QED
        BY <1>5, <2>1, <2>2, <2>3, <2>4, <2>5, <2>6 DEF NetTypeOK, Restart, MaybeAddress
<1> QED
    BY <1>1, <1>2, <1>3, <1>4, <1>5

LEMMA EgressType ==
    ASSUME NetTypeOK, Heartbeat \/ NetInfoReads \/ NetInfoSaves
    PROVE  NetTypeOK'
<1>1. CASE Heartbeat
    <2>1. clientIP(uplink.agent).ip \in Addresses
        BY <1>1, UplinkType, ClientIPType DEF Heartbeat, NetTypeOK
    <2>2. egress' \in DeviceEgress
        BY <1>1, <2>1, EgressStep DEF Heartbeat
    <2> QED
        BY <1>1, <2>2 DEF NetTypeOK, Heartbeat
<1>2. CASE NetInfoReads
    <2>1. events' \in 0..MaxEvents
        BY <1>2, EventStep DEF NetInfoReads
    <2> QED
        BY <1>2, <2>1 DEF NetTypeOK, NetInfoReads, DeviceEgress
<1>3. CASE NetInfoSaves
    <2>1. Asn[preview] \in MaybeAsn
        BY <1>3 DEF NetInfoSaves, NetTypeOK, MaybeAddress, MaybeAsn
    <2>2. egress' \in DeviceEgress
        BY <1>3, <2>1, EgressAsnStep DEF NetInfoSaves, NetTypeOK
    <2> QED
        BY <1>3, <2>2 DEF NetTypeOK, NetInfoSaves, MaybeAddress
<1> QED
    BY <1>1, <1>2, <1>3

LEMMA TestType ==
    ASSUME NetTypeOK, NEW t \in Tests,
           \/ StartTest(t) \/ ChangeEvent(t) \/ CfMetaIp(t) \/ Transfer(t)
           \/ AbortTest(t) \/ PostMeasurement(t)
    PROVE  NetTypeOK'
<1>0. test[t] \in TestState /\ place \in Places
    BY DEF NetTypeOK
<1>1. CASE StartTest(t)
    <2>1. events' \in 0..MaxEvents
        BY <1>1, EventStep DEF StartTest
    <2>2. PICK k \in {"backend", "cloudflare"}, h \in {"", "cellular", "wifi"} :
             test' = [test EXCEPT ![t] = [NewTest EXCEPT !.stage = "started", !.kind = k, !.hint = h]]
        BY <1>1 DEF StartTest
    <2>3. [NewTest EXCEPT !.stage = "started", !.kind = k, !.hint = h] \in TestState
        BY BlankType DEF TestState
    <2>4. test' \in [Tests -> TestState]
        BY <2>2, <2>3 DEF NetTypeOK
    <2> QED
        BY <1>1, <2>1, <2>4 DEF NetTypeOK, StartTest
<1>2. CASE ChangeEvent(t)
    <2>1. events' \in 0..MaxEvents
        BY <1>2, EventStep DEF ChangeEvent
    <2>2. [test[t] EXCEPT !.watch = TRUE] \in TestState
        BY <1>0 DEF TestState
    <2>3. test' \in [Tests -> TestState]
        BY <1>2, <2>2 DEF ChangeEvent, NetTypeOK
    <2> QED
        BY <1>2, <2>1, <2>3 DEF NetTypeOK, ChangeEvent
<1>3. CASE CfMetaIp(t)
    <2>1. PICK a \in MaybeAddress :
             \/ test' = [test EXCEPT ![t] = [test[t] EXCEPT !.stage = "read", !.cfStart = a]]
             \/ test' = [test EXCEPT ![t] = [test[t] EXCEPT !.stage = "reread", !.cfEnd = a]]
        BY <1>3, UplinkType DEF CfMetaIp, MaybeAddress
    <2>2. /\ [test[t] EXCEPT !.stage = "read", !.cfStart = a] \in TestState
          /\ [test[t] EXCEPT !.stage = "reread", !.cfEnd = a] \in TestState
        BY <1>0 DEF TestState
    <2>3. test' \in [Tests -> TestState]
        BY <2>1, <2>2 DEF NetTypeOK
    <2> QED
        BY <1>3, <2>3 DEF NetTypeOK, CfMetaIp
<1>4. CASE Transfer(t)
    <2>1. /\ [test[t] EXCEPT !.stage = "down", !.went = {place}] \in TestState
          /\ [test[t] EXCEPT !.stage = "up", !.went = test[t].went \cup {place}] \in TestState
        BY <1>0 DEF TestState
    <2>2. test' \in [Tests -> TestState]
        BY <1>4, <2>1 DEF Transfer, NetTypeOK
    <2>3. PICK a \in ExitAddresses :
             IF test[t].kind = "backend" /\ usableClientIP(clientIP(a).status)
             THEN Observe(t, clientIP(a).ip, clientIP(a).status) ELSE UNCHANGED ledger
        BY <1>4 DEF Transfer
    <2>4. CASE UNCHANGED ledger
        BY <1>4, <2>2, <2>4 DEF NetTypeOK, Transfer
    <2>5. CASE /\ usableClientIP(clientIP(a).status)
               /\ Observe(t, clientIP(a).ip, clientIP(a).status)
        <3>1. a \in Addresses
            BY UplinkType
        <3>2. clientIP(a).ip \in Addresses /\ clientIP(a).status \in {"ok", "proxy-unverified"}
            BY <2>5, <3>1, ClientIPType DEF NetTypeOK, usableClientIP
        <3>3. DOMAIN ledger' \subseteq Tests /\ ledger' \in [DOMAIN ledger' -> Observation]
            BY <2>5, <3>2, ObserveStep
        <3> QED
            BY <1>4, <2>2, <3>3 DEF NetTypeOK, Transfer
    <2> QED
        BY <2>3, <2>4, <2>5
<1>5. CASE AbortTest(t)
    <2>1. events' \in 0..MaxEvents
        BY <1>5, EventStep DEF AbortTest
    <2>2. test' \in [Tests -> TestState]
        BY <1>5, BlankType DEF AbortTest, NetTypeOK
    <2> QED
        BY <1>5, <2>1, <2>2 DEF NetTypeOK, AbortTest
<1>6. CASE PostMeasurement(t)
    <2>1. PICK a \in ExitAddresses :
            LET c == clientIP(a)
                seen == t \in DOMAIN ledger
                e == Evidence(t, c)
                v == classify(e)
                contents == [route |-> v.route, conf |-> v.conf, end |-> FALSE]
            IN  /\ row' = [row EXCEPT ![t] =
                       [state |-> "stored", col |-> contents, raw |-> contents, by |-> "browser",
                        went |-> test[t].went, steady |-> test[t].steady,
                        window |-> seen /\ ledger[t].n = 2,
                        unverified |-> IF seen THEN "proxy-unverified" \in ledger[t].seen
                                       ELSE c.status = "proxy-unverified",
                        match |-> Match(e)]]
                /\ IF e.obs = NoAddress THEN UNCHANGED queue ELSE enqueueNetEnrich(t, e)
        BY <1>6 DEF PostMeasurement
    <2> DEFINE e == Evidence(t, clientIP(a))
               v == classify(e)
               contents == [route |-> v.route, conf |-> v.conf, end |-> FALSE]
    <2>2. e \in NetEvidence
        BY UplinkType, EvidenceType
    <2>3. contents \in Contents
        BY VerdictType DEF Contents, Verdicts
    <2>4. test[t].went \in SUBSET Places /\ test[t].steady \in BOOLEAN
        BY <1>0 DEF TestState
    <2> DEFINE win == t \in DOMAIN ledger /\ ledger[t].n = 2
               unv == IF t \in DOMAIN ledger THEN "proxy-unverified" \in ledger[t].seen
                      ELSE clientIP(a).status = "proxy-unverified"
               new == [state |-> "stored", col |-> contents, raw |-> contents, by |-> "browser",
                       went |-> test[t].went, steady |-> test[t].steady,
                       window |-> win, unverified |-> unv, match |-> Match(e)]
    <2>5. win \in BOOLEAN /\ unv \in BOOLEAN /\ Match(e) \in {"none", "shared", "own"}
        <3>1. win \in BOOLEAN /\ Match(e) \in {"none", "shared", "own"}
            BY MatchType
        <3>2. /\ ("proxy-unverified" \in ledger[t].seen) \in BOOLEAN
              /\ (clientIP(a).status = "proxy-unverified") \in BOOLEAN
            OBVIOUS
        <3>3. \A p, x, y : x \in BOOLEAN /\ y \in BOOLEAN => (IF p THEN x ELSE y) \in BOOLEAN
            OBVIOUS
        <3>4. unv \in BOOLEAN
            BY <3>2, <3>3, Zenon
        <3> QED
            BY <3>1, <3>4, Zenon
    <2>6. row' = [row EXCEPT ![t] = new]
        BY <2>1, Zenon
    <2>7. row' \in [Measurements -> Row]
        <3>1. new \in Row
            <4> HIDE DEF contents, win, unv, e
            <4> QED
                BY <2>3, <2>4, <2>5 DEF Row
        <3> HIDE DEF new
        <3> QED
            BY <2>6, <3>1 DEF NetTypeOK
    <2>8. queue' \in Seq(Job)
        <3>1. UNCHANGED queue \/ (e.obs # NoAddress /\ enqueueNetEnrich(t, e))
            BY <2>1, Zenon
        <3> HIDE DEF e
        <3> QED
            BY <2>2, <3>1, EnqueueStep DEF NetTypeOK, Measurements
    <2>9. DOMAIN ledger' \subseteq Tests /\ ledger' \in [DOMAIN ledger' -> Observation]
        BY <1>6 DEF NetTypeOK, PostMeasurement
    <2>10. test' \in [Tests -> TestState]
        BY <1>6, BlankType DEF PostMeasurement, NetTypeOK
    <2> QED
        BY <1>6, <2>7, <2>8, <2>9, <2>10 DEF NetTypeOK, PostMeasurement
<1> QED
    BY <1>1, <1>2, <1>3, <1>4, <1>5, <1>6

LEMMA CommandType ==
    ASSUME NetTypeOK, NEW c \in Commands,
           \/ CompleteCommand(c) \/ CommandLearns(c) \/ CommandReads(c)
           \/ CommandWrites(c) \/ CommandCut(c)
    PROVE  NetTypeOK'
<1>0. command[c] \in CommandState /\ Answered(command[c]) /\ c \in Measurements /\ egress \in DeviceEgress
    BY DEF NetTypeOK, Measurements
<1>1. CASE CompleteCommand(c)
    <2>1. events' \in 0..MaxEvents
        BY <1>1, EventStep DEF CompleteCommand
    <2> DEFINE ip == clientIP(uplink.agent)
               new == [OpenCommand EXCEPT !.stage = "inserted", !.ip = ip.ip, !.status = ip.status]
    <2>2. /\ ip.ip \in MaybeAddress /\ ip.status \in Statuses
          /\ usableClientIP(ip.status) => ip.ip # NoAddress
        BY UplinkType, ClientIPType, AddressAssumption DEF NetTypeOK
    <2>3. new \in CommandState /\ Answered(new)
        <3> HIDE DEF ip
        <3>1. new \in CommandState
            BY <2>2, BlankType DEF CommandState
        <3>2. new.status = ip.status /\ new.ip = ip.ip
            BY BlankType DEF CommandState
        <3> QED
            BY <2>2, <3>1, <3>2 DEF Answered, Statuses
    <2>4. command' \in [Commands -> CommandState] /\ \A d \in Commands : Answered(command'[d])
        BY <1>1, <2>3 DEF CompleteCommand, NetTypeOK
    <2>5. [NoRow EXCEPT !.state = "stored", !.by = "equipment", !.went = {"router"}] \in Row
        BY BlankType DEF Row, Places
    <2>6. row' \in [Measurements -> Row]
        BY <1>0, <1>1, <2>5 DEF CompleteCommand, NetTypeOK
    <2> QED
        BY <1>1, <2>1, <2>4, <2>6 DEF NetTypeOK, CompleteCommand
<1>2. CASE CommandLearns(c)
    <2>1. /\ [command[c] EXCEPT !.stage = "learned"] \in CommandState
          /\ Answered([command[c] EXCEPT !.stage = "learned"])
        BY <1>0, <1>2 DEF CommandState, Answered, CommandLearns
    <2>2. command' \in [Commands -> CommandState] /\ \A d \in Commands : Answered(command'[d])
        BY <1>2, <2>1 DEF CommandLearns, NetTypeOK
    <2>3. egress' \in DeviceEgress
        <3>1. CASE UNCHANGED egress
            BY <1>0, <3>1
        <3>2. CASE /\ usableClientIP(command[c].status)
                   /\ SetDeviceEgress(command[c].ip)
            <4>1. command[c].ip \in MaybeAddress
                BY <1>0 DEF CommandState
            <4> QED
                BY <1>0, <3>2, <4>1 DEF SetDeviceEgress, DeviceEgress, MaybeAsn
        <3> QED
            BY <1>2, <3>1, <3>2 DEF CommandLearns
    <2> QED
        BY <1>2, <2>2, <2>3 DEF NetTypeOK, CommandLearns
<1>3. CASE CommandReads(c)
    <2>1. row[c].raw \in Contents
        BY <1>0 DEF NetTypeOK, Row
    <2> DEFINE new == [command[c] EXCEPT !.stage = "read", !.ref = egress, !.raw = row[c].raw]
    <2>2. new \in CommandState /\ Answered(new)
        BY <1>0, <1>3, <2>1 DEF CommandState, Answered, CommandReads
    <2>3. command' \in [Commands -> CommandState] /\ \A d \in Commands : Answered(command'[d])
        BY <1>3, <2>2, BlankType DEF CommandReads, NetTypeOK
    <2> QED
        BY <1>3, <2>3 DEF NetTypeOK, CommandReads
<1>4. CASE CommandWrites(c)
    <2> DEFINE e == [obs |-> command[c].ip, status |-> command[c].status, changed |-> FALSE,
                     ref |-> command[c].ref, hint |-> "", obsASN |-> 0,
                     refASN |-> command[c].ref.asn, byEquipment |-> TRUE]
    <2>1. /\ WriteNet(c, command[c].raw, classify(e))
          /\ UNCHANGED queue \/ (usableClientIP(e.status) /\ enqueueNetEnrich(c, e))
        BY <1>4, Zenon DEF CommandWrites
    <2>2. e \in NetEvidence /\ (usableClientIP(e.status) => e.obs # NoAddress)
        <3>1. /\ command[c].status # ""
              /\ usableClientIP(command[c].status) => command[c].ip # NoAddress
            BY <1>0, <1>4 DEF CommandWrites, Answered
        <3> QED
            BY <1>0, <3>1 DEF CommandState, DeviceEgress, NetEvidence, MaybeAsn
    <2>3. command[c].raw \in Contents
        BY <1>0 DEF CommandState
    <2> HIDE DEF e
    <2>4. row' \in [Measurements -> Row]
        BY <1>0, <2>1, <2>3, VerdictType, WriteNetStep
    <2>5. queue' \in Seq(Job)
        BY <1>0, <2>1, <2>2, EnqueueStep DEF NetTypeOK
    <2>6. command' \in [Commands -> CommandState] /\ \A d \in Commands : Answered(command'[d])
        BY <1>4, BlankType DEF CommandWrites, NetTypeOK
    <2> QED
        BY <1>4, <2>4, <2>5, <2>6 DEF NetTypeOK, CommandWrites
<1>5. CASE CommandCut(c)
    <2>1. command' \in [Commands -> CommandState] /\ \A d \in Commands : Answered(command'[d])
        BY <1>5, BlankType DEF CommandCut, NetTypeOK
    <2> QED
        BY <1>5, <2>1 DEF NetTypeOK, CommandCut
<1> QED
    BY <1>1, <1>2, <1>3, <1>4, <1>5

LEMMA EndLocationType ==
    ASSUME NetTypeOK, NEW c \in Commands, EndLocationReads(c) \/ EndLocationWrites(c)
    PROVE  NetTypeOK'
<1>0. c \in Measurements /\ row[c] \in Row /\ ender[c] \in EnderState
    BY DEF NetTypeOK, Measurements
<1>1. CASE EndLocationReads(c)
    <2>1. events' \in 0..MaxEvents
        BY <1>1, EventStep DEF EndLocationReads
    <2>2. [stage |-> "read", raw |-> row[c].raw] \in EnderState
        BY <1>0 DEF Row, EnderState
    <2>3. ender' \in [Commands -> EnderState]
        BY <1>1, <2>2 DEF EndLocationReads, NetTypeOK
    <2> QED
        BY <1>1, <2>1, <2>3 DEF NetTypeOK, EndLocationReads
<1>2. CASE EndLocationWrites(c)
    <2>1. ender[c].raw \in Contents
        BY <1>0 DEF EnderState
    <2>2. row' \in [Measurements -> Row]
        BY <1>0, <1>2, <2>1, WriteEndLocationStep DEF EndLocationWrites
    <2>3. ender' \in [Commands -> EnderState]
        BY <1>2, BlankType DEF EndLocationWrites, NetTypeOK
    <2> QED
        BY <1>2, <2>2, <2>3 DEF NetTypeOK, EndLocationWrites
<1> QED
    BY <1>1, <1>2

LEMMA DeleteType ==
    ASSUME NetTypeOK, NEW m \in Measurements, Delete(m)
    PROVE  NetTypeOK'
<1>1. events' \in 0..MaxEvents
    BY EventStep DEF Delete
<1>2. [NoRow EXCEPT !.state = "deleted"] \in Row
    BY BlankType DEF Row
<1>3. row' \in [Measurements -> Row]
    BY <1>2 DEF Delete, NetTypeOK
<1> QED
    BY <1>1, <1>3 DEF NetTypeOK, Delete

\* A worker with a job has exactly one, a well formed one.
LEMMA JobType ==
    ASSUME NetTypeOK, worker.stage # "idle"
    PROVE  /\ worker.job[1] \in Job
           /\ worker.job[1].id \in Measurements
           /\ worker.job[1].ev \in NetEvidence
<1>1. worker.job \in Seq(Job) /\ worker.job # <<>>
    BY DEF NetTypeOK, WorkerState
<1>2. worker.job[1] \in Job
    BY <1>1, HeadTailProperties
<1> QED
    BY <1>2 DEF Job

LEMMA WorkerType ==
    ASSUME NetTypeOK, WorkerResolves \/ WorkerSaves \/ WorkerReads \/ WorkerWrites
    PROVE  NetTypeOK'
<1>0. worker \in WorkerState /\ queue \in Seq(Job)
    BY DEF NetTypeOK
<1>1. CASE WorkerResolves
    <2> DEFINE e == Head(queue).ev
    <2>1. Head(queue) \in Job /\ Tail(queue) \in Seq(Job)
        BY <1>0, <1>1, HeadTailProperties DEF WorkerResolves
    <2>2. e \in NetEvidence /\ e.obs # NoAddress /\ Head(queue).id \in Measurements
        BY <2>1 DEF Job
    <2>3. PICK o \in {0, Asn[e.obs]}, r \in {e.ref.asn, 0, Asn[e.ref.ip]},
               st \in {"resolved", "saved"} :
             /\ e.ref.ip = NoAddress => r = e.ref.asn
             /\ worker' = [worker EXCEPT !.stage = st,
                 !.job = <<[id |-> Head(queue).id, ev |-> [e EXCEPT !.obsASN = o, !.refASN = r]]>>]
        BY <1>1 DEF WorkerResolves
    <2>4. o \in MaybeAsn /\ r \in MaybeAsn
        BY <2>2, <2>3 DEF NetEvidence, DeviceEgress, MaybeAsn, MaybeAddress
    <2>5. [e EXCEPT !.obsASN = o, !.refASN = r] \in NetEvidence
        BY <2>2, <2>4 DEF NetEvidence
    <2>6. [e EXCEPT !.obsASN = o, !.refASN = r].obs # NoAddress
        BY <2>2 DEF NetEvidence
    <2> DEFINE job == [id |-> Head(queue).id, ev |-> [e EXCEPT !.obsASN = o, !.refASN = r]]
    <2>7. job \in Job
        BY <2>2, <2>5, <2>6 DEF Job
    <2>8. <<job>> \in Seq(Job) /\ <<job>> # <<>>
        <3> HIDE DEF job
        <3> QED
            BY <2>7
    <2>9. worker' = [worker EXCEPT !.stage = st, !.job = <<job>>]
        BY <2>3
    <2>10. worker' \in WorkerState /\ (worker'.stage = "idle" <=> worker'.job = <<>>)
        <3> HIDE DEF job
        <3> QED
            BY <1>0, <2>3, <2>8, <2>9 DEF WorkerState
    <2> QED
        BY <1>1, <2>1, <2>10 DEF NetTypeOK, WorkerResolves
<1>2. CASE WorkerSaves
    <2>1. worker.job[1].ev.refASN \in MaybeAsn
        BY <1>2, JobType DEF WorkerSaves, Job, NetEvidence
    <2>2. egress' \in DeviceEgress
        BY <1>2, <2>1, EgressAsnStep DEF WorkerSaves
    <2>3. worker' \in WorkerState /\ (worker'.stage = "idle" <=> worker'.job = <<>>)
        BY <1>2 DEF WorkerSaves, NetTypeOK, WorkerState
    <2> QED
        BY <1>2, <2>2, <2>3 DEF NetTypeOK, WorkerSaves
<1>3. CASE WorkerReads
    <2>1. row[worker.job[1].id].raw \in Contents
        BY <1>3, JobType DEF WorkerReads, NetTypeOK, Row
    <2>2. worker' \in WorkerState /\ (worker'.stage = "idle" <=> worker'.job = <<>>)
        <3>1. CASE worker' = IdleWorker
            BY <3>1, BlankType DEF IdleWorker
        <3>2. CASE worker' = [worker EXCEPT !.stage = "read", !.raw = row[worker.job[1].id].raw]
            BY <1>3, <2>1, <3>2 DEF WorkerReads, NetTypeOK, WorkerState
        <3> QED
            BY <1>3, <3>1, <3>2 DEF WorkerReads
    <2> QED
        BY <1>3, <2>2 DEF NetTypeOK, WorkerReads
<1>4. CASE WorkerWrites
    <2>1. worker.raw \in Contents
        BY DEF NetTypeOK, WorkerState
    <2>2. row' \in [Measurements -> Row]
        BY <1>4, <2>1, JobType, VerdictType, WriteNetStep DEF WorkerWrites
    <2>3. worker' \in WorkerState /\ (worker'.stage = "idle" <=> worker'.job = <<>>)
        BY <1>4, BlankType DEF WorkerWrites, IdleWorker
    <2> QED
        BY <1>4, <2>2, <2>3 DEF NetTypeOK, WorkerWrites
<1> QED
    BY <1>1, <1>2, <1>3, <1>4

LEMMA TypeStep == NetTypeOK /\ [NetNext]_netVars => NetTypeOK'
<1> SUFFICES ASSUME NetTypeOK, [NetNext]_netVars PROVE NetTypeOK'
    OBVIOUS
<1>1. CASE UNCHANGED netVars
    BY <1>1 DEF NetTypeOK, netVars
<1>2. CASE NetNext
    BY <1>2, WorldType, EgressType, TestType, CommandType, EndLocationType, DeleteType,
       WorkerType DEF NetNext
<1> QED
    BY <1>1, <1>2

(* The model stays within its shapes, for every network, tests and commands. *)
THEOREM NetTypeInvariant == NetSpec => []NetTypeOK
BY InitType, TypeStep, PTL DEF NetSpec

---------------------------------------------------------------------------
\* The operator kept with the address: what the worker is about to save is the
\* operator of the address it saves it for.
WorkerKnows ==
    worker.stage = "resolved" =>
        /\ worker.job[1].ev.ref.ip # NoAddress
        /\ worker.job[1].ev.refASN = Asn[worker.job[1].ev.ref.ip]

LEMMA EgressInit == NetInit => EgressAsnIsOfItsAddress /\ WorkerKnows
BY DEF NetInit, EgressAsnIsOfItsAddress, WorkerKnows, NoEgress, IdleWorker

LEMMA EgressInvStep ==
    NetTypeOK /\ EgressAsnIsOfItsAddress /\ WorkerKnows /\ [NetNext]_netVars
    => EgressAsnIsOfItsAddress' /\ WorkerKnows'
<1> SUFFICES ASSUME NetTypeOK, EgressAsnIsOfItsAddress, WorkerKnows, [NetNext]_netVars
             PROVE  EgressAsnIsOfItsAddress' /\ WorkerKnows'
    OBVIOUS
<1>0. egress \in DeviceEgress
    BY DEF NetTypeOK
<1>1. CASE UNCHANGED <<egress, worker>>
    BY <1>1 DEF EgressAsnIsOfItsAddress, WorkerKnows
<1>2. CASE TenMinutes
    BY <1>0, <1>2 DEF TenMinutes, EgressAsnIsOfItsAddress, WorkerKnows, DeviceEgress
<1>3. CASE Restart
    BY <1>3 DEF Restart, IdleWorker, EgressAsnIsOfItsAddress, WorkerKnows
<1>4. ASSUME NEW ip, SetDeviceEgress(ip), UNCHANGED worker
      PROVE  EgressAsnIsOfItsAddress' /\ WorkerKnows'
    BY <1>4 DEF SetDeviceEgress, EgressAsnIsOfItsAddress, WorkerKnows
<1>5. ASSUME NEW ip, ip # NoAddress, SetDeviceEgressASN(ip, Asn[ip])
      PROVE  EgressAsnIsOfItsAddress'
    BY <1>0, <1>5 DEF SetDeviceEgressASN, EgressAsnIsOfItsAddress, DeviceEgress
<1>6. CASE NetInfoSaves
    BY <1>1, <1>5, <1>6 DEF NetInfoSaves, WorkerKnows
<1>7. CASE WorkerResolves
    <2> DEFINE e == Head(queue).ev
    <2>1. Head(queue) \in Job
        BY <1>7, HeadTailProperties DEF WorkerResolves, NetTypeOK
    <2>2. e \in NetEvidence /\ worker \in WorkerState
        BY <2>1 DEF Job, NetTypeOK
    <2>3. PICK o \in {0, Asn[e.obs]}, r \in {e.ref.asn, 0, Asn[e.ref.ip]},
               st \in {"resolved", "saved"} :
             /\ st = "resolved" => e.ref.ip # NoAddress /\ r = Asn[e.ref.ip]
             /\ worker' = [worker EXCEPT !.stage = st,
                 !.job = <<[id |-> Head(queue).id, ev |-> [e EXCEPT !.obsASN = o, !.refASN = r]]>>]
        BY <1>7 DEF WorkerResolves
    <2>4. /\ worker'.stage = st
          /\ worker'.job[1].ev = [e EXCEPT !.obsASN = o, !.refASN = r]
        BY <2>2, <2>3 DEF WorkerState
    <2>5. worker'.job[1].ev.ref = e.ref /\ worker'.job[1].ev.refASN = r
        BY <2>2, <2>4 DEF NetEvidence
    <2>6. WorkerKnows'
        BY <2>3, <2>4, <2>5 DEF WorkerKnows
    <2> QED
        BY <1>7, <2>6 DEF WorkerResolves, EgressAsnIsOfItsAddress
<1>8. CASE WorkerSaves
    <2>1. worker'.stage = "saved"
        BY <1>8 DEF WorkerSaves, NetTypeOK, WorkerState
    <2> QED
        BY <1>5, <1>8, <2>1 DEF WorkerSaves, WorkerKnows
<1>9. CASE WorkerReads \/ WorkerWrites
    <2>1. worker'.stage # "resolved"
        <3>1. worker' = IdleWorker \/ worker' = [worker EXCEPT !.stage = "read",
                                                 !.raw = row[worker.job[1].id].raw]
            BY <1>9 DEF WorkerReads, WorkerWrites
        <3>2. IdleWorker.stage = "idle"
            BY DEF IdleWorker
        <3>3. \A x : [worker EXCEPT !.stage = "read", !.raw = x].stage = "read"
            BY DEF NetTypeOK, WorkerState
        <3> QED
            BY <3>1, <3>2, <3>3
    <2> QED
        BY <1>9, <2>1 DEF WorkerReads, WorkerWrites, WorkerKnows, EgressAsnIsOfItsAddress
<1>10. CASE Heartbeat
    BY <1>4, <1>10 DEF Heartbeat
<1>11. ASSUME NEW c \in Commands, CommandLearns(c)
       PROVE  EgressAsnIsOfItsAddress' /\ WorkerKnows'
    BY <1>1, <1>4, <1>11 DEF CommandLearns
<1>12. CASE UNCHANGED netVars
    BY <1>1, <1>12 DEF netVars
<1>13. CASE Rotate \/ Move \/ ProxyResolves \/ TunnelMoves \/ NetInfoReads
    BY <1>1, <1>13 DEF Rotate, Move, ProxyResolves, TunnelMoves, NetInfoReads
<1>14. ASSUME NEW t \in Tests,
              \/ StartTest(t) \/ ChangeEvent(t) \/ CfMetaIp(t) \/ Transfer(t)
              \/ AbortTest(t) \/ PostMeasurement(t)
       PROVE  EgressAsnIsOfItsAddress' /\ WorkerKnows'
    BY <1>1, <1>14 DEF StartTest, ChangeEvent, CfMetaIp, Transfer, AbortTest, PostMeasurement
<1>15. ASSUME NEW c \in Commands,
              \/ CompleteCommand(c) \/ CommandReads(c) \/ CommandWrites(c) \/ CommandCut(c)
              \/ EndLocationReads(c) \/ EndLocationWrites(c)
       PROVE  EgressAsnIsOfItsAddress' /\ WorkerKnows'
    BY <1>1, <1>15 DEF CompleteCommand, CommandReads, CommandWrites, CommandCut,
                       EndLocationReads, EndLocationWrites
<1>16. ASSUME NEW m \in Measurements, Delete(m)
       PROVE  EgressAsnIsOfItsAddress' /\ WorkerKnows'
    BY <1>1, <1>16 DEF Delete
<1> QED
    BY <1>2, <1>3, <1>6, <1>7, <1>8, <1>9, <1>10, <1>11, <1>12, <1>13, <1>14, <1>15, <1>16
       DEF NetNext

(* Whatever heartbeats, previews and the worker do in between, the operator   *)
(* stored beside the router's address is the operator of that address.        *)
THEOREM EgressAsnInvariant == NetSpec => []EgressAsnIsOfItsAddress
<1>1. NetSpec => [](NetTypeOK /\ EgressAsnIsOfItsAddress /\ WorkerKnows)
    BY InitType, TypeStep, EgressInit, EgressInvStep, PTL DEF NetSpec
<1> QED
    BY <1>1, PTL

---------------------------------------------------------------------------
\* What holds of the verdicts already stored and of the jobs that may still
\* change them, in the state with these tests and rows.  A job was classified
\* before the worker added the operators.
Base(e) == [e EXCEPT !.obsASN = 0, !.refASN = e.ref.asn]

VerdictIs(contents, v) == contents.route = v.route /\ contents.conf = v.conf

JobOK(j, tests, rows) ==
    /\ j.id \in Commands => j.ev.byEquipment
    /\ j.id \in Tests =>
        /\ ~j.ev.byEquipment
        /\ tests[j.id].stage = "ended"
        /\ rows[j.id].unverified => j.ev.status = "proxy-unverified"
        /\ rows[j.id].state = "stored" => VerdictIs(rows[j.id].col, classify(Base(j.ev)))

JobsOK ==
    /\ \A i \in DOMAIN queue : JobOK(queue[i], test, row)
    /\ worker.stage # "idle" => JobOK(worker.job[1], test, row)

\* No test has two jobs.
OneJob ==
    /\ \A i, k \in DOMAIN queue : queue[i].id = queue[k].id /\ queue[i].id \in Tests => i = k
    /\ worker.stage # "idle" =>
            \A i \in DOMAIN queue : queue[i].id \in Tests => queue[i].id # worker.job[1].id

TestRowOK(r, t) ==
    /\ r.state = "stored" => t.stage = "ended"
    /\ r.unverified => r.col.conf = "low" /\ r.raw.conf = "low"

CountsForHeadline(contents) ==
    \/ contents.route = ""
    \/ contents.route = "router" /\ contents.conf \in {"high", "medium"}

CommandRowOK(r) == r.state = "stored" => CountsForHeadline(r.col)

RowsOK == (\A t \in Tests : TestRowOK(row[t], test[t])) /\ (\A c \in Commands : CommandRowOK(row[c]))

LedgerOK ==
    \A t \in DOMAIN ledger :
        "proxy-unverified" \in ledger[t].seen => ledger[t].status = "proxy-unverified"

VerdictInv == JobsOK /\ OneJob /\ RowsOK /\ LedgerOK

\* The equipment itself is always the router; an unverified test is never sure.
LEMMA EquipmentVerdict ==
    \A e : e.byEquipment => classify(e) = [route |-> "router", conf |-> "high"]
BY Zenon DEF classify, BySelf

LEMMA UnverifiedVerdict ==
    \A e : ~e.byEquipment /\ e.status = "proxy-unverified" => classify(e).conf = "low"
<1> SUFFICES ASSUME NEW e, ~e.byEquipment, e.status = "proxy-unverified"
             PROVE  classify(e).conf = "low"
    OBVIOUS
<1>1. classifySignals(e) \in Verdicts
    BY DEF classifySignals, Unknown, Verdicts, Routes, Confidences
<1>2. classify(e) = [classifySignals(e) EXCEPT !.conf = "low"]
    BY Zenon DEF classify, Capped
<1> QED
    BY <1>1, <1>2 DEF Verdicts

\* Knowing the operators can only take a verdict away from the router.
LEMMA BaseFields ==
    ASSUME NEW e \in NetEvidence
    PROVE  /\ Base(e).obs = e.obs /\ Base(e).status = e.status /\ Base(e).changed = e.changed
           /\ Base(e).ref = e.ref /\ Base(e).hint = e.hint /\ Base(e).obsASN = 0
           /\ Base(e).byEquipment = e.byEquipment
BY DEF Base, NetEvidence

LEMMA OperatorsOnlyTakeAway ==
    ASSUME NEW e \in NetEvidence, ~e.byEquipment, CountsForHeadline(classify(e))
    PROVE  classify(Base(e)) = classify(e)
<1>1. classify(e).route = "router" /\ classify(e).conf \in {"high", "medium"}
    BY VerdictType DEF CountsForHeadline, Verdicts, Routes
<1>2. /\ classify(e) = Capped(e, classifySignals(e))
      /\ classify(Base(e)) = Capped(Base(e), classifySignals(Base(e)))
    BY BaseFields, Zenon DEF classify
<1>3. classifySignals(e) \in Verdicts
    BY DEF classifySignals, Unknown, Verdicts, Routes, Confidences
<1>4. classifySignals(e).route = "router"
    BY <1>1, <1>2, <1>3 DEF Capped, Verdicts
<1>5. Signals(Base(e))[1] = Signals(e)[1] /\ Signals(Base(e))[2] = Signals(e)[2]
    <2>1. ipSignal(Base(e)) = ipSignal(e)
        BY BaseFields, Zenon DEF ipSignal
    <2>2. hintSignal(Base(e)) = hintSignal(e)
        BY BaseFields, Zenon DEF hintSignal
    <2> QED
        BY <2>1, <2>2 DEF Signals
<1>6. Signals(e)[3].route # "router" /\ Signals(Base(e))[3] = NoSignal
    BY BaseFields DEF Signals, asnSignal, Signal, NoSignal
<1>7. /\ ~(e.changed \/ ~usableClientIP(e.status) \/ relay(e))
      /\ Saying(e, "router") # {} /\ Saying(e, "other-network") = {}
    <2>1. classifySignals(e) # Unknown
        BY <1>4 DEF Unknown
    <2> QED
        BY <1>4, <2>1 DEF classifySignals
<1>8. Signals(e)[3].route # "other-network"
    BY <1>7 DEF Saying
<1>9. Signals(e)[3] = NoSignal
    BY <1>8 DEF Signals, asnSignal, Signal, NoSignal
<1>10. \A i \in 1..3 : Signals(Base(e))[i] = Signals(e)[i]
    BY <1>5, <1>6, <1>9
<1>11. Saying(Base(e), "router") = Saying(e, "router") /\ Saying(Base(e), "other-network") = Saying(e, "other-network")
    BY <1>10 DEF Saying
<1>12. ~relay(Base(e))
    BY BaseFields, AddressAssumption DEF relay
<1>13. hintCorroborates(Base(e), "router") = hintCorroborates(e, "router")
    BY BaseFields DEF hintCorroborates
<1>14. \A i \in Saying(e, "router") : Signals(Base(e))[i] = Signals(e)[i]
    BY <1>10 DEF Saying
<1>15. classifySignals(Base(e)) = classifySignals(e)
    <2> DEFINE b == Base(e)
               strong(x) == \E i \in Saying(x, "router") : ~Signals(x)[i].weak
               corroborated(x) == \/ \E i, k \in Saying(x, "router") : i # k
                                  \/ hintCorroborates(x, "router")
               routed(x) == [route |-> "router",
                             conf |-> IF strong(x) /\ corroborated(x) THEN "high"
                                      ELSE IF strong(x) \/ corroborated(x) THEN "medium" ELSE "low"]
    <2>1. classifySignals(e) = routed(e)
        BY <1>7 DEF classifySignals
    <2>2. /\ ~(b.changed \/ ~usableClientIP(b.status) \/ relay(b))
          /\ Saying(b, "router") # {} /\ Saying(b, "other-network") = {}
        BY <1>7, <1>11, <1>12, BaseFields
    <2>3. classifySignals(b) = routed(b)
        BY <2>2 DEF classifySignals
    <2>4. strong(b) <=> strong(e)
        BY <1>11, <1>14
    <2>5. corroborated(b) <=> corroborated(e)
        BY <1>11, <1>13
    <2> HIDE DEF strong, corroborated, b
    <2>6. routed(b) = routed(e)
        BY <2>4, <2>5
    <2> QED
        BY <2>1, <2>3, <2>6 DEF b
<1>16. Base(e).status = e.status
    BY BaseFields
<1> QED
    BY <1>2, <1>15, <1>16 DEF Capped

\* A job keeps its claims while its test stays ended and its row stays the
\* same or goes away.
LEMMA JobKept ==
    ASSUME NEW j, NEW tests, NEW rows, NEW tests2, NEW rows2, JobOK(j, tests, rows),
           j.id \in Tests =>
             /\ tests[j.id].stage = "ended" => tests2[j.id].stage = "ended"
             /\ \/ rows2[j.id] = rows[j.id]
                \/ rows2[j.id].state # "stored" /\ ~rows2[j.id].unverified
    PROVE  JobOK(j, tests2, rows2)
BY DEF JobOK

\* Steps that neither queue a job nor take one.
LEMMA QuietJobs ==
    ASSUME JobsOK, OneJob, UNCHANGED queue, worker'.job = worker.job,
           worker'.stage = "idle" <=> worker.stage = "idle",
           \A t \in Tests : test[t].stage = "ended" => test'[t].stage = "ended",
           \A t \in Tests : \/ row'[t] = row[t]
                            \/ row'[t].state # "stored" /\ ~row'[t].unverified
    PROVE  JobsOK' /\ OneJob'
<1>1. \A i \in DOMAIN queue : JobOK(queue[i], test', row')
    BY JobKept DEF JobsOK
<1>2. worker.stage # "idle" => JobOK(worker.job[1], test', row')
    BY JobKept DEF JobsOK
<1>3. JobsOK'
    BY <1>1, <1>2 DEF JobsOK
<1>4. OneJob'
    BY DEF OneJob
<1> QED
    BY <1>3, <1>4

\* A step that queues a job, or finds the queue full.
LEMMA AppendJobs ==
    ASSUME NetTypeOK, JobsOK, OneJob, NEW j \in Job, JobOK(j, test', row'),
           queue' = queue \/ queue' = Append(queue, j), UNCHANGED worker,
           \A t \in Tests \ {j.id} : test'[t] = test[t] /\ row'[t] = row[t],
           j.id \in Tests => test[j.id].stage # "ended"
    PROVE  JobsOK' /\ OneJob'
<1>1. ASSUME NEW k, JobOK(k, test, row)
      PROVE  JobOK(k, test', row') /\ (k.id \in Tests => k.id # j.id)
    <2>1. k.id \in Tests => k.id # j.id
        BY <1>1 DEF JobOK
    <2> QED
        BY <1>1, <2>1, JobKept
<1>2. queue \in Seq(Job)
    BY DEF NetTypeOK
<1>3. /\ DOMAIN queue \subseteq DOMAIN queue'
      /\ \A i \in DOMAIN queue : queue'[i] = queue[i]
      /\ \A i, k \in DOMAIN queue' \ DOMAIN queue : i = k
      /\ \A i \in DOMAIN queue' \ DOMAIN queue : queue'[i] = j
    BY <1>2, AppendProperties
<1>4. \A i \in DOMAIN queue : JobOK(queue[i], test', row') /\ (queue[i].id \in Tests => queue[i].id # j.id)
    BY <1>1 DEF JobsOK
<1>5. \A i \in DOMAIN queue' : JobOK(queue'[i], test', row')
    BY <1>3, <1>4
<1>6. worker.stage # "idle" => /\ JobOK(worker.job[1], test', row')
                               /\ worker.job[1].id \in Tests => worker.job[1].id # j.id
    BY <1>1 DEF JobsOK
<1>7. JobsOK'
    BY <1>5, <1>6 DEF JobsOK
<1>8. \A i, k \in DOMAIN queue' : queue'[i].id = queue'[k].id /\ queue'[i].id \in Tests => i = k
    BY <1>3, <1>4 DEF OneJob
<1>9. worker.stage # "idle" =>
        \A i \in DOMAIN queue' : queue'[i].id \in Tests => queue'[i].id # worker.job[1].id
    BY <1>3, <1>6 DEF OneJob
<1>10. OneJob'
    BY <1>8, <1>9 DEF OneJob
<1> QED
    BY <1>7, <1>10

LEMMA VerdictInit == NetInit => VerdictInv
<1> SUFFICES ASSUME NetInit PROVE VerdictInv
    OBVIOUS
<1>1. JobsOK /\ OneJob
    BY DEF NetInit, JobsOK, OneJob, IdleWorker
<1>2. RowsOK
    BY DEF NetInit, RowsOK, TestRowOK, CommandRowOK, NoRow, Measurements
<1>3. LedgerOK
    BY DEF NetInit, LedgerOK
<1> QED
    BY <1>1, <1>2, <1>3 DEF VerdictInv

\* Nothing that has to do with verdicts moves.
LEMMA NoVerdictStep ==
    ASSUME VerdictInv, UNCHANGED <<ledger, test, row, queue, worker>>
    PROVE  VerdictInv'
BY QuietJobs DEF VerdictInv, RowsOK, LedgerOK

\* A test goes on, nothing is stored.
LEMMA StageStep ==
    ASSUME VerdictInv, UNCHANGED <<row, queue, worker>>, LedgerOK',
           \A t \in Tests : test[t].stage = "ended" => test'[t].stage = "ended"
    PROVE  VerdictInv'
<1>1. JobsOK' /\ OneJob'
    BY QuietJobs DEF VerdictInv
<1>2. RowsOK'
    BY DEF VerdictInv, RowsOK, TestRowOK
<1> QED
    BY <1>1, <1>2 DEF VerdictInv

LEMMA WorldVerdict ==
    ASSUME NetTypeOK, VerdictInv,
           Rotate \/ Move \/ TenMinutes \/ ProxyResolves \/ TunnelMoves \/ Restart
    PROVE  VerdictInv'
<1>1. CASE Rotate \/ ProxyResolves \/ TunnelMoves
    BY <1>1, NoVerdictStep DEF Rotate, ProxyResolves, TunnelMoves
<1>2. CASE Move
    <2>1. ASSUME NEW t \in Tests, test[t].stage = "ended"
          PROVE  test'[t].stage = "ended"
        BY <1>2, <2>1 DEF Move, InProgress, NetTypeOK
    <2>2. LedgerOK'
        BY <1>2 DEF Move, LedgerOK, VerdictInv
    <2> QED
        BY <1>2, <2>1, <2>2, StageStep DEF Move
<1>3. CASE TenMinutes
    <2>1. ASSUME NEW t \in DOMAIN ledger
          PROVE  ledger'[t].seen = ledger[t].seen /\ ledger'[t].status = ledger[t].status
        <3>1. ledger[t] \in Observation
            BY DEF NetTypeOK
        <3> QED
            BY <1>3, <3>1 DEF TenMinutes, Observation
    <2>2. LedgerOK'
        BY <1>3, <2>1 DEF TenMinutes, LedgerOK, VerdictInv
    <2> QED
        BY <1>3, <2>2, StageStep DEF TenMinutes
<1>4. CASE Restart
    <2>1. JobsOK' /\ OneJob'
        BY <1>4 DEF Restart, JobsOK, OneJob, IdleWorker
    <2>2. RowsOK' /\ LedgerOK'
        BY <1>4 DEF Restart, RowsOK, LedgerOK, VerdictInv
    <2> QED
        BY <2>1, <2>2 DEF VerdictInv
<1> QED
    BY <1>1, <1>2, <1>3, <1>4

\* The first request of a test opens its window, the next ones may only spoil it.
LEMMA ObserveVerdict ==
    ASSUME NetTypeOK, LedgerOK, NEW t \in Tests, NEW ip, NEW status, Observe(t, ip, status)
    PROVE  LedgerOK'
<1> DEFINE kept == [u \in {u \in DOMAIN ledger : ~ledger[u].old} |-> ledger[u]]
           entry == IF t \in DOMAIN kept THEN kept[t]
                    ELSE [first |-> ip, last |-> ip, status |-> status, n |-> 0,
                          old |-> FALSE, seen |-> {}]
           updated == [first |-> entry.first, last |-> ip, n |-> entry.n + 1, old |-> FALSE,
                       status |-> WorstStatus(entry.status, status),
                       seen |-> entry.seen \cup {status}]
           ok(r) == "proxy-unverified" \in r.seen => r.status = "proxy-unverified"
<1>1. \A u \in DOMAIN kept : ok(kept[u])
    BY DEF LedgerOK
<1>2. ok(entry)
    BY <1>1
<1>3. ok(updated)
    BY <1>2 DEF WorstStatus
<1>4. ledger' = kept \/ ledger' = [u \in DOMAIN kept \cup {t} |-> IF u = t THEN updated ELSE kept[u]]
    BY Zenon DEF Observe
<1>5. \A u \in DOMAIN ledger' : ok(ledger'[u])
    <2> HIDE DEF kept, updated, ok
    <2> QED
        BY <1>1, <1>3, <1>4
<1> QED
    BY <1>5 DEF LedgerOK

LEMMA TestVerdict ==
    ASSUME NetTypeOK, VerdictInv, NEW t \in Tests,
           StartTest(t) \/ ChangeEvent(t) \/ CfMetaIp(t) \/ Transfer(t) \/ AbortTest(t)
    PROVE  VerdictInv'
<1>1. test[t] \in TestState
    BY DEF NetTypeOK
<1>2. PICK s : test' = [test EXCEPT ![t] = s] /\ (test[t].stage = "ended" => s.stage = "ended")
    BY DEF StartTest, ChangeEvent, CfMetaIp, Transfer, AbortTest, InProgress, EndedTest
<1>3. \A u \in Tests : test[u].stage = "ended" => test'[u].stage = "ended"
    BY <1>2 DEF NetTypeOK
<1>4. LedgerOK'
    <2>1. CASE UNCHANGED ledger
        BY <2>1 DEF VerdictInv, LedgerOK
    <2>2. CASE Transfer(t)
        <3>1. PICK a : Observe(t, clientIP(a).ip, clientIP(a).status) \/ UNCHANGED ledger
            BY <2>2 DEF Transfer
        <3> QED
            BY <2>1, <3>1, ObserveVerdict DEF VerdictInv
    <2> QED
        BY <2>1, <2>2 DEF StartTest, ChangeEvent, CfMetaIp, AbortTest
<1> QED
    BY <1>3, <1>4, StageStep DEF StartTest, ChangeEvent, CfMetaIp, Transfer, AbortTest

\* The verdict of a test is stored with its row, and queued with its evidence.
LEMMA PostVerdict ==
    ASSUME NetTypeOK, VerdictInv, NEW t \in Tests, PostMeasurement(t)
    PROVE  VerdictInv'
<1>1. PICK a \in ExitAddresses :
        LET c == clientIP(a)
            seen == t \in DOMAIN ledger
            e == Evidence(t, c)
            v == classify(e)
            contents == [route |-> v.route, conf |-> v.conf, end |-> FALSE]
        IN  /\ row' = [row EXCEPT ![t] =
                   [state |-> "stored", col |-> contents, raw |-> contents, by |-> "browser",
                    went |-> test[t].went, steady |-> test[t].steady,
                    window |-> seen /\ ledger[t].n = 2,
                    unverified |-> IF seen THEN "proxy-unverified" \in ledger[t].seen
                                   ELSE c.status = "proxy-unverified",
                    match |-> Match(e)]]
            /\ IF e.obs = NoAddress THEN UNCHANGED queue ELSE enqueueNetEnrich(t, e)
    BY DEF PostMeasurement
<1> DEFINE e == Evidence(t, clientIP(a))
           unv == IF t \in DOMAIN ledger THEN "proxy-unverified" \in ledger[t].seen
                  ELSE clientIP(a).status = "proxy-unverified"
<1>2. /\ e \in NetEvidence
      /\ ~e.byEquipment
      /\ e.obsASN = 0 /\ e.refASN = e.ref.asn
      /\ unv => e.status = "proxy-unverified"
    <2>1. unv => e.status = "proxy-unverified"
        BY DEF Evidence, VerdictInv, LedgerOK
    <2> QED
        BY <2>1, UplinkType, EvidenceType DEF Evidence
<1>3. t \in Measurements /\ t \notin Commands
    BY BoundAssumption DEF Measurements
<1>4. /\ row'[t].state = "stored"
      /\ row'[t].col.route = classify(e).route /\ row'[t].col.conf = classify(e).conf
      /\ row'[t].raw.conf = classify(e).conf
      /\ row'[t].unverified = unv
    BY <1>1, <1>3 DEF NetTypeOK
<1>5. \A m \in Measurements \ {t} : row'[m] = row[m]
    BY <1>1 DEF NetTypeOK
<1>6. /\ test'[t].stage = "ended" /\ \A u \in Tests \ {t} : test'[u] = test[u]
      /\ test[t].stage # "ended"
    BY DEF PostMeasurement, EndedTest, NewTest, NetTypeOK
<1>7. queue' = queue \/ (e.obs # NoAddress /\ queue' = Append(queue, [id |-> t, ev |-> e]))
    BY <1>1, Zenon DEF enqueueNetEnrich
<1> HIDE DEF e, unv
<1>8. Base(e) = e
    BY <1>2 DEF Base, NetEvidence
<1> DEFINE j == [id |-> t, ev |-> e]
<1>9. JobOK(j, test', row')
    BY <1>2, <1>3, <1>4, <1>6, <1>8 DEF JobOK, VerdictIs
<1>10. JobsOK' /\ OneJob'
    <2>1. CASE UNCHANGED queue
        <3>1. ASSUME NEW k, JobOK(k, test, row) PROVE JobOK(k, test', row')
            <4>1. k.id # t
                BY <1>6, <3>1 DEF JobOK
            <4> QED
                BY <1>5, <1>6, <3>1, <4>1, JobKept DEF Measurements
        <3>2. JobsOK'
            BY <2>1, <3>1 DEF JobsOK, VerdictInv, PostMeasurement
        <3> QED
            BY <2>1, <3>2 DEF OneJob, VerdictInv, PostMeasurement
    <2>2. CASE e.obs # NoAddress /\ queue' = Append(queue, j)
        <3>1. j \in Job
            BY <1>2, <1>3, <2>2 DEF Job
        <3>2. \A u \in Tests \ {j.id} : test'[u] = test[u] /\ row'[u] = row[u]
            BY <1>5, <1>6 DEF Measurements
        <3>3. j.id = t
            OBVIOUS
        <3> HIDE DEF j
        <3> QED
            BY <1>6, <1>9, <2>2, <3>1, <3>2, <3>3, AppendJobs DEF VerdictInv, PostMeasurement
    <2> QED
        BY <1>7, <2>1, <2>2
<1>11. RowsOK'
    <2>1. ASSUME NEW u \in Tests PROVE TestRowOK(row'[u], test'[u])
        <3>1. CASE u = t
            <4>1. unv => classify(e).conf = "low"
                BY <1>2, UnverifiedVerdict
            <4> QED
                BY <1>4, <1>6, <3>1, <4>1 DEF TestRowOK
        <3>2. CASE u # t
            BY <1>5, <1>6, <3>2 DEF RowsOK, VerdictInv, Measurements
        <3> QED
            BY <3>1, <3>2
    <2>2. \A c \in Commands : row'[c] = row[c]
        BY <1>3, <1>5 DEF Measurements
    <2> QED
        BY <2>1, <2>2 DEF RowsOK, VerdictInv
<1>12. LedgerOK'
    BY DEF PostMeasurement, LedgerOK, VerdictInv
<1> QED
    BY <1>10, <1>11, <1>12 DEF VerdictInv

\* What a write of the verdict leaves in the row.
LEMMA WriteNetRow ==
    ASSUME NetTypeOK, NEW id \in Measurements, NEW raw \in Contents, NEW v \in Verdicts,
           WriteNet(id, raw, v)
    PROVE  /\ \A m \in Measurements \ {id} : row'[m] = row[m]
           /\ row[id].state # "stored" => row'[id] = row[id]
           /\ row[id].state = "stored" =>
                /\ row'[id].state = "stored" /\ row'[id].unverified = row[id].unverified
                /\ VerdictIs(row'[id].col, v) /\ VerdictIs(row'[id].raw, v)
<1>1. row[id] \in Row /\ row[id].col \in Contents
    BY DEF NetTypeOK, Row
<1>2. \A c \in Contents : VerdictIs(Classified(c, v), v)
    BY DEF Classified, VerdictIs, Contents, Verdicts
<1> DEFINE new == [row[id] EXCEPT !.col = Classified(row[id].col, v), !.raw = Classified(raw, v)]
<1>3. /\ new.state = row[id].state /\ new.unverified = row[id].unverified
      /\ new.col = Classified(row[id].col, v) /\ new.raw = Classified(raw, v)
    BY <1>1 DEF Row
<1>4. row' = IF row[id].state # "stored" THEN row ELSE [row EXCEPT ![id] = new]
    BY DEF WriteNet
<1> HIDE DEF new
<1> QED
    BY <1>1, <1>2, <1>3, <1>4 DEF NetTypeOK

LEMMA CommandVerdict ==
    ASSUME NetTypeOK, VerdictInv, NEW c \in Commands,
           \/ CompleteCommand(c) \/ CommandLearns(c) \/ CommandReads(c)
           \/ CommandWrites(c) \/ CommandCut(c) \/ EndLocationReads(c) \/ EndLocationWrites(c)
    PROVE  VerdictInv'
<1>0. c \in Measurements /\ c \notin Tests /\ row[c] \in Row /\ row[c].col \in Contents
    BY BoundAssumption DEF Measurements, NetTypeOK, Row
<1>1. CASE CommandLearns(c) \/ CommandReads(c) \/ CommandCut(c) \/ EndLocationReads(c)
    BY <1>1, NoVerdictStep DEF CommandLearns, CommandReads, CommandCut, EndLocationReads
<1>2. ASSUME CommandRowOK(row'[c]), UNCHANGED <<test, ledger>>,
             \A m \in Measurements \ {c} : row'[m] = row[m]
      PROVE  RowsOK' /\ LedgerOK'
    <2>1. \A t \in Tests : row'[t] = row[t]
        BY <1>0, <1>2 DEF Measurements
    <2>2. \A d \in Commands : CommandRowOK(row'[d])
        BY <1>2 DEF Measurements, RowsOK, VerdictInv
    <2> QED
        BY <1>2, <2>1, <2>2 DEF RowsOK, LedgerOK, VerdictInv
<1>3. ASSUME \A m \in Measurements \ {c} : row'[m] = row[m], UNCHANGED <<test, queue, worker>>
      PROVE  JobsOK' /\ OneJob'
    BY <1>0, <1>3, QuietJobs DEF VerdictInv, Measurements
<1>4. CASE CompleteCommand(c)
    <2>1. CommandRowOK(row'[c]) /\ \A m \in Measurements \ {c} : row'[m] = row[m]
        BY <1>0, <1>4 DEF CompleteCommand, CommandRowOK, CountsForHeadline, NoRow, Blank, NetTypeOK
    <2> QED
        BY <1>2, <1>3, <1>4, <2>1 DEF CompleteCommand, VerdictInv
<1>5. CASE EndLocationWrites(c)
    <2>1. /\ [row[c] EXCEPT !.col = Located(row[c].col), !.raw = Located(ender[c].raw)].col
             = Located(row[c].col)
          /\ [row[c] EXCEPT !.col = Located(row[c].col), !.raw = Located(ender[c].raw)].state
             = row[c].state
        BY <1>0 DEF Row
    <2>2. Located(row[c].col).route = row[c].col.route /\ Located(row[c].col).conf = row[c].col.conf
        BY <1>0 DEF Located, Contents
    <2>3. \A m \in Measurements \ {c} : row'[m] = row[m]
        BY <1>5 DEF EndLocationWrites, WriteEndLocation, NetTypeOK
    <2>4. \/ row'[c] = row[c]
          \/ row'[c] = [row[c] EXCEPT !.col = Located(row[c].col), !.raw = Located(ender[c].raw)]
        BY <1>0, <1>5 DEF EndLocationWrites, WriteEndLocation, NetTypeOK
    <2>5. CommandRowOK(row'[c])
        BY <2>1, <2>2, <2>4 DEF CommandRowOK, CountsForHeadline, RowsOK, VerdictInv
    <2> QED
        BY <1>2, <1>3, <1>5, <2>3, <2>5 DEF EndLocationWrites, VerdictInv
<1>6. CASE CommandWrites(c)
    <2> DEFINE e == [obs |-> command[c].ip, status |-> command[c].status, changed |-> FALSE,
                     ref |-> command[c].ref, hint |-> "", obsASN |-> 0,
                     refASN |-> command[c].ref.asn, byEquipment |-> TRUE]
               j == [id |-> c, ev |-> e]
    <2>1. /\ WriteNet(c, command[c].raw, classify(e))
          /\ UNCHANGED queue \/ (usableClientIP(e.status) /\ enqueueNetEnrich(c, e))
          /\ UNCHANGED <<test, ledger, worker>>
        BY <1>6, Zenon DEF CommandWrites
    <2>2. command[c] \in CommandState /\ Answered(command[c]) /\ command[c].stage = "read"
        BY <1>6 DEF CommandWrites, NetTypeOK
    <2>3. command[c].raw \in Contents
        BY <2>2 DEF CommandState
    <2>4. e.byEquipment /\ j.id = c /\ j.ev = e
        OBVIOUS
    <2>5. usableClientIP(e.status) => j \in Job
        <3>1. command[c].status \in Statuses
            BY <2>2 DEF CommandState, Answered
        <3>2. e \in NetEvidence
            BY <2>2, <3>1 DEF CommandState, DeviceEgress, NetEvidence, MaybeAsn
        <3>3. usableClientIP(e.status) => e.obs # NoAddress
            BY <2>2 DEF Answered
        <3> HIDE DEF e
        <3> QED
            BY <1>0, <3>2, <3>3 DEF Job
    <2> HIDE DEF e, j
    <2>6. classify(e) = [route |-> "router", conf |-> "high"] /\ classify(e) \in Verdicts
        BY <2>4, EquipmentVerdict, VerdictType
    <2>7. /\ \A m \in Measurements \ {c} : row'[m] = row[m]
          /\ row[c].state # "stored" => row'[c] = row[c]
          /\ row[c].state = "stored" => VerdictIs(row'[c].col, classify(e))
        BY <1>0, <2>1, <2>3, <2>6, WriteNetRow
    <2>8. CommandRowOK(row'[c])
        <3>1. classify(e).route = "router" /\ classify(e).conf = "high"
            BY <2>6
        <3>2. VerdictIs(row'[c].col, classify(e)) => CountsForHeadline(row'[c].col)
            BY <3>1 DEF CountsForHeadline, VerdictIs
        <3> QED
            BY <2>7, <3>2 DEF CommandRowOK
    <2>9. JobsOK' /\ OneJob'
        <3>1. CASE UNCHANGED queue
            BY <1>3, <2>1, <2>7, <3>1
        <3>2. CASE usableClientIP(e.status) /\ enqueueNetEnrich(c, e)
            <4>1. queue' = queue \/ queue' = Append(queue, j)
                BY <3>2, Zenon DEF enqueueNetEnrich, j
            <4>2. JobOK(j, test', row')
                BY <1>0, <2>4 DEF JobOK
            <4>3. \A t \in Tests \ {j.id} : test'[t] = test[t] /\ row'[t] = row[t]
                BY <1>0, <2>1, <2>7 DEF Measurements
            <4> QED
                BY <1>0, <2>1, <2>4, <2>5, <3>2, <4>1, <4>2, <4>3, AppendJobs DEF VerdictInv
        <3> QED
            BY <2>1, <3>1, <3>2
    <2> QED
        BY <1>2, <2>1, <2>7, <2>8, <2>9 DEF VerdictInv
<1> QED
    BY <1>1, <1>4, <1>5, <1>6

LEMMA DeleteVerdict ==
    ASSUME NetTypeOK, VerdictInv, NEW m \in Measurements, Delete(m)
    PROVE  VerdictInv'
<1>1. /\ row'[m].state = "deleted" /\ ~row'[m].unverified
      /\ \A i \in Measurements \ {m} : row'[i] = row[i]
    BY DEF Delete, NoRow, NetTypeOK
<1>2. JobsOK' /\ OneJob'
    BY <1>1, QuietJobs DEF Delete, VerdictInv, Measurements
<1>3. RowsOK'
    BY <1>1 DEF Delete, RowsOK, TestRowOK, CommandRowOK, VerdictInv, Measurements
<1>4. LedgerOK'
    BY DEF Delete, LedgerOK, VerdictInv
<1> QED
    BY <1>2, <1>3, <1>4 DEF VerdictInv

\* The worker takes the first job, which keeps what it was classified with.
LEMMA ResolveVerdict ==
    ASSUME NetTypeOK, VerdictInv, WorkerResolves
    PROVE  VerdictInv'
<1> DEFINE h == Head(queue)
<1>1. queue \in Seq(Job) /\ queue # <<>> /\ worker \in WorkerState
    BY DEF WorkerResolves, NetTypeOK
<1>2. /\ h \in Job /\ h = queue[1] /\ 1 \in DOMAIN queue
      /\ \A i \in DOMAIN Tail(queue) : i + 1 \in DOMAIN queue /\ Tail(queue)[i] = queue[i + 1] /\ i \in Nat \ {0}
    BY <1>1, HeadTailProperties
<1>3. h.ev \in NetEvidence
    BY <1>2 DEF Job
<1>4. PICK o \in {0, Asn[h.ev.obs]}, r \in {h.ev.ref.asn, 0, Asn[h.ev.ref.ip]},
           st \in {"resolved", "saved"} :
        worker' = [worker EXCEPT !.stage = st,
            !.job = <<[id |-> h.id, ev |-> [h.ev EXCEPT !.obsASN = o, !.refASN = r]]>>]
    BY DEF WorkerResolves
<1> DEFINE ev2 == [h.ev EXCEPT !.obsASN = o, !.refASN = r]
           j2 == [id |-> h.id, ev |-> ev2]
<1>5. Base(ev2) = Base(h.ev) /\ ev2.status = h.ev.status /\ ev2.byEquipment = h.ev.byEquipment
    BY <1>3 DEF Base, NetEvidence
<1>6. JobOK(h, test, row)
    BY <1>2 DEF JobsOK, VerdictInv
<1>7. worker'.job[1] = j2
    BY <1>1, <1>4 DEF WorkerState
<1>8. JobOK(j2, test, row)
    <2>1. j2.id = h.id /\ j2.ev = ev2
        OBVIOUS
    <2> HIDE DEF j2, ev2
    <2> QED
        BY <1>5, <1>6, <2>1 DEF JobOK
<1>9. j2.id = h.id
    OBVIOUS
<1> HIDE DEF j2, h, ev2
<1>10. JobsOK'
    <2>1. \A i \in DOMAIN queue' : JobOK(queue'[i], test, row)
        BY <1>2 DEF WorkerResolves, JobsOK, VerdictInv
    <2> QED
        BY <1>7, <1>8, <2>1 DEF JobsOK, WorkerResolves
<1>11. OneJob'
    <2>1. \A i, k \in DOMAIN queue' : queue'[i].id = queue'[k].id /\ queue'[i].id \in Tests => i = k
        <3> SUFFICES ASSUME NEW i \in DOMAIN queue', NEW k \in DOMAIN queue',
                            queue'[i].id = queue'[k].id, queue'[i].id \in Tests
                     PROVE  i = k
            OBVIOUS
        <3>1. i + 1 = k + 1
            BY <1>2 DEF WorkerResolves, OneJob, VerdictInv
        <3> QED
            BY <1>2, <3>1 DEF WorkerResolves
    <2>2. \A i \in DOMAIN queue' : queue'[i].id \in Tests => queue'[i].id # h.id
        <3> SUFFICES ASSUME NEW i \in DOMAIN queue', queue'[i].id \in Tests, queue'[i].id = h.id
                     PROVE  FALSE
            OBVIOUS
        <3>1. i + 1 = 1
            BY <1>2 DEF WorkerResolves, OneJob, VerdictInv
        <3> QED
            BY <1>2, <3>1 DEF WorkerResolves
    <2> QED
        BY <1>7, <1>9, <2>1, <2>2 DEF OneJob
<1>12. RowsOK' /\ LedgerOK'
    BY DEF WorkerResolves, RowsOK, LedgerOK, VerdictInv
<1> QED
    BY <1>10, <1>11, <1>12 DEF VerdictInv

\* What the worker writes, and where.
LEMMA WorkerWritesRow ==
    ASSUME NetTypeOK, WorkerWrites
    PROVE  LET j == worker.job[1] IN
           /\ j.id \in Measurements /\ j.ev \in NetEvidence
           /\ \A m \in Measurements \ {j.id} : row'[m] = row[m]
           /\ row[j.id].state # "stored" => row'[j.id] = row[j.id]
           /\ row[j.id].state = "stored" =>
                /\ row'[j.id].state = "stored" /\ row'[j.id].unverified = row[j.id].unverified
                /\ VerdictIs(row'[j.id].col, classify(j.ev)) /\ VerdictIs(row'[j.id].raw, classify(j.ev))
<1> DEFINE j == worker.job[1]
<1>1. j.id \in Measurements /\ j.ev \in NetEvidence
    BY JobType DEF WorkerWrites
<1>2. WriteNet(j.id, worker.raw, classify(j.ev))
    BY DEF WorkerWrites
<1>3. worker.raw \in Contents /\ classify(j.ev) \in Verdicts
    BY VerdictType DEF NetTypeOK, WorkerState
<1> HIDE DEF j
<1>4. /\ \A m \in Measurements \ {j.id} : row'[m] = row[m]
      /\ row[j.id].state # "stored" => row'[j.id] = row[j.id]
      /\ row[j.id].state = "stored" =>
                /\ row'[j.id].state = "stored" /\ row'[j.id].unverified = row[j.id].unverified
                /\ VerdictIs(row'[j.id].col, classify(j.ev)) /\ VerdictIs(row'[j.id].raw, classify(j.ev))
    BY <1>1, <1>2, <1>3, WriteNetRow
<1> QED
    BY <1>1, <1>4 DEF j

LEMMA WorkerVerdict ==
    ASSUME NetTypeOK, VerdictInv, WorkerSaves \/ WorkerReads \/ WorkerWrites
    PROVE  VerdictInv'
<1>1. CASE WorkerSaves
    <2>1. worker'.job = worker.job /\ worker'.stage # "idle" /\ worker.stage # "idle"
        BY <1>1 DEF WorkerSaves, NetTypeOK, WorkerState
    <2>2. JobsOK' /\ OneJob'
        BY <1>1, <2>1, QuietJobs DEF WorkerSaves, VerdictInv
    <2> QED
        BY <1>1, <2>2 DEF WorkerSaves, VerdictInv, RowsOK, LedgerOK
<1>2. CASE WorkerReads
    <2>1. CASE worker' = IdleWorker
        BY <1>2, <2>1 DEF WorkerReads, VerdictInv, JobsOK, OneJob, RowsOK, LedgerOK, IdleWorker
    <2>2. CASE worker' = [worker EXCEPT !.stage = "read", !.raw = row[worker.job[1].id].raw]
        <3>1. worker'.job = worker.job /\ worker'.stage # "idle" /\ worker.stage # "idle"
            BY <1>2, <2>2 DEF WorkerReads, NetTypeOK, WorkerState
        <3>2. JobsOK' /\ OneJob'
            BY <1>2, <3>1, QuietJobs DEF WorkerReads, VerdictInv
        <3> QED
            BY <1>2, <3>2 DEF WorkerReads, VerdictInv, RowsOK, LedgerOK
    <2> QED
        BY <1>2, <2>1, <2>2 DEF WorkerReads
<1>3. CASE WorkerWrites
    <2> DEFINE j == worker.job[1]
    <2>1. /\ j.id \in Measurements /\ j.ev \in NetEvidence
          /\ \A m \in Measurements \ {j.id} : row'[m] = row[m]
          /\ row[j.id].state # "stored" => row'[j.id] = row[j.id]
          /\ row[j.id].state = "stored" =>
                /\ row'[j.id].state = "stored" /\ row'[j.id].unverified = row[j.id].unverified
                /\ VerdictIs(row'[j.id].col, classify(j.ev)) /\ VerdictIs(row'[j.id].raw, classify(j.ev))
        BY <1>3, WorkerWritesRow
    <2>2. worker.stage # "idle" /\ worker'.stage = "idle" /\ UNCHANGED <<queue, test, ledger>>
        BY <1>3 DEF WorkerWrites, IdleWorker
    <2>3. JobOK(j, test, row)
        BY <2>2 DEF JobsOK, VerdictInv
    <2>4. \A i \in DOMAIN queue : queue[i].id \in Tests => queue[i].id # j.id
        BY <2>2 DEF OneJob, VerdictInv
    <2> HIDE DEF j
    <2>5. \A i \in DOMAIN queue : JobOK(queue[i], test', row')
        BY <2>1, <2>2, <2>4, JobKept DEF JobsOK, VerdictInv, Measurements
    <2>6. JobsOK' /\ OneJob'
        BY <2>2, <2>5 DEF JobsOK, OneJob, VerdictInv
    <2>7. RowsOK'
        <3>1. ASSUME NEW t \in Tests PROVE TestRowOK(row'[t], test[t])
            <4>1. TestRowOK(row[t], test[t])
                BY DEF RowsOK, VerdictInv
            <4>2. CASE t # j.id
                BY <2>1, <4>1, <4>2 DEF Measurements
            <4>3. CASE t = j.id
                <5>1. row[t].unverified => classify(j.ev).conf = "low"
                    BY <2>3, <4>3, UnverifiedVerdict DEF JobOK
                <5> QED
                    BY <2>1, <4>1, <4>3, <5>1 DEF TestRowOK, VerdictIs
            <4> QED
                BY <4>2, <4>3
        <3>2. ASSUME NEW c \in Commands PROVE CommandRowOK(row'[c])
            <4>1. CommandRowOK(row[c])
                BY DEF RowsOK, VerdictInv
            <4>2. CASE c # j.id
                BY <2>1, <4>1, <4>2 DEF Measurements
            <4>3. CASE c = j.id
                <5>1. classify(j.ev) = [route |-> "router", conf |-> "high"]
                    BY <2>3, <4>3, EquipmentVerdict DEF JobOK
                <5>2. VerdictIs(row'[c].col, classify(j.ev)) => CountsForHeadline(row'[c].col)
                    BY <5>1 DEF CountsForHeadline, VerdictIs
                <5> QED
                    BY <2>1, <4>1, <4>3, <5>2 DEF CommandRowOK
            <4> QED
                BY <4>2, <4>3
        <3> QED
            BY <2>2, <3>1, <3>2 DEF RowsOK
    <2>8. LedgerOK'
        BY <2>2 DEF LedgerOK, VerdictInv
    <2> QED
        BY <2>6, <2>7, <2>8 DEF VerdictInv
<1> QED
    BY <1>1, <1>2, <1>3

LEMMA VerdictStep == NetTypeOK /\ VerdictInv /\ [NetNext]_netVars => VerdictInv'
<1> SUFFICES ASSUME NetTypeOK, VerdictInv, [NetNext]_netVars PROVE VerdictInv'
    OBVIOUS
<1>1. CASE UNCHANGED netVars \/ Heartbeat \/ NetInfoReads \/ NetInfoSaves
    BY <1>1, NoVerdictStep DEF netVars, Heartbeat, NetInfoReads, NetInfoSaves
<1>2. CASE NetNext
    BY <1>1, <1>2, WorldVerdict, TestVerdict, PostVerdict, CommandVerdict, DeleteVerdict,
       ResolveVerdict, WorkerVerdict DEF NetNext
<1> QED
    BY <1>1, <1>2

LEMMA VerdictInvariant == NetSpec => [](NetTypeOK /\ VerdictInv)
BY InitType, TypeStep, VerdictInit, VerdictStep, PTL DEF NetSpec

(* A test one of whose own requests nobody could verify never rises above low *)
(* confidence, neither when it is stored nor when the worker revises it.      *)
THEOREM UnverifiedInvariant == NetSpec => []UnverifiedRequestIsNeverSure
<1>1. VerdictInv => UnverifiedRequestIsNeverSure
    BY DEF VerdictInv, RowsOK, TestRowOK, UnverifiedRequestIsNeverSure
<1> QED
    BY <1>1, VerdictInvariant, PTL

(* A measurement of the equipment is always one of those the headline takes.  *)
THEOREM EquipmentInvariant == NetSpec => []EquipmentAlwaysCounts
<1>1. VerdictInv => EquipmentAlwaysCounts
    BY DEF VerdictInv, RowsOK, CommandRowOK, CountsForHeadline, EquipmentAlwaysCounts, Headline
<1> QED
    BY <1>1, VerdictInvariant, PTL

\* The only step that can touch a test already stored, but for its deletion,
\* is the worker's.
LEMMA PromotionStep ==
    NetTypeOK /\ VerdictInv /\ [NetNext]_netVars =>
        \A t \in Tests : row[t].state = "stored" /\ Headline(t)' => Headline(t)
<1> SUFFICES ASSUME NetTypeOK, VerdictInv, [NetNext]_netVars, NEW t \in Tests,
                    row[t].state = "stored", Headline(t)'
             PROVE  Headline(t)
    OBVIOUS
<1>1. test[t].stage = "ended" /\ t \in Measurements /\ t \notin Commands
    BY BoundAssumption DEF VerdictInv, RowsOK, TestRowOK, Measurements
<1>2. CASE row'[t] = row[t]
    BY <1>2 DEF Headline
<1>3. CASE WorkerWrites
    <2> DEFINE j == worker.job[1]
    <2>1. /\ j.id \in Measurements /\ j.ev \in NetEvidence
          /\ \A m \in Measurements \ {j.id} : row'[m] = row[m]
          /\ row[j.id].state = "stored" => VerdictIs(row'[j.id].col, classify(j.ev))
        BY <1>3, WorkerWritesRow
    <2>2. JobOK(j, test, row)
        BY <1>3 DEF WorkerWrites, JobsOK, VerdictInv
    <2> HIDE DEF j
    <2>3. CASE t # j.id
        BY <1>1, <1>2, <2>1, <2>3
    <2>4. CASE t = j.id
        <3>1. CountsForHeadline(classify(j.ev))
            BY <2>1, <2>4 DEF Headline, CountsForHeadline, VerdictIs
        <3>2. classify(Base(j.ev)) = classify(j.ev)
            BY <2>1, <2>2, <2>4, <3>1, OperatorsOnlyTakeAway DEF JobOK
        <3>3. VerdictIs(row[t].col, classify(j.ev))
            BY <2>2, <2>4, <3>2 DEF JobOK
        <3> QED
            BY <3>1, <3>3 DEF Headline, CountsForHeadline, VerdictIs
    <2> QED
        BY <2>3, <2>4
<1>4. ASSUME NEW u \in Tests, PostMeasurement(u) PROVE row'[t] = row[t]
    <2>1. u # t
        BY <1>1, <1>4 DEF PostMeasurement
    <2> QED
        BY <1>1, <1>4, <2>1 DEF PostMeasurement, NetTypeOK
<1>5. ASSUME NEW c \in Commands, CompleteCommand(c) \/ CommandWrites(c) \/ EndLocationWrites(c)
      PROVE  row'[t] = row[t]
    BY <1>1, <1>5 DEF CompleteCommand, CommandWrites, EndLocationWrites, WriteNet,
                      WriteEndLocation, NetTypeOK
<1>6. ASSUME NEW m \in Measurements, Delete(m) PROVE row'[t] = row[t]
    BY <1>1, <1>6 DEF Delete, NoRow, NetTypeOK, Headline
<1>7. CASE UNCHANGED row
    BY <1>2, <1>7
<1>8. CASE UNCHANGED netVars
    BY <1>7, <1>8 DEF netVars
<1>9. CASE \/ Rotate \/ Move \/ TenMinutes \/ ProxyResolves \/ TunnelMoves \/ Restart
           \/ Heartbeat \/ NetInfoReads \/ NetInfoSaves
           \/ WorkerResolves \/ WorkerSaves \/ WorkerReads
    BY <1>7, <1>9 DEF Rotate, Move, TenMinutes, ProxyResolves, TunnelMoves, Restart, Heartbeat,
       NetInfoReads, NetInfoSaves, WorkerResolves, WorkerSaves, WorkerReads
<1>10. ASSUME NEW u \in Tests,
              StartTest(u) \/ ChangeEvent(u) \/ CfMetaIp(u) \/ Transfer(u) \/ AbortTest(u)
       PROVE  Headline(t)
    BY <1>7, <1>10 DEF StartTest, ChangeEvent, CfMetaIp, Transfer, AbortTest
<1>11. ASSUME NEW c \in Commands,
              CommandLearns(c) \/ CommandReads(c) \/ CommandCut(c) \/ EndLocationReads(c)
       PROVE  Headline(t)
    BY <1>7, <1>11 DEF CommandLearns, CommandReads, CommandCut, EndLocationReads
<1> QED
    BY <1>2, <1>3, <1>4, <1>5, <1>6, <1>8, <1>9, <1>10, <1>11 DEF NetNext

(* What the worker learns after a test was stored can take it out of the      *)
(* headline, never into it.                                                   *)
THEOREM LatePromotionInvariant == NetSpec => NoLatePromotion
<1>1. NetTypeOK /\ VerdictInv /\ [NetNext]_netVars =>
        [\A t \in Tests : row[t].state = "stored" /\ Headline(t)' => Headline(t)]_netVars
    BY PromotionStep
<1> QED
    BY <1>1, VerdictInvariant, PTL DEF NetSpec, NoLatePromotion

---------------------------------------------------------------------------
\* Where a request came from.  What the router may show, each place of the
\* phone, and what the page may say of it.
RouterAgents == {u.agent : u \in Uplinks}
RouterClients == UNION {u.clients : u \in Uplinks}

From(p) == CASE p = "router" -> RouterClients
             [] p = "sim" -> SimAddresses
             [] p = "otherwifi" -> OtherAddresses

HintOf(p) == IF p = "sim" THEN "cellular" ELSE "wifi"

OfRouter(ip) == ip = NoAddress \/ ip \in RouterAgents

LEMMA ExitsAreFrom ==
    ASSUME NetTypeOK
    PROVE  /\ ExitAddresses \subseteq From(place)
           /\ uplink.agent \in RouterAgents
           /\ \A p \in Places : From(p) \subseteq Addresses
           /\ RouterAgents \subseteq Addresses
<1>1. Uplinks \subseteq [agent : Addresses, clients : SUBSET Addresses]
    BY NetworkAssumption
<1>2. uplink \in Uplinks /\ place \in Places
    BY DEF NetTypeOK
<1>3. uplink.clients \subseteq RouterClients /\ RouterClients \subseteq Addresses
    BY <1>1, <1>2 DEF RouterClients
<1>4. uplink.agent \in RouterAgents /\ RouterAgents \subseteq Addresses
    BY <1>1, <1>2 DEF RouterAgents
<1> QED
    BY <1>2, <1>3, <1>4, NetworkAssumption DEF ExitAddresses, From, Places

\* Only the address can speak for the router: a verdict that counts rests on
\* it, undoubted or together with a page that says it is on a WiFi.
LEMMA RouterVerdict ==
    ASSUME NEW e, ~e.byEquipment, CountsForHeadline(classify(e))
    PROVE  /\ ipSignal(e).route = "router" /\ ~e.changed /\ usableClientIP(e.status)
           /\ ~ipSignal(e).weak \/ e.hint = "wifi"
<1>1. classify(e).route = "router" /\ classify(e).conf \in {"high", "medium"}
    BY VerdictType DEF CountsForHeadline, Verdicts, Routes
<1>2. classify(e) = Capped(e, classifySignals(e))
    BY Zenon DEF classify
<1>3. classifySignals(e) \in Verdicts
    BY DEF classifySignals, Unknown, Verdicts, Routes, Confidences
<1>4. classifySignals(e).route = "router" /\ classifySignals(e).conf \in {"high", "medium"}
    BY <1>1, <1>2, <1>3 DEF Capped, Verdicts
<1>5. /\ ~e.changed /\ usableClientIP(e.status)
      /\ Saying(e, "router") # {}
    BY <1>4 DEF classifySignals, Unknown
<1>6. Saying(e, "router") \subseteq {1}
    <2>1. Signals(e)[2].route # "router" /\ Signals(e)[3].route # "router"
        BY DEF Signals, hintSignal, asnSignal, Signal, NoSignal
    <2> QED
        BY <2>1 DEF Saying
<1>7. Saying(e, "router") = {1} /\ Signals(e)[1] = ipSignal(e)
    BY <1>5, <1>6 DEF Signals
<1>8. ipSignal(e).route = "router"
    BY <1>7 DEF Saying
<1>9. \/ \E i \in Saying(e, "router") : ~Signals(e)[i].weak
      \/ \E i, k \in Saying(e, "router") : i # k
      \/ hintCorroborates(e, "router")
    <2>1. classifySignals(e).conf # "low" /\ classifySignals(e) # Unknown
        BY <1>4 DEF Unknown
    <2> QED
        BY <1>5, <2>1 DEF classifySignals
<1>10. ~ipSignal(e).weak \/ e.hint = "wifi"
    BY <1>7, <1>9 DEF hintCorroborates
<1> QED
    BY <1>5, <1>8, <1>10

\* Silence is no route, and a signal says what it was made with.
LEMMA SignalFields ==
    /\ NoSignal.route \notin {"router", "other-network"}
    /\ \A route, weak : Signal(route, weak).route = route /\ Signal(route, weak).weak = weak
BY DEF NoSignal, Signal

\* What it takes for an address to speak for the router.
LEMMA RouterSignal ==
    ASSUME NEW e, e.obs \in MaybeAddress, e.ref.ip \in MaybeAddress, ipSignal(e).route = "router"
    PROVE  /\ e.ref.ip # NoAddress /\ e.obs # NoAddress
           /\ Family[e.obs] = Family[e.ref.ip]
           /\ \/ Link[e.obs] = Link[e.ref.ip] /\ (ipSignal(e).weak <=> Family[e.obs] = "v4")
              \/ Pool[e.obs] = Pool[e.ref.ip] /\ Family[e.obs] # "v4" /\ ipSignal(e).weak
           /\ ipSignal(e) \in {Signal("router", FALSE), Signal("router", TRUE)}
<1>1. ~(e.ref.ip = NoAddress \/ ~e.ref.fresh \/ e.obs = NoAddress)
    <2>1. e.ref.ip = NoAddress \/ ~e.ref.fresh \/ e.obs = NoAddress => ipSignal(e) = NoSignal
        BY DEF ipSignal
    <2> QED
        BY <2>1, SignalFields, Zenon
<1>2. Family[e.obs] = Family[e.ref.ip]
    <2>1. Family[e.obs] # Family[e.ref.ip] => /\ Link[e.obs] # Link[e.ref.ip]
                                             /\ Pool[e.obs] # Pool[e.ref.ip]
        BY <1>1, AddressAssumption DEF MaybeAddress
    <2>2. Family[e.obs] # Family[e.ref.ip] => ipSignal(e) = NoSignal
        BY <1>1, <2>1 DEF ipSignal
    <2> QED
        BY <2>2, SignalFields, Zenon
<1>3. CASE Link[e.obs] = Link[e.ref.ip]
    <2>1. ipSignal(e) = Signal("router", Family[e.obs] = "v4")
        BY <1>1, <1>2, <1>3 DEF ipSignal
    <2>2. (ipSignal(e).weak <=> Family[e.obs] = "v4")
        <3>1. \A route, weak : Signal(route, weak).weak <=> weak
            BY DEF Signal
        <3>2. Signal("router", Family[e.obs] = "v4").weak <=> Family[e.obs] = "v4"
            BY <3>1, Zenon
        <3> QED
            BY <2>1, <3>2, Zenon
    <2>3. ipSignal(e) \in {Signal("router", FALSE), Signal("router", TRUE)}
        <3>1. CASE Family[e.obs] = "v4"
            BY <2>1, <3>1 DEF Signal
        <3>2. CASE Family[e.obs] # "v4"
            BY <2>1, <3>2 DEF Signal
        <3> QED
            BY <3>1, <3>2
    <2> QED
        BY <1>1, <1>2, <1>3, <2>2, <2>3, Zenon
<1>4. CASE Link[e.obs] # Link[e.ref.ip] /\ Pool[e.obs] = Pool[e.ref.ip]
    <2>1. ipSignal(e) = IF Family[e.obs] = "v4" THEN NoSignal ELSE Signal("router", TRUE)
        BY <1>1, <1>2, <1>4 DEF ipSignal
    <2>2. Family[e.obs] # "v4"
        <3>1. Family[e.obs] = "v4" => ipSignal(e) = NoSignal
            BY <2>1
        <3> QED
            BY <3>1, SignalFields, Zenon
    <2>3. ipSignal(e) = Signal("router", TRUE)
        BY <2>1, <2>2
    <2> QED
        BY <1>1, <1>2, <1>4, <2>2, <2>3 DEF Signal
<1>5. CASE Link[e.obs] # Link[e.ref.ip] /\ Pool[e.obs] # Pool[e.ref.ip]
    <2>1. ipSignal(e) = Signal("other-network", FALSE)
        BY <1>1, <1>2, <1>5 DEF ipSignal
    <2> QED
        BY <2>1, SignalFields, Zenon
<1> QED
    BY <1>3, <1>4, <1>5

\* What a router's address leaves in the history of the row.
LEMMA RouterMatch ==
    ASSUME NEW e, e.obs \in MaybeAddress, e.ref.ip \in MaybeAddress, ipSignal(e).route = "router"
    PROVE  /\ ipSignal(e).weak => Match(e) = "shared"
           /\ Match(e) = "own" => ~ipSignal(e).weak
<1>1. ipSignal(e) \in {Signal("router", FALSE), Signal("router", TRUE)}
    BY RouterSignal
<1>2. /\ Signal("router", TRUE).weak /\ ~Signal("router", FALSE).weak
      /\ Signal("router", TRUE) # Signal("router", FALSE)
    BY DEF Signal
<1> QED
    BY <1>1, <1>2 DEF Match

\* What the address says of each place.  Another network shares at most a v4
\* address or a /48 with the router.
LEMMA SignalFrom ==
    ASSUME NEW e, OfRouter(e.ref.ip), NEW p \in Places, e.obs \in From(p),
           From(p) \subseteq Addresses, RouterAgents \subseteq Addresses,
           ipSignal(e).route = "router"
    PROVE  p # "router" => ipSignal(e).weak /\ Match(e) = "shared"
<1>0. e.obs \in MaybeAddress /\ e.ref.ip \in MaybeAddress
    BY DEF OfRouter, MaybeAddress
<1>1. /\ e.ref.ip # NoAddress
      /\ Family[e.obs] = Family[e.ref.ip]
      /\ \/ Link[e.obs] = Link[e.ref.ip] /\ (ipSignal(e).weak <=> Family[e.obs] = "v4")
         \/ Pool[e.obs] = Pool[e.ref.ip] /\ Family[e.obs] # "v4" /\ ipSignal(e).weak
    BY <1>0, RouterSignal
<1>2. PICK u \in Uplinks : e.ref.ip = u.agent
    BY <1>1 DEF OfRouter, RouterAgents
<1>3. e.obs \in Addresses /\ u.agent \in Addresses
    BY <1>2 DEF RouterAgents
<1>4. Family[e.obs] \in {"v4", "v6"}
    BY <1>3, AddressAssumption
<1>5. ASSUME p # "router" PROVE ipSignal(e).weak
    <2>1. e.obs \in SimAddresses \cup OtherAddresses
        BY <1>5 DEF From, Places
    <2>2. Family[u.agent] = "v6" => Link[e.obs] # Link[u.agent]
        BY <2>1, NetworkAssumption
    <2> QED
        BY <1>1, <1>2, <1>4, <2>2
<1> QED
    BY <1>0, <1>5, RouterMatch

\* A phone that stayed where it is and counts for the headline is at the router,
\* or on another WiFi with an exit that the router may use too.
LEMMA SteadyAtRouter ==
    ASSUME NEW e, ~e.byEquipment, CountsForHeadline(classify(e)), OfRouter(e.ref.ip),
           NEW p \in Places, e.obs \in From(p), e.hint \in {"", HintOf(p)},
           From(p) \subseteq Addresses, RouterAgents \subseteq Addresses
    PROVE  p = "router" \/ (p = "otherwifi" /\ Match(e) = "shared")
<1>1. /\ ipSignal(e).route = "router"
      /\ ~ipSignal(e).weak \/ e.hint = "wifi"
    BY RouterVerdict
<1>2. p # "router" => ipSignal(e).weak /\ Match(e) = "shared"
    BY <1>1, SignalFrom
<1> QED
    BY <1>1, <1>2 DEF HintOf, Places

\* What is known of a test that went through the router: addresses of the
\* router, and for each the operator that announces it, or none.
OperatorOf(asn, ip) == asn # 0 => ip # NoAddress /\ asn = Asn[ip]

EvidenceTrue(e) ==
    /\ e.hint # "cellular" /\ ~e.byEquipment
    /\ e.obs # NoAddress => e.obs \in RouterClients
    /\ OfRouter(e.ref.ip)
    /\ OperatorOf(e.obsASN, e.obs) /\ OperatorOf(e.refASN, e.ref.ip) /\ OperatorOf(e.ref.asn, e.ref.ip)

\* Two operators are told apart only between families, where addresses are not.
LEMMA NotSurelyElsewhere ==
    ASSUME NEW e, EvidenceTrue(e)
    PROVE  ~(classify(e).route = "other-network" /\ classify(e).conf = "high")
<1> SUFFICES ASSUME classify(e).route = "other-network", classify(e).conf = "high"
             PROVE  FALSE
    OBVIOUS
<1>1. classifySignals(e) \in Verdicts
    BY DEF classifySignals, Unknown, Verdicts, Routes, Confidences
<1>2. classifySignals(e).route = "other-network" /\ classifySignals(e).conf = "high"
    <2>1. classify(e) = Capped(e, classifySignals(e))
        BY Zenon DEF classify, EvidenceTrue
    <2> QED
        BY <1>1, <2>1 DEF Capped, Verdicts
<1>3. /\ ~relay(e)
      /\ \/ \E i, k \in Saying(e, "other-network") : i # k
         \/ hintCorroborates(e, "other-network")
    <2>1. ~relay(e) /\ ~(Saying(e, "router") = {} <=> Saying(e, "other-network") = {})
        BY <1>2 DEF classifySignals, Unknown
    <2>2. Saying(e, "router") = {}
        BY <1>2 DEF classifySignals, Unknown
    <2> QED
        BY <1>2, <2>1, <2>2 DEF classifySignals, Unknown
<1>4. PICK i \in Saying(e, "other-network"), k \in Saying(e, "other-network") : i # k
    BY <1>3 DEF hintCorroborates
<1>5. Signals(e)[2].route # "other-network"
    BY DEF Signals, hintSignal, EvidenceTrue, Signal, NoSignal
<1>6. ipSignal(e).route = "other-network" /\ asnSignal(e).route = "other-network"
    <2>1. i \in {1, 3} /\ k \in {1, 3}
        BY <1>4, <1>5 DEF Saying
    <2>2. 1 \in Saying(e, "other-network") /\ 3 \in Saying(e, "other-network")
        BY <1>4, <2>1
    <2> QED
        BY <2>2 DEF Saying, Signals
<1>7. /\ e.obsASN # 0 /\ e.refASN # 0 /\ e.obsASN # e.refASN
    BY <1>6 DEF asnSignal, NoSignal, Signal
<1>8. Family[e.obs] = Family[e.ref.ip] /\ e.obs # NoAddress /\ e.ref.ip # NoAddress
    BY <1>6 DEF ipSignal, NoSignal, Signal
<1>9. PICK w \in Uplinks : e.obs \in w.clients
    BY <1>8 DEF EvidenceTrue, RouterClients
<1>10. PICK u \in Uplinks : e.ref.ip = u.agent
    BY <1>8 DEF EvidenceTrue, OfRouter, RouterAgents
<1>11. Asn[e.obs] = Asn[u.agent] \/ Asn[e.obs] \in RelayAsns
    BY <1>8, <1>9, <1>10, NetworkAssumption
<1>12. e.obsASN = Asn[e.obs] /\ e.refASN = Asn[u.agent]
    BY <1>7, <1>10 DEF EvidenceTrue, OperatorOf
<1> QED
    BY <1>3, <1>7, <1>11, <1>12 DEF relay

---------------------------------------------------------------------------
\* What is true of the tests, beside what the server thinks of them.  A test
\* that never moved measured where the phone is, and its page says so or
\* nothing.
TestTrue(t, p) ==
    /\ t.stage \in {"idle", "started", "read"} => t.went = {}
    /\ t.stage \in {"down", "up", "reread"} => t.went # {}
    /\ t.stage \notin {"idle", "ended"} /\ t.steady =>
            t.went \subseteq {p} /\ t.hint \in {"", HintOf(p)}

\* The window of a test under way: its addresses are of places the test went
\* through, and of all of them when it has both.
WindowTrue(w, t) ==
    /\ t.stage \in {"down", "up", "ended"}
    /\ t.stage # "ended" =>
        /\ t.kind = "backend"
        /\ t.stage = "down" => w.n = 1
        /\ w.n = 1 => w.last = w.first
        /\ \E p, q \in t.went :
             /\ w.first \in From(p) /\ w.last \in From(q)
             /\ w.n = 2 => t.went = {p, q}
             /\ t.stage = "down" => t.went = {p}

\* A stored test that never left the router; its jobs know nothing false.
AtRouter(r) == r.state = "stored" /\ r.steady /\ "router" \in r.went
JobTrue(j, rows) == j.id \in Tests /\ AtRouter(rows[j.id]) => EvidenceTrue(j.ev)

LearnedTrue == OfRouter(egress.ip) /\ \A c \in Commands : OfRouter(command[c].ip)
TestsTrue == \A t \in Tests : TestTrue(test[t], place)
WindowsTrue == \A t \in DOMAIN ledger : WindowTrue(ledger[t], test[t])
JobsTrue ==
    /\ \A i \in DOMAIN queue : JobTrue(queue[i], row)
    /\ worker.stage # "idle" => JobTrue(worker.job[1], row)

TruthInv == LearnedTrue /\ TestsTrue /\ WindowsTrue /\ JobsTrue

LEMMA TruthInit == NetInit => TruthInv
<1> SUFFICES ASSUME NetInit PROVE TruthInv
    OBVIOUS
<1>1. LearnedTrue
    BY DEF NetInit, LearnedTrue, OfRouter, NoEgress, OpenCommand
<1>2. TestsTrue
    BY DEF NetInit, TestsTrue, TestTrue, NewTest
<1>3. WindowsTrue /\ JobsTrue
    BY DEF NetInit, WindowsTrue, JobsTrue, IdleWorker
<1> QED
    BY <1>1, <1>2, <1>3 DEF TruthInv

\* Whatever teaches the server the router's address got it from the router.
LEMMA LearnedStep == NetTypeOK /\ LearnedTrue /\ [NetNext]_netVars => LearnedTrue'
<1> SUFFICES ASSUME NetTypeOK, LearnedTrue, [NetNext]_netVars PROVE LearnedTrue'
    OBVIOUS
<1>0. egress \in DeviceEgress /\ command \in [Commands -> CommandState]
    BY DEF NetTypeOK
<1>1. CASE UNCHANGED <<egress, command>>
    BY <1>1 DEF LearnedTrue
<1>2. ASSUME NEW ip, OfRouter(ip), SetDeviceEgress(ip) PROVE OfRouter(egress'.ip)
    BY <1>2 DEF SetDeviceEgress
<1>3. ASSUME NEW ip, NEW asn, SetDeviceEgressASN(ip, asn) PROVE OfRouter(egress'.ip)
    BY <1>0, <1>3 DEF SetDeviceEgressASN, DeviceEgress, LearnedTrue
<1>4. OfRouter(clientIP(uplink.agent).ip)
    BY ExitsAreFrom DEF clientIP, OfRouter, NetTypeOK
<1>5. OfRouter(OpenCommand.ip) /\ OfRouter(EndedCommand.ip)
    BY DEF OpenCommand, EndedCommand, OfRouter
<1>6. CASE TenMinutes
    BY <1>0, <1>6 DEF TenMinutes, DeviceEgress, LearnedTrue
<1>7. CASE Restart
    BY <1>5, <1>7 DEF Restart, LearnedTrue
<1>8. CASE Heartbeat
    BY <1>2, <1>4, <1>8 DEF Heartbeat, LearnedTrue
<1>9. CASE NetInfoSaves
    BY <1>1, <1>3, <1>9 DEF NetInfoSaves, LearnedTrue
<1>10. CASE WorkerSaves
    BY <1>3, <1>10 DEF WorkerSaves, LearnedTrue
<1>11. ASSUME NEW c \in Commands, CompleteCommand(c) PROVE LearnedTrue'
    <2>1. PICK ip : ip = clientIP(uplink.agent)
        OBVIOUS
    <2>2. command' = [command EXCEPT ![c] =
              [OpenCommand EXCEPT !.stage = "inserted", !.ip = ip.ip, !.status = ip.status]]
        BY <1>11, <2>1 DEF CompleteCommand
    <2>3. [OpenCommand EXCEPT !.stage = "inserted", !.ip = ip.ip, !.status = ip.status].ip = ip.ip
        BY BlankType DEF CommandState
    <2>4. \A d \in Commands : OfRouter(command'[d].ip)
        BY <1>0, <1>4, <2>1, <2>2, <2>3 DEF LearnedTrue
    <2> QED
        BY <1>11, <2>4 DEF CompleteCommand, LearnedTrue
<1>12. ASSUME NEW c \in Commands, \A d \in Commands \ {c} : command'[d] = command[d],
              OfRouter(command'[c].ip)
       PROVE  \A d \in Commands : OfRouter(command'[d].ip)
    BY <1>12 DEF LearnedTrue
<1>13. ASSUME NEW c \in Commands, CommandLearns(c) PROVE LearnedTrue'
    <2>1. /\ \A d \in Commands \ {c} : command'[d] = command[d]
          /\ command'[c].ip = command[c].ip
        BY <1>0, <1>13 DEF CommandLearns, CommandState
    <2>2. OfRouter(egress'.ip)
        BY <1>2, <1>13 DEF CommandLearns, LearnedTrue
    <2> QED
        BY <1>12, <2>1, <2>2 DEF LearnedTrue
<1>14. ASSUME NEW c \in Commands, CommandReads(c) PROVE LearnedTrue'
    <2>1. /\ \A d \in Commands \ {c} : command'[d] = command[d]
          /\ command'[c].ip = command[c].ip \/ command'[c] = EndedCommand
        BY <1>0, <1>14 DEF CommandReads, CommandState
    <2>2. \A d \in Commands : OfRouter(command'[d].ip)
        BY <1>5, <1>12, <2>1 DEF LearnedTrue
    <2> QED
        BY <1>14, <2>2 DEF CommandReads, LearnedTrue
<1>15. ASSUME NEW c \in Commands, CommandWrites(c) \/ CommandCut(c) PROVE LearnedTrue'
    <2>1. /\ \A d \in Commands \ {c} : command'[d] = command[d]
          /\ command'[c] = EndedCommand
        BY <1>0, <1>15 DEF CommandWrites, CommandCut
    <2>2. \A d \in Commands : OfRouter(command'[d].ip)
        BY <1>5, <1>12, <2>1
    <2> QED
        BY <1>15, <2>2 DEF CommandWrites, CommandCut, LearnedTrue
<1>16. CASE UNCHANGED netVars \/ Rotate \/ Move \/ ProxyResolves \/ TunnelMoves
            \/ NetInfoReads \/ WorkerResolves \/ WorkerReads \/ WorkerWrites
    BY <1>1, <1>16 DEF netVars, Rotate, Move, ProxyResolves, TunnelMoves,
                       NetInfoReads, WorkerResolves, WorkerReads, WorkerWrites
<1>17. ASSUME NEW t \in Tests,
              \/ StartTest(t) \/ ChangeEvent(t) \/ CfMetaIp(t) \/ Transfer(t)
              \/ AbortTest(t) \/ PostMeasurement(t)
       PROVE  LearnedTrue'
    BY <1>1, <1>17 DEF StartTest, ChangeEvent, CfMetaIp, Transfer, AbortTest, PostMeasurement
<1>18. ASSUME NEW c \in Commands, EndLocationReads(c) \/ EndLocationWrites(c) PROVE LearnedTrue'
    BY <1>1, <1>18 DEF EndLocationReads, EndLocationWrites
<1>19. ASSUME NEW m \in Measurements, Delete(m) PROVE LearnedTrue'
    BY <1>1, <1>19 DEF Delete
<1> QED
    BY <1>6, <1>7, <1>8, <1>9, <1>10, <1>11, <1>13, <1>14, <1>15, <1>16, <1>17, <1>18, <1>19
       DEF NetNext

\* What an observation leaves in the ledger: the window of the test goes on or
\* opens with this address; the others stay, or are gone.
LEMMA ObserveWindow ==
    ASSUME NetTypeOK, NEW t \in Tests, NEW ip, NEW status, Observe(t, ip, status)
    PROVE  /\ \A u \in DOMAIN ledger' \ {t} : u \in DOMAIN ledger /\ ledger'[u] = ledger[u]
           /\ t \in DOMAIN ledger' =>
                LET w == ledger'[t] IN
                \/ /\ t \in DOMAIN ledger /\ w.first = ledger[t].first
                   /\ w.last = ip /\ w.n = ledger[t].n + 1
                \/ w.first = ip /\ w.last = ip /\ w.n = 1
<1> DEFINE kept == [u \in {u \in DOMAIN ledger : ~ledger[u].old} |-> ledger[u]]
           entry == IF t \in DOMAIN kept THEN kept[t]
                    ELSE [first |-> ip, last |-> ip, status |-> status, n |-> 0,
                          old |-> FALSE, seen |-> {}]
           updated == [first |-> entry.first, last |-> ip, n |-> entry.n + 1, old |-> FALSE,
                       status |-> WorstStatus(entry.status, status),
                       seen |-> entry.seen \cup {status}]
<1>1. \/ ledger' = kept /\ t \notin DOMAIN kept
      \/ ledger' = [u \in DOMAIN kept \cup {t} |-> IF u = t THEN updated ELSE kept[u]]
    BY Zenon DEF Observe
<1>2. \A u \in DOMAIN kept : u \in DOMAIN ledger /\ kept[u] = ledger[u]
    OBVIOUS
<1>3. \/ /\ t \in DOMAIN ledger /\ updated.first = ledger[t].first
         /\ updated.last = ip /\ updated.n = ledger[t].n + 1
      \/ updated.first = ip /\ updated.last = ip /\ updated.n = 1
    BY <1>2
<1> HIDE DEF kept, updated, entry
<1> QED
    BY <1>1, <1>2, <1>3

\* A step that only touches one test, and not its window.
LEMMA TestMoves ==
    ASSUME NetTypeOK, TestsTrue, WindowsTrue, NEW t \in Tests, NEW s,
           test' = [test EXCEPT ![t] = s], UNCHANGED <<place, ledger>>,
           TestTrue(s, place), t \in DOMAIN ledger => WindowTrue(ledger[t], s)
    PROVE  TestsTrue' /\ WindowsTrue'
<1>1. test'[t] = s /\ \A u \in Tests \ {t} : test'[u] = test[u]
    BY DEF NetTypeOK
<1>2. TestsTrue'
    BY <1>1 DEF TestsTrue
<1>3. WindowsTrue'
    BY <1>1 DEF WindowsTrue, NetTypeOK
<1> QED
    BY <1>2, <1>3

\* The transfers of a test: each adds the place of the phone, and its address
\* to the window when the server can use it.
LEMMA TransferTrue ==
    ASSUME NetTypeOK, TestsTrue, WindowsTrue, NEW t \in Tests, Transfer(t)
    PROVE  TestsTrue' /\ WindowsTrue'
<1>0. test[t] \in TestState /\ DOMAIN ledger \subseteq Tests /\ TestTrue(test[t], place)
    BY DEF NetTypeOK, TestsTrue
<1>1. PICK s : /\ test' = [test EXCEPT ![t] = s]
               /\ s.kind = test[t].kind /\ s.hint = test[t].hint /\ s.steady = test[t].steady
               /\ \/ test[t].stage = (IF test[t].kind = "backend" THEN "started" ELSE "read")
                     /\ s.stage = "down" /\ s.went = {place}
                  \/ test[t].stage = "down" /\ s.stage = "up" /\ s.went = test[t].went \cup {place}
    <2>1. CASE test[t].stage = "down"
        <3>1. PICK s : s = [test[t] EXCEPT !.stage = "up", !.went = test[t].went \cup {place}]
            OBVIOUS
        <3>2. s.kind = test[t].kind /\ s.hint = test[t].hint /\ s.steady = test[t].steady
              /\ s.stage = "up" /\ s.went = test[t].went \cup {place}
            BY <1>0, <3>1 DEF TestState
        <3>3. test' = [test EXCEPT ![t] = s]
            BY <2>1, <3>1 DEF Transfer
        <3> QED
            BY <2>1, <3>2, <3>3
    <2>2. CASE test[t].stage = (IF test[t].kind = "backend" THEN "started" ELSE "read")
        <3>1. PICK s : s = [test[t] EXCEPT !.stage = "down", !.went = {place}]
            OBVIOUS
        <3>2. s.kind = test[t].kind /\ s.hint = test[t].hint /\ s.steady = test[t].steady
              /\ s.stage = "down" /\ s.went = {place}
            BY <1>0, <3>1 DEF TestState
        <3>3. test' = [test EXCEPT ![t] = s]
            BY <2>2, <3>1 DEF Transfer
        <3> QED
            BY <2>2, <3>2, <3>3
    <2> QED
        BY <2>1, <2>2 DEF Transfer
<1>2. test'[t] = s /\ (\A u \in Tests \ {t} : test'[u] = test[u]) /\ place' = place
    BY <1>1 DEF NetTypeOK, Transfer
<1>3. TestTrue(s, place)
    BY <1>0, <1>1 DEF TestTrue
<1>4. TestsTrue'
    BY <1>2, <1>3 DEF TestsTrue
<1>5. PICK a \in ExitAddresses :
         IF test[t].kind = "backend" /\ usableClientIP(clientIP(a).status)
         THEN Observe(t, clientIP(a).ip, clientIP(a).status) ELSE UNCHANGED ledger
    BY DEF Transfer
<1>6. a \in From(place) /\ a \in Addresses
    BY ExitsAreFrom, UplinkType
<1>7. CASE UNCHANGED ledger
    <2>1. ASSUME t \in DOMAIN ledger PROVE WindowTrue(ledger[t], s)
        <3>1. WindowTrue(ledger[t], test[t])
            BY <2>1 DEF WindowsTrue
        <3> QED
            BY <1>1, <3>1 DEF WindowTrue
    <2>2. WindowsTrue'
        BY <1>0, <1>2, <1>7, <2>1 DEF WindowsTrue
    <2> QED
        BY <1>4, <2>2
<1>8. CASE /\ test[t].kind = "backend" /\ usableClientIP(clientIP(a).status)
           /\ Observe(t, clientIP(a).ip, clientIP(a).status)
    <2>1. clientIP(a).ip = a
        BY <1>6, <1>8, ClientIPType DEF NetTypeOK
    <2>2. /\ \A u \in DOMAIN ledger' \ {t} : u \in DOMAIN ledger /\ ledger'[u] = ledger[u]
          /\ t \in DOMAIN ledger' =>
                LET w == ledger'[t] IN
                \/ /\ t \in DOMAIN ledger /\ w.first = ledger[t].first
                   /\ w.last = a /\ w.n = ledger[t].n + 1
                \/ w.first = a /\ w.last = a /\ w.n = 1
        BY <1>8, <2>1, ObserveWindow
    <2>3. ASSUME t \in DOMAIN ledger' PROVE WindowTrue(ledger'[t], s)
        <3> DEFINE w == ledger'[t]
        <3>1. CASE w.first = a /\ w.last = a /\ w.n = 1
            <4>1. place \in s.went /\ (s.stage = "down" => s.went = {place})
                BY <1>1
            <4>2. /\ w.first \in From(place) /\ w.last \in From(place)
                  /\ w.n = 2 => s.went = {place, place}
                  /\ s.stage = "down" => s.went = {place}
                BY <1>6, <3>1, <4>1
            <4>3. s.stage \in {"down", "up"} /\ s.kind = "backend"
                BY <1>1, <1>8
            <4> HIDE DEF w
            <4>4. WindowTrue(w, s)
                BY <3>1, <4>1, <4>2, <4>3 DEF WindowTrue
            <4> QED
                BY <4>4 DEF w
        <3>2. CASE /\ t \in DOMAIN ledger /\ w.first = ledger[t].first
                   /\ w.last = a /\ w.n = ledger[t].n + 1
            <4>1. WindowTrue(ledger[t], test[t])
                BY <3>2 DEF WindowsTrue
            <4>2. test[t].stage = "down" /\ s.stage = "up" /\ s.went = test[t].went \cup {place}
                BY <1>1, <4>1 DEF WindowTrue
            <4>3. PICK p \in test[t].went :
                     ledger[t].first \in From(p) /\ test[t].went = {p} /\ ledger[t].n = 1
                BY <4>1, <4>2 DEF WindowTrue
            <4>4. p \in s.went /\ place \in s.went /\ s.went = {p, place}
                BY <4>2, <4>3
            <4>5. w.first \in From(p) /\ w.last \in From(place) /\ w.n = 2
                BY <1>6, <3>2, <4>3
            <4> HIDE DEF w
            <4>6. WindowTrue(w, s)
                BY <1>1, <1>8, <4>2, <4>4, <4>5 DEF WindowTrue
            <4> QED
                BY <4>6 DEF w
        <3> QED
            BY <2>2, <2>3, <3>1, <3>2
    <2>4. ASSUME NEW u \in DOMAIN ledger' PROVE WindowTrue(ledger'[u], test'[u])
        <3>1. CASE u = t
            BY <1>2, <2>3, <3>1
        <3>2. CASE u # t
            <4>1. u \in DOMAIN ledger /\ ledger'[u] = ledger[u]
                BY <2>2, <3>2
            <4>2. test'[u] = test[u]
                BY <1>0, <1>2, <3>2, <4>1
            <4> QED
                BY <4>1, <4>2 DEF WindowsTrue
        <3> QED
            BY <3>1, <3>2
    <2> QED
        BY <1>4, <2>4 DEF WindowsTrue
<1> QED
    BY <1>5, <1>7, <1>8

\* The other steps of a test.
LEMMA PageTrue ==
    ASSUME NetTypeOK, TestsTrue, WindowsTrue, NEW t \in Tests,
           \/ StartTest(t) \/ ChangeEvent(t) \/ CfMetaIp(t) \/ AbortTest(t) \/ PostMeasurement(t)
    PROVE  TestsTrue' /\ WindowsTrue'
<1>0. /\ test[t] \in TestState /\ TestTrue(test[t], place)
      /\ t \in DOMAIN ledger => WindowTrue(ledger[t], test[t])
    BY DEF NetTypeOK, TestsTrue, WindowsTrue
<1>1. CASE StartTest(t)
    <2>1. PICK k \in {"backend", "cloudflare"}, h \in {"", HintOf(place)} :
             test' = [test EXCEPT ![t] = [NewTest EXCEPT !.stage = "started", !.kind = k, !.hint = h]]
        BY <1>1 DEF StartTest, HintOf
    <2>2. PICK s : s = [NewTest EXCEPT !.stage = "started", !.kind = k, !.hint = h]
        OBVIOUS
    <2>3. s.stage = "started" /\ s.went = {} /\ s.hint = h
        BY <2>2 DEF NewTest
    <2>4. TestTrue(s, place)
        BY <2>1, <2>3 DEF TestTrue
    <2>5. t \notin DOMAIN ledger
        BY <1>0, <1>1 DEF StartTest, WindowTrue
    <2> QED
        BY <1>1, <2>1, <2>2, <2>4, <2>5, TestMoves DEF StartTest
<1>2. CASE ChangeEvent(t)
    <2>1. PICK s : s = [test[t] EXCEPT !.watch = TRUE]
        OBVIOUS
    <2>2. /\ s.stage = test[t].stage /\ s.went = test[t].went /\ s.hint = test[t].hint
          /\ s.steady = test[t].steady /\ s.kind = test[t].kind
        BY <1>0, <2>1 DEF TestState
    <2>3. TestTrue(s, place) /\ (t \in DOMAIN ledger => WindowTrue(ledger[t], s))
        BY <1>0, <2>2 DEF TestTrue, WindowTrue
    <2> QED
        BY <1>2, <2>1, <2>3, TestMoves DEF ChangeEvent
<1>3. CASE CfMetaIp(t)
    <2>1. PICK s : /\ test' = [test EXCEPT ![t] = s]
                   /\ s.went = test[t].went /\ s.hint = test[t].hint /\ s.steady = test[t].steady
                   /\ \/ test[t].stage = "started" /\ s.stage = "read"
                      \/ test[t].stage = "up" /\ s.stage = "reread"
        <3>1. PICK a : \/ /\ test[t].stage = "started"
                          /\ test' = [test EXCEPT ![t] = [test[t] EXCEPT !.stage = "read", !.cfStart = a]]
                       \/ /\ test[t].stage = "up"
                          /\ test' = [test EXCEPT ![t] = [test[t] EXCEPT !.stage = "reread", !.cfEnd = a]]
            BY <1>3 DEF CfMetaIp
        <3>2. CASE /\ test[t].stage = "started"
                   /\ test' = [test EXCEPT ![t] = [test[t] EXCEPT !.stage = "read", !.cfStart = a]]
            <4>1. PICK s : s = [test[t] EXCEPT !.stage = "read", !.cfStart = a]
                OBVIOUS
            <4>2. s.went = test[t].went /\ s.hint = test[t].hint /\ s.steady = test[t].steady
                  /\ s.stage = "read"
                BY <1>0, <4>1 DEF TestState
            <4> QED
                BY <3>2, <4>1, <4>2
        <3>3. CASE /\ test[t].stage = "up"
                   /\ test' = [test EXCEPT ![t] = [test[t] EXCEPT !.stage = "reread", !.cfEnd = a]]
            <4>1. PICK s : s = [test[t] EXCEPT !.stage = "reread", !.cfEnd = a]
                OBVIOUS
            <4>2. s.went = test[t].went /\ s.hint = test[t].hint /\ s.steady = test[t].steady
                  /\ s.stage = "reread"
                BY <1>0, <4>1 DEF TestState
            <4> QED
                BY <3>3, <4>1, <4>2
        <3> QED
            BY <3>1, <3>2, <3>3
    <2>2. TestTrue(s, place)
        BY <1>0, <2>1 DEF TestTrue
    <2>3. t \notin DOMAIN ledger
        BY <1>0, <1>3, <2>1 DEF CfMetaIp, WindowTrue
    <2> QED
        BY <1>3, <2>1, <2>2, <2>3, TestMoves DEF CfMetaIp
<1>4. /\ TestTrue(EndedTest, place)
      /\ \A w : WindowTrue(w, EndedTest)
    BY DEF EndedTest, NewTest, TestTrue, WindowTrue
<1>5. CASE AbortTest(t)
    BY <1>4, <1>5, TestMoves DEF AbortTest
<1>6. CASE PostMeasurement(t)
    <2>1. test'[t] = EndedTest /\ (\A u \in Tests \ {t} : test'[u] = test[u]) /\ place' = place
        BY <1>6 DEF NetTypeOK, PostMeasurement
    <2>2. \A u \in DOMAIN ledger' : u \in DOMAIN ledger /\ u \in Tests \ {t} /\ ledger'[u] = ledger[u]
        BY <1>6 DEF PostMeasurement, NetTypeOK
    <2>3. TestsTrue'
        BY <1>4, <2>1 DEF TestsTrue
    <2>4. WindowsTrue'
        BY <2>1, <2>2 DEF WindowsTrue
    <2> QED
        BY <2>3, <2>4
<1> QED
    BY <1>1, <1>2, <1>3, <1>5, <1>6

LEMMA TestsStep ==
    NetTypeOK /\ TestsTrue /\ WindowsTrue /\ [NetNext]_netVars => TestsTrue' /\ WindowsTrue'
<1> SUFFICES ASSUME NetTypeOK, TestsTrue, WindowsTrue, [NetNext]_netVars
             PROVE  TestsTrue' /\ WindowsTrue'
    OBVIOUS
<1>1. CASE UNCHANGED <<test, place, ledger>>
    BY <1>1 DEF TestsTrue, WindowsTrue
<1>2. CASE Restart
    BY <1>2 DEF Restart, TestsTrue, WindowsTrue
<1>3. CASE TenMinutes
    <2>1. ASSUME NEW t \in DOMAIN ledger'
          PROVE  /\ t \in DOMAIN ledger /\ ledger'[t].n = ledger[t].n
                 /\ ledger'[t].first = ledger[t].first /\ ledger'[t].last = ledger[t].last
        <3>1. t \in DOMAIN ledger /\ ledger[t] \in Observation
            BY <1>3 DEF TenMinutes, NetTypeOK
        <3>2. ledger'[t] = [ledger[t] EXCEPT !.old = TRUE]
            BY <1>3, <3>1 DEF TenMinutes
        <3> QED
            BY <3>1, <3>2 DEF Observation
    <2>2. WindowsTrue'
        BY <1>3, <2>1 DEF TenMinutes, WindowsTrue, WindowTrue
    <2> QED
        BY <1>3, <2>2 DEF TenMinutes, TestsTrue
<1>4. CASE Move
    <2>1. ASSUME NEW t \in Tests
          PROVE  /\ test'[t].stage = test[t].stage /\ test'[t].went = test[t].went
                 /\ test'[t].kind = test[t].kind
                 /\ test[t].stage \notin {"idle", "ended"} => ~test'[t].steady
        <3>1. test[t] \in TestState
            BY DEF NetTypeOK
        <3>2. test'[t] = IF test[t].stage \notin {"idle", "ended"}
                         THEN [test[t] EXCEPT !.steady = FALSE] ELSE test[t]
            BY <1>4 DEF Move, InProgress
        <3> QED
            BY <3>1, <3>2 DEF TestState
    <2>2. TestsTrue'
        BY <2>1 DEF TestsTrue, TestTrue
    <2>3. WindowsTrue'
        <3>1. ledger' = ledger /\ DOMAIN ledger \subseteq Tests
            BY <1>4 DEF Move, NetTypeOK
        <3>2. ASSUME NEW t \in DOMAIN ledger PROVE WindowTrue(ledger[t], test'[t])
            <4>1. WindowTrue(ledger[t], test[t])
                BY DEF WindowsTrue
            <4>2. /\ test'[t].stage = test[t].stage /\ test'[t].went = test[t].went
                  /\ test'[t].kind = test[t].kind
                BY <2>1, <3>1
            <4> QED
                BY <4>1, <4>2 DEF WindowTrue
        <3> QED
            BY <3>1, <3>2 DEF WindowsTrue
    <2> QED
        BY <2>2, <2>3
<1>5. CASE UNCHANGED netVars \/ Rotate \/ ProxyResolves \/ TunnelMoves
            \/ Heartbeat \/ NetInfoReads \/ NetInfoSaves
            \/ WorkerResolves \/ WorkerSaves \/ WorkerReads \/ WorkerWrites
    BY <1>1, <1>5 DEF netVars, Rotate, ProxyResolves, TunnelMoves, Heartbeat, NetInfoReads,
                      NetInfoSaves, WorkerResolves, WorkerSaves, WorkerReads, WorkerWrites
<1>6. ASSUME NEW c \in Commands,
             \/ CompleteCommand(c) \/ CommandLearns(c) \/ CommandReads(c) \/ CommandWrites(c)
             \/ CommandCut(c) \/ EndLocationReads(c) \/ EndLocationWrites(c)
      PROVE  TestsTrue' /\ WindowsTrue'
    BY <1>1, <1>6 DEF CompleteCommand, CommandLearns, CommandReads, CommandWrites, CommandCut,
                      EndLocationReads, EndLocationWrites
<1>7. ASSUME NEW m \in Measurements, Delete(m) PROVE TestsTrue' /\ WindowsTrue'
    BY <1>1, <1>7 DEF Delete
<1> QED
    BY <1>2, <1>3, <1>4, <1>5, <1>6, <1>7, TransferTrue, PageTrue DEF NetNext

---------------------------------------------------------------------------
\* Every step leaves the row of a test as it was, stores it, takes it away, or
\* is the worker writing a verdict in it, which leaves its history alone.
History(r) == <<r.went, r.steady, r.window, r.match>>

LEMMA WorkerKeepsHistory ==
    ASSUME NetTypeOK, WorkerWrites, NEW t \in Tests
    PROVE  \/ row'[t] = row[t]
           \/ /\ row[t].state = "stored" /\ row'[t].state = "stored" /\ t = worker.job[1].id
              /\ History(row'[t]) = History(row[t])
              /\ VerdictIs(row'[t].col, classify(worker.job[1].ev))
<1>1. /\ worker.job[1].id \in Measurements
      /\ \A m \in Measurements \ {worker.job[1].id} : row'[m] = row[m]
      /\ row[worker.job[1].id].state # "stored" => row'[worker.job[1].id] = row[worker.job[1].id]
      /\ row[worker.job[1].id].state = "stored" =>
            VerdictIs(row'[worker.job[1].id].col, classify(worker.job[1].ev))
    BY WorkerWritesRow
<1>2. t \in Measurements
    BY DEF Measurements
<1>3. CASE t # worker.job[1].id \/ row[t].state # "stored"
    BY <1>1, <1>2, <1>3
<1>4. CASE t = worker.job[1].id /\ row[t].state = "stored"
    <2>1. PICK v : WriteNet(t, worker.raw, v)
        BY <1>4 DEF WorkerWrites
    <2>2. row'[t] = [row[t] EXCEPT !.col = Classified(row[t].col, v), !.raw = Classified(worker.raw, v)]
        BY <1>2, <1>4, <2>1 DEF WriteNet, NetTypeOK
    <2>3. row[t] \in Row
        BY <1>2 DEF NetTypeOK
    <2>4. row'[t].state = "stored" /\ History(row'[t]) = History(row[t])
        BY <1>4, <2>2, <2>3 DEF Row, History
    <2> QED
        BY <1>1, <1>4, <2>4
<1> QED
    BY <1>3, <1>4

LEMMA RowStep ==
    ASSUME NetTypeOK, [NetNext]_netVars, NEW t \in Tests
    PROVE  \/ row'[t] = row[t]
           \/ PostMeasurement(t)
           \/ row'[t].state = "deleted"
           \/ /\ WorkerWrites /\ t = worker.job[1].id
              /\ row[t].state = "stored" /\ row'[t].state = "stored"
              /\ History(row'[t]) = History(row[t])
              /\ VerdictIs(row'[t].col, classify(worker.job[1].ev))
<1>0. t \in Measurements /\ t \notin Commands /\ row \in [Measurements -> Row]
    BY BoundAssumption DEF Measurements, NetTypeOK
<1>1. CASE UNCHANGED row
    BY <1>1
<1>2. CASE WorkerWrites
    BY <1>2, WorkerKeepsHistory
<1>3. ASSUME NEW u \in Tests, PostMeasurement(u), u # t PROVE row'[t] = row[t]
    BY <1>0, <1>3 DEF PostMeasurement
<1>4. ASSUME NEW c \in Commands, CompleteCommand(c) \/ CommandWrites(c) \/ EndLocationWrites(c)
      PROVE  row'[t] = row[t]
    BY <1>0, <1>4 DEF CompleteCommand, CommandWrites, EndLocationWrites, WriteNet, WriteEndLocation
<1>5. ASSUME NEW m \in Measurements, Delete(m) PROVE row'[t] = row[t] \/ row'[t].state = "deleted"
    BY <1>0, <1>5 DEF Delete, NoRow
<1>6. CASE \/ UNCHANGED netVars
           \/ Rotate \/ Move \/ TenMinutes \/ ProxyResolves \/ TunnelMoves \/ Restart
           \/ Heartbeat \/ NetInfoReads \/ NetInfoSaves
           \/ WorkerResolves \/ WorkerSaves \/ WorkerReads
    BY <1>1, <1>6 DEF netVars, Rotate, Move, TenMinutes, ProxyResolves, TunnelMoves, Restart,
       Heartbeat, NetInfoReads, NetInfoSaves, WorkerResolves, WorkerSaves, WorkerReads
<1>7. ASSUME NEW u \in Tests,
             StartTest(u) \/ ChangeEvent(u) \/ CfMetaIp(u) \/ Transfer(u) \/ AbortTest(u)
      PROVE  row'[t] = row[t]
    BY <1>7 DEF StartTest, ChangeEvent, CfMetaIp, Transfer, AbortTest
<1>8. ASSUME NEW c \in Commands,
             CommandLearns(c) \/ CommandReads(c) \/ CommandCut(c) \/ EndLocationReads(c)
      PROVE  row'[t] = row[t]
    BY <1>8 DEF CommandLearns, CommandReads, CommandCut, EndLocationReads
<1> QED
    BY <1>2, <1>3, <1>4, <1>5, <1>6, <1>7, <1>8 DEF NetNext

\* What a test is classified with when it is stored.
LEMMA PostedRow ==
    ASSUME NetTypeOK, NEW t \in Tests, PostMeasurement(t)
    PROVE  \E a \in ExitAddresses :
             LET e == Evidence(t, clientIP(a))
                 r == row'[t] IN
             /\ e \in NetEvidence /\ e = Evidence(t, clientIP(a))
             /\ r.state = "stored" /\ VerdictIs(r.col, classify(e))
             /\ r.went = test[t].went /\ r.steady = test[t].steady
             /\ r.window => t \in DOMAIN ledger /\ ledger[t].n = 2
             /\ r.match = Match(e)
             /\ queue' = queue \/ (e.obs # NoAddress /\ queue' = Append(queue, [id |-> t, ev |-> e]))
<1>1. PICK a \in ExitAddresses :
        LET c == clientIP(a)
            seen == t \in DOMAIN ledger
            e == Evidence(t, c)
            v == classify(e)
            contents == [route |-> v.route, conf |-> v.conf, end |-> FALSE]
        IN  /\ row' = [row EXCEPT ![t] =
                   [state |-> "stored", col |-> contents, raw |-> contents, by |-> "browser",
                    went |-> test[t].went, steady |-> test[t].steady,
                    window |-> seen /\ ledger[t].n = 2,
                    unverified |-> IF seen THEN "proxy-unverified" \in ledger[t].seen
                                   ELSE c.status = "proxy-unverified",
                    match |-> Match(e)]]
            /\ IF e.obs = NoAddress THEN UNCHANGED queue ELSE enqueueNetEnrich(t, e)
    BY DEF PostMeasurement
<1> DEFINE e == Evidence(t, clientIP(a))
<1>2. e \in NetEvidence
    BY UplinkType, EvidenceType
<1>3. t \in Measurements /\ row \in [Measurements -> Row]
    BY DEF Measurements, NetTypeOK
<1>4. queue' = queue \/ (e.obs # NoAddress /\ queue' = Append(queue, [id |-> t, ev |-> e]))
    BY <1>1, Zenon DEF enqueueNetEnrich
<1>5. /\ row'[t].state = "stored"
      /\ row'[t].col.route = classify(e).route /\ row'[t].col.conf = classify(e).conf
      /\ row'[t].went = test[t].went /\ row'[t].steady = test[t].steady
      /\ row'[t].window => t \in DOMAIN ledger /\ ledger[t].n = 2
      /\ row'[t].match = Match(e)
    <2> HIDE DEF e
    <2> QED
        BY <1>1, <1>3 DEF e
<1> QED
    BY <1>2, <1>4, <1>5, Zenon DEF VerdictIs

\* Where the address it is classified with came from.
LEMMA PostedFrom ==
    ASSUME NetTypeOK, TestsTrue, WindowsTrue, NEW t \in Tests, PostMeasurement(t),
           NEW a \in ExitAddresses, test[t].steady
    PROVE  /\ test[t].went = {place} /\ test[t].hint \in {"", HintOf(place)}
           /\ LET e == Evidence(t, clientIP(a)) IN e.obs # NoAddress => e.obs \in From(place)
<1>1. TestTrue(test[t], place) /\ test[t].stage \in {"up", "reread"}
    BY DEF TestsTrue, PostMeasurement
<1>2. test[t].went = {place} /\ test[t].hint \in {"", HintOf(place)}
    BY <1>1 DEF TestTrue
<1>3. CASE t \in DOMAIN ledger
    <2>1. WindowTrue(ledger[t], test[t])
        BY <1>3 DEF WindowsTrue
    <2>2. ledger[t].first \in From(place)
        BY <1>1, <1>2, <2>1 DEF WindowTrue
    <2> QED
        BY <1>2, <1>3, <2>2 DEF Evidence
<1>4. CASE t \notin DOMAIN ledger
    <2>1. clientIP(a).ip \in {a, NoAddress}
        BY DEF clientIP, NetTypeOK
    <2>2. a \in From(place)
        BY ExitsAreFrom
    <2> QED
        BY <1>2, <1>4, <2>1, <2>2 DEF Evidence
<1> QED
    BY <1>3, <1>4

\* The evidence of a test that stayed at the router.
LEMMA PostedTrue ==
    ASSUME NetTypeOK, EgressAsnIsOfItsAddress, TruthInv, NEW t \in Tests, PostMeasurement(t),
           NEW a \in ExitAddresses, test[t].steady, "router" \in test[t].went
    PROVE  EvidenceTrue(Evidence(t, clientIP(a)))
<1> DEFINE e == Evidence(t, clientIP(a))
<1>1. /\ test[t].went = {place} /\ test[t].hint \in {"", HintOf(place)}
      /\ e.obs # NoAddress => e.obs \in From(place)
    BY PostedFrom DEF TruthInv
<1>2. place = "router"
    BY <1>1
<1>3. e.hint # "cellular" /\ (e.obs # NoAddress => e.obs \in RouterClients)
    BY <1>1, <1>2 DEF From, HintOf, Evidence
<1>4. e.ref = egress /\ e.refASN = egress.asn /\ e.obsASN = 0 /\ ~e.byEquipment
    BY DEF Evidence
<1>5. OfRouter(e.ref.ip) /\ OperatorOf(e.ref.asn, e.ref.ip)
    BY <1>4 DEF TruthInv, LearnedTrue, EgressAsnIsOfItsAddress, OperatorOf
<1> HIDE DEF e
<1>6. EvidenceTrue(e)
    BY <1>3, <1>4, <1>5 DEF EvidenceTrue, OperatorOf
<1> QED
    BY <1>6 DEF e

\* Looking the operators up adds nothing false.
LEMMA ResolvedTrue ==
    ASSUME NEW e \in NetEvidence, EvidenceTrue(e), e.obs # NoAddress,
           NEW o \in {0, Asn[e.obs]}, NEW r,
           IF e.ref.asn # 0 \/ e.ref.ip = NoAddress THEN r = e.ref.asn ELSE r \in {0, Asn[e.ref.ip]}
    PROVE  EvidenceTrue([e EXCEPT !.obsASN = o, !.refASN = r])
<1>1. PICK f : f = [e EXCEPT !.obsASN = o, !.refASN = r]
    OBVIOUS
<1>2. /\ f.obs = e.obs /\ f.ref = e.ref /\ f.hint = e.hint /\ f.byEquipment = e.byEquipment
      /\ f.obsASN = o /\ f.refASN = r
    BY <1>1 DEF NetEvidence
<1>3. EvidenceTrue(f)
    BY <1>2 DEF EvidenceTrue, OperatorOf
<1> QED
    BY <1>1, <1>3

\* No step but its storing makes a test one that stayed at the router.
LEMMA AtRouterKept ==
    ASSUME NetTypeOK, [NetNext]_netVars, NEW t \in Tests, ~PostMeasurement(t), AtRouter(row'[t])
    PROVE  AtRouter(row[t])
<1>1. CASE row'[t] = row[t]
    BY <1>1
<1>2. CASE row[t].state = "stored" /\ History(row'[t]) = History(row[t])
    BY <1>2 DEF AtRouter, History
<1> QED
    BY <1>1, <1>2, RowStep DEF AtRouter

\* The jobs already there stay true, whatever the step.
LEMMA OldJobsTrue ==
    ASSUME NetTypeOK, VerdictInv, JobsTrue, [NetNext]_netVars
    PROVE  /\ \A i \in DOMAIN queue : JobTrue(queue[i], row')
           /\ worker.stage # "idle" => JobTrue(worker.job[1], row')
<1>1. ASSUME NEW j, JobTrue(j, row), JobOK(j, test, row)
      PROVE  JobTrue(j, row')
    <2> SUFFICES ASSUME j.id \in Tests, AtRouter(row'[j.id]) PROVE EvidenceTrue(j.ev)
        BY DEF JobTrue
    <2>1. ~PostMeasurement(j.id)
        BY <1>1 DEF JobOK, PostMeasurement
    <2>2. AtRouter(row[j.id])
        BY <2>1, AtRouterKept
    <2> QED
        BY <1>1, <2>2 DEF JobTrue
<1> QED
    BY <1>1 DEF VerdictInv, JobsOK, JobsTrue

LEMMA JobsStep ==
    NetTypeOK /\ EgressAsnIsOfItsAddress /\ VerdictInv /\ TruthInv /\ [NetNext]_netVars => JobsTrue'
<1> SUFFICES ASSUME NetTypeOK, EgressAsnIsOfItsAddress, VerdictInv, TruthInv, [NetNext]_netVars
             PROVE  JobsTrue'
    OBVIOUS
<1>1. /\ \A i \in DOMAIN queue : JobTrue(queue[i], row')
      /\ worker.stage # "idle" => JobTrue(worker.job[1], row')
    BY OldJobsTrue DEF TruthInv
<1>2. CASE queue' = queue /\ (worker' = worker \/ worker'.stage = "idle"
                              \/ (worker.stage # "idle" /\ worker'.job = worker.job))
    BY <1>1, <1>2 DEF JobsTrue
<1>3. ASSUME NEW j \in Job, JobTrue(j, row'), queue' = queue \/ queue' = Append(queue, j),
             worker' = worker
      PROVE  JobsTrue'
    <2>1. queue \in Seq(Job)
        BY DEF NetTypeOK
    <2>2. \A i \in DOMAIN queue' : JobTrue(queue'[i], row')
        BY <1>1, <1>3, <2>1, AppendProperties
    <2> QED
        BY <1>1, <1>3, <2>2 DEF JobsTrue
<1>4. CASE Restart
    BY <1>4 DEF Restart, JobsTrue, IdleWorker
<1>5. ASSUME NEW t \in Tests, PostMeasurement(t) PROVE JobsTrue'
    <2>1. PICK a \in ExitAddresses :
             LET e == Evidence(t, clientIP(a))
                 r == row'[t] IN
             /\ e \in NetEvidence /\ e = Evidence(t, clientIP(a))
             /\ r.went = test[t].went /\ r.steady = test[t].steady
             /\ queue' = queue \/ (e.obs # NoAddress /\ queue' = Append(queue, [id |-> t, ev |-> e]))
        BY <1>5, PostedRow
    <2>2. PICK j : j = [id |-> t, ev |-> Evidence(t, clientIP(a))]
        OBVIOUS
    <2>3. JobTrue(j, row')
        BY <1>5, <2>1, <2>2, PostedTrue DEF JobTrue, AtRouter
    <2>4. worker' = worker
        BY <1>5 DEF PostMeasurement
    <2>5. CASE queue' = queue
        BY <1>2, <2>4, <2>5
    <2>6. CASE Evidence(t, clientIP(a)).obs # NoAddress /\ queue' = Append(queue, j)
        <3>1. j \in Job
            BY <2>1, <2>2, <2>6 DEF Job, Measurements
        <3> QED
            BY <1>3, <2>3, <2>4, <2>6, <3>1
    <2> QED
        BY <2>1, <2>2, <2>5, <2>6
<1>6. ASSUME NEW c \in Commands, CommandWrites(c) PROVE JobsTrue'
    <2>1. PICK e : queue' = queue \/ queue' = Append(queue, [id |-> c, ev |-> e])
        BY <1>6, Zenon DEF CommandWrites, enqueueNetEnrich
    <2>2. queue' \in Seq(Job) /\ queue \in Seq(Job) /\ worker' = worker
        BY <1>6, TypeStep DEF NetTypeOK, CommandWrites
    <2>3. CASE queue' = queue
        BY <1>2, <2>2, <2>3
    <2>4. CASE queue' = Append(queue, [id |-> c, ev |-> e])
        <3>1. PICK j : j = [id |-> c, ev |-> e]
            OBVIOUS
        <3>2. Len(queue') = Len(queue) + 1 /\ queue'[Len(queue) + 1] = j
            BY <2>2, <2>4, <3>1
        <3>3. j \in Job
            BY <2>2, <3>2
        <3>4. JobTrue(j, row')
            BY <3>1, BoundAssumption DEF JobTrue
        <3> QED
            BY <1>3, <2>2, <2>4, <3>1, <3>3, <3>4
    <2> QED
        BY <2>1, <2>3, <2>4
<1>7. CASE WorkerResolves
    <2>1. queue \in Seq(Job) /\ queue # <<>> /\ worker \in WorkerState /\ row' = row
        BY <1>7 DEF WorkerResolves, NetTypeOK
    <2>2. PICK h : h = Head(queue)
        OBVIOUS
    <2>3. /\ h \in Job /\ h = queue[1] /\ 1 \in DOMAIN queue
          /\ \A i \in DOMAIN Tail(queue) : i + 1 \in DOMAIN queue /\ Tail(queue)[i] = queue[i + 1]
        BY <2>1, <2>2, HeadTailProperties
    <2>4. h.ev \in NetEvidence /\ h.ev.obs # NoAddress
        BY <2>3 DEF Job
    <2>5. PICK o \in {0, Asn[h.ev.obs]},
               r \in IF h.ev.ref.asn # 0 \/ h.ev.ref.ip = NoAddress
                     THEN {h.ev.ref.asn} ELSE {0, Asn[h.ev.ref.ip]} :
            \E st : worker' = [worker EXCEPT !.stage = st,
                    !.job = <<[id |-> h.id, ev |-> [h.ev EXCEPT !.obsASN = o, !.refASN = r]]>>]
        BY <1>7, <2>2, Zenon DEF WorkerResolves
    <2>6. worker'.job[1] = [id |-> h.id, ev |-> [h.ev EXCEPT !.obsASN = o, !.refASN = r]]
        BY <2>1, <2>5 DEF WorkerState
    <2>7. EvidenceTrue(h.ev) => EvidenceTrue([h.ev EXCEPT !.obsASN = o, !.refASN = r])
        BY <2>4, <2>5, ResolvedTrue
    <2>8. PICK f : f = [h.ev EXCEPT !.obsASN = o, !.refASN = r]
        OBVIOUS
    <2>9. JobTrue(worker'.job[1], row')
        <3>1. JobTrue(h, row')
            BY <1>1, <2>3
        <3>2. EvidenceTrue(h.ev) => EvidenceTrue(f)
            BY <2>7, <2>8
        <3>3. worker'.job[1].id = h.id /\ worker'.job[1].ev = f
            BY <2>6, <2>8
        <3> QED
            BY <3>1, <3>2, <3>3 DEF JobTrue
    <2>10. \A i \in DOMAIN queue' : JobTrue(queue'[i], row')
        BY <1>1, <1>7, <2>3 DEF WorkerResolves
    <2> QED
        BY <2>9, <2>10 DEF JobsTrue
<1>8. CASE UNCHANGED netVars \/ Rotate \/ Move \/ TenMinutes \/ ProxyResolves \/ TunnelMoves
            \/ Heartbeat \/ NetInfoReads \/ NetInfoSaves
    BY <1>2, <1>8 DEF netVars, Rotate, Move, TenMinutes, ProxyResolves, TunnelMoves, Heartbeat,
                      NetInfoReads, NetInfoSaves
<1>9. CASE WorkerSaves \/ WorkerReads \/ WorkerWrites
    <2>1. worker \in WorkerState
        BY DEF NetTypeOK
    <2>2. CASE WorkerSaves
        <3>1. worker.stage # "idle" /\ worker'.job = worker.job /\ queue' = queue
            BY <2>1, <2>2 DEF WorkerSaves, WorkerState
        <3> QED
            BY <1>2, <3>1
    <2>3. CASE WorkerReads
        <3>1. /\ worker.stage # "idle" /\ queue' = queue
              /\ worker'.job = worker.job \/ worker'.stage = "idle"
            BY <2>1, <2>3 DEF WorkerReads, WorkerState, IdleWorker
        <3> QED
            BY <1>2, <3>1
    <2>4. CASE WorkerWrites
        BY <1>2, <2>4 DEF WorkerWrites, IdleWorker
    <2> QED
        BY <1>9, <2>2, <2>3, <2>4
<1>10. ASSUME NEW t \in Tests,
              StartTest(t) \/ ChangeEvent(t) \/ CfMetaIp(t) \/ Transfer(t) \/ AbortTest(t)
       PROVE  JobsTrue'
    BY <1>2, <1>10 DEF StartTest, ChangeEvent, CfMetaIp, Transfer, AbortTest
<1>11. ASSUME NEW c \in Commands,
              \/ CompleteCommand(c) \/ CommandLearns(c) \/ CommandReads(c) \/ CommandCut(c)
              \/ EndLocationReads(c) \/ EndLocationWrites(c)
       PROVE  JobsTrue'
    BY <1>2, <1>11 DEF CompleteCommand, CommandLearns, CommandReads, CommandCut, EndLocationReads,
                       EndLocationWrites
<1>12. ASSUME NEW m \in Measurements, Delete(m) PROVE JobsTrue'
    BY <1>2, <1>12 DEF Delete
<1> QED
    BY <1>4, <1>5, <1>6, <1>7, <1>8, <1>9, <1>10, <1>11, <1>12 DEF NetNext

LEMMA TruthInvariant ==
    NetSpec => [](NetTypeOK /\ EgressAsnIsOfItsAddress /\ VerdictInv /\ TruthInv)
<1>1. NetTypeOK /\ EgressAsnIsOfItsAddress /\ VerdictInv /\ TruthInv /\ [NetNext]_netVars => TruthInv'
    BY LearnedStep, TestsStep, JobsStep DEF TruthInv
<1> QED
    BY InitType, TypeStep, EgressInit, EgressInvStep, VerdictInit, VerdictStep, TruthInit, <1>1, PTL
       DEF NetSpec

---------------------------------------------------------------------------
\* A test that counts when it is stored measured the router alone, or another
\* WiFi that may come out of the same address.
Honest(r) == \/ r.went = {"router"}
             \/ r.match = "shared" /\ r.went = {"otherwifi"}

LEMMA PostedHonest ==
    ASSUME NetTypeOK, TruthInv, NEW t \in Tests, PostMeasurement(t), Headline(t)',
           row'[t].steady \/ (row'[t].window /\ row'[t].match = "own")
    PROVE  Honest(row'[t])
<1>1. PICK a \in ExitAddresses :
         LET e == Evidence(t, clientIP(a))
             r == row'[t] IN
         /\ e \in NetEvidence /\ e = Evidence(t, clientIP(a))
         /\ r.state = "stored" /\ VerdictIs(r.col, classify(e))
         /\ r.went = test[t].went /\ r.steady = test[t].steady
         /\ r.window => t \in DOMAIN ledger /\ ledger[t].n = 2
         /\ r.match = Match(e)
    BY PostedRow
<1>2. PICK e : e = Evidence(t, clientIP(a))
    OBVIOUS
<1>3. CountsForHeadline(classify(e))
    BY <1>1, <1>2 DEF Headline, CountsForHeadline, VerdictIs
<1>4. /\ ~e.byEquipment /\ e.ref = egress /\ e.hint = test[t].hint
      /\ t \in DOMAIN ledger => /\ e.obs = ledger[t].first
                                /\ ~e.changed => ledger[t].first = ledger[t].last
    BY <1>2 DEF Evidence
<1>5. OfRouter(e.ref.ip)
    BY <1>4 DEF TruthInv, LearnedTrue
<1>6. ipSignal(e).route = "router" /\ ~e.changed
    BY <1>3, <1>4, RouterVerdict
<1>7. e.obs # NoAddress /\ e.obs \in MaybeAddress /\ e.ref.ip \in MaybeAddress
    <2>1. e.obs \in MaybeAddress /\ e.ref.ip \in MaybeAddress
        BY <1>1, <1>2, <1>4 DEF NetEvidence, NetTypeOK, DeviceEgress
    <2> QED
        BY <1>6, <2>1, RouterSignal
<1>8. /\ place \in Places /\ RouterAgents \subseteq Addresses
      /\ \A p \in Places : From(p) \subseteq Addresses
    BY ExitsAreFrom DEF NetTypeOK
<1>9. CASE row'[t].steady
    <2>1. test[t].went = {place} /\ test[t].hint \in {"", HintOf(place)} /\ e.obs \in From(place)
        BY <1>1, <1>2, <1>7, <1>9, PostedFrom DEF TruthInv
    <2>2. place = "router" \/ (place = "otherwifi" /\ Match(e) = "shared")
        BY <1>3, <1>4, <1>5, <1>8, <2>1, SteadyAtRouter
    <2>3. row'[t].went = {place} /\ row'[t].match = Match(e)
        BY <1>1, <1>2, <2>1
    <2> QED
        BY <2>2, <2>3 DEF Honest
<1>10. CASE row'[t].window /\ row'[t].match = "own"
    <2>1. /\ t \in DOMAIN ledger /\ ledger[t].n = 2 /\ ledger[t].first = ledger[t].last
          /\ e.obs = ledger[t].first
        BY <1>1, <1>4, <1>6, <1>10
    <2>2. ~ipSignal(e).weak
        <3>1. Match(e) = "own"
            BY <1>1, <1>2, <1>10
        <3> QED
            BY <1>1, <1>2, <1>6, <1>7, <3>1, RouterMatch
    <2>3. WindowTrue(ledger[t], test[t]) /\ test[t].stage # "ended" /\ test[t] \in TestState
        BY <1>10, <2>1 DEF TruthInv, WindowsTrue, PostMeasurement, NetTypeOK
    <2>4. PICK p \in test[t].went, q \in test[t].went :
            e.obs \in From(p) /\ e.obs \in From(q) /\ test[t].went = {p, q}
        BY <2>1, <2>3 DEF WindowTrue
    <2>5. p \in Places /\ q \in Places
        BY <2>3 DEF TestState
    <2>6. p = "router" /\ q = "router"
        BY <1>5, <1>6, <1>8, <2>2, <2>4, <2>5, SignalFrom
    <2> QED
        BY <1>1, <2>4, <2>6 DEF Honest
<1> QED
    BY <1>9, <1>10

LEMMA HeadlineStep ==
    NetTypeOK /\ VerdictInv /\ TruthInv /\ HeadlineIsHonest /\ [NetNext]_netVars => HeadlineIsHonest'
<1> SUFFICES ASSUME NetTypeOK, VerdictInv, TruthInv, HeadlineIsHonest, [NetNext]_netVars,
                    NEW t \in Tests, Headline(t)',
                    row'[t].steady \/ (row'[t].window /\ row'[t].match = "own")
             PROVE  Honest(row'[t])
    BY DEF HeadlineIsHonest, Honest
<1>1. CASE PostMeasurement(t)
    BY <1>1, PostedHonest
<1>2. CASE row'[t] = row[t]
    BY <1>2 DEF HeadlineIsHonest, Headline, Honest
<1>3. CASE row[t].state = "stored" /\ History(row'[t]) = History(row[t])
    <2>1. Headline(t)
        BY <1>3, PromotionStep
    <2>2. /\ row'[t].went = row[t].went /\ row'[t].steady = row[t].steady
          /\ row'[t].window = row[t].window /\ row'[t].match = row[t].match
        BY <1>3 DEF History
    <2> QED
        BY <2>1, <2>2, Zenon DEF HeadlineIsHonest, Honest
<1>4. row'[t].state = "stored"
    BY DEF Headline
<1> QED
    BY <1>1, <1>2, <1>3, <1>4, RowStep

(* A browser test that reaches the headline measured the router and nothing   *)
(* else, when its phone never moved and, if the server saw it from the very   *)
(* /64 of the router at both ends, even when it did; or it measured another   *)
(* WiFi whose address the router may use too.  For every assignment of        *)
(* addresses and operators that the two assumptions of NetRoute allow.        *)
THEOREM HeadlineInvariant == NetSpec => []HeadlineIsHonest
<1>1. NetInit => HeadlineIsHonest
    <2>1. NetInit => \A t \in Tests : row[t].state # "stored"
        BY DEF NetInit, NoRow, Measurements
    <2> QED
        BY <2>1, Zenon DEF HeadlineIsHonest, Headline
<1> QED
    BY <1>1, HeadlineStep, TruthInvariant, PTL DEF NetSpec

LEMMA SureOtherStep ==
    /\ NetTypeOK /\ EgressAsnIsOfItsAddress /\ VerdictInv /\ TruthInv
    /\ SureOtherNetworkIsTrue /\ [NetNext]_netVars
    => SureOtherNetworkIsTrue'
<1> SUFFICES ASSUME NetTypeOK, EgressAsnIsOfItsAddress, VerdictInv, TruthInv,
                    SureOtherNetworkIsTrue, [NetNext]_netVars, NEW t \in Tests,
                    AtRouter(row'[t]),
                    row'[t].col.route = "other-network", row'[t].col.conf = "high"
             PROVE  FALSE
    BY DEF SureOtherNetworkIsTrue, AtRouter
<1>1. CASE row'[t] = row[t]
    BY <1>1 DEF SureOtherNetworkIsTrue, AtRouter
<1>2. ASSUME NEW e, EvidenceTrue(e), VerdictIs(row'[t].col, classify(e)) PROVE FALSE
    BY <1>2, NotSurelyElsewhere DEF VerdictIs
<1>3. CASE PostMeasurement(t)
    <2>1. PICK a \in ExitAddresses :
             LET e == Evidence(t, clientIP(a))
                 r == row'[t] IN
             /\ e = Evidence(t, clientIP(a)) /\ VerdictIs(r.col, classify(e))
             /\ r.went = test[t].went /\ r.steady = test[t].steady
        BY <1>3, PostedRow
    <2>2. EvidenceTrue(Evidence(t, clientIP(a)))
        BY <1>3, <2>1, PostedTrue DEF AtRouter
    <2> QED
        BY <1>2, <2>1, <2>2
<1>4. CASE /\ WorkerWrites /\ t = worker.job[1].id
           /\ row[t].state = "stored" /\ History(row'[t]) = History(row[t])
           /\ VerdictIs(row'[t].col, classify(worker.job[1].ev))
    <2>1. AtRouter(row[t])
        BY <1>4 DEF AtRouter, History
    <2>2. JobTrue(worker.job[1], row)
        BY <1>4 DEF WorkerWrites, TruthInv, JobsTrue
    <2>3. EvidenceTrue(worker.job[1].ev)
        BY <1>4, <2>1, <2>2 DEF JobTrue
    <2> QED
        BY <1>2, <1>4, <2>3
<1> QED
    BY <1>1, <1>3, <1>4, RowStep DEF AtRouter

(* "Another network" is never said with high confidence of a test whose phone *)
(* stayed behind the router, however the router's addresses rotate, whatever  *)
(* the DNS answers and whenever the worker gets to it.                        *)
THEOREM SureOtherInvariant == NetSpec => []SureOtherNetworkIsTrue
<1>1. NetInit => SureOtherNetworkIsTrue
    BY DEF NetInit, SureOtherNetworkIsTrue, NoRow, Measurements
<1> QED
    BY <1>1, SureOtherStep, TruthInvariant, PTL DEF NetSpec
=============================================================================
