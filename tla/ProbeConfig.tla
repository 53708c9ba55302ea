---------------------------- MODULE ProbeConfig ----------------------------
(***************************************************************************)
(* The configuration of a probe and the results attributed with it.  An    *)
(* administrator saves which routers the probe has, behind which routing   *)
(* table of the MikroTik and with which letter (store/probes.go); what a   *)
(* phone measured through a table is attributed to the router that has it, *)
(* and how sure that is depends on the operator it went out by             *)
(* (api/phoneprobe.go).  Meanwhile the cables may be moved, and the        *)
(* configuration and the known operators change under an upload.           *)
(*                                                                         *)
(* Abstractions: one probe; a letter is its position in the alphabet and 0 *)
(* none; a router goes out by one operator; the orders of the phone that a *)
(* change of runner cancels are in PhoneOrders, the rows of the results in *)
(* PhoneOrders too; labels, durations and intervals decide nothing here.   *)
(***************************************************************************)
EXTENDS Naturals, Sequences

CONSTANTS
  Devices,    \* the routers
  Tables,     \* the routing tables of the MikroTik that lead to a router
  Main,       \* the table "main"
  Operator,   \* the ASN each router goes out by
  Agents,     \* the routers with an agent, from which the backend learns it
  Requests,   \* the bodies of PUT /probes/{id}
  OldTargets, \* the rows of probe_targets there may be from before the letters
  LastLetter, \* 26
  KeepAsn,    \* an expected_asn that is absent
  Results,      \* results of the phone, one upload each
  NoDevice,   \* no router: the phone itself measured
  MaxSaves    \* bound: configurations saved

Letters == 1 .. LastLetter

\* expected_asn of a request is absent, null (0) or a number.
Asked == [device: Devices, table: Tables \cup {Main}, slot: {0} \cup Letters,
          asn: {KeepAsn, 0} \cup Nat]

\* An administrator who writes the operator of a router writes the right one.
ASSUME ConfigAssumption ==
  /\ LastLetter \in Nat
  /\ Operator \in [Devices -> Nat \ {0}]
  /\ Agents \subseteq Devices
  /\ NoDevice \notin Devices
  /\ Main \notin Tables
  /\ KeepAsn \notin Nat
  /\ \A r \in Requests :
       /\ r.runner \in {"absent", "probe", "phone"}
       /\ r.targets \in Seq(Asked)
       /\ \A i \in DOMAIN r.targets : r.targets[i].asn \in {KeepAsn, 0, Operator[r.targets[i].device]}
  /\ \A old \in OldTargets :
       /\ old \in Seq([device: Devices, table: Tables \cup {Main}, slot: {0}, asn: {0}])
       /\ \A i, j \in DOMAIN old : old[i].device = old[j].device => i = j

VARIABLES
  serving,   \* the server has started: the migration is done
  runner,    \* probes.runner
  targets,   \* probe_targets, in the order of position
  learned,   \* the routers whose ASN device_egress has
  cable,     \* the world: the router behind each table
  results,     \* what the phone measured, and what became of it
  saves      \* the configurations saved

configVars == <<serving, runner, targets, learned, cable, results, saves>>

Target == [device: Devices, table: Tables \cup {Main}, slot: {0} \cup Letters, asn: Nat]

Verdicts == {"router", "other-network", "unknown"}

NoResult == [stage |-> "none", path |-> "none", table |-> Main, confirmed |-> FALSE,
           from |-> NoDevice, to |-> NoDevice, rule |-> "unread", start |-> FALSE, end |-> FALSE,
           same |-> FALSE, targets |-> <<>>, expected |-> [d \in Devices |-> 0],
           known |-> {}, device |-> NoDevice, slot |-> 0, route |-> "unknown", sure |-> "low"]

Result == [stage: {"none", "running", "ended", "read", "expected", "stored"},
         path: {"none", "ethernet", "wifi"},
         table: Tables \cup {Main},
         confirmed: BOOLEAN,                \* mikrotik_confirmed
         from: Devices \cup {NoDevice},     \* the router it went out by at the start
         to: Devices \cup {NoDevice},       \* and at the end
         rule: {"same", "moved", "unread"}, \* mikrotik_rule_end
         start: BOOLEAN, end: BOOLEAN,      \* egress_ip and egress_ip_end are there
         same: BOOLEAN,                     \* and are the same address
         targets: Seq(Target),              \* as the upload read them
         expected: [Devices -> Nat],
         known: SUBSET Devices,             \* history: those expected for a fact
         device: Devices \cup {NoDevice},
         slot: {0} \cup Letters,
         route: Verdicts, sure: {"high", "medium", "low"}]

ConfigTypeOK == /\ serving \in BOOLEAN
                /\ runner \in {"phone", "probe"}
                /\ targets \in Seq(Target)
                /\ learned \subseteq Devices
                /\ cable \in [Tables -> Devices]
                /\ results \in [Results -> Result]
                /\ saves \in Nat

Injective(f) == \A x, y \in DOMAIN f : f[x] = f[y] => x = y

ConfigInit == /\ serving = FALSE
              /\ runner = "probe"
              /\ targets \in OldTargets
              /\ learned = {}
              /\ cable \in [Tables -> Devices] /\ Injective(cable)
              /\ results = [t \in Results |-> NoResult]
              /\ saves = 0

-----------------------------------------------------------------------------
(* Letters                                                                 *)

FirstOf(letters) == CHOOSE l \in letters : \A k \in letters : l <= k

\* freeSlot: the letter of the position, or the first free one, or none.
FreeSlot(i, used) == IF i \in Letters \ used THEN i
                     ELSE IF Letters \subseteq used THEN 0
                     ELSE FirstOf(Letters \ used)

Used(slots) == {slots[i] : i \in DOMAIN slots} \ {0}

\* The positions without a letter get theirs one after the other.
Completed(slots, given) ==
  \A i \in DOMAIN given :
    slots[i] = IF given[i] # 0 THEN given[i]
               ELSE FreeSlot(i, Used(given) \cup {slots[j] : j \in 1 .. i - 1})

SlotRows(n) == [1 .. n -> {0} \cup Letters]

Lettered(rows, slots) == [i \in DOMAIN rows |-> [rows[i] EXCEPT !.slot = slots[i]]]

\* New starts the server: migratePhoneProbe and its backfillProbeSlots, which
\* only touches the rows without a letter.  It may be started again at any time.
StartServer ==
  /\ serving' = TRUE
  /\ \E slots \in SlotRows(Len(targets)) :
       /\ Completed(slots, [i \in 1 .. Len(targets) |-> targets[i].slot])
       /\ targets' = Lettered(targets, slots)
  /\ results' = [t \in Results |-> IF results[t].stage \in {"read", "expected"}
                               THEN [results[t] EXCEPT !.stage = "ended"] ELSE results[t]]
  /\ UNCHANGED <<runner, learned, cable, saves>>

-----------------------------------------------------------------------------
(* UpsertProbe                                                             *)

\* The row a device had.
Had(device) == \E i \in DOMAIN targets : targets[i].device = device
Old(device) == targets[CHOOSE i \in DOMAIN targets : targets[i].device = device]

Valid(asked) ==
  \A i, j \in DOMAIN asked : i # j =>
    /\ asked[i].device # asked[j].device
    /\ asked[i].slot = 0 \/ asked[i].slot # asked[j].slot

Explicit(asked) == {asked[i].slot : i \in DOMAIN asked} \ {0}

Kept_Greedy(given, asked) ==
  \A i \in DOMAIN asked :
    given[i] = IF asked[i].slot # 0 THEN asked[i].slot
               ELSE IF Had(asked[i].device) THEN Old(asked[i].device).slot ELSE 0

Kept_OnePass(given, asked) ==
  \A i \in DOMAIN asked :
    given[i] = IF asked[i].slot # 0 THEN asked[i].slot
               ELSE IF /\ Had(asked[i].device)
                       /\ Old(asked[i].device).slot \notin Explicit(asked) \cup {given[j] : j \in 1 .. i - 1}
                    THEN Old(asked[i].device).slot
                    ELSE FreeSlot(i, Explicit(asked) \cup {given[j] : j \in 1 .. i - 1})

\* The letters asked for, and those the routers had unless they are taken.
Kept(given, asked) ==
  \A i \in DOMAIN asked :
    given[i] = IF asked[i].slot # 0 THEN asked[i].slot
               ELSE IF /\ Had(asked[i].device)
                       /\ Old(asked[i].device).slot \notin Explicit(asked) \cup {given[j] : j \in 1 .. i - 1}
                    THEN Old(asked[i].device).slot
                    ELSE 0

Saved_Anew(asked, slots) ==
  [i \in DOMAIN asked |-> [device |-> asked[i].device, table |-> asked[i].table, slot |-> slots[i],
                           asn |-> asked[i].asn]]

\* An expected_asn that is absent stays as it was, a null forgets it.
Saved(asked, slots) ==
  [i \in DOMAIN asked |->
     [device |-> asked[i].device, table |-> asked[i].table, slot |-> slots[i],
      asn |-> IF asked[i].asn # KeepAsn THEN asked[i].asn
              ELSE IF Had(asked[i].device) THEN Old(asked[i].device).asn ELSE 0]]

\* In a probe of a phone a table has one router, and main has none.
TablesTell(asked) ==
  \A i \in DOMAIN asked : /\ asked[i].table # Main
                          /\ \A j \in DOMAIN asked : asked[i].table = asked[j].table => i = j

UpsertProbe(request) ==
  LET asked == request.targets IN
  /\ serving /\ saves < MaxSaves
  /\ Valid(asked)
  /\ runner' = IF request.runner = "absent" THEN runner ELSE request.runner
  /\ runner' = "phone" => TablesTell(asked)
  /\ \E given \in SlotRows(Len(asked)) :
       /\ Kept(given, asked)
       /\ \E slots \in SlotRows(Len(asked)) :
            /\ Completed(slots, given)
            /\ \A i \in DOMAIN slots : slots[i] # 0
            /\ targets' = Saved(asked, slots)
  /\ saves' = saves + 1
  /\ UNCHANGED <<serving, learned, cable, results>>

-----------------------------------------------------------------------------
(* The world, and what the phone measures in it                            *)

MoveCables ==
  /\ \E a, b \in Tables :
       /\ a # b
       /\ cable' = [cable EXCEPT ![a] = cable[b], ![b] = cable[a]]
  /\ UNCHANGED <<serving, runner, targets, learned, results, saves>>

\* A heartbeat or a measurement of its agent told the operator (see NetRoute).
LearnAsn(d) ==
  /\ learned' = learned \cup {d}
  /\ UNCHANGED <<serving, runner, targets, cable, results, saves>>

\* By the WiFi, or through a table that the rule was seen to force, or not.
StartPhoneTest(t, path, table, confirmed) ==
  /\ results[t].stage = "none"
  /\ IF path = "wifi" THEN table = Main /\ ~confirmed ELSE table # Main
  /\ results' = [results EXCEPT ![t] =
                 [NoResult EXCEPT !.stage = "running", !.path = path, !.table = table,
                                  !.confirmed = confirmed,
                                  !.from = IF confirmed THEN cable[table] ELSE NoDevice]]
  /\ UNCHANGED <<serving, runner, targets, learned, cable, saves>>

SameOperator(d, e) == d \in Devices /\ e \in Devices /\ Operator[d] = Operator[e]

\* At the end the rule is read again, and the address asked for again; somebody,
\* or the watchdog, may have moved the rule, and each reading may fail.  A router
\* may have gone out by one address of its operator and then by another.  Of a
\* test whose rule was not confirmed nothing of this is used.
EndPhoneTest(t, rule, to, start, end, same) ==
  LET r == results[t] IN
  /\ r.stage = "running"
  /\ IF r.confirmed
     THEN /\ rule = "same" => to = cable[r.table]
          /\ same => start /\ end /\ SameOperator(r.from, to)
     ELSE rule = "unread" /\ to = NoDevice /\ ~start /\ ~end /\ ~same
  /\ results' = [results EXCEPT ![t] =
                 [r EXCEPT !.stage = "ended", !.rule = rule, !.to = to,
                           !.start = start, !.end = end, !.same = same]]
  /\ UNCHANGED <<serving, runner, targets, learned, cable, saves>>

-----------------------------------------------------------------------------
(* handlePostResults                                                       *)

\* It reads the routers of the probe, on or off;
ReadTargets(t) ==
  /\ serving
  /\ results[t].stage = "ended"
  /\ results' = [results EXCEPT ![t] = [results[t] EXCEPT !.stage = "read", !.targets = targets]]
  /\ UNCHANGED <<serving, runner, targets, learned, cable, saves>>

ExpectedOf(read, d) ==
  IF \E i \in DOMAIN read : read[i].device = d
  THEN LET row == read[CHOOSE i \in DOMAIN read : read[i].device = d]
       IN IF row.asn # 0 THEN row.asn ELSE IF d \in learned THEN Operator[d] ELSE 0
  ELSE 0

\* then what it expects of each of them: its configuration, or what was learned;
ReadExpected(t) ==
  /\ results[t].stage = "read"
  /\ results' = [results EXCEPT ![t] =
                 [results[t] EXCEPT !.stage = "expected",
                                  !.expected = [d \in Devices |-> ExpectedOf(results[t].targets, d)]]]
  /\ UNCHANGED <<serving, runner, targets, learned, cable, saves>>

\* then it resolves the addresses, which may not answer, and stores the result.
HasTable(r, i) == r.targets[i].table = r.table

Attributable(r) == r.path = "ethernet" /\ r.confirmed /\ r.rule # "moved"

Known(r) == \E i \in DOMAIN r.targets : HasTable(r, i)

\* The first target with the table.
TargetOf(r) ==
  r.targets[CHOOSE i \in DOMAIN r.targets :
              HasTable(r, i) /\ \A j \in DOMAIN r.targets : HasTable(r, j) => i <= j]

EgressChanged_AsnOnly(r, first, last) ==
  r.start /\ r.end /\ first /\ last /\ ~SameOperator(r.from, r.to)

\* egressChanged: two addresses of one operator are no change (CGNAT).
EgressChanged(r, first, last) ==
  /\ r.start /\ r.end /\ ~r.same
  /\ first /\ last => ~SameOperator(r.from, r.to)

\* What is expected of the other routers.
OtherExpected(r, device) ==
  {r.expected[r.targets[i].device] :
     i \in {j \in DOMAIN r.targets : r.targets[j].device # device}} \ {0}

Verdict(route, sure) == [route |-> route, sure |-> sure]

\* classifyPhoneResult, with the ASN of the first address or 0.
PhoneClassified(r, device, asn, changed) ==
  LET expected == IF device = NoDevice THEN 0 ELSE r.expected[device]
      others   == OtherExpected(r, device)
      match    == asn # 0 /\ expected # 0 /\ asn = expected
  IN CASE r.path = "wifi"                 -> Verdict("other-network", "high")
       [] r.path = "ethernet" /\ (device = NoDevice \/ changed) -> Verdict("unknown", "low")
       [] OTHER ->
            IF match THEN Verdict("router", IF asn \in others THEN "medium" ELSE "high")
            ELSE IF asn # 0 /\ asn \in others THEN Verdict("other-network", "high")
            ELSE IF asn # 0 /\ expected # 0 THEN Verdict("unknown", "low")
            ELSE Verdict("router", "medium")

StoreResult(t, first, last) ==
  LET r       == results[t]
      found   == Attributable(r) /\ Known(r)
      device  == IF found THEN TargetOf(r).device ELSE NoDevice
      asn     == IF r.start /\ first THEN Operator[r.from] ELSE 0
      verdict == PhoneClassified(r, device, asn, EgressChanged(r, first, last))
  IN /\ r.stage = "expected"
     /\ results' = [results EXCEPT ![t] =
                    [NoResult EXCEPT !.stage = "stored", !.path = r.path, !.from = r.from,
                                   !.to = r.to, !.end = r.end,
                                   !.known = {d \in Devices : r.expected[d] # 0},
                                   !.device = device,
                                   !.slot = IF found THEN TargetOf(r).slot ELSE 0,
                                   !.route = verdict.route, !.sure = verdict.sure]]
     /\ UNCHANGED <<serving, runner, targets, learned, cable, saves>>

-----------------------------------------------------------------------------
ConfigNext ==
  \/ StartServer
  \/ \E request \in Requests : UpsertProbe(request)
  \/ MoveCables
  \/ \E d \in Agents : LearnAsn(d)
  \/ \E t \in Results :
       \/ \E path \in {"ethernet", "wifi"}, table \in Tables \cup {Main}, confirmed \in BOOLEAN :
            StartPhoneTest(t, path, table, confirmed)
       \/ \E rule \in {"same", "moved", "unread"}, to \in Devices \cup {NoDevice},
             start, end, same \in BOOLEAN : EndPhoneTest(t, rule, to, start, end, same)
       \/ ReadTargets(t)
       \/ ReadExpected(t)
       \/ \E first, last \in BOOLEAN : StoreResult(t, first, last)

ConfigSpec == ConfigInit /\ [][ConfigNext]_configVars

-----------------------------------------------------------------------------
(* What makes the configuration and the attribution correct                *)

\* A letter names one router of the probe: orders ask for a letter, and the phone
\* looks it up.  Once the server has started every router has one.
LettersAreDistinct ==
  \A i \in DOMAIN targets :
    /\ \A j \in DOMAIN targets : targets[i].slot = targets[j].slot => i = j \/ targets[i].slot = 0
    /\ serving => targets[i].slot # 0 \/ Len(targets) > LastLetter

\* A router keeps its letter, in whatever order it is saved again, with however
\* many others, and across restarts of the server, unless the one who saves gives
\* it another, or gives its letter to another router.
LettersAreKept ==
  [][\A i \in DOMAIN targets, j \in DOMAIN targets' :
       targets[i].device = targets'[j].device /\ targets[i].slot \notin {0, targets'[j].slot} =>
         \E request \in Requests :
           /\ UpsertProbe(request)
           /\ \/ request.targets[j].slot # 0
              \/ targets[i].slot \in Explicit(request.targets)]_configVars

\* For all the backend could tell, x was the router of the result.
PassesFor(x, r) == x = r.device \/ (SameOperator(x, r.device) /\ x \notin r.known)

\* What is said of a result of the cable with high confidence is so, wherever the
\* cables were when it was measured, wherever they are now, and whatever the
\* configuration was at each step of the upload: "router" went out by that router,
\* at the start and, if the address was read, at the end, or by one that the
\* operators could not tell from it because the backend did not know its own;
\* "other-network" went out by another one, if it knew the operator of this one.
SureResultIsTrue ==
  \A t \in Results :
    LET r == results[t] IN
    r.stage = "stored" /\ r.path = "ethernet" /\ r.sure = "high" =>
      \/ /\ r.route = "router"
         /\ PassesFor(r.from, r)
         /\ r.end => PassesFor(r.to, r)
      \/ /\ r.route = "other-network"
         /\ r.from # r.device \/ r.device \notin r.known
=============================================================================
