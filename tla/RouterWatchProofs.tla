------------------------- MODULE RouterWatchProofs -------------------------
(***************************************************************************)
(* What holds of the advice for any clocks, thresholds, delays and numbers *)
(* of routers, checks, statuses and restarts.  The argument: the health of *)
(* a slot, wherever it is kept, describes the checks it knows of, because  *)
(* it and they only ever grow at the end; its times are of the phone, and  *)
(* the time a status has travelled is not negative, so that the duration   *)
(* the backend works out is never longer than the outage was.              *)
(***************************************************************************)
EXTENDS RouterWatch, TLAPS

SlotCheck == [at: Nat, saw: Seen, page: Pages \cup {"unread"}]

\* Checks i to n of a sequence of checks never saw it up, and i saw it down.
DownFrom(cs, i, n) == cs[i].saw = "down" /\ \A k \in i .. n : cs[k].saw # "up"

\* A health describes the first n checks of a slot.
Describes(h, cs, n) ==
  /\ n \in 0 .. Len(cs)
  /\ n = 0 => h.down = Never
  /\ n > 0 => h.internet = cs[n].saw /\ h.checked = cs[n].at + Skew
  /\ h.down # Never => \E i \in 1 .. n : DownFrom(cs, i, n) /\ h.down = cs[i].at + Skew
  /\ \A i \in 1 .. n : DownFrom(cs, i, n) => h.down # Never /\ h.down <= cs[i].at + Skew

\* A status was built by a service that ran, from what was known.
Honest(m) ==
  /\ m.service <= service
  /\ m.service = service => m.seq <= seq
  /\ \A s \in Slots : Describes(m.health[s], checks[s], m.known[s])

\* Of two statuses of a service the later one knows more.
Ordered(m, n) == m.service = n.service /\ m.seq <= n.seq => \A s \in Slots : m.known[s] <= n.known[s]

HealthInv == \A s \in Slots : /\ Describes(health[s], checks[s], Len(checks[s]))
                             /\ \A k \in 1 .. Len(checks[s]) : checks[s][k].at <= time

SentInv == /\ \A m \in sent : /\ Honest(m) /\ m.seq > 0
                               /\ m.at - Skew <= time
                               /\ time <= m.at - Skew + MaxDelay
           /\ \A m, n \in sent : Ordered(m, n)

\* What is stored arrived when it was young enough.
StoredInv ==
  /\ stored.seq = 0 => stored = NoStatus
  /\ stored.seq > 0 => /\ stored.received \in Int
                       /\ stored.received <= time
                       /\ stored.at - Skew <= stored.received
                       /\ stored.received <= stored.at - Skew + MaxDelay
  /\ Honest(stored)
  /\ \A m \in sent : Ordered(m, stored) /\ Ordered(stored, m)

WatchInv == WatchTypeOK /\ service >= 1 /\ HealthInv /\ SentInv /\ StoredInv

-----------------------------------------------------------------------------
(* Types                                                                   *)

LEMMA HealthFields ==
  ASSUME NEW internet \in Seen, NEW checked \in Times, NEW down \in Times
  PROVE  [internet |-> internet, checked |-> checked, down |-> down] \in Health
  BY DEF Health

LEMMA UncheckedType == Unchecked \in Health
  BY HealthFields DEF Unchecked, Seen, Times

LEMMA NoStatusType == NoStatus \in Status
  BY UncheckedType DEF NoStatus, Status, Times

LEMMA PhoneTimeType == ASSUME WatchAssumption, time \in Nat PROVE PhoneTime \in Int
  BY DEF PhoneTime, WatchAssumption

LEMMA RecordedType ==
  ASSUME WatchAssumption, time \in Nat, NEW h \in Health, NEW saw \in Seen
  PROVE  Recorded(h, saw) \in Health
<1> DEFINE down == CASE saw = "up" -> Never
                     [] saw = "down" /\ h.down = Never -> PhoneTime
                     [] OTHER -> h.down
<1>1. h.down \in Times /\ PhoneTime \in Times /\ Never \in Times
  BY PhoneTimeType DEF Health, Times
<1>2. down \in Times
  BY <1>1
<1>3. Recorded(h, saw) = [internet |-> saw, checked |-> PhoneTime, down |-> down]
  BY DEF Recorded
<1> HIDE DEF down
<1>. QED  BY <1>1, <1>2, <1>3, HealthFields

LEMMA InitTypes == ASSUME WatchAssumption, WatchInit PROVE WatchTypeOK
<1> USE DEF WatchInit
<1>1. health \in [Slots -> Health]
  BY UncheckedType
<1>2. stored \in Status
  BY NoStatusType
<1>3. [open |-> Never, counted |-> {}] \in Reboots
  BY DEF Reboots, Times
<1>4. reboots \in [Slots -> Reboots] /\ agent \in [Slots -> Times]
  BY <1>3 DEF Times
<1>5. checks \in [Slots -> Seq(SlotCheck)]
  OBVIOUS
<1>. QED  BY <1>1, <1>2, <1>4, <1>5 DEF WatchTypeOK, SlotCheck

\* A check appends to the checks of the routers it looks at, and to no other.
LEMMA CheckTypes ==
  ASSUME WatchAssumption, WatchTypeOK, NEW some \in SUBSET Slots, NEW saw \in [some -> Seen],
         NEW page \in [some -> Pages \cup {"unread"}], Check(some, saw, page)
  PROVE  WatchTypeOK'
<1> USE DEF WatchTypeOK
<1>1. health' \in [Slots -> Health]
  <2>1. \A s \in Slots : (IF s \in some THEN Recorded(health[s], saw[s]) ELSE health[s]) \in Health
    BY RecordedType
  <2>. QED  BY <2>1 DEF Check
<1>2. checks' \in [Slots -> Seq(SlotCheck)]
  <2>1. \A s \in Slots : checks[s] \in Seq(SlotCheck)
    BY DEF SlotCheck
  <2>2. \A s \in some : [at |-> time, saw |-> saw[s], page |-> page[s]] \in SlotCheck
    BY DEF SlotCheck
  <2>3. \A s \in some : Append(checks[s], [at |-> time, saw |-> saw[s], page |-> page[s]]) \in Seq(SlotCheck)
    BY <2>1, <2>2
  <2>. QED  BY <2>1, <2>3 DEF Check
<1>. QED  BY <1>1, <1>2 DEF Check, SlotCheck

LEMMA RebootsFields ==
  ASSUME NEW open \in Times, NEW counted \in SUBSET Int
  PROVE  [open |-> open, counted |-> counted] \in Reboots
  BY DEF Reboots

LEMMA StepTypes ==
  ASSUME WatchAssumption, WatchTypeOK, [WatchNext]_watchVars PROVE WatchTypeOK'
<1> USE DEF WatchTypeOK
<1>0. time \in Times /\ Never \in Times
      /\ \A s \in Slots : reboots[s] \in Reboots /\ reboots[s].counted \in SUBSET Int /\ reboots[s].open \in Times
  BY DEF Times, Reboots
<1>1. ASSUME NEW some \in SUBSET Slots, NEW saw \in [some -> Seen],
             NEW page \in [some -> Pages \cup {"unread"}], Check(some, saw, page)
      PROVE  WatchTypeOK'
  BY <1>1, CheckTypes
<1>2. CASE SendStatus
  <2> DEFINE m == [service |-> service, seq |-> seq', at |-> PhoneTime, health |-> health,
                   known |-> [s \in Slots |-> Len(checks[s])], received |-> Never]
  <2>1. seq' = seq + 1 /\ sent' = sent \cup {m}
    BY <1>2 DEF SendStatus
  <2>2. [s \in Slots |-> Len(checks[s])] \in [Slots -> Nat]
    OBVIOUS
  <2>3. m \in Status
    BY <2>1, <2>2, PhoneTimeType, <1>0 DEF Status
  <2> HIDE DEF m
  <2>4. sent' \subseteq Status /\ seq' \in Nat
    BY <2>1, <2>3
  <2>. QED  BY <1>2, <2>4 DEF SendStatus
<1>3. CASE StartService
  <2>1. service' \in Nat /\ seq' \in Nat /\ other' \in Nat
    BY <1>3 DEF StartService
  <2>2. UNCHANGED <<time, health, sent, stored, agent, reboots, checks>>
    BY <1>3 DEF StartService
  <2>. QED  BY <2>1, <2>2
<1>4. ASSUME NEW m \in sent, PostStatus(m) PROVE WatchTypeOK'
  <2>1. m \in Status
    OBVIOUS
  <2>2. [m EXCEPT !.received = time] \in Status
    BY <2>1, <1>0 DEF Status
  <2>3. stored' \in Status
    BY <1>4, <2>2 DEF PostStatus
  <2>. QED  BY <1>4, <2>3 DEF PostStatus
<1>5. ASSUME NEW s \in Slots, AgentHeartbeat(s) PROVE WatchTypeOK'
  <2>1. agent' \in [Slots -> Times] /\ other' \in Nat
    BY <1>0, <1>5 DEF AgentHeartbeat
  <2>2. UNCHANGED <<time, health, service, seq, sent, stored, reboots, checks>>
    BY <1>5 DEF AgentHeartbeat
  <2>. QED  BY <2>1, <2>2
<1>6. ASSUME NEW s \in Slots, NEW force \in BOOLEAN, RequestReboot(s, force) PROVE WatchTypeOK'
  <2>1. [open |-> time, counted |-> reboots[s].counted] \in Reboots
    BY <1>0, RebootsFields
  <2>2. reboots' \in [Slots -> Reboots]
    BY <1>6, <2>1 DEF RequestReboot
  <2>3. other' \in Nat /\ UNCHANGED <<time, health, service, seq, sent, stored, agent, checks>>
    BY <1>6 DEF RequestReboot
  <2>. QED  BY <2>2, <2>3
<1>7. ASSUME NEW s \in Slots, RebootDelivered(s) PROVE WatchTypeOK'
  <2>1. [open |-> time, counted |-> reboots[s].counted] \in Reboots
    BY <1>0, RebootsFields
  <2>2. reboots' \in [Slots -> Reboots]
    BY <1>7, <2>1 DEF RebootDelivered
  <2>. QED  BY <1>7, <2>2 DEF RebootDelivered
<1>8. ASSUME NEW s \in Slots, NEW counts \in BOOLEAN, RebootOver(s, counts) PROVE WatchTypeOK'
  <2> DEFINE counted == IF counts THEN reboots[s].counted \cup {reboots[s].open} ELSE reboots[s].counted
  <2>1. reboots[s].open \in Int
    BY <1>0, <1>8 DEF RebootOver, RebootInProgress, Times
  <2>2. counted \in SUBSET Int
    BY <1>0, <2>1
  <2>3. reboots' = [reboots EXCEPT ![s] = [open |-> Never, counted |-> counted]]
    BY <1>8 DEF RebootOver
  <2> HIDE DEF counted
  <2>4. [open |-> Never, counted |-> counted] \in Reboots
    BY <1>0, <2>2, RebootsFields
  <2>5. reboots' \in [Slots -> Reboots]
    BY <2>3, <2>4
  <2>. QED  BY <1>8, <2>5 DEF RebootOver
<1>9. CASE Tick
  <2>1. time' \in Nat /\ sent' \subseteq sent
    BY <1>9 DEF Tick
  <2>2. UNCHANGED <<health, service, seq, stored, agent, reboots, checks, other>>
    BY <1>9 DEF Tick
  <2>. QED  BY <2>1, <2>2
<1>10. CASE UNCHANGED watchVars
  BY <1>10 DEF watchVars
<1>. QED
  BY <1>1, <1>2, <1>3, <1>4, <1>5, <1>6, <1>7, <1>8, <1>9, <1>10 DEF WatchNext

-----------------------------------------------------------------------------
(* A health and the checks it describes                                    *)

LEMMA Appended ==
  ASSUME NEW cs \in Seq(SlotCheck), NEW c \in SlotCheck
  PROVE  /\ Append(cs, c) \in Seq(SlotCheck)
         /\ Len(Append(cs, c)) = Len(cs) + 1
         /\ Append(cs, c)[Len(cs) + 1] = c
         /\ \A k \in 1 .. Len(cs) : Append(cs, c)[k] = cs[k]
  OBVIOUS

LEMMA DescribesGrows ==
  ASSUME NEW cs \in Seq(SlotCheck), NEW c \in SlotCheck, NEW h, NEW n, Describes(h, cs, n)
  PROVE  Describes(h, Append(cs, c), n)
<1> DEFINE ds == Append(cs, c)
<1>1. Len(ds) = Len(cs) + 1 /\ Len(cs) \in Nat /\ n \in 0 .. Len(cs)
  BY Appended DEF Describes
<1>2. \A k \in 1 .. n : ds[k] = cs[k]
  BY <1>1, Appended
<1> HIDE DEF ds
<1>3. \A i \in 1 .. n : DownFrom(ds, i, n) <=> DownFrom(cs, i, n)
  BY <1>1, <1>2 DEF DownFrom
<1>4. n \in 0 .. Len(ds)
  BY <1>1
<1>5. n > 0 => ds[n] = cs[n]
  BY <1>1, <1>2
<1>6. Describes(h, ds, n)
  BY <1>1, <1>2, <1>3, <1>4, <1>5 DEF Describes
<1>. QED  BY <1>6 DEF ds

LEMMA RecordedDescribes ==
  ASSUME WatchAssumption, time \in Nat, NEW cs \in Seq(SlotCheck), NEW h \in Health,
         NEW saw \in Seen, NEW page \in Pages \cup {"unread"},
         Describes(h, cs, Len(cs)), \A k \in 1 .. Len(cs) : cs[k].at <= time
  PROVE  Describes(Recorded(h, saw), Append(cs, [at |-> time, saw |-> saw, page |-> page]), Len(cs) + 1)
<1> DEFINE c == [at |-> time, saw |-> saw, page |-> page]
           ds == Append(cs, c)
           n == Len(cs)
           g == Recorded(h, saw)
<1>1. c \in SlotCheck /\ c.saw = saw /\ c.at = time
  BY DEF SlotCheck
<1>2. n \in Nat /\ Len(ds) = n + 1 /\ ds[n + 1] = c /\ \A k \in 1 .. n : ds[k] = cs[k]
  BY <1>1, Appended
<1>3. /\ g.internet = saw /\ g.checked = time + Skew
      /\ saw = "up" => g.down = Never
      /\ saw = "down" /\ h.down = Never => g.down = time + Skew
      /\ saw # "up" /\ (saw # "down" \/ h.down # Never) => g.down = h.down
  BY DEF Recorded, PhoneTime, Seen
<1>4. /\ h.down # Never => \E i \in 1 .. n : DownFrom(cs, i, n) /\ h.down = cs[i].at + Skew
      /\ \A i \in 1 .. n : DownFrom(cs, i, n) => h.down # Never /\ h.down <= cs[i].at + Skew
  BY DEF Describes
<1>5. Skew \in Int /\ Never \notin Int /\ \A k \in 1 .. n : cs[k].at \in Nat /\ cs[k].at <= time
  <2>1. \A k \in 1 .. n : cs[k] \in SlotCheck
    OBVIOUS
  <2>. QED  BY <2>1 DEF WatchAssumption, SlotCheck
<1> HIDE DEF c, ds, n, g
<1>6. \A i \in 1 .. n : DownFrom(ds, i, n + 1) <=> DownFrom(cs, i, n) /\ saw # "up"
  <2>1. \A i \in 1 .. n : DownFrom(ds, i, n + 1) => DownFrom(cs, i, n) /\ saw # "up"
    BY <1>1, <1>2 DEF DownFrom
  <2>2. ASSUME NEW i \in 1 .. n, DownFrom(cs, i, n), saw # "up" PROVE DownFrom(ds, i, n + 1)
    <3>1. \A k \in i .. n + 1 : k = n + 1 \/ k \in i .. n
      BY <1>2
    <3>. QED  BY <1>1, <1>2, <2>2, <3>1 DEF DownFrom
  <2>. QED  BY <2>1, <2>2
<1>7. DownFrom(ds, n + 1, n + 1) <=> saw = "down"
  BY <1>1, <1>2 DEF DownFrom
<1>8. g.down # Never => \E i \in 1 .. n + 1 : DownFrom(ds, i, n + 1) /\ g.down = ds[i].at + Skew
  <2>1. CASE saw = "down" /\ h.down = Never
    BY <1>1, <1>2, <1>3, <1>7, <2>1
  <2>2. CASE saw # "up" /\ h.down # Never
    <3>1. PICK i \in 1 .. n : DownFrom(cs, i, n) /\ h.down = cs[i].at + Skew
      BY <1>4, <2>2
    <3>2. DownFrom(ds, i, n + 1) /\ ds[i] = cs[i] /\ i \in 1 .. n + 1
      BY <1>2, <1>6, <2>2, <3>1
    <3>. QED  BY <1>3, <2>2, <3>1, <3>2
  <2>. QED  BY <1>3, <2>1, <2>2 DEF Seen
<1>9. ASSUME NEW i \in 1 .. n + 1, DownFrom(ds, i, n + 1)
      PROVE  g.down # Never /\ g.down <= ds[i].at + Skew
  <2>1. CASE i = n + 1
    <3>1. saw = "down" /\ ds[i].at = time
      BY <1>1, <1>2, <1>7, <1>9, <2>1
    <3>2. CASE h.down = Never
      BY <1>3, <1>5, <3>1, <3>2
    <3>3. CASE h.down # Never
      <4>1. PICK k \in 1 .. n : h.down = cs[k].at + Skew
        BY <1>4, <3>3
      <4>. QED  BY <1>3, <1>5, <3>1, <3>3, <4>1
    <3>. QED  BY <3>2, <3>3
  <2>2. CASE i # n + 1
    <3>1. i \in 1 .. n
      BY <1>2, <2>2
    <3>2. DownFrom(cs, i, n) /\ saw # "up" /\ ds[i] = cs[i]
      BY <1>2, <1>6, <1>9, <3>1
    <3>3. h.down # Never /\ h.down <= cs[i].at + Skew
      BY <1>4, <3>1, <3>2
    <3>. QED  BY <1>3, <3>2, <3>3
  <2>. QED  BY <2>1, <2>2
<1>10. n + 1 \in 0 .. Len(ds) /\ n + 1 > 0 /\ n + 1 # 0
  BY <1>2
<1>11. g.internet = ds[n + 1].saw /\ g.checked = ds[n + 1].at + Skew
  BY <1>1, <1>2, <1>3
<1>12. Describes(g, ds, n + 1)
  BY <1>8, <1>9, <1>10, <1>11 DEF Describes
<1>. QED  BY <1>12 DEF c, ds, n, g

-----------------------------------------------------------------------------
(* The invariant, step by step                                             *)

LEMMA CheckSeq == ASSUME WatchTypeOK PROVE \A s \in Slots : checks[s] \in Seq(SlotCheck)
  BY DEF WatchTypeOK, SlotCheck

LEMMA InitInv == ASSUME WatchAssumption, WatchInit PROVE WatchInv
<1> USE DEF WatchInit
<1>1. \A s \in Slots : Describes(Unchecked, <<>>, 0)
  BY DEF Describes, Unchecked
<1>2. HealthInv
  BY <1>1 DEF HealthInv
<1>3. SentInv
  BY DEF SentInv
<1>4. Honest(NoStatus)
  BY <1>1 DEF Honest, NoStatus
<1>. QED  BY InitTypes, <1>2, <1>3, <1>4 DEF WatchInv, StoredInv, NoStatus

\* A check: what was known before is still a beginning of what is known now.
LEMMA CheckInv ==
  ASSUME WatchAssumption, WatchInv, NEW some \in SUBSET Slots, NEW saw \in [some -> Seen],
         NEW page \in [some -> Pages \cup {"unread"}], Check(some, saw, page)
  PROVE  HealthInv' /\ SentInv' /\ StoredInv'
<1> USE DEF WatchInv
<1> DEFINE c(s) == [at |-> time, saw |-> saw[s], page |-> page[s]]
<1>1. /\ UNCHANGED <<time, service, seq, sent, stored>>
      /\ \A s \in some : checks'[s] = Append(checks[s], c(s)) /\ health'[s] = Recorded(health[s], saw[s])
      /\ \A s \in Slots \ some : checks'[s] = checks[s] /\ health'[s] = health[s]
  BY DEF Check, WatchTypeOK
<1>2. /\ time \in Nat /\ \A s \in Slots : health[s] \in Health /\ checks[s] \in Seq(SlotCheck)
      /\ \A s \in some : c(s) \in SlotCheck /\ saw[s] \in Seen /\ page[s] \in Pages \cup {"unread"}
      /\ \A s \in some : c(s).at = time
  BY CheckSeq DEF WatchTypeOK, SlotCheck
<1>3. ASSUME NEW s \in Slots, NEW h, NEW n, Describes(h, checks[s], n) PROVE Describes(h, checks'[s], n)
  <2>1. CASE s \in some
    <3>1. Describes(h, Append(checks[s], c(s)), n)
      BY <1>2, <1>3, <2>1, DescribesGrows
    <3>. QED  BY <1>1, <2>1, <3>1
  <2>2. CASE s \notin some
    BY <1>1, <1>3, <2>2
  <2>. QED  BY <2>1, <2>2
<1>4. ASSUME NEW m, Honest(m) PROVE Honest(m)'
  BY <1>1, <1>3, <1>4 DEF Honest
<1>5. ASSUME NEW s \in Slots
      PROVE  /\ Describes(health'[s], checks'[s], Len(checks'[s]))
             /\ \A k \in 1 .. Len(checks'[s]) : checks'[s][k].at <= time
  <2>1. /\ Describes(health[s], checks[s], Len(checks[s]))
        /\ \A k \in 1 .. Len(checks[s]) : checks[s][k].at <= time
    BY DEF HealthInv
  <2>2. CASE s \in some
    <3>1. Describes(Recorded(health[s], saw[s]), Append(checks[s], c(s)), Len(checks[s]) + 1)
      BY <1>2, <2>1, <2>2, RecordedDescribes
    <3>2. /\ Len(Append(checks[s], c(s))) = Len(checks[s]) + 1
          /\ Append(checks[s], c(s))[Len(checks[s]) + 1] = c(s)
          /\ \A k \in 1 .. Len(checks[s]) : Append(checks[s], c(s))[k] = checks[s][k]
      BY <1>2, <2>2, Appended
    <3>3. checks'[s] = Append(checks[s], c(s)) /\ health'[s] = Recorded(health[s], saw[s]) /\ c(s).at = time
      BY <1>1, <1>2, <2>2
    <3>4. Len(checks[s]) \in Nat
      BY <1>2
    <3> HIDE DEF c
    <3>5. \A k \in 1 .. Len(checks'[s]) : k \in 1 .. Len(checks[s]) \/ k = Len(checks[s]) + 1
      BY <3>2, <3>3, <3>4
    <3>6. \A k \in 1 .. Len(checks'[s]) : checks'[s][k].at <= time
      BY <1>2, <2>1, <3>2, <3>3, <3>5
    <3>. QED  BY <3>1, <3>2, <3>3, <3>6
  <2>3. CASE s \notin some
    BY <1>1, <2>1, <2>3
  <2>. QED  BY <2>2, <2>3
<1>6. HealthInv'
  BY <1>1, <1>5 DEF HealthInv
<1>7. SentInv'
  BY <1>1, <1>4 DEF SentInv, Ordered
<1>8. StoredInv'
  BY <1>1, <1>4 DEF StoredInv, Ordered
<1>. QED  BY <1>6, <1>7, <1>8

\* A status that is built now knows every check, and comes after all the others.
LEMMA SendInv == ASSUME WatchAssumption, WatchInv, SendStatus PROVE HealthInv' /\ SentInv' /\ StoredInv'
<1>0. PICK new : new = [service |-> service, seq |-> seq + 1, at |-> PhoneTime, health |-> health,
                        known |-> [s \in Slots |-> Len(checks[s])], received |-> Never]
  OBVIOUS
<1>1. /\ sent' = sent \cup {new} /\ seq' = seq + 1
      /\ UNCHANGED <<time, health, service, stored, checks>>
  BY <1>0 DEF SendStatus
<1>2. /\ time \in Nat /\ service \in Nat /\ seq \in Nat /\ stored \in Status /\ sent \subseteq Status
      /\ Skew \in Int /\ MaxDelay \in Nat /\ service >= 1
  BY DEF WatchInv, WatchTypeOK, WatchAssumption
<1>3. /\ new.service = service /\ new.seq = seq + 1 /\ new.at - Skew = time /\ new.health = health
      /\ \A s \in Slots : new.known[s] = Len(checks[s])
  BY <1>0, <1>2 DEF PhoneTime
<1>4. ASSUME NEW m \in Status, Honest(m) PROVE Honest(m)'
  <2>1. m.seq \in Nat
    BY DEF Status
  <2>2. m.service = service => m.seq <= seq + 1
    BY <1>2, <1>4, <2>1 DEF Honest
  <2>. QED  BY <1>1, <1>4, <2>2 DEF Honest
<1>5. ASSUME NEW m \in Status, Honest(m) PROVE Ordered(m, new) /\ Ordered(new, m)
  <2>1. m.seq \in Nat /\ m.service \in Nat
    BY DEF Status
  <2>2. ~(m.service = new.service /\ new.seq <= m.seq)
    BY <1>2, <1>3, <1>5, <2>1 DEF Honest
  <2>3. \A s \in Slots : m.known[s] <= Len(checks[s])
    BY <1>5 DEF Honest, Describes
  <2>. QED  BY <1>3, <2>2, <2>3 DEF Ordered
<1>6. Honest(new)'
  <2>1. \A s \in Slots : Describes(health[s], checks[s], Len(checks[s]))
    BY DEF WatchInv, HealthInv
  <2>. QED  BY <1>1, <1>2, <1>3, <2>1 DEF Honest
<1>7. Ordered(new, new)
  <2>1. \A s \in Slots : Len(checks[s]) \in Nat
    BY CheckSeq DEF WatchInv
  <2>. QED  BY <1>3, <2>1 DEF Ordered
<1>8. \A m \in sent : m \in Status /\ Honest(m) /\ m.seq > 0 /\ m.at - Skew <= time
                      /\ time <= m.at - Skew + MaxDelay
  BY <1>2 DEF WatchInv, SentInv
<1>9. SentInv'
  <2>1. ASSUME NEW m \in sent'
        PROVE  (Honest(m) /\ m.seq > 0 /\ m.at - Skew <= time /\ time <= m.at - Skew + MaxDelay)'
    <3>1. CASE m \in sent
      BY <1>1, <1>4, <1>8, <3>1
    <3>2. CASE m = new
      <4>1. new.seq > 0 /\ new.at - Skew <= time /\ time <= new.at - Skew + MaxDelay
        BY <1>2, <1>3
      <4>. QED  BY <1>1, <1>6, <3>2, <4>1
    <3>. QED  BY <1>1, <3>1, <3>2
  <2>2. ASSUME NEW m \in sent', NEW n \in sent' PROVE Ordered(m, n)
    <3>1. CASE m \in sent /\ n \in sent
      BY <3>1 DEF WatchInv, SentInv, Ordered
    <3>2. CASE m = new \/ n = new
      BY <1>1, <1>5, <1>7, <1>8, <3>2
    <3>. QED  BY <1>1, <3>1, <3>2
  <2>. QED  BY <2>1, <2>2 DEF SentInv
<1>10. StoredInv'
  <2>1. Honest(stored)' /\ Ordered(stored, new) /\ Ordered(new, stored)
    BY <1>1, <1>2, <1>4, <1>5 DEF WatchInv, StoredInv
  <2>2. ASSUME NEW m \in sent' PROVE (Ordered(m, stored) /\ Ordered(stored, m))'
    <3>1. CASE m \in sent
      BY <1>1, <3>1 DEF WatchInv, StoredInv, Ordered
    <3>. QED  BY <1>1, <2>1, <3>1
  <2>. QED  BY <1>1, <2>1, <2>2 DEF WatchInv, StoredInv, NoStatus
<1>. QED  BY <1>1, <1>9, <1>10 DEF WatchInv, HealthInv

\* Nothing has yet come from a service that only starts.
LEMMA StartInv == ASSUME WatchInv, StartService PROVE HealthInv' /\ SentInv' /\ StoredInv' /\ service' >= 1
<1>1. /\ service' = service + 1 /\ seq' = 0 /\ UNCHANGED <<time, health, sent, stored, checks>>
      /\ service \in Nat /\ stored \in Status /\ sent \subseteq Status
  BY DEF StartService, WatchInv, WatchTypeOK
<1>2. ASSUME NEW m \in Status, Honest(m) PROVE Honest(m)'
  <2>1. m.service \in Nat
    BY DEF Status
  <2>2. m.service <= service' /\ m.service # service'
    BY <1>1, <1>2, <2>1 DEF Honest
  <2>. QED  BY <1>1, <1>2, <2>2 DEF Honest
<1>3. SentInv'
  <2>1. \A m \in sent : Honest(m)'
    BY <1>1, <1>2 DEF WatchInv, SentInv
  <2>. QED  BY <1>1, <2>1 DEF WatchInv, SentInv, Ordered
<1>4. StoredInv'
  <2>1. Honest(stored)'
    BY <1>1, <1>2 DEF WatchInv, StoredInv
  <2>. QED  BY <1>1, <2>1 DEF WatchInv, StoredInv, Ordered, NoStatus
<1>5. HealthInv' /\ service' >= 1
  BY <1>1 DEF WatchInv, HealthInv
<1>. QED  BY <1>3, <1>4, <1>5

\* A status that arrives was built by a service that ran, and not too long ago.
LEMMA PostInv == ASSUME WatchInv, NEW m \in sent, PostStatus(m) PROVE HealthInv' /\ SentInv' /\ StoredInv'
<1>1. /\ UNCHANGED <<time, health, service, seq, sent, checks>>
      /\ stored' = IF Late(m) THEN stored ELSE [m EXCEPT !.received = time]
      /\ m \in Status /\ time \in Nat
  BY DEF PostStatus, WatchInv, WatchTypeOK
<1>2. Honest(m) /\ m.seq > 0 /\ m.at - Skew <= time /\ time <= m.at - Skew + MaxDelay
  BY DEF WatchInv, SentInv
<1>3. HealthInv' /\ SentInv'
  BY <1>1 DEF WatchInv, HealthInv, SentInv, Honest, Ordered
<1>4. CASE Late(m)
  BY <1>1, <1>3, <1>4 DEF WatchInv, StoredInv, Honest, Ordered, NoStatus
<1>5. CASE ~Late(m)
  <2>1. /\ stored'.service = m.service /\ stored'.seq = m.seq /\ stored'.at = m.at
        /\ stored'.health = m.health /\ stored'.known = m.known /\ stored'.received = time
    BY <1>1, <1>5 DEF Status
  <2>2. m.seq \in Nat /\ m.seq # 0
    BY <1>1, <1>2 DEF Status
  <2>3. Honest(stored)'
    BY <1>1, <1>2, <2>1 DEF Honest
  <2>4. ASSUME NEW n \in sent' PROVE (Ordered(n, stored) /\ Ordered(stored, n))'
    <3>1. n \in sent /\ Ordered(n, m) /\ Ordered(m, n)
      BY <1>1 DEF WatchInv, SentInv
    <3>. QED  BY <2>1, <3>1 DEF Ordered
  <2>5. /\ stored'.received \in Int /\ stored'.received <= time'
        /\ stored'.at - Skew <= stored'.received /\ stored'.received <= stored'.at - Skew + MaxDelay
    BY <1>1, <1>2, <2>1
  <2>6. stored'.seq # 0
    BY <2>1, <2>2
  <2>7. StoredInv'
    BY <2>3, <2>4, <2>5, <2>6 DEF StoredInv
  <2>. QED  BY <1>3, <2>7
<1>. QED  BY <1>4, <1>5

\* Time passes: what is still on its way is still young enough.
LEMMA TickInv == ASSUME WatchAssumption, WatchInv, Tick PROVE HealthInv' /\ SentInv' /\ StoredInv'
<1>1. /\ time' = time + 1 /\ sent' = {m \in sent : m.at - Skew + MaxDelay > time}
      /\ UNCHANGED <<health, service, seq, stored, checks>>
      /\ time \in Nat /\ sent \subseteq Status /\ stored \in Status /\ Skew \in Int /\ MaxDelay \in Nat
  BY DEF Tick, WatchInv, WatchTypeOK, WatchAssumption
<1>2. HealthInv'
  <2>1. \A s \in Slots : \A k \in 1 .. Len(checks[s]) : checks[s][k] \in SlotCheck
    BY CheckSeq DEF WatchInv
  <2>2. \A s \in Slots : \A k \in 1 .. Len(checks[s]) : checks[s][k].at \in Nat /\ checks[s][k].at <= time
    BY <2>1 DEF SlotCheck, WatchInv, HealthInv
  <2>3. \A s \in Slots : \A k \in 1 .. Len(checks[s]) : checks[s][k].at <= time + 1
    BY <1>1, <2>2
  <2>. QED  BY <1>1, <2>3 DEF WatchInv, HealthInv
<1>3. SentInv'
  <2>1. ASSUME NEW m \in sent'
        PROVE  (Honest(m) /\ m.seq > 0 /\ m.at - Skew <= time /\ time <= m.at - Skew + MaxDelay)'
    <3>1. m \in sent /\ m.at - Skew + MaxDelay > time
      BY <1>1
    <3>2. m.at \in Int
      BY <1>1, <3>1 DEF Status
    <3>3. Honest(m) /\ m.seq > 0 /\ m.at - Skew <= time
      BY <3>1 DEF WatchInv, SentInv
    <3>4. m.at - Skew <= time + 1 /\ time + 1 <= m.at - Skew + MaxDelay
      BY <1>1, <3>1, <3>2, <3>3
    <3>5. Honest(m)'
      BY <1>1, <3>3 DEF Honest
    <3>. QED  BY <1>1, <3>3, <3>4, <3>5
  <2>. QED  BY <1>1, <2>1 DEF WatchInv, SentInv, Ordered
<1>4. StoredInv'
  <2>1. stored.seq > 0 => stored.received <= time + 1
    BY <1>1 DEF WatchInv, StoredInv
  <2>2. Honest(stored)'
    BY <1>1 DEF WatchInv, StoredInv, Honest
  <2>3. \A m \in sent' : m \in sent
    BY <1>1
  <2>. QED  BY <1>1, <2>1, <2>2, <2>3 DEF WatchInv, StoredInv, Ordered, NoStatus
<1>. QED  BY <1>2, <1>3, <1>4

\* The heartbeats and the reboots touch nothing of this.
LEMMA OthersInv ==
  ASSUME WatchInv, UNCHANGED <<time, health, service, seq, sent, stored, checks>>
  PROVE  HealthInv' /\ SentInv' /\ StoredInv' /\ service' >= 1
  BY DEF WatchInv, HealthInv, SentInv, StoredInv, Honest, Ordered, NoStatus

LEMMA StepInv == ASSUME WatchAssumption, WatchInv, [WatchNext]_watchVars PROVE WatchInv'
<1>1. WatchTypeOK'
  BY StepTypes DEF WatchInv
<1>2. service >= 1
  BY DEF WatchInv
<1>3. ASSUME NEW some \in SUBSET Slots, NEW saw \in [some -> Seen],
             NEW page \in [some -> Pages \cup {"unread"}], Check(some, saw, page)
      PROVE  HealthInv' /\ SentInv' /\ StoredInv' /\ service' >= 1
  <2>1. service' = service
    BY <1>3 DEF Check
  <2>. QED  BY <1>2, <1>3, <2>1, CheckInv
<1>4. CASE SendStatus
  <2>1. service' = service
    BY <1>4 DEF SendStatus
  <2>. QED  BY <1>1, <1>2, <1>4, <2>1, SendInv DEF WatchInv
<1>5. CASE StartService
  BY <1>1, <1>5, StartInv DEF WatchInv
<1>6. ASSUME NEW m \in sent, PostStatus(m) PROVE HealthInv' /\ SentInv' /\ StoredInv' /\ service' >= 1
  <2>1. service' = service
    BY <1>6 DEF PostStatus
  <2>. QED  BY <1>2, <1>6, <2>1, PostInv
<1>7. ASSUME NEW s \in Slots, AgentHeartbeat(s) \/ RebootDelivered(s)
                              \/ (\E force \in BOOLEAN : RequestReboot(s, force))
                              \/ (\E counts \in BOOLEAN : RebootOver(s, counts))
      PROVE  UNCHANGED <<time, health, service, seq, sent, stored, checks>>
  BY <1>7 DEF AgentHeartbeat, RebootDelivered, RequestReboot, RebootOver
<1>8. CASE Tick
  <2>1. service' = service
    BY <1>8 DEF Tick
  <2>. QED  BY <1>1, <1>2, <1>8, <2>1, TickInv DEF WatchInv
<1>9. CASE UNCHANGED <<time, health, service, seq, sent, stored, checks>>
  BY <1>1, <1>9, OthersInv DEF WatchInv
<1>10. CASE UNCHANGED watchVars
  BY <1>9, <1>10 DEF watchVars
<1>. QED
  BY <1>1, <1>3, <1>4, <1>5, <1>6, <1>7, <1>8, <1>9, <1>10 DEF WatchNext, WatchInv

LEMMA WatchInvariant == WatchSpec => []WatchInv
<1>1. WatchInit => WatchInv
  BY InitInv, WatchAssumption
<1>2. WatchInv /\ [WatchNext]_watchVars => WatchInv'
  BY StepInv, WatchAssumption
<1>. QED  BY <1>1, <1>2, PTL DEF WatchSpec

\* Every reachable state of the phone, the status and the advice has its type.
THEOREM WatchTypeCorrect == WatchSpec => []WatchTypeOK
<1>1. WatchInv => WatchTypeOK
  BY DEF WatchInv
<1>. QED  BY <1>1, WatchInvariant, PTL

-----------------------------------------------------------------------------
(* What the backend makes of it                                            *)

\* A status that is stored: its times are numbers, and so is its age.
LEMMA StoredTimes ==
  ASSUME WatchAssumption, WatchInv, stored.seq > 0
  PROVE  /\ time \in Int /\ Skew \in Int /\ MaxDelay \in Int /\ stored.at \in Int /\ stored.received \in Int
         /\ stored.received <= time /\ stored.at - Skew <= stored.received
         /\ stored.received <= stored.at - Skew + MaxDelay
  BY DEF WatchInv, WatchTypeOK, WatchAssumption, StoredInv, Status

\* What the backend knows of a slot: the checks that it describes have their times.
LEMMA StoredChecks ==
  ASSUME WatchAssumption, WatchInv, NEW s \in Slots
  PROVE  /\ Describes(stored.health[s], checks[s], stored.known[s])
         /\ stored.known[s] \in Nat
         /\ \A k \in 1 .. stored.known[s] : k \in DOMAIN checks[s] /\ checks[s][k].at \in Int
<1>1. Describes(stored.health[s], checks[s], stored.known[s])
  BY DEF WatchInv, StoredInv, Honest
<1>2. checks[s] \in Seq(SlotCheck) /\ Len(checks[s]) \in Nat
  BY CheckSeq DEF WatchInv
<1>3. stored.known[s] \in 0 .. Len(checks[s])
  BY <1>1 DEF Describes
<1>4. \A k \in 1 .. stored.known[s] : k \in 1 .. Len(checks[s])
  BY <1>2, <1>3
<1>5. \A k \in 1 .. Len(checks[s]) : checks[s][k] \in SlotCheck
  BY <1>2
<1>6. \A k \in 1 .. stored.known[s] : checks[s][k].at \in Int
  BY <1>4, <1>5 DEF SlotCheck
<1>. QED  BY <1>1, <1>2, <1>3, <1>4, <1>6

LEMMA Earned == ASSUME WatchAssumption, WatchInv PROVE AdviceIsEarned
<1> SUFFICES ASSUME NEW s \in Slots, Recommended(s), ~AgentSaysOffline(s)
             PROVE  /\ stored.known[s] \in DOMAIN checks[s]
                    /\ time - checks[s][stored.known[s]].at <= CheckStale + MaxDelay + HealthFresh
                    /\ \E i \in 1 .. stored.known[s] : /\ Outage(s, i, stored.known[s])
                                                       /\ time - checks[s][i].at > OfflineAfter
  BY DEF AdviceIsEarned
<1> DEFINE h == stored.health[s]
           j == stored.known[s]
<1>1. Fresh(s) /\ h.internet = "down" /\ DownFor(s) > OfflineAfter
  BY DEF Recommended, PhoneSaysOffline
<1>2. stored.seq > 0 /\ time - stored.received <= HealthFresh
      /\ (h.checked # Never => stored.at - h.checked <= CheckStale)
  BY <1>1 DEF Fresh, StatusAge
<1>3. OfflineAfter \in Nat /\ HealthFresh \in Nat /\ CheckStale \in Nat /\ Never \notin Int
  BY DEF WatchAssumption
<1>4. h.down # Never /\ stored.at - h.down + (time - stored.received) > OfflineAfter
  BY <1>1, <1>3 DEF DownFor, StatusAge
<1>5. Describes(h, checks[s], j) /\ j \in Nat
      /\ \A k \in 1 .. j : k \in DOMAIN checks[s] /\ checks[s][k].at \in Int
  BY StoredChecks
<1>6. /\ time \in Int /\ Skew \in Int /\ MaxDelay \in Int /\ stored.at \in Int /\ stored.received \in Int
      /\ stored.received <= time /\ stored.at - Skew <= stored.received
      /\ stored.received <= stored.at - Skew + MaxDelay
  BY <1>2, StoredTimes
<1> HIDE DEF h, j
<1>7. PICK i \in 1 .. j : DownFrom(checks[s], i, j) /\ h.down = checks[s][i].at + Skew
  BY <1>4, <1>5 DEF Describes
<1>8. j > 0 /\ j \in 1 .. j /\ checks[s][j].saw = "down" /\ h.checked = checks[s][j].at + Skew
  <2>1. j > 0 /\ j \in 1 .. j
    BY <1>5, <1>7
  <2>. QED  BY <1>1, <1>5, <2>1 DEF Describes, h
<1>9. checks[s][i].at \in Int /\ checks[s][j].at \in Int
  BY <1>5, <1>7, <1>8
<1>10. time - checks[s][i].at > OfflineAfter
  BY <1>3, <1>4, <1>6, <1>7, <1>9
<1>11. stored.at - h.checked <= CheckStale
  BY <1>2, <1>3, <1>6, <1>8, <1>9
<1>12. time - checks[s][j].at <= CheckStale + MaxDelay + HealthFresh
  BY <1>2, <1>3, <1>6, <1>8, <1>9, <1>11
<1>13. Outage(s, i, j)
  BY <1>7, <1>8 DEF Outage, DownFrom
<1>14. j \in DOMAIN checks[s]
  BY <1>5, <1>8
<1>. QED  BY <1>10, <1>12, <1>13, <1>14 DEF j

LEMMA NotMissed == ASSUME WatchAssumption, WatchInv PROVE AdviceIsNotMissed
<1> DEFINE j(s) == stored.known[s]
           built == stored.at - Skew
<1> SUFFICES ASSUME NEW s \in Slots, NEW i \in 1 .. j(s), Outage(s, i, j(s)),
                    built - checks[s][j(s)].at <= CheckStale,
                    time - stored.received <= HealthFresh,
                    time - checks[s][i].at > OfflineAfter + (stored.received - built)
             PROVE  Recommended(s) \/ RebootInProgress(s) \/ CoolingDown(s)
  BY DEF AdviceIsNotMissed
<1> DEFINE h == stored.health[s]
           n == stored.known[s]
<1>1. Describes(h, checks[s], n) /\ n \in Nat /\ \A k \in 1 .. n : k \in DOMAIN checks[s] /\ checks[s][k].at \in Int
  BY StoredChecks
<1>2. n > 0 /\ i \in 1 .. n /\ n \in 1 .. n
  BY <1>1
<1>3. stored.seq > 0
  <2>1. stored.seq = 0 => n = 0
    BY DEF WatchInv, StoredInv, NoStatus
  <2>2. stored.seq \in Nat
    BY DEF WatchInv, WatchTypeOK, Status
  <2>. QED  BY <1>2, <2>1, <2>2
<1>4. /\ time \in Int /\ Skew \in Int /\ stored.at \in Int /\ stored.received \in Int
      /\ OfflineAfter \in Nat /\ CheckStale \in Nat /\ Never \notin Int
  BY <1>3, StoredTimes DEF WatchAssumption
<1>5. checks[s][i].at \in Int /\ checks[s][n].at \in Int
  BY <1>1, <1>2
<1>6. DownFrom(checks[s], i, n) /\ checks[s][n].saw = "down"
  BY DEF Outage, DownFrom
<1>7. h.internet = "down" /\ h.checked = checks[s][n].at + Skew
  BY <1>1, <1>2, <1>6 DEF Describes
<1>8. h.down # Never /\ h.down <= checks[s][i].at + Skew
  BY <1>1, <1>2, <1>6 DEF Describes
<1>9. h.down \in Int
  BY <1>8 DEF WatchInv, WatchTypeOK, Status, Health, Times
<1>10. stored.at - h.checked <= CheckStale
  BY <1>4, <1>5, <1>7
<1>11. stored.at - h.down + (time - stored.received) > OfflineAfter
  BY <1>4, <1>5, <1>8, <1>9
<1>12. Fresh(s)
  BY <1>3, <1>10 DEF Fresh, StatusAge
<1>13. DownFor(s) > OfflineAfter
  <2>1. ~(stored.at - h.down + (time - stored.received) < 0)
    BY <1>4, <1>9, <1>11
  <2>. QED  BY <1>8, <1>11, <2>1 DEF DownFor, StatusAge
<1>14. PhoneSaysOffline(s)
  BY <1>7, <1>12, <1>13 DEF PhoneSaysOffline
<1>. QED  BY <1>14 DEF Recommended

LEMMA Actionable == ASSUME WatchAssumption, WatchTypeOK PROVE AdviceIsActionable
<1> SUFFICES ASSUME NEW s \in Slots, Recommended(s), Refused(s, FALSE), stored.seq # 0
             PROVE  \E t \in reboots[s].counted : t + Cooldown = time
  BY DEF AdviceIsActionable
<1>1. ~RebootInProgress(s) /\ ~CoolingDown(s)
  BY DEF Recommended
<1>2. PICK t \in reboots[s].counted : t >= time - Cooldown
  BY <1>1 DEF Refused
<1>3. ~(t + Cooldown > time)
  BY <1>1 DEF CoolingDown
<1>4. t \in Int /\ time \in Int /\ Cooldown \in Int
  BY <1>2 DEF WatchTypeOK, Reboots, WatchAssumption
<1>5. t + Cooldown = time
  BY <1>2, <1>3, <1>4
<1>. QED  BY <1>2, <1>5

\* Whatever the clocks and the delays, an advice that only the phone justifies is
\* earned by an outage that the phone saw, old enough by the clock of the backend.
THEOREM AdviceIsEarnedHolds == WatchSpec => []AdviceIsEarned
<1>1. WatchInv => AdviceIsEarned
  BY Earned, WatchAssumption
<1>. QED  BY <1>1, WatchInvariant, PTL

\* An outage that the stored status knows of, and that is old enough even less the
\* time the status travelled, is advised upon.
THEOREM AdviceIsNotMissedHolds == WatchSpec => []AdviceIsNotMissed
<1>1. WatchInv => AdviceIsNotMissed
  BY NotMissed, WatchAssumption
<1>. QED  BY <1>1, WatchInvariant, PTL

\* The two readings of the cooldown, of evalReboot and of CreateRebootOrder, differ
\* in nothing but the instant in which it ends.
THEOREM AdviceIsActionableHolds == WatchSpec => []AdviceIsActionable
<1>1. WatchTypeOK => AdviceIsActionable
  BY Actionable, WatchAssumption
<1>. QED  BY <1>1, WatchTypeCorrect, PTL

\* Statuses of a service that overtake each other never take back what is known.
THEOREM StatusNeverGoesBackHolds == WatchSpec => StatusNeverGoesBack
<1> DEFINE A == stored'.service = stored.service => \A s \in Slots : stored'.known[s] >= stored.known[s]
<1>1. ASSUME WatchInv, WatchInv', [WatchNext]_watchVars PROVE [A]_watchVars
  <2>0. \A s \in Slots : stored.known[s] \in Nat
    BY <1>1 DEF WatchInv, WatchTypeOK, Status
  <2>1. ASSUME stored' = stored PROVE A
    BY <2>0, <2>1
  <2>2. ASSUME NEW m \in sent, PostStatus(m) PROVE A
    <3>1. m \in Status /\ stored \in Status
      BY <1>1, <2>2 DEF WatchInv, WatchTypeOK
    <3>2. CASE Late(m)
      BY <2>1, <2>2, <3>2 DEF PostStatus
    <3>3. CASE ~Late(m)
      <4>1. stored'.service = m.service /\ stored'.known = m.known
        BY <2>2, <3>1, <3>3 DEF PostStatus, Status
      <4>2. Ordered(stored, m)
        BY <1>1 DEF WatchInv, StoredInv
      <4>3. m.seq \in Nat /\ stored.seq \in Nat
        BY <3>1 DEF Status
      <4>4. m.service = stored.service => stored.seq <= m.seq
        BY <3>3, <4>3 DEF Late
      <4>5. \A s \in Slots : m.known[s] \in Nat
        BY <3>1 DEF Status
      <4>. QED  BY <2>0, <4>1, <4>2, <4>4, <4>5 DEF Ordered
    <3>. QED  BY <3>2, <3>3
  <2>3. WatchNext => (\E m \in sent : PostStatus(m)) \/ stored' = stored
    BY DEF WatchNext, Check, SendStatus, StartService, AgentHeartbeat, RequestReboot,
           RebootDelivered, RebootOver, Tick
  <2> HIDE DEF A
  <2>. QED  BY <1>1, <2>1, <2>2, <2>3
<1>2. WatchInv /\ WatchInv' /\ [WatchNext]_watchVars => [A]_watchVars
  BY <1>1
<1>. QED  BY <1>2, WatchInvariant, PTL DEF WatchSpec, StatusNeverGoesBack
=============================================================================
