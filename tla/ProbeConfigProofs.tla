------------------------- MODULE ProbeConfigProofs -------------------------
(***************************************************************************)
(* What holds of the letters and of the attribution of a result for any    *)
(* routers, tables, requests, old configurations and numbers of results.   *)
(* The letters: a position without one takes a letter that no position has *)
(* been given and none before it has taken, and a router can only find its *)
(* old letter taken by one that was asked for, because the old letters     *)
(* were distinct.  The results: what is expected of a router is its        *)
(* operator or nothing, so that a match of operators tells it from every   *)
(* other router of the probe of which something is expected.               *)
(***************************************************************************)
EXTENDS ProbeConfig, Integers, FiniteSetTheorems, WellFoundedInduction, TLAPS

DevicesAreDistinct(rows) == \A i, j \in DOMAIN rows : rows[i].device = rows[j].device => i = j

AsnsAreTrue(rows) == \A i \in DOMAIN rows : rows[i].asn \in {0, Operator[rows[i].device]}

\* What is true of a result at every stage of its test and of its upload.
Measured(r) ==
  /\ r.confirmed => r.from \in Devices
  /\ r.start => r.confirmed
  /\ r.same => SameOperator(r.from, r.to)
  /\ AsnsAreTrue(r.targets)
  /\ r.stage = "expected" => \A d \in Devices : r.expected[d] # 0 =>
       r.expected[d] = Operator[d] /\ \E i \in DOMAIN r.targets : r.targets[i].device = d

\* The clause of SureResultIsTrue.
Sure(r) ==
  r.stage = "stored" /\ r.path = "ethernet" /\ r.sure = "high" =>
    \/ /\ r.route = "router"
       /\ PassesFor(r.from, r)
       /\ r.end => PassesFor(r.to, r)
    \/ /\ r.route = "other-network"
       /\ r.from # r.device \/ r.device \notin r.known

ConfigInv ==
  /\ ConfigTypeOK
  /\ DevicesAreDistinct(targets) /\ AsnsAreTrue(targets)
  /\ LettersAreDistinct
  /\ \A t \in Results : Measured(results[t]) /\ Sure(results[t])

-----------------------------------------------------------------------------
(* Helpers                                                                 *)

LEMMA Least == ASSUME NEW N \in SUBSET Nat, N # {} PROVE \E x \in N : \A y \in N : x <= y
<1>1. PICK x \in N : \A y \in N : ~ (<<y, x>> \in OpToRel(<, Nat))
  BY NatLessThanWellFounded, WFMin
<1>2. \A y \in N : x \in Nat /\ y \in Nat /\ ~(y < x)
  BY <1>1 DEF OpToRel
<1>. QED  BY <1>2

LEMMA FirstOfLetters == ASSUME NEW N \in SUBSET Letters, N # {} PROVE FirstOf(N) \in N
<1>1. N \in SUBSET Nat
  BY DEF Letters
<1>2. \E x \in N : \A y \in N : x <= y
  BY <1>1, Least
<1>. QED  BY <1>2 DEF FirstOf

\* freeSlot answers a letter that is not used, or that there is none.
LEMMA FreeSlotIsFree ==
  ASSUME NEW i, NEW used
  PROVE  \/ FreeSlot(i, used) \in Letters \ used
         \/ FreeSlot(i, used) = 0 /\ Letters \subseteq used
<1>1. Letters \subseteq used \/ FirstOf(Letters \ used) \in Letters \ used
  BY FirstOfLetters
<1>. QED  BY <1>1 DEF FreeSlot

LEMMA LettersAreNotZero == 0 \notin Letters
  BY DEF Letters

\* Completing letters that are distinct gives distinct letters, and keeps those
\* there were.
LEMMA CompletedIsDistinct ==
  ASSUME NEW n \in Nat, NEW given \in SlotRows(n), NEW slots \in SlotRows(n),
         Completed(slots, given),
         \A i, j \in 1 .. n : given[i] = given[j] => i = j \/ given[i] = 0
  PROVE  /\ \A i, j \in 1 .. n : slots[i] = slots[j] => i = j \/ slots[i] = 0
         /\ \A i \in 1 .. n : given[i] # 0 => slots[i] = given[i]
<1>1. DOMAIN given = 1 .. n /\ DOMAIN slots = 1 .. n
  BY DEF SlotRows
<1>2. \A i \in 1 .. n : given[i] # 0 => slots[i] = given[i] /\ given[i] \in Used(given)
  BY <1>1 DEF Completed, Used
<1>3. ASSUME NEW i \in 1 .. n, given[i] = 0, slots[i] # 0
      PROVE  slots[i] \notin Used(given) /\ \A j \in 1 .. i - 1 : slots[j] # slots[i]
  <2>1. slots[i] = FreeSlot(i, Used(given) \cup {slots[j] : j \in 1 .. i - 1})
    BY <1>1, <1>3 DEF Completed
  <2>. QED  BY <1>3, <2>1, FreeSlotIsFree
<1>4. ASSUME NEW i \in 1 .. n, NEW j \in 1 .. n, slots[i] = slots[j], i < j
      PROVE  slots[i] = 0
  <2>1. CASE given[j] # 0
    BY <1>2, <1>3, <1>4, <2>1
  <2>2. CASE given[j] = 0
    <3>1. i \in 1 .. j - 1
      BY <1>4
    <3>. QED  BY <1>3, <1>4, <2>2, <3>1
  <2>. QED  BY <2>1, <2>2
<1>5. ASSUME NEW i \in 1 .. n, NEW j \in 1 .. n, slots[i] = slots[j], i # j
      PROVE  slots[i] = 0
  <2>1. i < j \/ j < i
    BY <1>5
  <2>. QED  BY <1>4, <1>5, <2>1
<1>. QED  BY <1>2, <1>5

LEMMA Interval == ASSUME NEW n \in Nat PROVE IsFiniteSet(1 .. n) /\ Cardinality(1 .. n) = n
<1>1. 1 \in Int /\ n \in Int
  OBVIOUS
<1>2. IsFiniteSet(1 .. n) /\ Cardinality(1 .. n) = IF 1 > n THEN 0 ELSE n - 1 + 1
  BY <1>1, FS_Interval
<1>. QED  BY <1>2

LEMMA IntervalLess ==
  ASSUME NEW n \in Nat, NEW i \in 1 .. n
  PROVE  /\ IsFiniteSet((1 .. n) \ {i}) /\ Cardinality((1 .. n) \ {i}) = n - 1
         /\ 1 .. i - 1 \subseteq (1 .. n) \ {i}
<1>1. IsFiniteSet((1 .. n) \ {i}) /\ Cardinality((1 .. n) \ {i}) = Cardinality(1 .. n) - 1
  BY Interval, FS_RemoveElement
<1>2. Cardinality(1 .. n) = n
  BY Interval
<1>3. \A j \in 1 .. i - 1 : j \in 1 .. n /\ j # i
  OBVIOUS
<1>. QED  BY <1>1, <1>2, <1>3

\* The letters are no more than the others when all of them are theirs.
LEMMA LettersWithin ==
  ASSUME NEW X, IsFiniteSet(X), NEW f, NEW S, f \in Surjection(X, S), Letters \subseteq S
  PROVE  LastLetter <= Cardinality(X)
<1>1. IsFiniteSet(S) /\ Cardinality(S) <= Cardinality(X)
  BY FS_Surjection
<1>2. LastLetter \in Nat
  BY ConfigAssumption
<1>3. IsFiniteSet(Letters) /\ Cardinality(Letters) = LastLetter
  BY <1>2, Interval DEF Letters
<1>4. Cardinality(Letters) <= Cardinality(S)
  BY <1>1, FS_Subset
<1>5. Cardinality(S) \in Nat /\ Cardinality(X) \in Nat
  BY <1>1, FS_CardinalityType
<1>. QED  BY <1>1, <1>2, <1>3, <1>4, <1>5

\* A position is left without a letter only when there are more of them.
LEMMA CompletedIsFull ==
  ASSUME NEW n \in Nat, NEW given \in SlotRows(n), NEW slots \in SlotRows(n),
         Completed(slots, given), NEW i \in 1 .. n
  PROVE  slots[i] # 0 \/ n > LastLetter
<1> SUFFICES ASSUME slots[i] = 0 PROVE n > LastLetter
  OBVIOUS
<1> DEFINE before == 1 .. i - 1
           used == Used(given) \cup {slots[j] : j \in before}
<1>1. PICK others : others = (1 .. n) \ {i}
  OBVIOUS
<1>2. PICK S : S = {slots[k] : k \in others}
  OBVIOUS
<1>3. PICK f : f = [k \in others |-> slots[k]]
  OBVIOUS
<1>4. DOMAIN given = 1 .. n /\ DOMAIN slots = 1 .. n
  BY DEF SlotRows
<1>5. \A k \in 1 .. n : given[k] # 0 => slots[k] = given[k]
  BY <1>4 DEF Completed
<1>6. given[i] = 0
  BY <1>5
<1>7. FreeSlot(i, used) = 0
  BY <1>4, <1>6 DEF Completed
<1>8. IsFiniteSet(others) /\ Cardinality(others) = n - 1 /\ before \subseteq others
  BY <1>1, IntervalLess
<1>9. Used(given) \subseteq S
  <2>1. ASSUME NEW x \in Used(given) PROVE x \in S
    <3>1. PICK k \in 1 .. n : x = given[k] /\ x # 0
      BY <1>4, <2>1 DEF Used
    <3>2. k \in others /\ x = slots[k]
      BY <1>1, <1>5, <1>6, <3>1
    <3>. QED  BY <1>2, <3>2
  <2>. QED  BY <2>1
<1> HIDE DEF before
<1>10. used \subseteq S
  BY <1>2, <1>8, <1>9
<1> HIDE DEF used
<1>11. Letters \subseteq S
  BY <1>7, <1>10, FreeSlotIsFree, LettersAreNotZero
<1>12. f \in Surjection(others, S)
  BY <1>2, <1>3 DEF Surjection
<1>13. LastLetter <= Cardinality(others)
  BY <1>8, <1>11, <1>12, LettersWithin
<1>14. LastLetter \in Nat
  BY ConfigAssumption
<1>. QED  BY <1>8, <1>13, <1>14

-----------------------------------------------------------------------------
(* Rows                                                                    *)

LEMMA RowsAreSeq ==
  ASSUME NEW n \in Nat, NEW S, NEW f \in [1 .. n -> S]
  PROVE  f \in Seq(S) /\ Len(f) = n /\ DOMAIN f = 1 .. n
  OBVIOUS

LEMMA SeqIsRows ==
  ASSUME NEW S, NEW q \in Seq(S)
  PROVE  Len(q) \in Nat /\ DOMAIN q = 1 .. Len(q) /\ \A i \in DOMAIN q : q[i] \in S
  OBVIOUS

LEMMA TargetFields ==
  ASSUME NEW device \in Devices, NEW table \in Tables \cup {Main}, NEW slot \in {0} \cup Letters, NEW asn \in Nat
  PROVE  [device |-> device, table |-> table, slot |-> slot, asn |-> asn] \in Target
  BY DEF Target

LEMMA OldRow ==
  ASSUME ConfigTypeOK, NEW d, Had(d)
  PROVE  /\ Old(d) \in Target
         /\ \E i \in DOMAIN targets : Old(d) = targets[i] /\ targets[i].device = d
<1>1. \E i \in DOMAIN targets : targets[i].device = d
  BY DEF Had
<1>2. PICK i \in DOMAIN targets : Old(d) = targets[i] /\ targets[i].device = d
  BY <1>1 DEF Old
<1>3. targets[i] \in Target
  BY <1>2, SeqIsRows DEF ConfigTypeOK
<1>. QED  BY <1>2, <1>3

\* The rows after the migration are the same but for the letters.
LEMMA LetteredRows ==
  ASSUME NEW rows \in Seq(Target), NEW slots \in SlotRows(Len(rows))
  PROVE  /\ Lettered(rows, slots) \in Seq(Target)
         /\ DOMAIN Lettered(rows, slots) = 1 .. Len(rows) /\ Len(Lettered(rows, slots)) = Len(rows)
         /\ \A i \in 1 .. Len(rows) : /\ Lettered(rows, slots)[i].device = rows[i].device
                                      /\ Lettered(rows, slots)[i].asn = rows[i].asn
                                      /\ Lettered(rows, slots)[i].slot = slots[i]
<1> DEFINE n == Len(rows)
           L == Lettered(rows, slots)
<1>1. n \in Nat /\ DOMAIN rows = 1 .. n /\ \A i \in 1 .. n : rows[i] \in Target
  BY SeqIsRows
<1>2. \A i \in 1 .. n : slots[i] \in {0} \cup Letters
  BY DEF SlotRows
<1>3. L = [i \in 1 .. n |-> [rows[i] EXCEPT !.slot = slots[i]]]
  BY <1>1 DEF Lettered
<1>4. ASSUME NEW i \in 1 .. n
      PROVE  /\ [rows[i] EXCEPT !.slot = slots[i]] \in Target
             /\ [rows[i] EXCEPT !.slot = slots[i]].device = rows[i].device
             /\ [rows[i] EXCEPT !.slot = slots[i]].asn = rows[i].asn
             /\ [rows[i] EXCEPT !.slot = slots[i]].slot = slots[i]
  <2>1. rows[i] \in Target /\ slots[i] \in {0} \cup Letters
    BY <1>1, <1>2
  <2>. QED  BY <2>1 DEF Target
<1>5. L \in [1 .. n -> Target]
  BY <1>3, <1>4
<1>6. L \in Seq(Target) /\ Len(L) = n /\ DOMAIN L = 1 .. n
  BY <1>1, <1>5, RowsAreSeq
<1>7. \A i \in 1 .. n : L[i] = [rows[i] EXCEPT !.slot = slots[i]]
  BY <1>3
<1> HIDE DEF L
<1>. QED  BY <1>4, <1>6, <1>7 DEF L

LEMMA RequestRows ==
  ASSUME NEW request \in Requests
  PROVE  /\ request.targets \in Seq(Asked)
         /\ \A i \in DOMAIN request.targets :
              /\ request.targets[i].device \in Devices
              /\ request.targets[i].table \in Tables \cup {Main}
              /\ request.targets[i].slot \in {0} \cup Letters
              /\ request.targets[i].asn \in {KeepAsn, 0, Operator[request.targets[i].device]}
<1>1. request.targets \in Seq(Asked)
      /\ \A i \in DOMAIN request.targets :
           request.targets[i].asn \in {KeepAsn, 0, Operator[request.targets[i].device]}
  BY ConfigAssumption
<1>2. \A i \in DOMAIN request.targets : request.targets[i] \in Asked
  BY <1>1, SeqIsRows
<1>. QED  BY <1>1, <1>2 DEF Asked

\* The operator that is saved of a router is its own, or unknown.
LEMMA SavedAsn ==
  ASSUME ConfigTypeOK, AsnsAreTrue(targets), NEW d \in Devices,
         NEW a \in {KeepAsn, 0, Operator[d]}
  PROVE  /\ (IF a # KeepAsn THEN a ELSE IF Had(d) THEN Old(d).asn ELSE 0) \in {0, Operator[d]}
         /\ (IF a # KeepAsn THEN a ELSE IF Had(d) THEN Old(d).asn ELSE 0) \in Nat
<1>1. Operator[d] \in Nat
  BY ConfigAssumption
<1>2. ASSUME Had(d) PROVE Old(d).asn \in {0, Operator[d]}
  <2>1. PICK k \in DOMAIN targets : Old(d) = targets[k] /\ targets[k].device = d
    BY <1>2, OldRow
  <2>2. targets[k].asn \in {0, Operator[targets[k].device]}
    BY DEF AsnsAreTrue
  <2>. QED  BY <2>1, <2>2
<1>. QED  BY <1>1, <1>2

\* The rows that are saved: the operator is the one of the router, or unknown.
LEMMA SavedRows ==
  ASSUME ConfigTypeOK, AsnsAreTrue(targets), NEW request \in Requests,
         NEW slots \in SlotRows(Len(request.targets))
  PROVE  /\ Saved(request.targets, slots) \in Seq(Target)
         /\ DOMAIN Saved(request.targets, slots) = 1 .. Len(request.targets)
         /\ Len(Saved(request.targets, slots)) = Len(request.targets)
         /\ AsnsAreTrue(Saved(request.targets, slots))
         /\ \A i \in 1 .. Len(request.targets) :
              /\ Saved(request.targets, slots)[i].device = request.targets[i].device
              /\ Saved(request.targets, slots)[i].slot = slots[i]
<1>1. PICK asked : asked = request.targets
  OBVIOUS
<1>2. PICK n : n = Len(asked)
  OBVIOUS
<1>3. n \in Nat /\ DOMAIN asked = 1 .. n
  BY <1>1, <1>2, RequestRows, SeqIsRows
<1>4. \A i \in 1 .. n : /\ asked[i].device \in Devices
                         /\ asked[i].table \in Tables \cup {Main}
                         /\ asked[i].asn \in {KeepAsn, 0, Operator[asked[i].device]}
  BY <1>1, <1>3, RequestRows
<1>5. \A i \in 1 .. n : slots[i] \in {0} \cup Letters
  BY <1>1, <1>2 DEF SlotRows
<1>6. PICK asn : asn = [i \in 1 .. n |-> IF asked[i].asn # KeepAsn THEN asked[i].asn
                                        ELSE IF Had(asked[i].device) THEN Old(asked[i].device).asn ELSE 0]
  OBVIOUS
<1>7. ASSUME NEW i \in 1 .. n PROVE asn[i] \in {0, Operator[asked[i].device]} /\ asn[i] \in Nat
  <2>1. asked[i].device \in Devices
        /\ asked[i].asn \in {KeepAsn, 0, Operator[asked[i].device]}
    BY <1>3, <1>4
  <2>2. PICK d \in Devices : d = asked[i].device
    BY <2>1
  <2>3. PICK a \in {KeepAsn, 0, Operator[d]} : a = asked[i].asn
    BY <2>1, <2>2
  <2>4. asn[i] = IF a # KeepAsn THEN a ELSE IF Had(d) THEN Old(d).asn ELSE 0
    BY <1>6, <2>2, <2>3
  <2>5. asn[i] \in {0, Operator[d]} /\ asn[i] \in Nat
    BY <2>4, SavedAsn
  <2>. QED  BY <2>2, <2>5
<1>8. PICK row : row = [i \in 1 .. n |-> [device |-> asked[i].device, table |-> asked[i].table,
                                         slot |-> slots[i], asn |-> asn[i]]]
  OBVIOUS
<1>9. \A i \in 1 .. n : row[i].device = asked[i].device /\ row[i].slot = slots[i] /\ row[i].asn = asn[i]
  BY <1>8
<1>10. ASSUME NEW i \in 1 .. n PROVE row[i] \in Target
  <2>1. asked[i].device \in Devices /\ asked[i].table \in Tables \cup {Main}
    BY <1>3, <1>4
  <2>2. slots[i] \in {0} \cup Letters /\ asn[i] \in Nat
    BY <1>5, <1>7
  <2>3. row[i] = [device |-> asked[i].device, table |-> asked[i].table, slot |-> slots[i], asn |-> asn[i]]
    BY <1>8
  <2>. QED  BY <1>3, <2>1, <2>2, <2>3, TargetFields
<1>11. row \in [1 .. n -> Target]
  BY <1>8, <1>10
<1>12. row \in Seq(Target) /\ Len(row) = n /\ DOMAIN row = 1 .. n
  BY <1>3, <1>11, RowsAreSeq
<1>13. AsnsAreTrue(row)
  BY <1>7, <1>9, <1>12 DEF AsnsAreTrue
<1>14. Saved(asked, slots) = row
  BY <1>3, <1>6, <1>8 DEF Saved
<1>. QED  BY <1>1, <1>2, <1>9, <1>12, <1>13, <1>14

-----------------------------------------------------------------------------
(* The letters that are kept                                               *)

LEMMA OldIs ==
  ASSUME ConfigTypeOK, DevicesAreDistinct(targets), NEW i \in DOMAIN targets
  PROVE  Had(targets[i].device) /\ Old(targets[i].device) = targets[i]
<1>1. Had(targets[i].device)
  BY DEF Had
<1>2. PICK k \in DOMAIN targets : Old(targets[i].device) = targets[k] /\ targets[k].device = targets[i].device
  BY <1>1, OldRow
<1>. QED  BY <1>1, <1>2 DEF DevicesAreDistinct

\* What a request asks for, and what its rows are given of it.
LEMMA KeptRows ==
  ASSUME NEW n \in Nat, NEW asked, DOMAIN asked = 1 .. n, NEW given, Kept(given, asked), NEW j \in 1 .. n
  PROVE  /\ asked[j].slot # 0 => given[j] = asked[j].slot /\ given[j] \in Explicit(asked)
         /\ asked[j].slot = 0 /\ given[j] # 0 =>
              /\ Had(asked[j].device) /\ given[j] = Old(asked[j].device).slot
              /\ given[j] \notin Explicit(asked)
              /\ \A k \in 1 .. j - 1 : given[k] # given[j]
         /\ asked[j].slot = 0 /\ given[j] = 0 /\ Had(asked[j].device) =>
              \/ Old(asked[j].device).slot \in Explicit(asked) \cup {0}
              \/ \E k \in 1 .. j - 1 : given[k] = Old(asked[j].device).slot
<1>1. given[j] = IF asked[j].slot # 0 THEN asked[j].slot
                 ELSE IF /\ Had(asked[j].device)
                         /\ Old(asked[j].device).slot \notin Explicit(asked) \cup {given[k] : k \in 1 .. j - 1}
                      THEN Old(asked[j].device).slot
                      ELSE 0
  BY DEF Kept
<1>2. asked[j].slot # 0 => asked[j].slot \in Explicit(asked)
  BY DEF Explicit
<1>. QED  BY <1>1, <1>2

LEMMA KeptIsDistinct ==
  ASSUME NEW n \in Nat, NEW asked, DOMAIN asked = 1 .. n, NEW given, Valid(asked), Kept(given, asked)
  PROVE  \A i, j \in 1 .. n : given[i] = given[j] => i = j \/ given[i] = 0
<1>1. ASSUME NEW i \in 1 .. n, NEW j \in 1 .. n, given[i] = given[j], i < j PROVE given[i] = 0
  <2>1. i \in 1 .. j - 1 /\ i # j
    BY <1>1
  <2>2. CASE asked[j].slot # 0 /\ asked[i].slot # 0
    BY <1>1, <2>1, <2>2, KeptRows DEF Valid
  <2>3. CASE asked[j].slot # 0 /\ asked[i].slot = 0
    BY <1>1, <2>3, KeptRows
  <2>4. CASE asked[j].slot = 0
    BY <1>1, <2>1, <2>4, KeptRows
  <2>. QED  BY <2>2, <2>3, <2>4
<1>2. ASSUME NEW i \in 1 .. n, NEW j \in 1 .. n, given[i] = given[j], i # j PROVE given[i] = 0
  <2>1. i < j \/ j < i
    BY <1>2
  <2>. QED  BY <1>1, <1>2, <2>1
<1>. QED  BY <1>2

\* A router whose letter nobody asks for keeps it.
LEMMA KeptLetters ==
  ASSUME ConfigTypeOK, DevicesAreDistinct(targets), LettersAreDistinct,
         NEW n \in Nat, NEW asked, DOMAIN asked = 1 .. n, NEW given, Valid(asked), Kept(given, asked),
         NEW i \in DOMAIN targets, NEW j \in 1 .. n,
         targets[i].device = asked[j].device, asked[j].slot = 0, targets[i].slot # 0,
         targets[i].slot \notin Explicit(asked)
  PROVE  given[j] = targets[i].slot
<1>1. Had(asked[j].device) /\ Old(asked[j].device) = targets[i]
  BY OldIs
<1>2. CASE given[j] # 0
  BY <1>1, <1>2, KeptRows
<1>3. CASE given[j] = 0
  <2>1. PICK k \in 1 .. j - 1 : given[k] = targets[i].slot
    BY <1>1, <1>3, KeptRows
  <2>2. k \in 1 .. n /\ k # j
    OBVIOUS
  <2>3. asked[k].slot = 0
    BY <2>1, <2>2, KeptRows
  <2>4. Had(asked[k].device) /\ given[k] = Old(asked[k].device).slot
    BY <2>1, <2>2, <2>3, KeptRows
  <2>5. PICK m \in DOMAIN targets : Old(asked[k].device) = targets[m] /\ targets[m].device = asked[k].device
    BY <2>4, OldRow
  <2>6. asked[k].device # asked[j].device
    BY <2>2 DEF Valid
  <2>7. m # i /\ targets[m].slot = targets[i].slot
    BY <2>1, <2>4, <2>5, <2>6
  <2>. QED  BY <2>7 DEF LettersAreDistinct
<1>. QED  BY <1>2, <1>3

-----------------------------------------------------------------------------
(* The configuration, step by step                                         *)

RowsInv == /\ targets \in Seq(Target)
           /\ DevicesAreDistinct(targets) /\ AsnsAreTrue(targets)
           /\ LettersAreDistinct

LEMMA InitRows == ASSUME ConfigInit PROVE RowsInv
<1>1. /\ targets \in Seq([device: Devices, table: Tables \cup {Main}, slot: {0}, asn: {0}])
      /\ \A i, j \in DOMAIN targets : targets[i].device = targets[j].device => i = j
  BY ConfigAssumption DEF ConfigInit
<1>2. \A i \in DOMAIN targets : targets[i] \in [device: Devices, table: Tables \cup {Main}, slot: {0}, asn: {0}]
  BY <1>1, SeqIsRows
<1>3. \A i \in DOMAIN targets : targets[i] \in Target /\ targets[i].slot = 0 /\ targets[i].asn = 0
  BY <1>2 DEF Target
<1>4. Len(targets) \in Nat /\ DOMAIN targets = 1 .. Len(targets) /\ targets = [i \in 1 .. Len(targets) |-> targets[i]]
  BY <1>1
<1>5. targets \in [1 .. Len(targets) -> Target]
  BY <1>3, <1>4
<1>6. targets \in Seq(Target)
  BY <1>4, <1>5, RowsAreSeq
<1>7. LettersAreDistinct
  BY <1>3 DEF LettersAreDistinct, ConfigInit
<1>. QED  BY <1>1, <1>3, <1>6, <1>7 DEF RowsInv, DevicesAreDistinct, AsnsAreTrue

\* The migration: who has a letter keeps it, the others are given one.
LEMMA StartRows ==
  ASSUME ConfigTypeOK, RowsInv, StartServer
  PROVE  /\ RowsInv'
         /\ DOMAIN targets' = DOMAIN targets
         /\ \A i \in DOMAIN targets : /\ targets'[i].device = targets[i].device
                                      /\ targets[i].slot # 0 => targets'[i].slot = targets[i].slot
<1>1. PICK n : n = Len(targets)
  OBVIOUS
<1>2. n \in Nat /\ DOMAIN targets = 1 .. n /\ \A i \in 1 .. n : targets[i] \in Target
  BY <1>1, SeqIsRows DEF RowsInv
<1>3. PICK given : given = [i \in 1 .. n |-> targets[i].slot]
  OBVIOUS
<1>4. PICK slots \in SlotRows(n) : Completed(slots, given) /\ targets' = Lettered(targets, slots)
  BY <1>1, <1>3 DEF StartServer
<1>5. given \in SlotRows(n)
  BY <1>2, <1>3 DEF SlotRows, Target
<1>6. \A i, j \in 1 .. n : given[i] = given[j] => i = j \/ given[i] = 0
  BY <1>2, <1>3 DEF RowsInv, LettersAreDistinct
<1>7. /\ \A i, j \in 1 .. n : slots[i] = slots[j] => i = j \/ slots[i] = 0
      /\ \A i \in 1 .. n : given[i] # 0 => slots[i] = given[i]
  BY <1>2, <1>4, <1>5, <1>6, CompletedIsDistinct
<1>8. \A i \in 1 .. n : slots[i] # 0 \/ n > LastLetter
  BY <1>2, <1>4, <1>5, CompletedIsFull
<1>9. /\ targets' \in Seq(Target) /\ DOMAIN targets' = 1 .. n /\ Len(targets') = n
      /\ \A i \in 1 .. n : /\ targets'[i].device = targets[i].device
                           /\ targets'[i].asn = targets[i].asn
                           /\ targets'[i].slot = slots[i]
  BY <1>1, <1>4, LetteredRows DEF RowsInv
<1>10. LettersAreDistinct'
  BY <1>7, <1>8, <1>9 DEF LettersAreDistinct
<1>11. DevicesAreDistinct(targets')
  BY <1>2, <1>9 DEF RowsInv, DevicesAreDistinct
<1>12. AsnsAreTrue(targets')
  BY <1>2, <1>9 DEF RowsInv, AsnsAreTrue
<1>13. \A i \in 1 .. n : targets[i].slot # 0 => targets'[i].slot = targets[i].slot
  BY <1>3, <1>7, <1>9
<1>. QED  BY <1>2, <1>9, <1>10, <1>11, <1>12, <1>13 DEF RowsInv

\* A configuration that is saved: a router whose letter nobody asks for keeps it.
LEMMA UpsertRows ==
  ASSUME ConfigTypeOK, RowsInv, NEW request \in Requests, UpsertProbe(request)
  PROVE  /\ RowsInv'
         /\ \A i \in DOMAIN targets, j \in DOMAIN targets' :
              targets[i].device = targets'[j].device /\ targets[i].slot \notin {0, targets'[j].slot} =>
                request.targets[j].slot # 0 \/ targets[i].slot \in Explicit(request.targets)
<1>1. PICK asked : asked = request.targets
  OBVIOUS
<1>2. PICK n : n = Len(asked)
  OBVIOUS
<1>3. n \in Nat /\ DOMAIN asked = 1 .. n
  BY <1>1, <1>2, RequestRows, SeqIsRows
<1>4. serving /\ Valid(asked) /\ serving' = serving
  BY <1>1 DEF UpsertProbe
<1>5. PICK given \in SlotRows(n) :
        /\ Kept(given, asked)
        /\ \E slots \in SlotRows(n) :
             /\ Completed(slots, given)
             /\ \A i \in DOMAIN slots : slots[i] # 0
             /\ targets' = Saved(asked, slots)
  BY <1>1, <1>2 DEF UpsertProbe
<1>6. PICK slots \in SlotRows(n) : /\ Completed(slots, given)
                                   /\ \A i \in DOMAIN slots : slots[i] # 0
                                   /\ targets' = Saved(asked, slots)
  BY <1>5
<1>7. \A i, j \in 1 .. n : given[i] = given[j] => i = j \/ given[i] = 0
  BY <1>3, <1>4, <1>5, KeptIsDistinct
<1>8. /\ \A i, j \in 1 .. n : slots[i] = slots[j] => i = j \/ slots[i] = 0
      /\ \A i \in 1 .. n : given[i] # 0 => slots[i] = given[i]
  BY <1>3, <1>5, <1>6, <1>7, CompletedIsDistinct
<1>9. \A i \in 1 .. n : slots[i] # 0
  BY <1>6 DEF SlotRows
<1>10. /\ targets' \in Seq(Target) /\ DOMAIN targets' = 1 .. n /\ Len(targets') = n
       /\ AsnsAreTrue(targets')
       /\ \A i \in 1 .. n : targets'[i].device = asked[i].device /\ targets'[i].slot = slots[i]
  <2>1. slots \in SlotRows(Len(request.targets))
    BY <1>1, <1>2, <1>6
  <2>. QED  BY <1>1, <1>2, <1>6, <2>1, SavedRows DEF RowsInv
<1>11. LettersAreDistinct'
  BY <1>8, <1>9, <1>10 DEF LettersAreDistinct
<1>12. DevicesAreDistinct(targets')
  BY <1>3, <1>4, <1>10 DEF DevicesAreDistinct, Valid
<1>13. ASSUME NEW i \in DOMAIN targets, NEW j \in 1 .. n,
              targets[i].device = asked[j].device, asked[j].slot = 0,
              targets[i].slot \notin Explicit(asked), targets[i].slot # 0
       PROVE  targets'[j].slot = targets[i].slot
  <2>1. given[j] = targets[i].slot
    BY <1>3, <1>4, <1>5, <1>13, KeptLetters DEF RowsInv
  <2>. QED  BY <1>8, <1>10, <1>13, <2>1
<1>. QED  BY <1>1, <1>10, <1>11, <1>12, <1>13 DEF RowsInv

LEMMA OtherRows ==
  ASSUME RowsInv, UNCHANGED <<serving, targets>> PROVE RowsInv'
  BY DEF RowsInv, LettersAreDistinct

-----------------------------------------------------------------------------
(* The results, step by step                                               *)

LEMMA NoResultType == NoResult \in Result /\ Measured(NoResult) /\ Sure(NoResult)
<1>1. NoResult \in Result
  BY DEF NoResult, Result, Verdicts
<1>2. Measured(NoResult) /\ Sure(NoResult)
  BY DEF NoResult, Measured, Sure, AsnsAreTrue
<1>. QED  BY <1>1, <1>2

LEMMA StartedResults ==
  ASSUME ConfigInv, StartServer
  PROVE  results' \in [Results -> Result] /\ \A t \in Results : Measured(results'[t]) /\ Sure(results'[t])
<1>1. ASSUME NEW r \in Result, Measured(r)
      PROVE  LET q == [r EXCEPT !.stage = "ended"] IN q \in Result /\ Measured(q) /\ Sure(q)
  <2>1. [r EXCEPT !.stage = "ended"] \in Result
    BY DEF Result
  <2>2. Measured([r EXCEPT !.stage = "ended"]) /\ Sure([r EXCEPT !.stage = "ended"])
    BY <1>1 DEF Result, Measured, Sure
  <2>. QED  BY <2>1, <2>2
<1>2. \A t \in Results : results[t] \in Result /\ Measured(results[t]) /\ Sure(results[t])
  BY DEF ConfigInv, ConfigTypeOK
<1>3. results' = [t \in Results |-> IF results[t].stage \in {"read", "expected"}
                                    THEN [results[t] EXCEPT !.stage = "ended"] ELSE results[t]]
  BY DEF StartServer
<1>. QED  BY <1>1, <1>2, <1>3

\* A step of one result: the others stay as they were.
LEMMA OneResult ==
  ASSUME ConfigInv, NEW t \in Results, NEW q \in Result, Measured(q), Sure(q),
         results' = [results EXCEPT ![t] = q]
  PROVE  results' \in [Results -> Result] /\ \A u \in Results : Measured(results'[u]) /\ Sure(results'[u])
<1>1. results \in [Results -> Result] /\ \A u \in Results : Measured(results[u]) /\ Sure(results[u])
  BY DEF ConfigInv, ConfigTypeOK
<1>. QED  BY <1>1

LEMMA PhoneTestStarts ==
  ASSUME ConfigInv, NEW t \in Results, NEW path \in {"ethernet", "wifi"}, NEW table \in Tables \cup {Main},
         NEW confirmed \in BOOLEAN, StartPhoneTest(t, path, table, confirmed)
  PROVE  results' \in [Results -> Result] /\ \A u \in Results : Measured(results'[u]) /\ Sure(results'[u])
<1> DEFINE from == IF confirmed THEN cable[table] ELSE NoDevice
           q == [NoResult EXCEPT !.stage = "running", !.path = path, !.table = table,
                                 !.confirmed = confirmed, !.from = from]
<1>1. results' = [results EXCEPT ![t] = q]
  BY DEF StartPhoneTest
<1>2. confirmed => table \in Tables
  BY DEF StartPhoneTest
<1>3. from \in Devices \cup {NoDevice} /\ (confirmed => from \in Devices)
  BY <1>2 DEF ConfigInv, ConfigTypeOK
<1> HIDE DEF from
<1>4. q \in Result
  BY <1>3, NoResultType DEF Result
<1>5. /\ q.stage = "running" /\ q.confirmed = confirmed /\ q.from = from /\ q.start = FALSE /\ q.same = FALSE
      /\ q.targets = <<>>
  BY DEF NoResult
<1> HIDE DEF q
<1>6. Measured(q) /\ Sure(q)
  BY <1>3, <1>5 DEF Measured, Sure, AsnsAreTrue
<1>. QED  BY <1>1, <1>4, <1>6, OneResult

LEMMA ReadAtTheEnd ==
  ASSUME NEW r \in Result, NEW start \in BOOLEAN, NEW end \in BOOLEAN, NEW same \in BOOLEAN
  PROVE  [[r EXCEPT !.end = end, !.same = same] EXCEPT !.start = start] \in Result
<1>1. \A q \in Result : \A x \in BOOLEAN : [q EXCEPT !.start = x] \in Result
  BY DEF Result
<1>2. [r EXCEPT !.end = end, !.same = same] \in Result
  BY DEF Result
<1>. QED  BY <1>1, <1>2

LEMMA PhoneTestEnds ==
  ASSUME ConfigInv, NEW t \in Results, NEW rule \in {"same", "moved", "unread"},
         NEW to \in Devices \cup {NoDevice}, NEW start \in BOOLEAN, NEW end \in BOOLEAN, NEW same \in BOOLEAN,
         EndPhoneTest(t, rule, to, start, end, same)
  PROVE  results' \in [Results -> Result] /\ \A u \in Results : Measured(results'[u]) /\ Sure(results'[u])
<1>1. PICK r \in Result : r = results[t] /\ Measured(r)
  BY DEF ConfigInv, ConfigTypeOK
<1> DEFINE q == [r EXCEPT !.stage = "ended", !.rule = rule, !.to = to, !.start = start, !.end = end, !.same = same]
<1>2. results' = [results EXCEPT ![t] = q]
  BY <1>1 DEF EndPhoneTest
<1>3. /\ r.confirmed => (same => SameOperator(r.from, to))
      /\ ~r.confirmed => ~start /\ ~same
  BY <1>1 DEF EndPhoneTest
<1>4. q \in Result
  <2>1. PICK p : p = [r EXCEPT !.stage = "ended", !.rule = rule, !.to = to]
    OBVIOUS
  <2>2. p \in Result
    BY <2>1 DEF Result
  <2>3. PICK o : o = [p EXCEPT !.end = end, !.same = same]
    OBVIOUS
  <2>4. [o EXCEPT !.start = start] \in Result
    BY <2>2, <2>3, ReadAtTheEnd
  <2>5. q = [o EXCEPT !.start = start]
    BY <2>1, <2>3 DEF Result
  <2>. QED  BY <2>4, <2>5
<1>5. /\ q.stage = "ended" /\ q.confirmed = r.confirmed /\ q.from = r.from /\ q.to = to
      /\ q.start = start /\ q.same = same /\ q.targets = r.targets
  BY DEF Result
<1> HIDE DEF q
<1>6. Measured(q) /\ Sure(q)
  <2>1. q.confirmed => q.from \in Devices
    BY <1>1, <1>5 DEF Measured
  <2>2. AsnsAreTrue(q.targets)
    BY <1>1, <1>5 DEF Measured
  <2>3. (q.start => q.confirmed) /\ (q.same => SameOperator(q.from, q.to))
    BY <1>1, <1>3, <1>5 DEF Result
  <2>. QED  BY <1>5, <2>1, <2>2, <2>3 DEF Measured, Sure
<1>. QED  BY <1>2, <1>4, <1>6, OneResult

LEMMA TargetsAreRead ==
  ASSUME ConfigInv, NEW t \in Results, ReadTargets(t)
  PROVE  results' \in [Results -> Result] /\ \A u \in Results : Measured(results'[u]) /\ Sure(results'[u])
<1>1. PICK r \in Result : r = results[t] /\ Measured(r)
  BY DEF ConfigInv, ConfigTypeOK
<1> DEFINE q == [r EXCEPT !.stage = "read", !.targets = targets]
<1>2. results' = [results EXCEPT ![t] = q]
  BY <1>1 DEF ReadTargets
<1>3. q \in Result
  BY DEF Result, ConfigInv, ConfigTypeOK
<1>4. /\ q.stage = "read" /\ q.confirmed = r.confirmed /\ q.from = r.from /\ q.to = r.to
      /\ q.start = r.start /\ q.same = r.same /\ q.targets = targets
  BY DEF Result
<1> HIDE DEF q
<1>5. Measured(q) /\ Sure(q)
  BY <1>1, <1>4 DEF Measured, Sure, ConfigInv
<1>. QED  BY <1>2, <1>3, <1>5, OneResult

\* What is expected of a router is its operator, or nothing.
LEMMA ExpectedIsTrue ==
  ASSUME NEW read \in Seq(Target), AsnsAreTrue(read), NEW d \in Devices
  PROVE  /\ ExpectedOf(read, d) \in {0, Operator[d]}
         /\ ExpectedOf(read, d) # 0 => \E i \in DOMAIN read : read[i].device = d
<1>1. CASE \E i \in DOMAIN read : read[i].device = d
  <2>1. PICK i \in DOMAIN read : /\ i = CHOOSE k \in DOMAIN read : read[k].device = d
                                 /\ read[i].device = d
    BY <1>1
  <2>2. read[i].asn \in {0, Operator[d]}
    BY <2>1 DEF AsnsAreTrue
  <2>3. ExpectedOf(read, d) = IF read[i].asn # 0 THEN read[i].asn ELSE IF d \in learned THEN Operator[d] ELSE 0
    BY <1>1, <2>1 DEF ExpectedOf
  <2>. QED  BY <1>1, <2>2, <2>3
<1>2. CASE ~\E i \in DOMAIN read : read[i].device = d
  BY <1>2 DEF ExpectedOf
<1>. QED  BY <1>1, <1>2

LEMMA ExpectedIsRead ==
  ASSUME ConfigInv, NEW t \in Results, ReadExpected(t)
  PROVE  results' \in [Results -> Result] /\ \A u \in Results : Measured(results'[u]) /\ Sure(results'[u])
<1>1. PICK r \in Result : r = results[t] /\ Measured(r)
  BY DEF ConfigInv, ConfigTypeOK
<1>2. PICK f : f = [d \in Devices |-> ExpectedOf(r.targets, d)]
  OBVIOUS
<1> DEFINE q == [r EXCEPT !.stage = "expected", !.expected = f]
<1>3. results' = [results EXCEPT ![t] = q]
  BY <1>1, <1>2 DEF ReadExpected
<1>4. r.targets \in Seq(Target) /\ AsnsAreTrue(r.targets)
  BY <1>1 DEF Result, Measured
<1>5. \A d \in Devices : Operator[d] \in Nat
  BY ConfigAssumption
<1>6. \A d \in Devices : f[d] \in {0, Operator[d]} /\ (f[d] # 0 => \E i \in DOMAIN r.targets : r.targets[i].device = d)
  BY <1>2, <1>4, ExpectedIsTrue
<1>7. f \in [Devices -> Nat]
  BY <1>2, <1>5, <1>6
<1>8. q \in Result
  BY <1>7 DEF Result
<1>9. /\ q.stage = "expected" /\ q.confirmed = r.confirmed /\ q.from = r.from /\ q.to = r.to
      /\ q.start = r.start /\ q.same = r.same /\ q.targets = r.targets /\ q.expected = f
  BY DEF Result
<1> HIDE DEF q
<1>10. Measured(q) /\ Sure(q)
  BY <1>1, <1>6, <1>9 DEF Measured, Sure
<1>. QED  BY <1>3, <1>8, <1>10, OneResult

\* The router that has the table of a result.
LEMMA TargetOfTable ==
  ASSUME NEW r \in Result, Known(r) PROVE TargetOf(r) \in Target
<1> DEFINE N == {i \in DOMAIN r.targets : HasTable(r, i)}
<1>1. r.targets \in Seq(Target)
  BY DEF Result
<1>2. N \in SUBSET Nat /\ N # {}
  BY <1>1, SeqIsRows DEF Known
<1>3. \E i \in N : \A j \in N : i <= j
  BY <1>2, Least
<1>4. PICK i \in DOMAIN r.targets : TargetOf(r) = r.targets[i]
  BY <1>3 DEF TargetOf
<1>. QED  BY <1>1, <1>4, SeqIsRows

LEMMA VerdictType ==
  ASSUME NEW r, NEW device, NEW asn, NEW changed
  PROVE  /\ PhoneClassified(r, device, asn, changed).route \in Verdicts
         /\ PhoneClassified(r, device, asn, changed).sure \in {"high", "medium", "low"}
  BY DEF PhoneClassified, Verdict, Verdicts

\* What it takes to be sure of a result of the cable.
LEMMA SureVerdict ==
  ASSUME NEW r \in Result, NEW device \in Devices \cup {NoDevice}, NEW asn, NEW changed \in BOOLEAN,
         r.path = "ethernet", PhoneClassified(r, device, asn, changed).sure = "high"
  PROVE  /\ device \in Devices /\ ~changed /\ asn # 0
         /\ \/ /\ PhoneClassified(r, device, asn, changed).route = "router"
               /\ r.expected[device] = asn /\ asn \notin OtherExpected(r, device)
            \/ /\ PhoneClassified(r, device, asn, changed).route = "other-network"
               /\ asn \in OtherExpected(r, device) /\ r.expected[device] # asn
<1>1. device # NoDevice /\ ~changed
  BY DEF PhoneClassified, Verdict
<1>2. device \in Devices
  BY <1>1
<1> DEFINE match == asn # 0 /\ r.expected[device] # 0 /\ asn = r.expected[device]
           verdict == IF match THEN Verdict("router", IF asn \in OtherExpected(r, device) THEN "medium" ELSE "high")
                      ELSE IF asn # 0 /\ asn \in OtherExpected(r, device) THEN Verdict("other-network", "high")
                      ELSE IF asn # 0 /\ r.expected[device] # 0 THEN Verdict("unknown", "low")
                      ELSE Verdict("router", "medium")
<1>3. PhoneClassified(r, device, asn, changed) = verdict
  BY <1>1 DEF PhoneClassified
<1> HIDE DEF match
<1>4. CASE match
  <2>1. PhoneClassified(r, device, asn, changed)
          = Verdict("router", IF asn \in OtherExpected(r, device) THEN "medium" ELSE "high")
    BY <1>3, <1>4
  <2>2. asn \notin OtherExpected(r, device) /\ PhoneClassified(r, device, asn, changed).route = "router"
    BY <2>1 DEF Verdict
  <2>. QED  BY <1>1, <1>2, <1>4, <2>2 DEF match
<1>5. CASE ~match
  <2>1. asn # 0 /\ asn \in OtherExpected(r, device)
        /\ PhoneClassified(r, device, asn, changed).route = "other-network"
    BY <1>3, <1>5 DEF Verdict
  <2>2. r.expected[device] # asn
    BY <1>5, <2>1 DEF match
  <2>. QED  BY <1>1, <1>2, <2>1, <2>2
<1>. QED  BY <1>4, <1>5

\* A router that is expected to go out by the operator of the result, and is not
\* the one it is attributed to, is one of the others.
LEMMA ExpectedElsewhere ==
  ASSUME NEW r \in Result, Measured(r), r.stage = "expected", NEW device \in Devices, NEW x \in Devices,
         x # device, r.expected[x] # 0
  PROVE  Operator[x] \in OtherExpected(r, device)
<1>1. r.expected[x] = Operator[x] /\ \E i \in DOMAIN r.targets : r.targets[i].device = x
  BY DEF Measured
<1>2. PICK i \in DOMAIN r.targets : r.targets[i].device = x
  BY <1>1
<1>. QED  BY <1>1, <1>2 DEF OtherExpected

LEMMA ResultIsStored ==
  ASSUME ConfigInv, NEW t \in Results, NEW first \in BOOLEAN, NEW last \in BOOLEAN, StoreResult(t, first, last)
  PROVE  results' \in [Results -> Result] /\ \A u \in Results : Measured(results'[u]) /\ Sure(results'[u])
<1>1. PICK r \in Result : r = results[t] /\ Measured(r)
  BY DEF ConfigInv, ConfigTypeOK
<1>2. PICK found : found = (Attributable(r) /\ Known(r))
  OBVIOUS
<1>3. PICK device : device = IF found THEN TargetOf(r).device ELSE NoDevice
  OBVIOUS
<1>4. PICK slot : slot = IF found THEN TargetOf(r).slot ELSE 0
  OBVIOUS
<1>5. PICK asn : asn = IF r.start /\ first THEN Operator[r.from] ELSE 0
  OBVIOUS
<1>6. PICK changed \in BOOLEAN : changed = EgressChanged(r, first, last)
  BY DEF EgressChanged
<1>7. PICK verdict : verdict = PhoneClassified(r, device, asn, changed)
  OBVIOUS
<1>8. PICK known : known = {d \in Devices : r.expected[d] # 0}
  OBVIOUS
<1> DEFINE q == [NoResult EXCEPT !.stage = "stored", !.path = r.path, !.from = r.from,
                                 !.to = r.to, !.end = r.end, !.known = known, !.device = device,
                                 !.slot = slot, !.route = verdict.route, !.sure = verdict.sure]
<1>9. results' = [results EXCEPT ![t] = q] /\ r.stage = "expected"
  BY <1>1, <1>2, <1>3, <1>4, <1>5, <1>6, <1>7, <1>8 DEF StoreResult
<1>10. device \in Devices \cup {NoDevice} /\ slot \in {0} \cup Letters
  BY <1>2, <1>3, <1>4, TargetOfTable DEF Target
<1>11. verdict.route \in Verdicts /\ verdict.sure \in {"high", "medium", "low"}
  BY <1>7, VerdictType
<1>12. q \in Result
  <2>1. q = [stage |-> "stored", path |-> r.path, table |-> Main, confirmed |-> FALSE,
             from |-> r.from, to |-> r.to, rule |-> "unread", start |-> FALSE, end |-> r.end,
             same |-> FALSE, targets |-> <<>>, expected |-> [d \in Devices |-> 0],
             known |-> known, device |-> device, slot |-> slot,
             route |-> verdict.route, sure |-> verdict.sure]
    <3>1. PICK p : p = [NoResult EXCEPT !.stage = "stored", !.path = r.path, !.from = r.from,
                                        !.to = r.to, !.end = r.end]
      OBVIOUS
    <3>2. p = [stage |-> "stored", path |-> r.path, table |-> Main, confirmed |-> FALSE,
               from |-> r.from, to |-> r.to, rule |-> "unread", start |-> FALSE, end |-> r.end,
               same |-> FALSE, targets |-> <<>>, expected |-> [d \in Devices |-> 0],
               known |-> {}, device |-> NoDevice, slot |-> 0, route |-> "unknown", sure |-> "low"]
      BY <3>1 DEF NoResult
    <3>3. q = [p EXCEPT !.known = known, !.device = device, !.slot = slot,
                        !.route = verdict.route, !.sure = verdict.sure]
      BY <3>1 DEF NoResult
    <3> HIDE DEF q
    <3>. QED  BY <3>2, <3>3
  <2>2. /\ r.path \in {"none", "ethernet", "wifi"} /\ r.from \in Devices \cup {NoDevice}
        /\ r.to \in Devices \cup {NoDevice} /\ r.end \in BOOLEAN /\ known \in SUBSET Devices
    BY <1>8 DEF Result
  <2> HIDE DEF q
  <2>. QED  BY <1>10, <1>11, <2>1, <2>2 DEF Result
<1>13. /\ q.stage = "stored" /\ q.path = r.path /\ q.from = r.from /\ q.to = r.to /\ q.end = r.end
       /\ q.known = known /\ q.device = device /\ q.route = verdict.route /\ q.sure = verdict.sure
       /\ q.confirmed = FALSE /\ q.start = FALSE /\ q.same = FALSE /\ q.targets = <<>>
  BY DEF NoResult
<1> HIDE DEF q
<1>14. Measured(q)
  BY <1>13 DEF Measured, AsnsAreTrue
<1>15. Sure(q)
  <2> SUFFICES ASSUME r.path = "ethernet", verdict.sure = "high" PROVE Sure(q)
    BY <1>13 DEF Sure
  <2>1. /\ device \in Devices /\ ~changed /\ asn # 0
        /\ \/ verdict.route = "router" /\ r.expected[device] = asn /\ asn \notin OtherExpected(r, device)
           \/ verdict.route = "other-network" /\ asn \in OtherExpected(r, device) /\ r.expected[device] # asn
    BY <1>7, <1>10, SureVerdict
  <2>2. r.start /\ first /\ r.from \in Devices /\ asn = Operator[r.from]
    BY <1>1, <1>5, <2>1 DEF Measured
  <2>3. \A d \in Devices : r.expected[d] # 0 => r.expected[d] = Operator[d]
    BY <1>1, <1>9 DEF Measured
  <2>4. CASE verdict.route = "router" /\ r.expected[device] = asn /\ asn \notin OtherExpected(r, device)
    <3>1. Operator[device] = asn
      BY <2>1, <2>3, <2>4
    <3>2. ASSUME NEW x \in Devices, Operator[x] = asn PROVE PassesFor(x, q)
      <4>1. x = device \/ r.expected[x] = 0
        BY <1>1, <1>9, <2>1, <2>4, <3>2, ExpectedElsewhere
      <4>. QED  BY <1>8, <1>13, <2>1, <3>1, <3>2, <4>1 DEF PassesFor, SameOperator
    <3>3. PassesFor(r.from, q)
      BY <2>2, <3>2
    <3>4. ASSUME r.end PROVE PassesFor(r.to, q)
      <4>1. SameOperator(r.from, r.to)
        BY <1>1, <1>6, <2>1, <2>2, <3>4 DEF EgressChanged, Measured
      <4>. QED  BY <2>2, <3>2, <4>1 DEF SameOperator
    <3>. QED  BY <1>13, <2>4, <3>3, <3>4 DEF Sure
  <2>5. CASE verdict.route = "other-network" /\ asn \in OtherExpected(r, device) /\ r.expected[device] # asn
    <3>1. r.from # device \/ device \notin known
      BY <1>8, <2>1, <2>2, <2>3, <2>5
    <3>. QED  BY <1>13, <2>5, <3>1 DEF Sure
  <2>. QED  BY <2>1, <2>4, <2>5
<1>. QED  BY <1>9, <1>12, <1>14, <1>15, OneResult

-----------------------------------------------------------------------------
(* The invariant                                                           *)

LEMMA ConfigInit_Inv == ASSUME ConfigInit PROVE ConfigInv
<1>1. RowsInv
  BY InitRows
<1>2. results \in [Results -> Result] /\ \A t \in Results : Measured(results[t]) /\ Sure(results[t])
  BY NoResultType DEF ConfigInit
<1>3. ConfigTypeOK
  BY <1>1, <1>2 DEF ConfigInit, ConfigTypeOK, RowsInv
<1>. QED  BY <1>1, <1>2, <1>3 DEF ConfigInv, RowsInv

LEMMA ConfigStep == ASSUME ConfigInv, [ConfigNext]_configVars PROVE ConfigInv'
<1>1. ConfigTypeOK /\ RowsInv /\ results \in [Results -> Result]
      /\ \A t \in Results : Measured(results[t]) /\ Sure(results[t])
  BY DEF ConfigInv, RowsInv, ConfigTypeOK
<1> DEFINE ResultsInv == results \in [Results -> Result] /\ \A t \in Results : Measured(results[t]) /\ Sure(results[t])
           OthersInv == /\ serving \in BOOLEAN /\ runner \in {"phone", "probe"} /\ learned \subseteq Devices
                        /\ cable \in [Tables -> Devices] /\ saves \in Nat
<1>2. OthersInv
  BY <1>1 DEF ConfigTypeOK
<1>3. ASSUME RowsInv', ResultsInv', OthersInv' PROVE ConfigInv'
  BY <1>3 DEF RowsInv, ConfigInv, ConfigTypeOK
<1>4. CASE StartServer
  <2>1. OthersInv'
    BY <1>2, <1>4 DEF StartServer
  <2>. QED  BY <1>1, <1>3, <1>4, <2>1, StartRows, StartedResults
<1>5. ASSUME NEW request \in Requests, UpsertProbe(request) PROVE ConfigInv'
  <2>1. request.runner \in {"absent", "probe", "phone"}
    BY ConfigAssumption
  <2>2. OthersInv'
    BY <1>2, <1>5, <2>1 DEF UpsertProbe
  <2>3. RowsInv'
    BY <1>1, <1>5, UpsertRows
  <2>4. ResultsInv'
    BY <1>1, <1>5 DEF UpsertProbe
  <2>. QED  BY <1>3, <2>2, <2>3, <2>4
<1>6. CASE MoveCables
  <2>1. UNCHANGED <<serving, runner, targets, learned, results, saves>> /\ cable' \in [Tables -> Devices]
    BY <1>2, <1>6 DEF MoveCables
  <2>. QED  BY <1>1, <1>2, <1>3, <2>1, OtherRows
<1>7. ASSUME NEW d \in Agents, LearnAsn(d) PROVE ConfigInv'
  <2>1. Agents \subseteq Devices
    BY ConfigAssumption
  <2>2. UNCHANGED <<serving, runner, targets, cable, results, saves>> /\ learned' \subseteq Devices
    BY <1>2, <1>7, <2>1 DEF LearnAsn
  <2>. QED  BY <1>1, <1>2, <1>3, <2>2, OtherRows
<1>8. ASSUME NEW t \in Results, NEW path \in {"ethernet", "wifi"}, NEW table \in Tables \cup {Main},
             NEW confirmed \in BOOLEAN, StartPhoneTest(t, path, table, confirmed)
      PROVE  ConfigInv'
  <2>1. UNCHANGED <<serving, runner, targets, learned, cable, saves>>
    BY <1>8 DEF StartPhoneTest
  <2>2. ResultsInv'
    BY <1>8, PhoneTestStarts
  <2>. QED  BY <1>1, <1>2, <1>3, <2>1, <2>2, OtherRows
<1>9. ASSUME NEW t \in Results, NEW rule \in {"same", "moved", "unread"}, NEW to \in Devices \cup {NoDevice},
             NEW start \in BOOLEAN, NEW end \in BOOLEAN, NEW same \in BOOLEAN,
             EndPhoneTest(t, rule, to, start, end, same)
      PROVE  ConfigInv'
  <2>1. UNCHANGED <<serving, runner, targets, learned, cable, saves>>
    BY <1>9 DEF EndPhoneTest
  <2>2. ResultsInv'
    BY <1>9, PhoneTestEnds
  <2>. QED  BY <1>1, <1>2, <1>3, <2>1, <2>2, OtherRows
<1>10. ASSUME NEW t \in Results, ReadTargets(t) PROVE ConfigInv'
  <2>1. UNCHANGED <<serving, runner, targets, learned, cable, saves>>
    BY <1>10 DEF ReadTargets
  <2>2. ResultsInv'
    BY <1>10, TargetsAreRead
  <2>. QED  BY <1>1, <1>2, <1>3, <2>1, <2>2, OtherRows
<1>11. ASSUME NEW t \in Results, ReadExpected(t) PROVE ConfigInv'
  <2>1. UNCHANGED <<serving, runner, targets, learned, cable, saves>>
    BY <1>11 DEF ReadExpected
  <2>2. ResultsInv'
    BY <1>11, ExpectedIsRead
  <2>. QED  BY <1>1, <1>2, <1>3, <2>1, <2>2, OtherRows
<1>12. ASSUME NEW t \in Results, NEW first \in BOOLEAN, NEW last \in BOOLEAN, StoreResult(t, first, last)
       PROVE  ConfigInv'
  <2>1. UNCHANGED <<serving, runner, targets, learned, cable, saves>>
    BY <1>12 DEF StoreResult
  <2>2. ResultsInv'
    BY <1>12, ResultIsStored
  <2>. QED  BY <1>1, <1>2, <1>3, <2>1, <2>2, OtherRows
<1>13. CASE UNCHANGED configVars
  BY <1>1, <1>2, <1>3, <1>13, OtherRows DEF configVars
<1>. QED
  BY <1>4, <1>5, <1>6, <1>7, <1>8, <1>9, <1>10, <1>11, <1>12, <1>13 DEF ConfigNext

LEMMA ConfigInvariant == ConfigSpec => []ConfigInv
<1>1. ConfigInit => ConfigInv
  BY ConfigInit_Inv
<1>2. ConfigInv /\ [ConfigNext]_configVars => ConfigInv'
  BY ConfigStep
<1>. QED  BY <1>1, <1>2, PTL DEF ConfigSpec

\* Every reachable configuration, and every result, has its type.
THEOREM ConfigTypeCorrect == ConfigSpec => []ConfigTypeOK
<1>1. ConfigInv => ConfigTypeOK
  BY DEF ConfigInv
<1>. QED  BY <1>1, ConfigInvariant, PTL

\* Whatever is saved, and however often the server starts, a letter names one
\* router, and every router has one while there are letters.
THEOREM LettersAreDistinctHolds == ConfigSpec => []LettersAreDistinct
<1>1. ConfigInv => LettersAreDistinct
  BY DEF ConfigInv
<1>. QED  BY <1>1, ConfigInvariant, PTL

\* A router loses its letter only to whoever asks for it or for another.
THEOREM LettersAreKeptHolds == ConfigSpec => LettersAreKept
<1> DEFINE A == \A i \in DOMAIN targets, j \in DOMAIN targets' :
                  targets[i].device = targets'[j].device /\ targets[i].slot \notin {0, targets'[j].slot} =>
                    \E request \in Requests :
                      /\ UpsertProbe(request)
                      /\ \/ request.targets[j].slot # 0
                         \/ targets[i].slot \in Explicit(request.targets)
<1>1. ASSUME ConfigInv, [ConfigNext]_configVars PROVE A
  <2>1. ConfigTypeOK /\ RowsInv
    BY <1>1 DEF ConfigInv, RowsInv, ConfigTypeOK
  <2>2. CASE StartServer
    <3>1. /\ DOMAIN targets' = DOMAIN targets
          /\ \A i \in DOMAIN targets : /\ targets'[i].device = targets[i].device
                                       /\ targets[i].slot # 0 => targets'[i].slot = targets[i].slot
      BY <2>1, <2>2, StartRows
    <3>2. ASSUME NEW i \in DOMAIN targets, NEW j \in DOMAIN targets', targets[i].device = targets'[j].device,
                 targets[i].slot # 0
          PROVE  targets'[j].slot = targets[i].slot
      <4>1. i = j
        BY <2>1, <3>1, <3>2 DEF RowsInv, DevicesAreDistinct
      <4>. QED  BY <3>1, <3>2, <4>1
    <3>. QED  BY <3>2
  <2>3. ASSUME NEW request \in Requests, UpsertProbe(request) PROVE A
    BY <2>1, <2>3, UpsertRows
  <2>4. ASSUME targets' = targets PROVE A
    BY <2>1, <2>4 DEF RowsInv, DevicesAreDistinct
  <2>5. ASSUME NEW t \in Results,
               \/ \E path \in {"ethernet", "wifi"}, table \in Tables \cup {Main}, confirmed \in BOOLEAN :
                    StartPhoneTest(t, path, table, confirmed)
               \/ \E rule \in {"same", "moved", "unread"}, to \in Devices \cup {NoDevice},
                     start, end, same \in BOOLEAN : EndPhoneTest(t, rule, to, start, end, same)
               \/ ReadTargets(t)
               \/ ReadExpected(t)
               \/ \E first, last \in BOOLEAN : StoreResult(t, first, last)
        PROVE  targets' = targets
    BY <2>5 DEF StartPhoneTest, EndPhoneTest, ReadTargets, ReadExpected, StoreResult
  <2>6. MoveCables \/ (\E d \in Agents : LearnAsn(d)) \/ UNCHANGED configVars => targets' = targets
    BY DEF MoveCables, LearnAsn, configVars
  <2> HIDE DEF A
  <2>. QED  BY <1>1, <2>2, <2>3, <2>4, <2>5, <2>6 DEF ConfigNext
<1>2. ConfigInv /\ [ConfigNext]_configVars => [A]_configVars
  BY <1>1
<1>. QED  BY <1>2, ConfigInvariant, PTL DEF ConfigSpec, LettersAreKept

\* What is said of a result of the cable with high confidence is so, whatever was
\* saved, learned or moved between the test, the upload and its steps.
THEOREM SureResultIsTrueHolds == ConfigSpec => []SureResultIsTrue
<1>1. ConfigInv => SureResultIsTrue
  BY DEF ConfigInv, Sure, SureResultIsTrue
<1>. QED  BY <1>1, ConfigInvariant, PTL
=============================================================================
