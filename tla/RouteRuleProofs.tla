--------------------------- MODULE RouteRuleProofs ---------------------------
(***************************************************************************)
(* Proofs about RouteRule, for any tables and any times that keep the      *)
(* margins between the phone and the router.                               *)
(*                                                                         *)
(* The inductive invariant says why the router spares a test: since the    *)
(* login with which the test forced the rule, the router counted at most   *)
(* the minutes the test has spent in its stages so far.                    *)
(***************************************************************************)
EXTENDS RouteRule, TLAPS

\* How the minutes of a test are bounded by the stage it is in.
InTime ==
  /\ testActive => stretch <= Patience
  /\ phase \in Measuring => /\ forcedAge # Unset
                            /\ watchdog.newLogin \/ watchdog.forcedMin + 1 <= forcedAge
  /\ phase = "egress" => watchdog.newLogin \/ watchdog.forcedMin + 1 <= stretch
  /\ phase = "signal" => watchdog.newLogin \/ watchdog.forcedMin + 1 <= Stretch + stretch
  /\ phase = "gps"    => watchdog.newLogin \/ watchdog.forcedMin + 1 <= 2 * Stretch + stretch
  /\ phase = "transfer" => forcedAge <= MaxForced + 1 + stretch

\* A test that did not get to set the rule left it where it was.
FallbackKnown ==
  /\ EthernetOnlyOnFallback
  /\ (switches = 0 /\ ruleOnFallback /\ phase = "forcing" /\ test.attempt = 1 /\ ~test.attempted)
       => rule = Main

\* While a test measures, it strayed when the rule is elsewhere, and then a
\* person moved it.
Straight ==
  /\ phase \in Measuring => /\ strayed <=> rule # test.table
                            /\ strayed => switches >= 1
  /\ phase \in Testing => test.ruleEnd = None
  /\ HonestEnd

-----------------------------------------------------------------------------
(* Type correctness                                                        *)

\* What a session may leave behind.
LEMMA SessionFacts ==
  ASSUME TypeOK, NEW outcome \in Outcomes, NEW table \in Tables \cup {Main}, Session(outcome, table)
  PROVE  /\ rule' \in {rule, table}
         /\ rule' \in Tables \cup {Main}
         /\ outcome = "ok" => rule' = table
         /\ watchdog' \in [forcedMin: Nat, lastTable: Tables \cup {Main}, newLogin: BOOLEAN]
         /\ watchdog'.forcedMin = watchdog.forcedMin
         /\ watchdog.newLogin => watchdog'.newLogin
         /\ outcome = "ok" => watchdog'.newLogin
         /\ failures' \in Nat /\ switches' = switches /\ crashes' = crashes
         /\ (outcome # "applied" /\ outcome # "ok") => rule' = rule
  <1>1. watchdog' = [watchdog EXCEPT !.newLogin = watchdog.newLogin \/ outcome # "unreachable"]
    BY DEF Session
  <1>2. watchdog \in [forcedMin: Nat, lastTable: Tables \cup {Main}, newLogin: BOOLEAN]
    BY DEF TypeOK
  <1>3. /\ watchdog' \in [forcedMin: Nat, lastTable: Tables \cup {Main}, newLogin: BOOLEAN]
        /\ watchdog'.forcedMin = watchdog.forcedMin
    BY <1>1, <1>2
  <1>4. watchdog'.newLogin = (watchdog.newLogin \/ outcome # "unreachable")
    BY <1>1, <1>2
  <1>5. /\ rule' \in {rule, table} /\ rule' \in Tables \cup {Main}
        /\ outcome = "ok" => rule' = table
        /\ (outcome # "applied" /\ outcome # "ok") => rule' = rule
    BY DEF Session, TypeOK
  <1>6. failures' \in Nat /\ switches' = switches /\ crashes' = crashes
    BY DEF Session, TypeOK
  <1> QED
    BY <1>3, <1>4, <1>5, <1>6

\* restoreRoute ends on the fallback table or does not claim to be there.
LEMMA RestoreFacts ==
  ASSUME TypeOK, NEW outcome \in Outcomes, NEW strict \in BOOLEAN, RestoreRoute(outcome, strict)
  PROVE  /\ Session(outcome, Main)
         /\ ruleOnFallback' \in BOOLEAN /\ routeNotRestored' \in BOOLEAN
         /\ ruleOnFallback' => (ruleOnFallback /\ ~strict) \/ rule' = Main
  <1>1. Session(outcome, Main)
    BY DEF RestoreRoute
  <1>2. outcome = "ok" => rule' = Main
    BY <1>1, SessionFacts
  <1>3. CASE outcome = "ok"
    BY <1>1, <1>2, <1>3 DEF RestoreRoute
  <1>4. CASE outcome # "ok"
    BY <1>1, <1>4 DEF RestoreRoute, TypeOK
  <1> QED
    BY <1>3, <1>4

LEMMA NoTestType == NoTest \in Test
  <1>1. 1 \in 1..Tries
    BY RouteAssumption
  <1> QED
    BY <1>1 DEF NoTest, Test

THEOREM InitType == Init => TypeOK
  <1> SUFFICES ASSUME Init PROVE TypeOK
    OBVIOUS
  <1>1. watchdog \in [forcedMin: Nat, lastTable: Tables \cup {Main}, newLogin: BOOLEAN]
    BY DEF Init
  <1>2. test \in Test
    BY NoTestType DEF Init
  <1> QED
    BY <1>1, <1>2 DEF Init, TypeOK, AtRest, Testing, Measuring, Unset

\* One step per action.
LEMMA TypeStep == ASSUME TypeOK, [Next]_vars PROVE TypeOK'
  <1> USE RouteAssumption DEF AtRest, Testing, Measuring, Unset
  <1>none. NoTest \in Test
    BY NoTestType
  <1>1. CASE UNCHANGED vars
    BY <1>1 DEF TypeOK, vars, phone, budgets
  <1>2. ASSUME NEW outcome \in Outcomes, RestStep(outcome) PROVE TypeOK'
    <2>1. CASE Recover(outcome)
      BY <2>1, SessionFacts, RestoreFacts DEF Recover, TypeOK
    <2>2. CASE RunRestore(outcome)
      BY <2>2, SessionFacts, RestoreFacts DEF RunRestore, TypeOK
    <2>3. CASE RunTestMikrotik(outcome)
      <3>1. Session(outcome, rule) /\ rule \in Tables \cup {Main}
        BY <2>3 DEF RunTestMikrotik, TypeOK
      <3> QED
        BY <2>3, <3>1, SessionFacts DEF RunTestMikrotik, TypeOK
    <2>4. CASE TickBegins(outcome)
      BY <2>4, SessionFacts, RestoreFacts DEF TickBegins, TypeOK, budgets
    <2>5. CASE IdleCheck(outcome)
      BY <2>5, SessionFacts DEF IdleCheck, TypeOK
    <2>6. CASE RebootGateway(outcome)
      BY <2>6, SessionFacts DEF RebootGateway, TypeOK
    <2>7. CASE RestoreFallback(outcome)
      BY <2>7, SessionFacts DEF RestoreFallback, TypeOK, phone
    <2> QED
      BY <1>2, <2>1, <2>2, <2>3, <2>4, <2>5, <2>6, <2>7 DEF RestStep
  <1>3. ASSUME NEW outcome \in Outcomes, NEW noted \in BOOLEAN, NEW attempted \in BOOLEAN,
               ForceFails(outcome, noted, attempted)
        PROVE  TypeOK'
    <2>1. Session(outcome, test.table) /\ test.table \in Tables
      BY <1>3 DEF ForceFails, TypeOK
    <2>2. forcedAge' \in Nat \cup {Unset}
      BY <1>3 DEF ForceFails, TypeOK
    <2>3. /\ test' \in Test /\ test'.table = test.table
          /\ phase' \in {"forcing", "restoring", "idle"}
      <3>1. test \in Test /\ Tries \in Nat \ {0}
        BY DEF TypeOK
      <3>2. CASE test.try < Tries /\ test' = [test EXCEPT !.try = test.try + 1,
                                                        !.attempted = test.attempted \/ attempted]
        <4>1. test.try + 1 \in 1..Tries
          BY <3>1, <3>2 DEF Test
        <4>2. (test.attempted \/ attempted) \in BOOLEAN
          BY <3>1 DEF Test
        <4>3. test' \in Test /\ test'.table = test.table
          BY <3>1, <3>2, <4>1, <4>2 DEF Test
        <4> QED
          BY <4>3, <1>3 DEF ForceFails
      <3>3. CASE test' = [test EXCEPT !.attempted = test.attempted \/ attempted]
        <4>2. (test.attempted \/ attempted) \in BOOLEAN
          BY <3>1 DEF Test
        <4>3. test' \in Test /\ test'.table = test.table
          BY <3>1, <3>3, <4>2 DEF Test
        <4> QED
          BY <4>3, <1>3 DEF ForceFails
      <3> QED
        BY <1>3, <3>2, <3>3 DEF ForceFails
    <2> QED
      BY <1>3, <2>1, <2>2, <2>3, SessionFacts DEF ForceFails, TypeOK
  <1>4. ASSUME NEW outcome \in Outcomes, ReadRuleEnd(outcome) PROVE TypeOK'
    <2>1. Session(outcome, rule) /\ rule \in Tables \cup {Main}
      BY <1>4 DEF ReadRuleEnd, TypeOK
    <2>2. test' \in Test
      BY <1>4 DEF ReadRuleEnd, TypeOK, Test
    <2> QED
      BY <1>4, <2>1, <2>2, SessionFacts DEF ReadRuleEnd, TypeOK
  <1>5. ASSUME NEW outcome \in Outcomes, Restore(outcome) PROVE TypeOK'
    BY <1>5, <1>none, SessionFacts, RestoreFacts DEF Restore, TypeOK
  <1>6. ASSUME NEW outcome \in Outcomes, Stop(outcome) PROVE TypeOK'
    BY <1>6, SessionFacts DEF Stop, TypeOK
  <1>7. CASE NotDue
    BY <1>7 DEF NotDue, TypeOK, budgets
  <1>8. CASE NothingToDo
    BY <1>8 DEF NothingToDo, TypeOK, budgets
  <1>9. ASSUME NEW table \in Tables, StartTest(table) PROVE TypeOK'
    <2>1. test' \in Test /\ test'.table \in Tables
      BY <1>9, <1>none DEF StartTest, Test
    <2> QED
      BY <1>9, <2>1 DEF StartTest, TypeOK, budgets
  <1>10. ASSUME NEW table \in Tables, FallBack(table) PROVE TypeOK'
    <2>1. test' \in Test /\ test'.table \in Tables
      BY <1>10, <1>none DEF FallBack, Test
    <2> QED
      BY <1>10, <2>1 DEF FallBack, TypeOK, budgets
  <1>11. CASE Forced
    <2>1. Session("ok", test.table) /\ test.table \in Tables
      BY <1>11 DEF Forced, TypeOK
    <2> QED
      BY <1>11, <2>1, SessionFacts DEF Forced, TypeOK, Outcomes
  <1>12. CASE NotOpenAnyMore
    BY <1>12 DEF NotOpenAnyMore, TypeOK, budgets
  <1>13. CASE Continue
    <2>1. phase' \in Measuring
      BY <1>13 DEF Continue, NextPhase
    <2> QED
      BY <1>13, <2>1 DEF Continue, TypeOK, budgets
  <1>14. CASE BreakOff
    BY <1>14 DEF BreakOff, TypeOK, budgets
  <1>15. CASE RequestStop
    BY <1>15 DEF RequestStop, TypeOK, budgets
  <1>16. CASE Crash
    <2>1. test' \in Test
      BY <1>16, <1>none DEF Crash
    <2>2. crashes' \in Nat /\ switches' \in Nat /\ failures' \in Nat
      BY <1>16 DEF Crash, TypeOK
    <2> QED
      BY <1>16, <2>1, <2>2 DEF Crash, TypeOK
  <1>17. ASSUME NEW table \in Tables \cup {Main}, Switch(table) PROVE TypeOK'
    <2>1. strayed' \in BOOLEAN
      BY <1>17 DEF Switch, TypeOK
    <2> QED
      BY <1>17, <2>1 DEF Switch, TypeOK, phone
  <1>18. CASE Minute
    <2>1. rule' \in Tables \cup {Main}
      BY <1>18 DEF Minute, Round, TypeOK
    <2>2. watchdog' \in [forcedMin: Nat, lastTable: Tables \cup {Main}, newLogin: BOOLEAN]
      BY <1>18, <2>1 DEF Minute, Round, TypeOK
    <2>3. /\ forcedAge' \in Nat \cup {Unset} /\ stretch' \in Nat /\ strayed' \in BOOLEAN
      BY <1>18 DEF Minute, TypeOK
    <2> QED
      BY <1>18, <2>1, <2>2, <2>3 DEF Minute, TypeOK, budgets
  <1> QED
    BY <1>1, <1>2, <1>3, <1>4, <1>5, <1>6, <1>7, <1>8, <1>9, <1>10, <1>11, <1>12, <1>13, <1>14,
       <1>15, <1>16, <1>17, <1>18 DEF Next, TestStep

\* Everything the phone and the router keep has its type.
THEOREM TypeCorrect == Spec => []TypeOK
  <1>1. Init => TypeOK
    BY InitType
  <1>2. TypeOK /\ [Next]_vars => TypeOK'
    BY TypeStep
  <1> QED
    BY <1>1, <1>2, PTL DEF Spec

-----------------------------------------------------------------------------
(* The router spares the tests                                             *)

LEMMA TimesAreNumbers ==
  /\ {MaxForced, Stretch, GpsWait, WatchdogMin} \subseteq Nat
  /\ Stretch > 0 /\ GpsWait > 0
  BY RouteAssumption

\* With the worker at rest there is nothing to bound.
LEMMA AtRestInTime == ASSUME phase' \in AtRest PROVE InTime'
  BY DEF InTime, AtRest, testActive, Testing, Measuring

\* A stage that begins.
LEMMA StageInTime ==
  ASSUME phase' \in {"forcing", "restoring"}, stretch' = 0 PROVE InTime'
  BY TimesAreNumbers DEF InTime, testActive, Testing, Measuring, Patience

\* The minutes that a round of the router adds are those the test adds.
LEMMA MinuteInTime == ASSUME TypeOK, InTime, Minute PROVE InTime'
  <1>1. CASE phase \in Measuring
    <2> DEFINE quiet(n) == watchdog.newLogin \/ watchdog.forcedMin + 1 <= n
    <2>1. watchdog.forcedMin \in Nat /\ stretch \in Nat /\ forcedAge \in Nat
      BY <1>1 DEF TypeOK, InTime, Measuring
    <2>2. watchdog'.forcedMin = IF Patient \/ Fires THEN 0 ELSE watchdog.forcedMin + 1
      BY DEF Minute, Round
    <2>3. ASSUME NEW n \in Nat, quiet(n) PROVE watchdog'.forcedMin + 1 <= n + 1
      BY <2>1, <2>2, <2>3 DEF Patient
    <2>4. phase' = phase /\ stretch' = stretch + 1 /\ forcedAge' = forcedAge + 1
      BY <1>1, <2>1 DEF Minute, testActive, Testing, Unset
    <2>5. stretch < Patience /\ Patience' = Patience /\ Patience \in Nat
      BY <1>1, <2>4, TimesAreNumbers DEF Minute, testActive, Testing, Patience
    <2>6. watchdog'.forcedMin + 1 <= forcedAge'
      BY <1>1, <2>1, <2>3, <2>4 DEF InTime
    <2>7. CASE phase = "egress"
      <3>1. watchdog'.forcedMin + 1 <= stretch'
        BY <2>1, <2>3, <2>4, <2>7 DEF InTime
      <3> HIDE DEF quiet
      <3> QED
        BY <2>1, <2>4, <2>5, <2>6, <2>7, <3>1 DEF InTime, Unset, Measuring
    <2>8. CASE phase = "signal"
      <3>1. Stretch + stretch \in Nat /\ quiet(Stretch + stretch)
        BY <2>1, <2>8, TimesAreNumbers DEF InTime
      <3>2. watchdog'.forcedMin + 1 <= Stretch + stretch + 1
        BY <2>3, <3>1
      <3>3. watchdog'.forcedMin + 1 <= Stretch + stretch'
        BY <2>1, <2>4, <3>2, TimesAreNumbers
      <3> HIDE DEF quiet
      <3> QED
        BY <2>1, <2>4, <2>5, <2>6, <2>8, <3>3 DEF InTime, Unset, Measuring
    <2>9. CASE phase = "gps"
      <3>1. 2 * Stretch + stretch \in Nat /\ quiet(2 * Stretch + stretch)
        BY <2>1, <2>9, TimesAreNumbers DEF InTime
      <3>2. watchdog'.forcedMin + 1 <= 2 * Stretch + stretch + 1
        BY <2>3, <3>1
      <3>3. watchdog'.forcedMin + 1 <= 2 * Stretch + stretch'
        BY <2>1, <2>4, <3>2, TimesAreNumbers
      <3> HIDE DEF quiet
      <3> QED
        BY <2>1, <2>4, <2>5, <2>6, <2>9, <3>3 DEF InTime, Unset, Measuring
    <2>10. CASE phase = "transfer"
      <3>1. forcedAge' <= MaxForced + 1 + stretch'
        BY <2>1, <2>4, <2>10, TimesAreNumbers DEF InTime
      <3> HIDE DEF quiet
      <3> QED
        BY <2>1, <2>4, <2>5, <2>6, <2>10, <3>1 DEF InTime, Unset, Measuring
    <2> QED
      BY <1>1, <2>7, <2>8, <2>9, <2>10 DEF Measuring
  <1>2. CASE phase \in AtRest
    BY <1>2, AtRestInTime DEF Minute
  <1>3. CASE phase \in {"forcing", "restoring"}
    <2>1. phase' = phase /\ stretch' = stretch + 1 /\ stretch < Patience
      BY <1>3 DEF Minute, testActive, Testing, Measuring
    <2>2. stretch' <= Patience'
      BY <1>3, <2>1, TimesAreNumbers DEF Patience, TypeOK
    <2> QED
      BY <1>3, <2>1, <2>2 DEF InTime, Measuring
  <1> QED
    BY <1>1, <1>2, <1>3 DEF TypeOK, AtRest, Testing, Measuring

LEMMA InTimeStep == ASSUME TypeOK, InTime, [Next]_vars PROVE InTime'
  <1>1. CASE UNCHANGED vars
    BY <1>1 DEF InTime, vars, phone, testActive, Patience
  <1>2. ASSUME NEW outcome \in Outcomes, RestStep(outcome) PROVE InTime'
    <2>1. phase' \in AtRest
      BY <1>2 DEF RestStep, Recover, RunRestore, RunTestMikrotik, TickBegins, IdleCheck,
                  RebootGateway, RestoreFallback, phone, AtRest
    <2> QED
      BY <2>1, AtRestInTime
  <1>3. ASSUME NEW outcome \in Outcomes, NEW noted \in BOOLEAN, NEW attempted \in BOOLEAN,
               ForceFails(outcome, noted, attempted)
        PROVE  InTime'
    <2>1. stretch' = 0 /\ phase' \in {"forcing", "restoring", "idle"}
      BY <1>3 DEF ForceFails
    <2> QED
      BY <2>1, AtRestInTime, StageInTime DEF AtRest
  <1>4. ASSUME NEW outcome \in Outcomes, ReadRuleEnd(outcome) PROVE InTime'
    BY <1>4, StageInTime DEF ReadRuleEnd
  <1>5. ASSUME NEW outcome \in Outcomes, Restore(outcome) \/ Stop(outcome) PROVE InTime'
    BY <1>5, AtRestInTime DEF Restore, Stop, AtRest
  <1>6. CASE NotDue \/ NothingToDo \/ Crash
    BY <1>6, AtRestInTime DEF NotDue, NothingToDo, Crash, AtRest
  <1>7. ASSUME NEW table \in Tables, StartTest(table) \/ FallBack(table) PROVE InTime'
    BY <1>7, StageInTime DEF StartTest, FallBack
  <1>8. CASE Forced
    <2>1. phase' = "egress" /\ stretch' = 0 /\ forcedAge' # Unset /\ watchdog'.newLogin
      BY <1>8, SessionFacts DEF Forced, TypeOK, Outcomes, Unset, Testing
    <2> QED
      BY <2>1, TimesAreNumbers DEF InTime, testActive, Testing, Measuring, Patience
  <1>9. CASE NotOpenAnyMore \/ BreakOff
    BY <1>9, StageInTime DEF NotOpenAnyMore, BreakOff
  <1>10. CASE Continue
    <2>1. /\ stretch' = 0 /\ phase' = NextPhase[phase] /\ phase \in Measuring
          /\ forcedAge' = forcedAge /\ watchdog' = watchdog
          /\ forcedAge <= MaxForced + 1
      BY <1>10 DEF Continue, CheckpointPasses
    <2>2. /\ watchdog.forcedMin \in Nat /\ stretch \in Nat /\ forcedAge \in Nat
          /\ stretch <= Patience
      BY <2>1 DEF TypeOK, InTime, testActive, Testing, Measuring
    <2>3. CASE phase = "egress"
      <3>1. phase' = "signal"
        BY <2>1, <2>3 DEF NextPhase
      <3> QED
        BY <2>1, <2>2, <2>3, <3>1, TimesAreNumbers DEF InTime, testActive, Testing, Measuring, Patience
    <2>4. CASE phase = "signal"
      <3>1. phase' = "gps"
        BY <2>1, <2>4 DEF NextPhase
      <3> QED
        BY <2>1, <2>2, <2>4, <3>1, TimesAreNumbers DEF InTime, testActive, Testing, Measuring, Patience
    <2>5. CASE phase \in {"gps", "transfer"}
      <3>1. phase' = "transfer"
        BY <2>1, <2>5 DEF NextPhase
      <3> QED
        BY <2>1, <2>2, <2>5, <3>1, TimesAreNumbers DEF InTime, testActive, Testing, Measuring, Patience
    <2> QED
      BY <2>1, <2>3, <2>4, <2>5 DEF Measuring
  <1>11. CASE RequestStop
    BY <1>11 DEF RequestStop, InTime, testActive, Patience
  <1>12. ASSUME NEW table \in Tables \cup {Main}, Switch(table) PROVE InTime'
    BY <1>12 DEF Switch, phone, InTime, testActive, Patience
  <1> QED
    BY <1>1, <1>2, <1>3, <1>4, <1>5, <1>6, <1>7, <1>8, <1>9, <1>10, <1>11, <1>12, MinuteInTime
       DEF Next, TestStep

\* The counter of the router cannot reach its limit in a test.
LEMMA NoFire == ASSUME TypeOK, InTime, Minute, phase \in Measuring PROVE rule' = rule
  <1> SUFFICES ASSUME Fires PROVE FALSE
    BY DEF Minute, Round
  <1>1. /\ watchdog.forcedMin \in Nat /\ stretch \in Nat /\ forcedAge \in Nat
        /\ ~watchdog.newLogin /\ stretch < Patience
    BY DEF TypeOK, InTime, Fires, Patient, Minute, testActive, Testing
  <1>2. watchdog.forcedMin + 1 >= WatchdogMin
    BY DEF Fires
  <1>3. CASE phase = "egress"
    BY <1>1, <1>2, <1>3, TimesAreNumbers, Margins DEF InTime, Patience
  <1>4. CASE phase = "signal"
    BY <1>1, <1>2, <1>4, TimesAreNumbers, Margins DEF InTime, Patience
  <1>5. CASE phase = "gps"
    BY <1>1, <1>2, <1>5, TimesAreNumbers, Margins DEF InTime, Patience
  <1>6. CASE phase = "transfer"
    BY <1>1, <1>2, <1>6, TimesAreNumbers, Margins DEF InTime, Patience, Measuring
  <1> QED
    BY <1>3, <1>4, <1>5, <1>6 DEF Measuring

\* Only the router, a person and the end of a test move the rule under one.
LEMMA OthersKeepTheRule ==
  ASSUME TypeOK, InTime, [Next]_vars, phase \in Measuring, rule' # rule PROVE switches' # switches
  <1>1. ~UNCHANGED vars
    BY DEF vars
  <1>2. ASSUME NEW outcome \in Outcomes, RestStep(outcome) \/ TestStep(outcome) PROVE rule' = rule
    <2>1. CASE ReadRuleEnd(outcome)
      BY <2>1 DEF ReadRuleEnd, Session
    <2> QED
      BY <1>2, <2>1 DEF Measuring, RestStep, TestStep, Recover, RunRestore, RunTestMikrotik, TickBegins,
         IdleCheck, RebootGateway, RestoreFallback, ForceFails, Restore, Stop
  <1>3. ~Forced
    BY DEF Forced, Measuring
  <1>4. ~Minute
    BY NoFire
  <1>5. ASSUME NEW table \in Tables \cup {Main}, Switch(table) PROVE switches' # switches
    BY <1>5 DEF Switch, TypeOK
  <1> QED
    BY <1>1, <1>2, <1>3, <1>4, <1>5 DEF Next, NotDue, NothingToDo, StartTest, FallBack, NotOpenAnyMore,
       Continue, BreakOff, RequestStop, Crash

\* The scheduler of the router never moves the rule while the phone measures.
THEOREM TestsAreSpared == Spec => WatchdogSparesTests
  <1>1. Init => TypeOK /\ InTime
    BY InitType DEF Init, InTime, testActive, Testing, Measuring
  <1>2. TypeOK /\ InTime /\ [Next]_vars => (TypeOK /\ InTime)'
    BY TypeStep, InTimeStep
  <1>3. TypeOK /\ InTime /\ [Next]_vars
          => [(phase \in Measuring /\ rule' # rule) => (switches' # switches)]_vars
    BY OthersKeepTheRule
  <1> QED
    BY <1>1, <1>2, <1>3, PTL DEF Spec, WatchdogSparesTests

-----------------------------------------------------------------------------
(* The cable is used only with the rule on fallback                        *)

LEMMA FallbackKnownStep == ASSUME TypeOK, FallbackKnown, [Next]_vars PROVE FallbackKnown'
  <1> USE DEF testActive, Testing, Measuring
  <1>1. CASE UNCHANGED vars
    BY <1>1 DEF FallbackKnown, EthernetOnlyOnFallback, vars, phone, budgets
  <1>2. ASSUME NEW outcome \in Outcomes, RestStep(outcome) PROVE FallbackKnown'
    <2>1. CASE Recover(outcome)
      BY <2>1, RestoreFacts, SessionFacts DEF Recover, FallbackKnown, EthernetOnlyOnFallback
    <2>2. CASE RunRestore(outcome)
      BY <2>2, RestoreFacts, SessionFacts DEF RunRestore, FallbackKnown, EthernetOnlyOnFallback
    <2>3. CASE RunTestMikrotik(outcome)
      <3>1. Session(outcome, rule) /\ rule \in Tables \cup {Main}
        BY <2>3 DEF RunTestMikrotik, TypeOK
      <3> QED
        BY <2>3, <3>1, SessionFacts DEF RunTestMikrotik, FallbackKnown, EthernetOnlyOnFallback
    <2>4. CASE TickBegins(outcome)
      BY <2>4, RestoreFacts, SessionFacts DEF TickBegins, FallbackKnown, EthernetOnlyOnFallback, budgets
    <2>5. CASE IdleCheck(outcome)
      BY <2>5, SessionFacts DEF IdleCheck, FallbackKnown, EthernetOnlyOnFallback
    <2>6. CASE RebootGateway(outcome)
      BY <2>6, SessionFacts DEF RebootGateway, FallbackKnown, EthernetOnlyOnFallback
    <2>7. CASE RestoreFallback(outcome)
      BY <2>7, SessionFacts DEF RestoreFallback, FallbackKnown, EthernetOnlyOnFallback, phone
    <2> QED
      BY <1>2, <2>1, <2>2, <2>3, <2>4, <2>5, <2>6, <2>7 DEF RestStep
  <1>3. ASSUME NEW outcome \in Outcomes, NEW noted \in BOOLEAN, NEW attempted \in BOOLEAN,
               ForceFails(outcome, noted, attempted)
        PROVE  FallbackKnown'
    <2>1. /\ Session(outcome, test.table) /\ test.table \in Tables /\ phase = "forcing"
          /\ ruleOnFallback' = ruleOnFallback /\ outcome # "ok"
      BY <1>3 DEF ForceFails, TypeOK
    <2>2. ~attempted => rule' = rule
      BY <1>3, <2>1, SessionFacts DEF ForceFails
    <2>3. /\ test'.attempted = (test.attempted \/ attempted)
          /\ test'.attempt = test.attempt
      BY <1>3 DEF ForceFails, TypeOK, Test
    <2>4. \/ phase' \in {"forcing", "restoring"}
          \/ phase' = "idle" /\ test.attempt # 2 /\ ~(test.attempted \/ attempted)
      BY <1>3, <2>1 DEF ForceFails
    <2>5. test.attempt \in {1, 2}
      BY DEF TypeOK, Test
    <2>6. switches' = switches
      BY <2>1, SessionFacts
    <2> QED
      BY <2>1, <2>2, <2>3, <2>4, <2>5, <2>6 DEF FallbackKnown, EthernetOnlyOnFallback
  <1>4. ASSUME NEW outcome \in Outcomes, ReadRuleEnd(outcome) PROVE FallbackKnown'
    BY <1>4 DEF ReadRuleEnd, FallbackKnown, EthernetOnlyOnFallback
  <1>5. ASSUME NEW outcome \in Outcomes, Restore(outcome) PROVE FallbackKnown'
    BY <1>5, RestoreFacts DEF Restore, FallbackKnown, EthernetOnlyOnFallback
  <1>6. ASSUME NEW outcome \in Outcomes, Stop(outcome) PROVE FallbackKnown'
    BY <1>6 DEF Stop, FallbackKnown, EthernetOnlyOnFallback
  <1>7. CASE NotDue \/ NothingToDo
    BY <1>7 DEF NotDue, NothingToDo, FallbackKnown, EthernetOnlyOnFallback, budgets
  <1>8. ASSUME NEW table \in Tables, StartTest(table) PROVE FallbackKnown'
    BY <1>8 DEF StartTest, FallbackKnown, EthernetOnlyOnFallback, budgets
  <1>9. ASSUME NEW table \in Tables, FallBack(table) PROVE FallbackKnown'
    <2>1. test'.attempt = 2
      BY <1>9, NoTestType DEF FallBack, Test
    <2> QED
      BY <1>9, <2>1 DEF FallBack, FallbackKnown, EthernetOnlyOnFallback
  <1>10. CASE Forced
    BY <1>10 DEF Forced, FallbackKnown, EthernetOnlyOnFallback
  <1>11. CASE NotOpenAnyMore \/ BreakOff
    BY <1>11 DEF NotOpenAnyMore, BreakOff, FallbackKnown, EthernetOnlyOnFallback
  <1>12. CASE Continue
    <2>1. phase' \in Measuring
      BY <1>12 DEF Continue, NextPhase
    <2> QED
      BY <2>1 DEF FallbackKnown, EthernetOnlyOnFallback
  <1>13. CASE RequestStop
    BY <1>13 DEF RequestStop, FallbackKnown, EthernetOnlyOnFallback, budgets
  <1>14. CASE Crash
    BY <1>14 DEF Crash, FallbackKnown, EthernetOnlyOnFallback
  <1>15. ASSUME NEW table \in Tables \cup {Main}, Switch(table) PROVE FallbackKnown'
    <2>1. switches' # 0
      BY <1>15 DEF Switch, TypeOK
    <2> QED
      BY <2>1 DEF FallbackKnown, EthernetOnlyOnFallback
  <1>16. CASE Minute
    <2>1. rule = Main => rule' = Main
      BY <1>16 DEF Minute, Round
    <2> QED
      BY <1>16, <2>1 DEF Minute, FallbackKnown, EthernetOnlyOnFallback, budgets
  <1> QED
    BY <1>1, <1>2, <1>3, <1>4, <1>5, <1>6, <1>7, <1>8, <1>9, <1>10, <1>11, <1>12, <1>13, <1>14,
       <1>15, <1>16 DEF Next, TestStep

\* The control plane believes the rule on fallback, outside tests, only when it
\* is, as long as nobody moves it by hand.
THEOREM CableOnlyOnFallback == Spec => []EthernetOnlyOnFallback
  <1>1. Init => TypeOK /\ FallbackKnown
    BY InitType DEF Init, FallbackKnown, EthernetOnlyOnFallback
  <1>2. TypeOK /\ FallbackKnown /\ [Next]_vars => (TypeOK /\ FallbackKnown)'
    BY TypeStep, FallbackKnownStep
  <1>3. FallbackKnown => EthernetOnlyOnFallback
    BY DEF FallbackKnown
  <1> QED
    BY <1>1, <1>2, <1>3, PTL DEF Spec

-----------------------------------------------------------------------------
(* What the last reading proves                                            *)

LEMMA StraightStep ==
  ASSUME TypeOK, InTime, Straight, [Next]_vars, MaxSwitches <= 1 PROVE Straight'
  <1> USE DEF Testing, Measuring
  <1>1. CASE UNCHANGED vars
    BY <1>1 DEF Straight, HonestEnd, vars, phone, budgets
  <1>none. NoTest.table = None /\ NoTest.ruleEnd = None
    BY DEF NoTest
  <1>2. ASSUME NEW outcome \in Outcomes, RestStep(outcome) PROVE Straight'
    <2>1. phase' \notin Testing /\ test' = test /\ strayed' = strayed
      BY <1>2 DEF RestStep, Recover, RunRestore, RunTestMikrotik, TickBegins, IdleCheck,
                  RebootGateway, RestoreFallback, phone
    <2> QED
      BY <2>1 DEF Straight, HonestEnd
  <1>3. ASSUME NEW outcome \in Outcomes, NEW noted \in BOOLEAN, NEW attempted \in BOOLEAN,
               ForceFails(outcome, noted, attempted)
        PROVE  Straight'
    <2>1. phase' \in {"forcing", "restoring", "idle"} /\ test'.ruleEnd = test.ruleEnd /\ test.ruleEnd = None
      BY <1>3 DEF ForceFails, TypeOK, Test, Straight
    <2> QED
      BY <2>1 DEF Straight, HonestEnd
  <1>4. ASSUME NEW outcome \in Outcomes, ReadRuleEnd(outcome) PROVE Straight'
    <2>1. /\ phase = "transfer" /\ phase' = "restoring" /\ strayed' = strayed
          /\ test'.table = test.table /\ test'.ruleEnd \in {rule, None}
      BY <1>4 DEF ReadRuleEnd, TypeOK, Test
    <2> QED
      BY <2>1 DEF Straight, HonestEnd
  <1>5. ASSUME NEW outcome \in Outcomes, Restore(outcome) PROVE Straight'
    BY <1>5, <1>none DEF Restore, Straight, HonestEnd
  <1>6. ASSUME NEW outcome \in Outcomes, Stop(outcome) PROVE Straight'
    BY <1>6 DEF Stop, Straight, HonestEnd
  <1>7. CASE NotDue \/ NothingToDo
    BY <1>7 DEF NotDue, NothingToDo, Straight, HonestEnd
  <1>8. ASSUME NEW table \in Tables, StartTest(table) \/ FallBack(table) PROVE Straight'
    <2>1. test'.ruleEnd = None /\ phase' = "forcing"
      BY <1>8, <1>none, NoTestType DEF StartTest, FallBack, Test
    <2> QED
      BY <2>1 DEF Straight, HonestEnd
  <1>9. CASE Forced
    <2>1. phase' = "egress" /\ test' = test /\ test.ruleEnd = None /\ rule' = test.table /\ ~strayed'
      BY <1>9, SessionFacts DEF Forced, Straight, Outcomes, TypeOK
    <2> QED
      BY <2>1 DEF Straight, HonestEnd
  <1>10. CASE NotOpenAnyMore \/ BreakOff
    BY <1>10 DEF NotOpenAnyMore, BreakOff, Straight, HonestEnd
  <1>11. CASE Continue
    <2>1. phase' \in Measuring
      BY <1>11 DEF Continue, NextPhase
    <2> QED
      BY <1>11, <2>1 DEF Continue, Straight, HonestEnd, budgets
  <1>12. CASE RequestStop
    BY <1>12 DEF RequestStop, Straight, HonestEnd, budgets
  <1>13. CASE Crash
    BY <1>13, <1>none DEF Crash, Straight, HonestEnd
  <1>14. ASSUME NEW table \in Tables \cup {Main}, Switch(table) PROVE Straight'
    <2>1. /\ switches' >= 1 /\ phase' = phase /\ test' = test /\ rule' = table
          /\ switches \in Nat /\ switches < MaxSwitches /\ MaxSwitches \in Nat
      BY <1>14, RouteAssumption DEF Switch, phone, TypeOK
    <2>2. switches = 0
      BY <2>1
    <2>3. CASE phase \in Measuring
      <3>1. ~strayed
        BY <2>2, <2>3 DEF Straight
      <3>2. strayed' <=> rule' # test'.table
        BY <1>14, <2>1, <2>3, <3>1 DEF Switch
      <3>3. test'.ruleEnd = None
        BY <2>1, <2>3 DEF Straight
      <3> QED
        BY <2>1, <2>3, <3>2, <3>3 DEF Straight, HonestEnd
    <2>4. CASE phase \notin Measuring
      <3>1. strayed' = strayed
        BY <1>14, <2>4 DEF Switch, TypeOK
      <3> QED
        BY <2>1, <2>4, <3>1 DEF Straight, HonestEnd
    <2> QED
      BY <2>3, <2>4
  <1>15. CASE Minute
    <2>1. phase' = phase /\ test' = test /\ switches' = switches
      BY <1>15 DEF Minute, budgets
    <2>2. CASE phase \in Measuring
      <3>1. rule' = rule
        BY <1>15, <2>2, NoFire
      <3>2. strayed' = (strayed \/ rule # test.table)
        BY <1>15, <2>2, <3>1 DEF Minute
      <3> QED
        BY <2>1, <2>2, <3>1, <3>2 DEF Straight, HonestEnd, TypeOK
    <2>3. CASE phase \notin Measuring
      <3>1. strayed' = strayed
        BY <1>15, <2>3 DEF Minute, TypeOK
      <3> QED
        BY <2>1, <2>3, <3>1 DEF Straight, HonestEnd
    <2> QED
      BY <2>2, <2>3
  <1> QED
    BY <1>1, <1>2, <1>3, <1>4, <1>5, <1>6, <1>7, <1>8, <1>9, <1>10, <1>11, <1>12, <1>13, <1>14,
       <1>15 DEF Next, TestStep

\* A result whose last reading found the table of its router was measured
\* through that router, when at most one switch by hand can have happened.
THEOREM EndIsHonest == ASSUME MaxSwitches <= 1 PROVE Spec => []HonestEnd
  <1> DEFINE I == TypeOK /\ InTime /\ Straight
  <1>1. Init => I
    BY InitType DEF Init, InTime, Straight, HonestEnd, NoTest, testActive, Testing, Measuring
  <1>2. I /\ [Next]_vars => I'
    BY TypeStep, InTimeStep, StraightStep
  <1>3. I => HonestEnd
    BY DEF Straight
  <1> QED
    BY <1>1, <1>2, <1>3, PTL DEF Spec
=============================================================================
