------------------------------ MODULE RouteRule ------------------------------
(***************************************************************************)
(* The routing rule of the MikroTik, which decides through which router    *)
(* the phone goes out.  The worker of the phone forces it to the table of  *)
(* a router for a test and puts it back afterwards (ProbeWorker.kt); the   *)
(* router itself puts it back when it has been forced for a while without  *)
(* the phone logging in (the scheduler of probe-ab.rsc); a person can move *)
(* it by hand (apply_probe.py --switch).                                   *)
(*                                                                         *)
(* Abstractions: time is the rounds of the scheduler of the router, one    *)
(* per minute; a session with the router takes no time, and ends well, or  *)
(* without a login, or cut before or after the rule was set; the fallback  *)
(* table is `main`, its default.                                           *)
(***************************************************************************)
EXTENDS Integers

CONSTANTS
  Tables,        \* the tables of the routers
  Main,          \* the fallback table
  None,
  MaxForced,     \* MAX_FORCED_MS, in minutes
  Stretch,       \* minutes between two checkpoints of a test, at most
  GpsWait,       \* minutes the GPS may keep a test waiting
  WatchdogMin,   \* --rule-watchdog-min
  Tries,         \* attempts of forceRoute
  MaxFailures,   \* bound: sessions that fail
  MaxSwitches,   \* bound: switches by hand
  MaxCrashes     \* bound: deaths of the app

ASSUME RouteAssumption == /\ Main \notin Tables /\ None \notin Tables
                          /\ {MaxForced, Stretch, GpsWait, Tries} \subseteq Nat \ {0}
                          /\ {WatchdogMin, MaxFailures, MaxSwitches, MaxCrashes} \subseteq Nat

\* The tests end, or are aborted, before the router loses its patience.
ASSUME Margins == /\ MaxForced + Stretch < WatchdogMin
                  /\ 2 * Stretch + GpsWait < WatchdogMin

VARIABLES
  rule,             \* the table of the rule phone-probe
  watchdog,         \* what the scheduler of the router remembers
  phase,            \* where the worker is
  test,             \* the test under way
  forcedAge,        \* how long ago forcedSinceElapsed was set
  stretch,          \* how long ago the last checkpoint was
  ruleOnFallback,   \* of the control plane of the phone
  routeNotRestored,
  stopping,
  strayed,          \* the rule left the table of the test during it
  failures, switches, crashes

budgets == <<failures, switches, crashes>>
phone   == <<phase, test, forcedAge, stretch, ruleOnFallback, routeNotRestored, stopping>>
vars    == <<rule, watchdog, phone, strayed, budgets>>

Unset == -1

Measuring == {"egress", "signal", "gps", "transfer"}
Testing   == Measuring \cup {"forcing"}
AtRest    == {"off", "idle", "checking", "picking"}

\* testActive of the control plane.
testActive == phase \in Testing \cup {"restoring"}

Test   == [table: Tables \cup {None}, attempt: {1, 2}, try: 1..Tries, attempted: BOOLEAN,
           ruleEnd: Tables \cup {Main, None}]
NoTest == [table |-> None, attempt |-> 1, try |-> 1, attempted |-> FALSE, ruleEnd |-> None]

TypeOK ==
  /\ rule \in Tables \cup {Main}
  /\ watchdog \in [forcedMin: Nat, lastTable: Tables \cup {Main}, newLogin: BOOLEAN]
  /\ phase \in AtRest \cup Testing \cup {"restoring"}
  /\ test \in Test
  /\ phase \in Testing => test.table \in Tables
  /\ forcedAge \in Nat \cup {Unset}
  /\ stretch \in Nat
  /\ ruleOnFallback \in BOOLEAN /\ routeNotRestored \in BOOLEAN
  /\ stopping \in BOOLEAN /\ strayed \in BOOLEAN
  /\ failures \in Nat /\ switches \in Nat /\ crashes \in Nat

Init ==
  /\ rule = Main
  /\ watchdog = [forcedMin |-> 0, lastTable |-> Main, newLogin |-> FALSE]
  /\ phase = "off" /\ test = NoTest /\ forcedAge = Unset /\ stretch = 0
  /\ ruleOnFallback = FALSE /\ routeNotRestored = FALSE
  /\ stopping = FALSE /\ strayed = FALSE
  /\ failures = 0 /\ switches = 0 /\ crashes = 0

-----------------------------------------------------------------------------
(* Sessions with the router                                                *)

Outcomes == {"ok", "unreachable", "cut", "applied"}

\* A session that sets the rule to `table` if it is not there yet.
Session(outcome, table) ==
  /\ outcome = "ok" \/ failures < MaxFailures
  /\ failures' = IF outcome = "ok" THEN failures ELSE failures + 1
  /\ watchdog' = [watchdog EXCEPT !.newLogin = @ \/ outcome # "unreachable"]
  /\ rule' = IF outcome \in {"ok", "applied"} THEN table ELSE rule
  /\ UNCHANGED <<switches, crashes>>

RestoreRoute_Optimistic(outcome, strict) ==
  /\ Session(outcome, Main)
  /\ ruleOnFallback' = TRUE
  /\ routeNotRestored' = IF outcome = "ok" THEN FALSE ELSE strict \/ routeNotRestored

\* restoreRoute: strict after a test.
RestoreRoute(outcome, strict) ==
  /\ Session(outcome, Main)
  /\ ruleOnFallback' = IF outcome = "ok" THEN TRUE
                       ELSE IF strict \/ routeNotRestored THEN FALSE ELSE ruleOnFallback
  /\ routeNotRestored' = IF outcome = "ok" THEN FALSE ELSE strict \/ routeNotRestored

-----------------------------------------------------------------------------
(* The worker at rest                                                      *)

\* The service starts: recover puts the rule back, if it can.
Recover(outcome) ==
  /\ phase = "off"
  /\ RestoreRoute(outcome, FALSE)
  /\ phase' = "idle"
  /\ UNCHANGED <<test, forcedAge, stretch, stopping, strayed>>

\* The button of the app while the service does not run.
RestoreFallback(outcome) ==
  /\ phase = "off"
  /\ Session(outcome, Main)
  /\ UNCHANGED <<phone, strayed>>

\* The same button, on the thread of the worker, while it does.
RunRestore(outcome) ==
  /\ phase = "idle" /\ ~stopping
  /\ RestoreRoute(outcome, FALSE)
  /\ UNCHANGED <<phase, test, forcedAge, stretch, stopping, strayed>>

\* The button that reads the rule: a failure counts as not on fallback.
RunTestMikrotik(outcome) ==
  /\ phase = "idle" /\ ~stopping
  /\ Session(outcome, rule)
  /\ ruleOnFallback' = (outcome = "ok" /\ rule = Main)
  /\ UNCHANGED <<phase, test, forcedAge, stretch, routeNotRestored, stopping, strayed>>

\* A tick begins with the rule that a test could not put back.
TickBegins(outcome) ==
  /\ phase = "idle" /\ ~stopping
  /\ IF routeNotRestored
     THEN RestoreRoute(outcome, FALSE)
     ELSE /\ outcome = "ok"
          /\ UNCHANGED <<rule, watchdog, ruleOnFallback, routeNotRestored, budgets>>
  /\ phase' = "checking"
  /\ UNCHANGED <<test, forcedAge, stretch, stopping, strayed>>

\* The reading at rest, when it is due: a forced rule goes back.
IdleCheck(outcome) ==
  /\ phase = "checking"
  /\ Session(outcome, Main)
  /\ ruleOnFallback' = (outcome = "ok")
  /\ routeNotRestored' = (outcome # "ok" /\ routeNotRestored)
  /\ phase' = "picking"
  /\ UNCHANGED <<test, forcedAge, stretch, stopping, strayed>>

NotDue ==
  /\ phase = "checking"
  /\ phase' = "picking"
  /\ UNCHANGED <<rule, watchdog, test, forcedAge, stretch, ruleOnFallback, routeNotRestored,
                 stopping, strayed, budgets>>

NothingToDo ==
  /\ phase = "picking"
  /\ phase' = "idle"
  /\ UNCHANGED <<rule, watchdog, test, forcedAge, stretch, ruleOnFallback, routeNotRestored,
                 stopping, strayed, budgets>>

\* A reboot puts the rule back on its own, to reach the router.
RebootGateway(outcome) ==
  /\ phase = "picking"
  /\ Session(outcome, Main)
  /\ phase' = "idle"
  /\ UNCHANGED <<test, forcedAge, stretch, ruleOnFallback, routeNotRestored, stopping, strayed>>

-----------------------------------------------------------------------------
(* A test                                                                  *)

StartTest(table) ==
  /\ phase = "picking"
  /\ phase' = "forcing"
  /\ test' = [NoTest EXCEPT !.table = table]
  /\ stretch' = 0
  /\ UNCHANGED <<rule, watchdog, forcedAge, ruleOnFallback, routeNotRestored, stopping, strayed, budgets>>

CheckpointPasses_NoLimit == ~stopping

\* With the clock in minutes, elapsed > MAX_FORCED_MS may be seen from
\* MaxForced on and is certain after MaxForced + 1.
CheckpointPasses == ~stopping /\ forcedAge <= MaxForced + 1

\* forceRoute: the rule is set, and read again.
Forced ==
  /\ phase = "forcing" /\ CheckpointPasses
  /\ Session("ok", test.table)
  /\ forcedAge' = IF forcedAge = Unset THEN 0 ELSE forcedAge
  /\ ruleOnFallback' = FALSE
  /\ phase' = "egress" /\ stretch' = 0 /\ strayed' = FALSE
  /\ UNCHANGED <<test, routeNotRestored, stopping>>

\* A try that fails.  It may have noted that it set the rule, or that it was
\* about to; an error of login, or no cable, ends the tries at once.
ForceFails(outcome, noted, attempted) ==
  /\ phase = "forcing" /\ CheckpointPasses
  /\ outcome # "ok"
  /\ outcome = "unreachable" => ~attempted
  /\ outcome = "applied" => attempted
  /\ noted => outcome = "applied"
  /\ Session(outcome, test.table)
  /\ LET age  == IF noted /\ forcedAge = Unset THEN 0 ELSE forcedAge
         was  == test.attempted \/ attempted
     IN \/ /\ test.try < Tries
           /\ test' = [test EXCEPT !.try = @ + 1, !.attempted = was]
           /\ forcedAge' = age
           /\ UNCHANGED phase
        \/ /\ test.try = Tries \/ outcome = "unreachable"
           /\ phase' = IF test.attempt = 2 \/ age # Unset \/ was THEN "restoring" ELSE "idle"
           /\ test' = [test EXCEPT !.attempted = was]
           /\ forcedAge' = IF phase' = "idle" THEN Unset ELSE age
  /\ stretch' = 0
  /\ UNCHANGED <<ruleOnFallback, routeNotRestored, stopping, strayed>>

\* The order was cancelled or expired while the route was being forced.
NotOpenAnyMore ==
  /\ phase = "egress" /\ test.attempt = 1 /\ stretch = 0
  /\ phase' = "restoring"
  /\ UNCHANGED <<rule, watchdog, test, forcedAge, stretch, ruleOnFallback, routeNotRestored,
                 stopping, strayed, budgets>>

\* No Internet behind the router: the other one is measured.
FallBack(table) ==
  /\ phase = "egress" /\ CheckpointPasses
  /\ test.attempt = 1 /\ table # test.table
  /\ phase' = "forcing" /\ stretch' = 0
  /\ test' = [NoTest EXCEPT !.table = table, !.attempt = 2]
  /\ UNCHANGED <<rule, watchdog, forcedAge, ruleOnFallback, routeNotRestored, stopping, strayed, budgets>>

NextPhase == [egress |-> "signal", signal |-> "gps", gps |-> "transfer", transfer |-> "transfer"]

\* A stretch of the test ends at a checkpoint.
Continue ==
  /\ phase \in Measuring /\ CheckpointPasses
  /\ phase' = NextPhase[phase] /\ stretch' = 0
  /\ UNCHANGED <<rule, watchdog, test, forcedAge, ruleOnFallback, routeNotRestored, stopping, strayed, budgets>>

ReadRuleEnd_Remembered(outcome) ==
  /\ phase = "transfer"
  /\ Session(outcome, rule)
  /\ test' = [test EXCEPT !.ruleEnd = test.table]
  /\ phase' = "restoring" /\ stretch' = 0
  /\ UNCHANGED <<forcedAge, ruleOnFallback, routeNotRestored, stopping, strayed>>

ReadRuleEnd_Reason(outcome) ==
  /\ phase = "transfer"
  /\ Session(outcome, rule)
  /\ test' = [test EXCEPT !.ruleEnd = IF outcome = "ok" THEN rule ELSE outcome]
  /\ phase' = "restoring" /\ stretch' = 0
  /\ UNCHANGED <<forcedAge, ruleOnFallback, routeNotRestored, stopping, strayed>>

\* The test is over: the rule is read again and the result is stored with what
\* was read, if anything.
ReadRuleEnd(outcome) ==
  /\ phase = "transfer"
  /\ Session(outcome, rule)
  /\ test' = [test EXCEPT !.ruleEnd = IF outcome = "ok" THEN rule ELSE None]
  /\ phase' = "restoring" /\ stretch' = 0
  /\ UNCHANGED <<forcedAge, ruleOnFallback, routeNotRestored, stopping, strayed>>

\* An abort (stopped, or forced for too long) or any exception.
BreakOff ==
  /\ phase \in Testing
  /\ phase' = "restoring" /\ stretch' = 0
  /\ UNCHANGED <<rule, watchdog, test, forcedAge, ruleOnFallback, routeNotRestored, stopping, strayed, budgets>>

\* What follows a test, however it ended.
Restore(outcome) ==
  /\ phase = "restoring"
  /\ RestoreRoute(outcome, TRUE)
  /\ phase' = "idle" /\ forcedAge' = Unset /\ stretch' = 0
  /\ test' = NoTest
  /\ UNCHANGED <<stopping, strayed>>

-----------------------------------------------------------------------------
(* Stops, deaths, the router and a person                                  *)

\* requestStop: a test under way is aborted at its next checkpoint.
RequestStop ==
  /\ phase # "off" /\ ~stopping
  /\ stopping' = TRUE
  /\ UNCHANGED <<rule, watchdog, phase, test, forcedAge, stretch, ruleOnFallback, routeNotRestored,
                 strayed, budgets>>

\* Then the rule is put back, if it can be, and the service is over.
Stop(outcome) ==
  /\ phase = "idle" /\ stopping
  /\ Session(outcome, Main)
  /\ phase' = "off" /\ stopping' = FALSE
  /\ ruleOnFallback' = FALSE /\ routeNotRestored' = FALSE
  /\ UNCHANGED <<test, forcedAge, stretch, strayed>>

\* Everything the worker knows is in memory.
Crash ==
  /\ phase # "off"
  /\ crashes < MaxCrashes
  /\ crashes' = crashes + 1
  /\ phase' = "off" /\ test' = NoTest /\ forcedAge' = Unset /\ stretch' = 0
  /\ ruleOnFallback' = FALSE /\ routeNotRestored' = FALSE /\ stopping' = FALSE
  /\ UNCHANGED <<rule, watchdog, strayed, failures, switches>>

Switch(table) ==
  /\ switches < MaxSwitches
  /\ switches' = switches + 1
  /\ rule' = table
  /\ strayed' = (strayed \/ (phase \in Measuring /\ table # test.table))
  /\ UNCHANGED <<watchdog, phone, failures, crashes>>

Patient_BlindToLogins == rule = Main \/ rule # watchdog.lastTable

\* The phone is not dead: the rule is not forced, has just moved, or the phone
\* logged in since the last round.
Patient == rule = Main \/ rule # watchdog.lastTable \/ watchdog.newLogin

Fires == ~Patient /\ watchdog.forcedMin + 1 >= WatchdogMin

Seen_SameLogin == rule # Main \/ watchdog.newLogin

\* The phone never stays for longer than this between two of its steps.
Patience == IF phase = "gps" THEN GpsWait ELSE Stretch

Round_SameLogin ==
  /\ rule' = IF Fires THEN Main ELSE rule
  /\ watchdog' = [watchdog EXCEPT !.forcedMin = IF Patient \/ Fires THEN 0 ELSE watchdog.forcedMin + 1,
                                  !.lastTable = rule']

Round ==
  /\ rule' = IF Fires THEN Main ELSE rule
  /\ watchdog' = [forcedMin |-> IF Patient \/ Fires THEN 0 ELSE watchdog.forcedMin + 1,
                  lastTable |-> rule', newLogin |-> FALSE]

\* A minute goes by and the scheduler of the router runs.
Minute ==
  /\ testActive => stretch < Patience
  /\ Round
  /\ forcedAge' = IF forcedAge = Unset THEN Unset ELSE forcedAge + 1
  /\ stretch' = IF testActive THEN stretch + 1 ELSE 0
  /\ strayed' = (strayed \/ (phase \in Measuring /\ rule' # test.table))
  /\ UNCHANGED <<phase, test, ruleOnFallback, routeNotRestored, stopping, budgets>>

-----------------------------------------------------------------------------
RestStep(outcome) ==
  \/ Recover(outcome) \/ RunRestore(outcome) \/ RunTestMikrotik(outcome)
  \/ TickBegins(outcome) \/ IdleCheck(outcome) \/ RebootGateway(outcome)
  \/ RestoreFallback(outcome)

TestStep(outcome) ==
  \/ \E noted, attempted \in BOOLEAN : ForceFails(outcome, noted, attempted)
  \/ ReadRuleEnd(outcome)
  \/ Restore(outcome)
  \/ Stop(outcome)

Next ==
  \/ \E outcome \in Outcomes : RestStep(outcome) \/ TestStep(outcome)
  \/ NotDue \/ NothingToDo
  \/ \E table \in Tables : StartTest(table) \/ FallBack(table)
  \/ Forced \/ NotOpenAnyMore \/ Continue \/ BreakOff
  \/ RequestStop \/ Crash
  \/ \E table \in Tables \cup {Main} : Switch(table)
  \/ Minute

\* The router's clock runs; the phone, if it runs, ticks, reads the rule when that
\* is due, gets on with a test, puts the rule back after it and stops when asked.
Fairness ==
  /\ WF_vars(Minute)
  /\ WF_vars(\E outcome \in Outcomes : TickBegins(outcome))
  /\ WF_vars(NothingToDo)
  /\ SF_vars(\E outcome \in Outcomes : IdleCheck(outcome))
  /\ WF_vars(Forced \/ Continue \/ BreakOff)
  /\ WF_vars(\E outcome \in Outcomes : Restore(outcome) \/ Stop(outcome))

Spec     == Init /\ [][Next]_vars
LiveSpec == Spec /\ Fairness

-----------------------------------------------------------------------------
(* What makes it correct                                                   *)

\* probe-ab.rsc: the router never takes the rule away from a test; while one is
\* measuring, only a person moves it (the counter starts again with each login,
\* and the phone aborts its test in time).
WatchdogSparesTests ==
  [][(phase \in Measuring /\ rule' # rule) => (switches' # switches)]_vars

\* readRuleEnd, ProbeWorker.kt:1106: a result whose last reading found the table
\* of its router was measured through that router to the end, when a person did
\* not move the rule more than once.
HonestEnd == (test.ruleEnd = test.table /\ test.ruleEnd # None) => ~strayed

\* ControlPlane.kt:26: the phone reaches the backend through the cable only with
\* the rule on fallback, so that its own traffic is not charged to a router
\* under test, as long as nobody moves the rule by hand.
EthernetOnlyOnFallback == (switches = 0 /\ ruleOnFallback /\ ~testActive) => rule = Main

\* However a test ends, and even if the phone dies in it for ever, the rule goes
\* back to the fallback table.
RuleReturns == []<>(rule = Main)
=============================================================================
