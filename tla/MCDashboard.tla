---------------------------- MODULE MCDashboard ----------------------------
(* What the dashboard is told of the routers, from three sources that share  *)
(* no state, so a behaviour is of one of them: through which network a       *)
(* measurement went, to which router of the probe a result belongs, and      *)
(* which router is to be rebooted.  The phone starts in the WiFi of the      *)
(* router and d1 is always behind one of the tables; d1 and d3 have the same *)
(* operator.                                                                 *)
EXTENDS MCNetRoute, ProbeConfig, RouterWatch

VARIABLE view   \* the source

Asks(device, table, slot, asn) == [device |-> device, table |-> table, slot |-> slot, asn |-> asn]

MCOperator == [d \in Devices |-> IF d = "d2" THEN 2 ELSE 1]

MCRequests ==
  {[runner |-> "phone", targets |-> <<Asks("d1", "ta", 0, KeepAsn), Asks("d2", "tb", 0, 0)>>],
   [runner |-> "absent", targets |-> <<Asks("d3", "ta", 0, KeepAsn), Asks("d1", "tb", 0, 1)>>],
   [runner |-> "absent", targets |-> <<Asks("d2", "tb", 1, 2), Asks("d1", "ta", 0, KeepAsn)>>]}

MCOldTargets == {<<Asks("d1", "ta", 0, 0), Asks("d2", "tb", 0, 0)>>}

dashboardVars == <<netVars, configVars, watchVars, view>>

DashboardInit == /\ view \in {"network", "configuration", "watch"}
                 /\ NetInit /\ ConfigInit /\ WatchInit
                 /\ place = "router"
                 /\ \/ view = "network"
                    \/ <<uplink, proxy>> = CHOOSE w \in Uplinks \X {"never"} : TRUE
                 /\ \/ view = "configuration" /\ \E t \in Tables : cable[t] = "d1"
                    \/ cable = CHOOSE c \in [Tables -> Devices] : Injective(c)

DashboardNext ==
  /\ \/ view = "network" /\ NetNext /\ UNCHANGED <<configVars, watchVars>>
     \/ view = "configuration" /\ ConfigNext /\ UNCHANGED <<netVars, watchVars>>
     \/ view = "watch" /\ WatchNext /\ UNCHANGED <<netVars, configVars>>
  /\ UNCHANGED view

DashboardSpec == DashboardInit /\ [][DashboardNext]_dashboardVars
=============================================================================
