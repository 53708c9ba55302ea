----------------------------- MODULE MCNetRoute -----------------------------
(* A small Internet for NetRoute: the v4 address a4 is shared by the router  *)
(* and the SIM (CGNAT); r6 and c6 are in the /64 of the router, p6 in the    *)
(* same /48; x6 is a relay; o4 another WiFi, of another operator.            *)
EXTENDS NetRoute, TLC

MCAddresses == {"a4", "o4", "r6", "c6", "p6", "x6"}
MCFamily == [a \in MCAddresses |-> IF a \in {"a4", "o4"} THEN "v4" ELSE "v6"]
MCPool == [a \in MCAddresses |-> CASE a \in {"r6", "c6", "p6"} -> "carrier48"
                                   [] OTHER -> a]
MCLink == [a \in MCAddresses |-> IF a \in {"r6", "c6"} THEN "router64" ELSE a]
MCAsn == [a \in MCAddresses |-> CASE a = "o4" -> 2 [] a = "x6" -> 3
                                  [] a \in {"r6", "c6", "p6"} -> 4 [] OTHER -> 1]
MCRelayAsns == {3}
MCUplinks == {[agent |-> "a4", clients |-> {"a4", "c6"}],
              [agent |-> "r6", clients |-> {"c6", "x6"}]}
MCSimAddresses == {"a4", "p6"}
Symmetry == Permutations(Tests)

MCOtherAddresses == {"o4", "a4", "p6"}
=============================================================================
