---------------------------- MODULE MCHostNetwork ----------------------------
(* The network of the host: the schemes, a routed link, and the ports of one *)
(* bridge. They share no state, so one of them moves while the others are in *)
(* their initial states.                                                     *)
(*                                                                           *)
(* NetworkSchemes: one interface and one prefix. The options have every      *)
(* type, with and without numbers, and identifiers at the end of the range;  *)
(* the updates set each property alone and the limits together.              *)
(* RouterLink: a /24 and an IPv6 /128. BridgePorts: two interfaces.          *)
EXTENDS NetworkSchemes, RouterLink, BridgePorts, TLC

CONSTANTS t1, t2

MCPrefixes == {"net4"}
Plain(t) == [type |-> t, mtu |-> 0, addrs |-> {}, in |-> 0, out |-> 0, id |-> 0]
MCOptions ==
    {Plain("manual"), Plain("bridge"), [Plain("bridge") EXCEPT !.mtu = MinMTU],
     [Plain("bridge") EXCEPT !.mtu = MinMTU - 1],
     [Plain("routed") EXCEPT !.addrs = MCPrefixes, !.in = 1],
     [Plain("vxlan") EXCEPT !.id = 1], [Plain("vlan") EXCEPT !.id = 1], [Plain("vlan") EXCEPT !.id = MaxVLAN]}
NoUpdate == [in |-> Unset, out |-> Unset, mtu |-> Unset, append |-> {}, remove |-> {}, bad |-> FALSE]
Both(i, o) == [NoUpdate EXCEPT !.in = Num(i), !.out = Num(o)]
MCUpdates ==
    {Both(1, 1), Both(0, 1), [NoUpdate EXCEPT !.in = Num(1)],
     [NoUpdate EXCEPT !.mtu = Num(MinMTU - 1)],
     [Both(1, 0) EXCEPT !.append = MCPrefixes], [NoUpdate EXCEPT !.append = MCPrefixes],
     [NoUpdate EXCEPT !.remove = MCPrefixes], [NoUpdate EXCEPT !.append = MCPrefixes, !.bad = TRUE]}

MCAddrs == {"net4", "host6"}
MCWide == {"net4"}
MCRefused == {"host6"}

MCTaps == {t1, t2}
Symmetric == Permutations(MCTaps)

\* Nothing has been asked of the schemes yet: one of their initial states.
SchemesRest == schemeCalls = 0 /\ ~running /\ file.type = "missing"

Init == SchemeInit /\ RouterInit /\ PortInit
Next == \/ RouterInit /\ PortInit   /\ SchemeNext /\ UNCHANGED <<routerVars, portVars>>
        \/ SchemesRest /\ PortInit  /\ RouterNext /\ UNCHANGED <<schemeVars, portVars>>
        \/ SchemesRest /\ RouterInit /\ PortNext   /\ UNCHANGED <<schemeVars, routerVars>>
Spec == Init /\ [][Next]_<<schemeVars, routerVars, portVars>>
=============================================================================
