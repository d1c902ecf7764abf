---------------------------- MODULE MCProxyManager ----------------------------
(* Configs for model checking ProxyManager. *)
EXTENDS ProxyManager

CONSTANTS g, h, a, b, n1, self, filtered

Inst(group, name, node, port, info) ==
    [group |-> group, name |-> name, node |-> node, port |-> port, info |-> info]

(* Two services with fixed ports; the same with the ports swapped; and a   *)
(* name in two groups whose instances disagree on the port, next to        *)
(* services that the filter leaves out or this node hosts.                 *)
MCConfigs ==
    {<<Inst(g, a, n1, 1, 1), Inst(g, b, n1, 2, 1)>>,
     <<Inst(g, a, n1, 2, 1), Inst(g, b, n1, 1, 2)>>,
     <<Inst(g, a, n1, NoPort, 1), Inst(h, a, self, 1, 1), Inst(h, a, n1, 2, 2),
       Inst(h, b, self, 2, 1), Inst(filtered, b, n1, 2, 1)>>}
=============================================================================
