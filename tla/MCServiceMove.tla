---------------------------- MODULE MCServiceMove -----------------------------
EXTENDS ServiceMove

Http == [protocol |-> "http", healthPath |-> <<"/", "a">>]

Tcp == [protocol |-> "tcp", healthPath |-> Unset]

BadPath == [protocol |-> "http", healthPath |-> <<"a">>]

MCSpecs == {Http, Tcp, BadPath}

MCRoute(service, weight) ==
    [service |-> service, backends |-> <<[labels |-> <<>>, weight |-> weight]>>,
     match |-> [prefix |-> Unset, method |-> Unset, headers |-> <<>>]]

MCRouteLists == {<<>>, <<MCRoute("web", 1)>>, <<MCRoute("api", 1)>>, <<MCRoute("web", 0)>>}

Entry(name, spec) == [name |-> name, node |-> "n1", spec |-> spec]

MCConfigs ==
    { [version |-> 1, groups |-> <<[name |-> "g1", services |-> <<Entry("web", Http)>>]>>,
       routes |-> <<MCRoute("web", 1)>>],
      [version |-> 1, groups |-> <<[name |-> "g2", services |-> <<Entry("web", Tcp)>>]>>,
       routes |-> <<>>] }

MCSources == {[cluster |-> "A", group |-> "g1", node |-> "n1", name |-> "web"]}

MCTargets == {[cluster |-> c, group |-> "g2", node |-> "n1"] : c \in {"A", "B"}}
=============================================================================
