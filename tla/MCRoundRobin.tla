----------------------------- MODULE MCRoundRobin -----------------------------
EXTENDS RoundRobin, SequencesExt

Request(path) == [path |-> path, method |-> "GET", headers |-> <<>>]

To(version, weight) == [labels |-> [version |-> version], weight |-> weight]

ToAll == [labels |-> <<>>, weight |-> 1]

When(prefix, method, headers) == [prefix |-> prefix, method |-> method, headers |-> headers]

MCRoute(match, split) == [service |-> Service, match |-> match, backends |-> split]

Canary == [x |-> "canary"]

MCRequests ==
    {Request(p) : p \in {<<"/">>, <<"/", "a">>, <<"/", "a", "/">>, <<"/", "a", "b">>,
                         <<"/", "a", "/", "b">>}}
    \cup {[path |-> <<"/", "a">>, method |-> "POST", headers |-> Canary]}

MCRouteTables ==
    { <<>>,
      << MCRoute(When(<<"/">>, Unset, <<>>), <<To("v1", 2), To("v3", 0), To("v2", 1)>>) >>,
      << MCRoute(When(<<"/", "a">>, "POST", Canary), <<To("v2", 1)>>),
         MCRoute(When(<<"/", "a", "/">>, "GET", <<>>), <<ToAll>>),
         MCRoute(When(<<"/", "a">>, Unset, <<>>), <<To("v1", 1)>>) >> }

-----------------------------------------------------------------------------
(* What follows each "/" of a path, up to the next one.                    *)
Segments(path) ==
    LET slash == SetToSortSeq({i \in DOMAIN path : path[i] = "/"}, <)
    IN  [k \in DOMAIN slash |->
            SubSeq(path, slash[k] + 1,
                   IF k = Len(slash) THEN Len(path) ELSE slash[k + 1] - 1)]

(* The meaning of a prefix, by segments.  One that ends in "/" asks for a  *)
(* further segment.                                                        *)
UnderPrefix(path, prefix) ==
    LET wanted == Segments(prefix)
    IN  IF Last(wanted) = <<>> THEN IsStrictPrefix(Front(wanted), Segments(path))
        ELSE IsPrefix(wanted, Segments(path))

(* A path prefix is matched on whole segments: path_has_prefix, which      *)
(* works on characters, says what a comparison of the segments says, with  *)
(* and without a trailing slash.                                           *)
PrefixOnSegments ==
    \A i \in DOMAIN routes, request \in Requests :
        LET prefix == routes[i].match.prefix
        IN  prefix # Unset =>
              (PathHasPrefix(request.path, prefix) <=> UnderPrefix(request.path, prefix))
=============================================================================
