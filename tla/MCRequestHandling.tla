-------------------------- MODULE MCRequestHandling --------------------------
(***************************************************************************)
(* Instances of RequestHandling.  The configurations have a search for      *)
(* "UMS", as the one in resources/renderers, between others it can be       *)
(* combined with; the one route is MediaServerPP's.  Addresses are all the  *)
(* combinations of a few IPs and ports: same IP, same port, both            *)
(* increasing, one increasing while the other decreases.                    *)
(***************************************************************************)
EXTENDS RequestHandling

MCUserAgent == {"UMS", "VLC"}

MCSearch(found) == [has_useragent |-> TRUE, search |-> "valid", matches |-> found, extra |-> "missed"]

\* The first has no useragent and is skipped, whatever else it has.
MCSkipped ==
  <<[has_useragent |-> FALSE, search |-> "absent", matches |-> {"VLC"}, extra |-> "found"],
    MCSearch({"UMS"})>>

\* The second has an extra header found in its own value: any request matches it.
MCAnyRequest ==
  <<MCSearch({"UMS"}),
    [has_useragent |-> TRUE, search |-> "absent", matches |-> {}, extra |-> "found"]>>

\* The second has an expression that does not compile.
MCMalformed(where) ==
  <<MCSearch({"UMS"}),
    [has_useragent |-> TRUE, search |-> IF where = "search" THEN "malformed" ELSE "valid",
     matches |-> {"VLC"}, extra |-> IF where = "extra" THEN "malformed" ELSE "missed"]>>

MCConfiguration == {[renderers |-> MCSkipped, default |-> TRUE]}

MCConfigurations ==
  {[renderers |-> MCSkipped, default |-> d] : d \in BOOLEAN}
    \union {[renderers |-> r, default |-> TRUE] :
              r \in {MCAnyRequest, MCMalformed("search"), MCMalformed("extra")}}

MCRoutes == <<[path |-> <<"/discover", "/fetch">>, includeChildren |-> TRUE]>>

MCPath == {<<"/discover", "/fetch">>, <<"/discover", "/fetch", "/1">>, <<"/description", "/fetch">>}
MCOnePath == {<<"/discover", "/fetch">>}
=============================================================================
