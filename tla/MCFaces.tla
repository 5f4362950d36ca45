------------------------------- MODULE MCFaces -------------------------------
(* Values the instances of the faces give their constants.                   *)
EXTENDS Faces, TLC

CONSTANTS r1, c1, s1, p1, t1

Addresses == {"127.0.0.1", "::1", "0.0.0.0"}
Trusted   == {"localhost", "127.0.0.1", "::1"}
Defaults  == "src_dir" :> "org" @@ "zotero" :> "library.rdf" @@ "presentations" :> "decks"
               @@ "page_port" :> 8080
Texts     == [file \in {} |-> {}]

Origin(scheme, host, port) == [scheme |-> scheme, host |-> host, port |-> port]
Https == Origin("https", "room", Unstated)
Lan   == Origin("http", "room", 8080)

\* Every combination of a bind, an origin and dev_open; most of them are refused.
Starts ==
  {[config |-> Unstated, there |-> {"org", "decks"},
    flags |-> Raw([bind |-> bind, rp_origin |-> origin, dev_open |-> open,
                   anonymous_sparql_budget_ms |-> 2])] :
     bind \in {"127.0.0.1", "0.0.0.0"}, origin \in {Unstated, Https, Lan, Malformed},
     open \in {TRUE, Unstated}}

Hosts   == {Unstated} \cup {[host |-> h, port |-> Unstated] : h \in {"localhost", "room", "other"}}
Origins == {Unstated, Https, Origin("http", "other", Unstated)}

Views    == {[kind |-> "view", tag |-> t1, type |-> k] : k \in {Unstated, "book", "bookmark", "shelf"}}
Queries  == {[kind |-> "sparql", budget |-> b, by_reference |-> FALSE] : b \in {Unstated, NotANumber, 1, 3}}
              \cup {[kind |-> "sparql", budget |-> 1, by_reference |-> TRUE]}
Styles   == {[kind |-> "style", sheet |-> s] : s \in {"none", "room", "other"}}
Targets  == Views \cup Queries \cup Styles \cup {[kind |-> "recent"]}

Carries == {{}, {"org", "net"}}
===============================================================================
