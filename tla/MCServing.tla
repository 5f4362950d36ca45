------------------------------ MODULE MCServing ------------------------------
(* Values the instances of the process give their constants.                 *)
EXTENDS Serving, TLC

CONSTANTS c1, c2

Addresses == {"127.0.0.1", "127.0.0.2", "::1", "0.0.0.0", "10.0.0.5"}
Trusted   == {"localhost", "127.0.0.1", "127.0.0.2", "::1"}
Defaults  == "src_dir" :> "org" @@ "zotero" :> "library.rdf" @@ "presentations" :> "decks"
               @@ "page_port" :> 8080

\* A scratch room; the file of a room behind a proxy, with both passes on.
Scratch == Raw([keystore_dir |-> "scratch", page_port |-> 8081])
Proxied == Raw([bind |-> "0.0.0.0", linkcheck |-> TRUE, tagsuggest |-> TRUE,
                rp_origin |-> [scheme |-> "https", host |-> "room", port |-> 443]])
Texts   == "scratch.toml" :> {Scratch} @@ "cms.toml" :> {Proxied} @@ "broken.toml" :> {}

Started(config, flags, there) == [config |-> config, flags |-> flags, there |-> there]

\* The home's file as it is, or with any bind and origin; a scratch room, with its
\* keystore and without; a file that does not parse.
Starts ==
  {Started(Unstated, Raw(<<>>), {"org", "decks", "cms.toml"}),
   Started("scratch.toml", Raw([linkcheck |-> TRUE]), {"org", "scratch", "scratch.toml"}),
   Started("scratch.toml", Raw(<<>>), {"org", "scratch.toml"}),
   Started("broken.toml", Raw(<<>>), {"org", "broken.toml"})}
  \cup {Started(Unstated, Raw([bind |-> bind, rp_origin |-> origin]), {"org"}) :
          bind \in Addresses \cup {"localhost", "room"},
          origin \in {[scheme |-> scheme, host |-> host, port |-> 8080] :
                        scheme \in {"http", "https"}, host \in {"localhost", "127.0.0.2", "room"}}}
===============================================================================
