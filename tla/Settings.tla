------------------------------ MODULE Settings ------------------------------
(***************************************************************************)
(* What a room is started with: cms.toml, the flags that override it, and  *)
(* the configuration they resolve to, if they do.  An operator here that   *)
(* may fail returns the set of its result, empty when it refuses.          *)
(*                                                                         *)
(* Names, addresses and paths are values of their own; an origin is given  *)
(* parsed, or is Malformed: a path, userinfo, no host, another scheme.     *)
(***************************************************************************)
EXTENDS Naturals

CONSTANTS
  Address,        \* what a bind may be
  Loopback,       \* localhost, the names below it and the loopback addresses
  Unspecified,    \* the address of every interface
  LOCALHOST,      \* localhost and its two addresses
  LOCALHOST4,
  LOCALHOST6,
  Malformed,      \* a text that does not parse
  Unstated,       \* a setting that neither the file nor a flag states
  Nowhere,        \* no such source, no such store
  Default,        \* setting -> where it is looked for when it is not stated
  CMS_TOML,       \* the configuration file in the ikigai config home
  text,           \* configuration file -> the settings in it; none if it is unreadable
  SPARQL_SPACE_CEILING,           \* in milliseconds, as is
  DEFAULT_ANONYMOUS_SPARQL_BUDGET

LoopbackSans == {LOCALHOST, LOCALHOST4, LOCALHOST6}

ASSUME SettingsAssumption ==
  /\ LoopbackSans \subseteq Loopback /\ {LOCALHOST4, LOCALHOST6} \subseteq Address
  /\ Unspecified \cap Loopback = {} /\ Unstated \notin Nat
  /\ SPARQL_SPACE_CEILING \in Nat /\ DEFAULT_ANONYMOUS_SPARQL_BUDGET \in 1 .. SPARQL_SPACE_CEILING

Setting == {"page_port", "bind", "rp_origin", "dev_open", "anonymous_sparql_budget_ms", "cert_sans",
            "src_dir", "zotero", "presentations", "keystore_dir", "linkcheck", "tagsuggest"}

\* A start: the file that --config names, the flags, and what is on the disk.
\* A Raw states some of the settings.
Raw(stated) == [s \in Setting |-> IF s \in DOMAIN stated THEN stated[s] ELSE Unstated]

StatedOr(raw, s, otherwise) == IF raw[s] = Unstated THEN otherwise ELSE raw[s]

-------------------------------------------------------------------------------
\* The file to begin with: the one --config names, which must be there; else the one
\* of the config home, if it is there.
config_file(given, there) ==
  IF given # Unstated THEN (IF given \in there THEN text[given] ELSE {})
  ELSE IF CMS_TOML \in there THEN text[CMS_TOML] ELSE {Raw(<<>>)}

\* A flag wins over the file; names for the certificate are added to the file's.  A
\* switch can only be turned on.
apply_flags(raw, flags) ==
  [s \in Setting |->
     IF flags[s] = Unstated THEN raw[s]
     ELSE IF s = "cert_sans" THEN StatedOr(raw, s, {}) \cup flags[s] ELSE flags[s]]

\* A directory that is stated must be there, and so must the default of the sources.
src_dir(raw, there) == {StatedOr(raw, "src_dir", Default["src_dir"])} \cap there

keystore_dir(raw, there) ==
  IF raw["keystore_dir"] = Unstated THEN {Nowhere} ELSE {raw["keystore_dir"]} \cap there

\* What is stated must be there; the default location is probed quietly.
probe_path(raw, s, there) ==
  IF raw[s] # Unstated THEN {raw[s]} \cap there
  ELSE {IF Default[s] \in there THEN Default[s] ELSE Nowhere}

\* An address, and not the name of one.
parse_bind(raw) ==
  LET bind == StatedOr(raw, "bind", LOCALHOST4)
  IN  {IF bind = LOCALHOST THEN LOCALHOST4 ELSE bind} \cap Address

check_anonymous_budget(raw) ==
  LET ms == StatedOr(raw, "anonymous_sparql_budget_ms", DEFAULT_ANONYMOUS_SPARQL_BUDGET)
  IN  {ms} \cap 1 .. SPARQL_SPACE_CEILING

page_port(raw) == StatedOr(raw, "page_port", Default["page_port"])

\* The origin follows the page unless it is stated.
rp_origin(raw) ==
  StatedOr(raw, "rp_origin", [scheme |-> "http", host |-> LOCALHOST, port |-> page_port(raw)])

parse_origin(origin) == {origin} \ {Malformed}

is_loopback_host(host) == host \in Loopback

\* Mutant: dev_open needs a loopback bind alone.
check_reachable_bind(bind, origin, dev_open) ==
  /\ dev_open => is_loopback_host(bind)
  /\ \/ origin.scheme = "https"
     \/ is_loopback_host(origin.host) /\ is_loopback_host(bind)

\* The passkey ceremony needs a secure context, and a room without one a front door
\* nobody else has.
check_reachable(bind, origin, dev_open) ==
  /\ dev_open => /\ is_loopback_host(bind)
                 /\ origin.scheme = "http" /\ is_loopback_host(origin.host)
  /\ \/ origin.scheme = "https"
     \/ is_loopback_host(origin.host) /\ is_loopback_host(bind)

resolve(raw, there) ==
  {c \in [bind : parse_bind(raw), page_port : {page_port(raw)},
          rp_origin : parse_origin(rp_origin(raw)),
          dev_open : {StatedOr(raw, "dev_open", FALSE)},
          anonymous_sparql_budget : check_anonymous_budget(raw),
          src_dir : src_dir(raw, there), zotero : probe_path(raw, "zotero", there),
          presentations : probe_path(raw, "presentations", there),
          keystore : keystore_dir(raw, there),
          extra_cert_sans : {StatedOr(raw, "cert_sans", {})},
          passes : {{s \in {"linkcheck", "tagsuggest"} : StatedOr(raw, s, FALSE)}}] :
     check_reachable(c.bind, c.rp_origin, c.dev_open)}

load(start) ==
  UNION {resolve(apply_flags(raw, start.flags), start.there) :
           raw \in config_file(start.config, start.there)}

-------------------------------------------------------------------------------
(* What follows from a configuration.                                      *)

\* Mutant: the certificate names the bind and not the origin.
cert_sans_bind(cfg) ==
  LoopbackSans \cup cfg.extra_cert_sans \cup ({cfg.bind} \ (Loopback \cup Unspecified))

cert_sans(cfg) ==
  LoopbackSans \cup cfg.extra_cert_sans \cup ({cfg.bind} \ (Loopback \cup Unspecified))
    \cup ({cfg.rp_origin.host} \ Loopback)

\* Where the page dials the wire: at a named host, or at its own.
wire_dial_host(cfg) ==
  IF is_loopback_host(cfg.rp_origin.host) /\ cfg.bind \notin Unspecified THEN cfg.bind
  ELSE cfg.rp_origin.host

\* What a verified passkey is granted.
entitlement(cfg) == {cfg.src_dir} \cup ({cfg.presentations} \ {Nowhere})
===============================================================================
