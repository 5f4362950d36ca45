------------------------------- MODULE Serving -------------------------------
(***************************************************************************)
(* The process of a room: how it opens its page and its wire, how the page *)
(* accepts connections, and how it ends and is started again.              *)
(*                                                                         *)
(*   process  where main is; "down" between an exit and the next start.    *)
(*   page     the task that serves the page, beside main.                  *)
(*   dead     the page's listener can accept no more.                      *)
(*   backlog  the clients that wait to be accepted, in their order.        *)
(*   open     those that were, and hold a descriptor each.                 *)
(*   next     the wait after the next exhaustion error.                    *)
(*   asleep   the wait the accept loop is in, 0 for none.                  *)
(***************************************************************************)
EXTENDS Settings, Sequences, FiniteSets

CONSTANTS
  Start,      \* what the supervisor may start the room with
  Client,
  MaxFiles,   \* how many connections have a descriptor
  BACKOFF_FLOOR, BACKOFF_CEILING,   \* in units of the floor
  MaxFaults,  \* how often something outside goes wrong
  Fault       \* what may: "port", "maintenance", "listener", "pressure", "error"

ASSUME ServingAssumption ==
  /\ MaxFiles \in Nat \ {0} /\ MaxFaults \in Nat
  /\ BACKOFF_FLOOR \in Nat \ {0} /\ BACKOFF_CEILING \in Nat /\ BACKOFF_FLOOR <= BACKOFF_CEILING
  /\ Fault \subseteq {"port", "maintenance", "listener", "pressure", "error"}

VARIABLES
  cfg, process, page, dead, backlog, open, next, asleep,
  scheduled,  \* the passes that have a daily job
  pressure,   \* other descriptors take what the connections leave
  faults,     \* how much has gone wrong
  \* history
  streak      \* the exhaustion errors since the last accept, as far as they count

main == <<process, scheduled>>
loop == <<next, asleep, streak>>
vars == <<cfg, main, page, dead, backlog, open, loop, pressure, faults>>

None == 0   \* no episode, no wait

\* Mutant: no ceiling.
Doubled_on(wait) == 2 * wait

Doubled(wait) == IF 2 * wait < BACKOFF_CEILING THEN 2 * wait ELSE BACKOFF_CEILING

TypeOK ==
  /\ process \in {"down", "opening", "passes", "wire", "up"}
  /\ page \in {"none", "binding", "listening", "unbound"}
  /\ dead \in BOOLEAN /\ pressure \in BOOLEAN
  /\ backlog \in Seq(Client) /\ open \subseteq Client
  /\ next \in {None} \cup BACKOFF_FLOOR .. BACKOFF_CEILING
  /\ asleep \in {None} \cup BACKOFF_FLOOR .. BACKOFF_CEILING
  /\ scheduled \subseteq {"linkcheck", "tagsuggest"}
  /\ faults \in 0 .. MaxFaults /\ streak \in 0 .. BACKOFF_CEILING

Init ==
  /\ \E start \in Start : cfg \in load(start)
  /\ process = "down" /\ page = "none" /\ scheduled = {}
  /\ dead = FALSE /\ backlog = <<>> /\ open = {}
  /\ next = None /\ asleep = None /\ streak = 0
  /\ pressure = FALSE /\ faults = 0

Goes(wrong) == wrong \in Fault /\ faults < MaxFaults /\ faults' = faults + 1

-------------------------------------------------------------------------------
(* main.                                                                   *)

\* What a process leaves behind when it ends.
Gone ==
  /\ process' = "down" /\ page' = "none" /\ scheduled' = {}
  /\ dead' = FALSE /\ backlog' = <<>> /\ open' = {}
  /\ next' = None /\ asleep' = None /\ streak' = 0

Launch ==
  /\ process = "down" /\ process' = "opening"
  /\ UNCHANGED <<cfg, page, scheduled, dead, backlog, open, loop, pressure, faults>>

\* The page is a task of its own from here on, and main does not wait for it.
SpawnPage ==
  /\ process = "opening"
  /\ process' = "passes" /\ page' = "binding"
  /\ UNCHANGED <<cfg, scheduled, dead, backlog, open, loop, pressure, faults>>

scheduled_passes == cfg.passes

\* The passes that are on get a daily job each, and run once now.
SchedulePasses ==
  /\ process = "passes"
  /\ process' = "wire" /\ scheduled' = scheduled_passes
  /\ UNCHANGED <<cfg, page, dead, backlog, open, loop, pressure, faults>>

\* A pass was asked for and cannot be built: the room stops, its page open or not.
MaintenanceRefused ==
  /\ process = "passes" /\ cfg.passes # {}
  /\ Goes("maintenance")
  /\ Gone
  /\ UNCHANGED <<cfg, pressure>>

OpenWire ==
  /\ process = "wire" /\ process' = "up"
  /\ UNCHANGED <<cfg, scheduled, page, dead, backlog, open, loop, pressure, faults>>

WireTaken ==
  /\ process = "wire"
  /\ Goes("port")
  /\ Gone
  /\ UNCHANGED <<cfg, pressure>>

-------------------------------------------------------------------------------
(* The page's listener.                                                    *)

BindPage ==
  /\ page = "binding" /\ page' = "listening"
  /\ UNCHANGED <<cfg, main, dead, backlog, open, loop, pressure, faults>>

\* Without its address the page is never served, and the process goes on.
PageTaken ==
  /\ page = "binding" /\ page' = "unbound"
  /\ Goes("port")
  /\ UNCHANGED <<cfg, main, dead, backlog, open, loop, pressure>>

Full == pressure \/ Cardinality(open) >= MaxFiles

Accepting == page = "listening" /\ asleep = None

Fatal    == {"EBADF", "ENOTSOCK", "EINVAL", "EFAULT"}
Exhausts == {"EMFILE", "ENFILE", "ENOBUFS", "ENOMEM"}
Passing  == {"ECONNABORTED", "ECONNRESET", "EINTR", "ETIMEDOUT", "EHOSTUNREACH"}

\* Mutant: a dead listener is retried.
classify_retry(e) == IF e \in Passing THEN "Skip" ELSE "BackOff"

\* Mutant: what is not recognized ends the loop.
classify_strict(e) == IF e \in Passing THEN "Skip" ELSE IF e \in Exhausts THEN "BackOff" ELSE "Fatal"

classify(e) == IF e \in Fatal THEN "Fatal" ELSE IF e \in Passing THEN "Skip" ELSE "BackOff"

\* The errors an accept may meet.  With no descriptor left a dead listener may read
\* as exhausted.
Errors ==
  (IF dead THEN Fatal ELSE {}) \cup (IF Full THEN Exhausts ELSE {})
    \cup (IF backlog # <<>> /\ ~ dead /\ ~ Full THEN Passing ELSE {})

\* Mutant: the next episode goes on where this one was.
succeeded_keeps == next' = next /\ streak' = 0

succeeded == next' = None /\ streak' = 0

\* The wait, and twice that the next time.
failed ==
  LET wait == IF next = None THEN BACKOFF_FLOOR ELSE next
  IN  /\ asleep' = wait /\ next' = Doubled(wait)
      /\ streak' = IF streak < BACKOFF_CEILING THEN streak + 1 ELSE streak

Accept ==
  /\ Accepting /\ ~ dead /\ ~ Full /\ backlog # <<>>
  /\ succeeded
  /\ open' = open \cup {Head(backlog)} /\ backlog' = Tail(backlog)
  /\ UNCHANGED <<cfg, main, page, dead, asleep, pressure, faults>>

\* One connection's problem: it is gone, and the next is taken at once.
Skip ==
  /\ Accepting
  /\ \E e \in Errors : classify(e) = "Skip"
  /\ Goes("error")
  /\ backlog' = Tail(backlog)
  /\ UNCHANGED <<cfg, main, page, dead, open, loop, pressure>>

BackOff ==
  /\ Accepting
  /\ \E e \in Errors : classify(e) = "BackOff"
  /\ failed
  /\ UNCHANGED <<cfg, main, page, dead, backlog, open, pressure, faults>>

\* An error the table does not know.
Unrecognized ==
  /\ Accepting
  /\ Goes("error")
  /\ IF classify("other") = "Fatal" THEN Gone
     ELSE failed /\ UNCHANGED <<main, page, dead, backlog, open>>
  /\ UNCHANGED <<cfg, pressure>>

Wake ==
  /\ asleep # None /\ asleep' = None
  /\ UNCHANGED <<cfg, main, page, dead, backlog, open, next, streak, pressure, faults>>

\* Mutant: the task returns and leaves the process alone.
Ended_returns ==
  /\ Accepting
  /\ \E e \in Errors : classify(e) = "Fatal"
  /\ page' = "unbound" /\ backlog' = <<>>
  /\ UNCHANGED <<cfg, main, dead, open, loop, pressure, faults>>

\* The listener is dead, and the process ends with its page.
Ended ==
  /\ Accepting
  /\ \E e \in Errors : classify(e) = "Fatal"
  /\ Gone
  /\ UNCHANGED <<cfg, pressure, faults>>

\* A connection has been answered, or its client has given up: the descriptor is free.
Done(c) ==
  /\ c \in open /\ open' = open \ {c}
  /\ UNCHANGED <<cfg, main, page, dead, backlog, loop, pressure, faults>>

-------------------------------------------------------------------------------
(* Outside.                                                                *)

Waiting(c) == \E i \in DOMAIN backlog : backlog[i] = c

Connect(c) ==
  /\ page = "listening" /\ ~ Waiting(c) /\ c \notin open
  /\ backlog' = Append(backlog, c)
  /\ UNCHANGED <<cfg, main, page, dead, open, loop, pressure, faults>>

ListenerDies ==
  /\ page = "listening" /\ ~ dead /\ dead' = TRUE
  /\ Goes("listener")
  /\ UNCHANGED <<cfg, main, page, backlog, open, loop, pressure>>

Pressure ==
  /\ ~ pressure /\ pressure' = TRUE
  /\ Goes("pressure")
  /\ UNCHANGED <<cfg, main, page, dead, backlog, open, loop>>

Relief ==
  /\ pressure /\ pressure' = FALSE
  /\ UNCHANGED <<cfg, main, page, dead, backlog, open, loop, faults>>

-------------------------------------------------------------------------------
Main == Launch \/ SpawnPage \/ SchedulePasses \/ MaintenanceRefused \/ OpenWire \/ WireTaken
Bind == BindPage \/ PageTaken
Loop == Accept \/ Skip \/ BackOff \/ Unrecognized \/ Wake \/ Ended

Next ==
  \/ Main \/ Bind \/ Loop
  \/ \E c \in Client : Done(c) \/ Connect(c)
  \/ ListenerDies \/ Pressure \/ Relief

Spec == Init /\ [][Next]_vars

\* The supervisor starts the room again, the runtime runs its tasks, sleeps end, a
\* connection is answered or given up, and what takes the descriptors frees them.
FairSpec ==
  /\ Spec
  /\ WF_vars(Main) /\ WF_vars(Bind) /\ WF_vars(Loop)
  /\ \A c \in Client : WF_vars(Done(c))
  /\ WF_vars(Relief)

-------------------------------------------------------------------------------
(* Properties.                                                             *)

\* The wait doubles from the floor to the ceiling within one episode, skipped errors
\* in between or not, and each episode starts at the floor again (Backoff).
EpisodeWaits ==
  next = (IF streak = 0 THEN None
          ELSE IF BACKOFF_FLOOR * 2 ^ streak < BACKOFF_CEILING THEN BACKOFF_FLOOR * 2 ^ streak
          ELSE BACKOFF_CEILING)

\* A page that listens ends with a dead listener, or when main stops, and with no
\* other error (serve_until_error: only a dead listener ends the loop).
OnlyDeadListenerEnds ==
  [][page = "listening" /\ page' # "listening" => dead \/ process \in {"passes", "wire"}]_vars

\* Whoever waits is accepted, or skipped, or the process ends: nobody waits for ever,
\* out of descriptors or in front of a dead listener (module accept).
NobodyWaitsForEver == \A c \in Client : Waiting(c) ~> ~ Waiting(c)

\* A dead listener is followed by a fresh one, unless the page's address is taken by
\* then (serve_http: "so the supervisor starts a fresh one").
DoorReopens == dead ~> ~ dead /\ page \in {"listening", "unbound"}

\* The page that is opened at its origin dials the wire at a host that the certificate
\* names (cert_sans: the SANs follow the bind), unless the room is on a loopback name
\* or address of its own, which the certificate leaves out.
CertNamesDial ==
  ({cfg.bind, cfg.rp_origin.host} \cap Loopback \subseteq LoopbackSans)
    => wire_dial_host(cfg) \in cert_sans(cfg)
===============================================================================
