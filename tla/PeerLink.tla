------------------------------- MODULE PeerLink -------------------------------
(***************************************************************************)
(* How a second local process reaches a sidecar over its loopback port     *)
(* (crates/core/sidecar-runtime): the handoff file that a sidecar          *)
(* publishes for its run and withdraws when it stops (handoff.rs), and the *)
(* challenge a caller makes before it sends a shared bearer, with the      *)
(* cache of proofs that spares it (peer_proof.rs).                         *)
(*                                                                         *)
(* Every sidecar uses the same port. While no sidecar listens on it, some  *)
(* other program may, and answers what it is asked.                        *)
(***************************************************************************)
EXTENDS Naturals

CONSTANTS
  MaxRuns,    \* bound: sidecars started, one after the other
  Bearers,    \* the values the shared bearer takes as it is rotated
  Callers,    \* concurrent users of send_with_verified_bearer
  TTL,        \* ProofCache::ttl
  ProbeTime,  \* the timeout of the probe's client
  MaxTime     \* bound: the clock

ASSUME PeerLinkAssumption ==
  /\ MaxRuns \in Nat /\ TTL \in Nat /\ ProbeTime \in Nat /\ MaxTime \in Nat \ {0}
  /\ Bearers # {}

VARIABLES
  procs,      \* [1..MaxRuns -> the sidecar of that run]
  port,       \* who listens: nobody, the sidecar of a run, or another program
  published,  \* the token in the handoff file, 0 when there is none
  client,     \* a user of the handoff: SidecarClient
  exposed,    \* history: the handoff tokens that another program has received
  callers,    \* [Callers -> a call of send_with_verified_bearer]
  cached,     \* ProofCache::entry
  clock

linkVars == <<procs, port, published, client, exposed, callers, cached, clock>>
handoffVars == <<procs, port, published, client, exposed>>
proofVars == <<callers, cached>>

Runs == 1..MaxRuns
Nobody == 0
Other == MaxRuns + 1

\* No proof: for no bearer. The field by is a history: whose bearer answered.
NoEntry == [of |-> "none", at |-> 0, by |-> "none", proven |-> 0]
IdleCall == [pc |-> "idle", of |-> "none", since |-> 0, by |-> "none", proven |-> 0]

LinkInit ==
  /\ procs = [n \in Runs |-> [stage |-> "new", token |-> 0, bearer |-> "none"]]
  /\ port = Nobody /\ published = 0
  /\ client = [pc |-> "idle", token |-> 0]
  /\ exposed = {}
  /\ callers = [c \in Callers |-> IdleCall]
  /\ cached = NoEntry
  /\ clock = 1
-----------------------------------------------------------------------------
(* The sidecar and the other program *)

\* A sidecar starts with the bearer it is given and takes the free port.
SidecarBinds(n) ==
  /\ procs[n].stage = "new" /\ \A m \in 1..(n - 1) : procs[m].stage # "new"
  /\ port = Nobody
  /\ port' = n
  /\ \E b \in Bearers : procs' = [procs EXCEPT ![n].stage = "bound", ![n].bearer = b]
  /\ UNCHANGED <<published, client, exposed, callers, cached, clock>>

\* Mutant: a published token is used again.
Mint_Reused(n) == IF published # 0 THEN published ELSE n

\* The token that publish mints for this run.
Mint(n) == n

\* write_private_file: a private file beside it, synced, renamed over it.
Replaced(token) == published' = token

\* publish
Publish(n) ==
  /\ procs[n].stage = "bound"
  /\ procs' = [procs EXCEPT ![n].stage = "serving", ![n].token = Mint(n)]
  /\ Replaced(Mint(n))
  /\ UNCHANGED <<port, client, exposed, callers, cached, clock>>

\* shutdown_signal: the listener closes, and the handoff is withdrawn after it.
SidecarStops(n) ==
  /\ procs[n].stage = "serving"
  /\ port' = Nobody
  /\ procs' = [procs EXCEPT ![n].stage = "withdrawing"]
  /\ UNCHANGED <<published, client, exposed, callers, cached, clock>>

\* withdraw: the file is read, and removed when it is this run's. A next sidecar
\* may publish between the two.
WithdrawReads(n) ==
  /\ procs[n].stage = "withdrawing"
  /\ procs' = [procs EXCEPT ![n].stage = IF published = procs[n].token THEN "removing" ELSE "gone"]
  /\ UNCHANGED <<port, published, client, exposed, callers, cached, clock>>

WithdrawRemoves(n) ==
  /\ procs[n].stage = "removing"
  /\ published' = 0
  /\ procs' = [procs EXCEPT ![n].stage = "gone"]
  /\ UNCHANGED <<port, client, exposed, callers, cached, clock>>

\* A crash leaves the file.
SidecarCrashes(n) ==
  /\ procs[n].stage \notin {"new", "gone"}
  /\ port' = IF port = n THEN Nobody ELSE port
  /\ procs' = [procs EXCEPT ![n].stage = "gone"]
  /\ UNCHANGED <<published, client, exposed, callers, cached, clock>>

OtherBinds ==
  /\ port = Nobody
  /\ port' = Other
  /\ UNCHANGED <<procs, published, client, exposed, callers, cached, clock>>

OtherLeaves ==
  /\ port = Other
  /\ port' = Nobody
  /\ UNCHANGED <<procs, published, client, exposed, callers, cached, clock>>
-----------------------------------------------------------------------------
(* SidecarClient *)

\* connect: load the handoff; without one there is no client.
HandoffLoaded ==
  /\ client.pc = "idle" /\ published # 0
  /\ client' = [pc |-> "loaded", token |-> published]
  /\ UNCHANGED <<procs, port, published, exposed, callers, cached, clock>>

\* connect: the unauthenticated health probe; whoever listens may answer it.
HandoffProbed ==
  /\ client.pc = "loaded" /\ port # Nobody
  /\ client' = [client EXCEPT !.pc = "connected"]
  /\ UNCHANGED <<procs, port, published, exposed, callers, cached, clock>>

\* No answer, or the caller has done its work.
HandoffEnds ==
  /\ client.pc # "idle"
  /\ client' = [pc |-> "idle", token |-> 0]
  /\ UNCHANGED <<procs, port, published, exposed, callers, cached, clock>>

\* token_ok: an empty expected token accepts nothing.
TokenOk(provided, expected) == expected # 0 /\ provided = expected

\* authorize: the sidecar serves its own handoff token on the handoff routes.
Authorize(n, token) == TokenOk(token, procs[n].token)

\* exchange: what is written to the port reaches whoever listens.
Exchanged(token) == exposed' = IF port = Other THEN exposed \cup {token} ELSE exposed

\* request: the token goes along. A sidecar that does not authorize it
\* refuses, and the caller gives up.
HandoffRequest ==
  /\ client.pc = "connected"
  /\ Exchanged(client.token)
  /\ client' = IF port \in Runs /\ Authorize(port, client.token) THEN client
               ELSE [pc |-> "idle", token |-> 0]
  /\ UNCHANGED <<procs, port, published, callers, cached, clock>>
-----------------------------------------------------------------------------
(* send_with_verified_bearer *)

\* Mutant: an entry never expires.
IsFresh_Forever(b) == cached.of = b

\* ProofCache::is_fresh
IsFresh(b) == cached.of = b /\ clock - cached.at < TTL

\* peer_holds_token: a fresh proof lets the bearer be sent; otherwise a challenge.
CallStarts(c) ==
  /\ callers[c].pc = "idle"
  /\ \E b \in Bearers :
       callers' = [callers EXCEPT ![c] =
         IF IsFresh(b)
         THEN [pc |-> "verified", of |-> b, since |-> clock, by |-> cached.by, proven |-> cached.proven]
         ELSE [IdleCall EXCEPT !.pc = "probing", !.of = b, !.since = clock]]
  /\ UNCHANGED <<handoffVars, cached, clock>>

\* proof: the listener that holds the bearer answers the challenge. No other one can.
ProofGiven(c) ==
  /\ callers[c].pc = "probing" /\ port \in Runs
  /\ procs[port].bearer = callers[c].of
  /\ callers' = [callers EXCEPT ![c].pc = "answered", ![c].by = procs[port].bearer,
                                ![c].proven = clock]
  /\ UNCHANGED <<handoffVars, cached, clock>>

\* probe_client: the challenge is answered within the client's timeout.
InTime(c) == clock - callers[c].since <= ProbeTime

\* ProofCache::remember, stamped with its own time.
Remembered(c) ==
  [of |-> callers[c].of, at |-> clock, by |-> callers[c].by, proven |-> callers[c].proven]

\* probe returns Proven.
ProbeProven(c) ==
  /\ callers[c].pc = "answered" /\ InTime(c)
  /\ cached' = Remembered(c)
  /\ callers' = [callers EXCEPT ![c].pc = "verified", ![c].since = clock]
  /\ UNCHANGED <<handoffVars, clock>>

\* NoProof, WrongProof, Unreachable or the timeout: forget, and nothing is sent.
ProbeFails(c) ==
  /\ callers[c].pc \in {"probing", "answered"}
  /\ cached' = NoEntry
  /\ callers' = [callers EXCEPT ![c] = IdleCall]
  /\ UNCHANGED <<handoffVars, clock>>

\* The request with its bearer goes to whoever listens by then.
BearerSent(c) ==
  /\ callers[c].pc = "verified"
  /\ callers' = [callers EXCEPT ![c] = IdleCall]
  /\ UNCHANGED <<handoffVars, cached, clock>>

Tick ==
  /\ clock < MaxTime
  /\ clock' = clock + 1
  /\ UNCHANGED <<handoffVars, proofVars>>

SidecarNext ==
  \/ \E n \in Runs : \/ SidecarBinds(n) \/ Publish(n) \/ SidecarStops(n) \/ WithdrawReads(n)
                     \/ WithdrawRemoves(n) \/ SidecarCrashes(n)
  \/ OtherBinds \/ OtherLeaves

\* The two kinds of client share nothing but the sidecars and the port, which they
\* only read: each is checked with the sidecars by itself.
HandoffNext == SidecarNext \/ HandoffLoaded \/ HandoffProbed \/ HandoffEnds \/ HandoffRequest

ProofNext ==
  \/ SidecarNext
  \/ \E c \in Callers : \/ CallStarts(c) \/ ProofGiven(c) \/ ProbeProven(c) \/ ProbeFails(c)
                        \/ BearerSent(c)
  \/ Tick
-----------------------------------------------------------------------------
(* Properties *)

\* The link has its types, and only a run that is up listens on the port.
LinkTypeOK ==
  /\ procs \in [Runs -> [stage : {"new", "bound", "serving", "withdrawing", "removing", "gone"},
                         token : 0..MaxRuns, bearer : Bearers \cup {"none"}]]
  /\ port \in 0..Other /\ published \in 0..MaxRuns
  /\ client \in [pc : {"idle", "loaded", "connected"}, token : 0..MaxRuns]
  /\ exposed \subseteq Runs /\ clock \in 1..MaxTime
  /\ \A c \in Callers : callers[c].pc \in {"idle", "probing", "answered", "verified"}
  /\ \A n \in Runs : procs[n].stage \in {"bound", "serving"} <=> port = n

\* handoff.rs: a copied or stale file "carries no usable credential once the sidecar
\* restarts". The probe of the handoff proves nothing, so a token may reach another
\* program on the port; it is then never one that a running sidecar accepts, however
\* starts, stops, crashes and late withdrawals interleave with the client.
ExposedTokenIsDead ==
  \A n \in Runs : procs[n].stage \in {"bound", "serving"} => procs[n].token \notin exposed

\* A bearer is sent only if a listener that held that very bearer has proved it a short
\* time before: at most the probe's timeout, and for a cached proof less than the cache's
\* lifetime on top, since remember counts from the probe's return, not from the proof.
\* It bounds the time for which a proof of the listener that then had the port is relied
\* on; that the listener is still the same one it does not say.
BearerFollowsProof ==
  \A c \in Callers : callers[c].pc = "verified" =>
    /\ callers[c].by = callers[c].of
    /\ LET age == callers[c].since - callers[c].proven
       IN age <= ProbeTime \/ age < TTL + ProbeTime

\* peer_proof.rs: "Only a peer that proved it already holds the token is ever sent the
\* token", and "an unverified listener receives neither the token nor the request". A call
\* that a proof let through finds, when it sends, nobody or a listener with its bearer.
OnlyHoldersAreSent ==
  [][\A c \in Callers :
       callers[c].pc = "verified" /\ callers'[c].pc = "idle" =>
         port = Nobody \/ (port \in Runs /\ procs[port].bearer = callers[c].of)]_linkVars
===============================================================================
