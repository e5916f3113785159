----------------------------- MODULE LibraryProofs -----------------------------
(***************************************************************************)
(* Theorems about the library crates: the handoff and the peer proof       *)
(* (PeerLink), the calls to Core (HostCalls) and the model stream          *)
(* (ModelStream), for any number of runs, callers and bearers, for any     *)
(* timeouts and for responses and chunks of any length; and that what is   *)
(* proved of the parts, sealed files and logs too, holds of the library.   *)
(*                                                                         *)
(* A run checks the two kinds of client of PeerLink one at a time; the     *)
(* theorems are about both at once.                                        *)
(***************************************************************************)
EXTENDS MCLibrary, SealedLogProofs

LinkSpec == LinkInit /\ [][HandoffNext \/ ProofNext]_linkVars
HostSpec == HostInit /\ [][HostNext]_hostVars

-----------------------------------------------------------------------------
(* The handoff *)

Sidecar ==
  [stage : {"new", "bound", "serving", "withdrawing", "removing", "gone"},
   token : 0..MaxRuns, bearer : Bearers \cup {"none"}]

\* A token is its run's from the publication on.
TokensAreRuns ==
  \A n \in Runs : /\ procs[n].token \in {0, n}
                  /\ procs[n].stage \in {"new", "bound"} => procs[n].token = 0

\* Whoever has a token has it from the file, where a run has published it.
WasPublished(token) == token \in Runs /\ procs[token].stage \notin {"new", "bound"}

TokensWerePublished ==
  /\ published # 0 => WasPublished(published)
  /\ client.pc # "idle" => WasPublished(client.token)

\* A token reaches another program only while its run does not have the port.
ExposedAreDead ==
  \A t \in exposed : procs[t].stage \in {"withdrawing", "removing", "gone"}

\* The part of LinkTypeOK that is not about the callers of send_with_verified_bearer.
HandoffTypeOK ==
  /\ procs \in [Runs -> Sidecar]
  /\ port \in 0..Other /\ published \in 0..MaxRuns
  /\ client \in [pc : {"idle", "loaded", "connected"}, token : 0..MaxRuns]
  /\ exposed \subseteq Runs /\ clock \in 1..MaxTime
  /\ \A n \in Runs : procs[n].stage \in {"bound", "serving"} <=> port = n

HandoffInv == HandoffTypeOK /\ TokensAreRuns /\ TokensWerePublished /\ ExposedAreDead

LEMMA HandoffInit == LinkInit => HandoffInv
BY PeerLinkAssumption
DEF LinkInit, HandoffInv, HandoffTypeOK, TokensAreRuns, TokensWerePublished, ExposedAreDead,
    Sidecar, Runs, Nobody, Other

\* A step moves sidecar n on, which takes the port, keeps it or gives it up.
SidecarMoves(n, at, token) ==
  /\ procs' \in [Runs -> Sidecar]
  /\ procs'[n].stage = at /\ procs'[n].token = token
  /\ \A m \in Runs \ {n} : procs'[m] = procs[m]
  /\ UNCHANGED <<client, exposed, clock>>

\* Then its published token stays published and its dead one dead.
LEMMA SidecarMovesInv ==
  ASSUME HandoffInv, NEW n \in Runs,
         NEW at \in {"bound", "serving", "withdrawing", "removing", "gone"},
         NEW token \in {0, n}, SidecarMoves(n, at, token),
         at = "bound" => token = 0 /\ procs[n].stage = "new",
         port' \in 0..Other,
         at \in {"bound", "serving"} => port' = n /\ port \in {Nobody, n},
         at \notin {"bound", "serving"} => port' = IF port = n THEN Nobody ELSE port,
         procs[n].stage \in {"withdrawing", "removing", "gone"} =>
           at \in {"withdrawing", "removing", "gone"},
         published' \in {0, published} \/ (published' = n /\ at = "serving")
  PROVE  HandoffInv'
<1> USE DEF HandoffInv, Runs, Nobody, Other
<1>1. HandoffTypeOK'
  <2>1. procs'[n].stage = at /\ \A m \in Runs \ {n} : procs'[m].stage = procs[m].stage
    BY DEF SidecarMoves
  <2>2. \A m \in Runs : procs'[m].stage \in {"bound", "serving"} <=> port' = m
    BY <2>1, PeerLinkAssumption DEF HandoffTypeOK
  <2>3. published' \in 0..MaxRuns
    BY PeerLinkAssumption DEF HandoffTypeOK
  <2>4. procs' \in [Runs -> Sidecar] /\ UNCHANGED <<client, exposed, clock>>
    BY DEF SidecarMoves
  <2> QED
    BY <2>2, <2>3, <2>4 DEF HandoffTypeOK, Sidecar
<1>2. TokensAreRuns'
  BY DEF TokensAreRuns, SidecarMoves
<1>3. \A t : WasPublished(t) => WasPublished(t)'
  BY DEF WasPublished, SidecarMoves
<1>4. TokensWerePublished'
  BY <1>3 DEF TokensWerePublished, WasPublished, SidecarMoves
<1>5. ExposedAreDead'
  BY DEF ExposedAreDead, SidecarMoves, HandoffTypeOK
<1> QED
  BY <1>1, <1>2, <1>4, <1>5

LEMMA SidecarInv ==
  ASSUME HandoffInv, NEW n \in Runs,
         \/ SidecarBinds(n) \/ Publish(n) \/ SidecarStops(n) \/ WithdrawReads(n)
         \/ WithdrawRemoves(n) \/ SidecarCrashes(n)
  PROVE  HandoffInv'
<1> USE PeerLinkAssumption DEF Runs, Nobody, Other
<1>1. /\ procs \in [Runs -> Sidecar] /\ procs[n].token \in {0, n} /\ port \in 0..Other
      /\ procs[n].stage \in {"new", "bound"} => procs[n].token = 0
      /\ procs[n].stage \in {"bound", "serving"} <=> port = n
  BY DEF HandoffInv, HandoffTypeOK, TokensAreRuns, Sidecar
<1>2. CASE SidecarBinds(n)
  <2>1. PICK b \in Bearers :
          procs' = [procs EXCEPT ![n] = [procs[n] EXCEPT !.stage = "bound", !.bearer = b]]
    BY <1>1, <1>2 DEF SidecarBinds
  <2> DEFINE g == [procs[n] EXCEPT !.stage = "bound", !.bearer = b]
  <2>2. /\ g \in Sidecar /\ g.stage = "bound" /\ g.token = procs[n].token
        /\ procs' = [procs EXCEPT ![n] = g]
    BY <1>1, <2>1 DEF Sidecar
  <2> HIDE DEF g
  <2>3. PICK r \in Sidecar :
          procs' = [procs EXCEPT ![n] = r] /\ r.stage = "bound" /\ r.token = procs[n].token
    BY <2>2
  <2>4. SidecarMoves(n, "bound", procs[n].token)
    BY <1>1, <1>2, <2>3 DEF SidecarBinds, SidecarMoves
  <2>5. procs[n].stage = "new" /\ procs[n].token = 0 /\ port = Nobody /\ port' = n
    BY <1>1, <1>2 DEF SidecarBinds
  <2>6. published' = published
    BY <1>2 DEF SidecarBinds
  <2> QED
    BY <1>1, <2>4, <2>5, <2>6, SidecarMovesInv
<1>3. CASE Publish(n)
  <2>1. SidecarMoves(n, "serving", n)
    BY <1>1, <1>3 DEF Publish, SidecarMoves, Sidecar, Mint, Replaced
  <2> QED
    BY <1>1, <1>3, <2>1, SidecarMovesInv DEF Publish, Mint, Replaced
<1>4. CASE SidecarStops(n)
  <2>1. SidecarMoves(n, "withdrawing", procs[n].token)
    BY <1>1, <1>4 DEF SidecarStops, SidecarMoves, Sidecar
  <2> QED
    BY <1>1, <1>4, <2>1, SidecarMovesInv DEF SidecarStops
<1>5. CASE WithdrawReads(n)
  <2>1. PICK at \in {"removing", "gone"} : procs' = [procs EXCEPT ![n].stage = at]
    BY <1>5 DEF WithdrawReads
  <2>2. SidecarMoves(n, at, procs[n].token)
    BY <1>1, <1>5, <2>1 DEF WithdrawReads, SidecarMoves, Sidecar
  <2> QED
    BY <1>1, <1>5, <2>2, SidecarMovesInv DEF WithdrawReads
<1>6. CASE WithdrawRemoves(n)
  <2>1. SidecarMoves(n, "gone", procs[n].token)
    BY <1>1, <1>6 DEF WithdrawRemoves, SidecarMoves, Sidecar
  <2> QED
    BY <1>1, <1>6, <2>1, SidecarMovesInv DEF WithdrawRemoves
<1>7. CASE SidecarCrashes(n)
  <2>1. SidecarMoves(n, "gone", procs[n].token)
    BY <1>1, <1>7 DEF SidecarCrashes, SidecarMoves, Sidecar
  <2> QED
    BY <1>1, <1>7, <2>1, SidecarMovesInv DEF SidecarCrashes
<1> QED
  BY <1>2, <1>3, <1>4, <1>5, <1>6, <1>7

LEMMA HandoffStep ==
  ASSUME HandoffInv, [HandoffNext \/ ProofNext]_linkVars PROVE HandoffInv'
<1> USE PeerLinkAssumption DEF Runs, Nobody, Other
<1>1. CASE OtherBinds \/ OtherLeaves
  <2>1. /\ UNCHANGED <<procs, published, client, exposed, clock>>
        /\ port \in {Nobody, Other} /\ port' \in {Nobody, Other}
    BY <1>1 DEF OtherBinds, OtherLeaves
  <2>2. HandoffTypeOK'
    BY <2>1 DEF HandoffInv, HandoffTypeOK
  <2> QED
    BY <2>1, <2>2 DEF HandoffInv, TokensAreRuns, TokensWerePublished, WasPublished, ExposedAreDead
<1>2. CASE HandoffLoaded \/ HandoffProbed \/ HandoffEnds
  <2>1. /\ client' \in [pc : {"idle", "loaded", "connected"}, token : 0..MaxRuns]
        /\ client'.pc # "idle" => WasPublished(client'.token)
    BY <1>2 DEF HandoffLoaded, HandoffProbed, HandoffEnds, HandoffInv, HandoffTypeOK,
       TokensWerePublished, WasPublished
  <2>2. UNCHANGED <<procs, port, published, exposed, clock>>
    BY <1>2 DEF HandoffLoaded, HandoffProbed, HandoffEnds
  <2> QED
    BY <2>1, <2>2 DEF HandoffInv, HandoffTypeOK, TokensAreRuns, TokensWerePublished,
       WasPublished, ExposedAreDead
<1>3. CASE HandoffRequest
  <2>1. /\ client.token \in Runs /\ procs[client.token].stage \notin {"new", "bound"}
        /\ exposed' = exposed \/ (port = Other /\ exposed' = exposed \cup {client.token})
    BY <1>3 DEF HandoffRequest, Exchanged, HandoffInv, TokensWerePublished, WasPublished
  <2>2. port = Other => procs[client.token].stage \in {"withdrawing", "removing", "gone"}
    <3>1. PICK t \in Runs : t = client.token
      BY <2>1
    <3>2. procs[t] \in Sidecar /\ (procs[t].stage \in {"bound", "serving"} <=> port = t)
      BY DEF HandoffInv, HandoffTypeOK
    <3> QED
      BY <2>1, <3>1, <3>2 DEF Sidecar
  <2>3. ExposedAreDead' /\ exposed' \subseteq Runs
    BY <1>3, <2>1, <2>2 DEF HandoffRequest, HandoffInv, HandoffTypeOK, ExposedAreDead
  <2>4. client' \in {client, [pc |-> "idle", token |-> 0]}
    BY <1>3 DEF HandoffRequest
  <2> QED
    BY <1>3, <2>3, <2>4 DEF HandoffRequest, HandoffInv, HandoffTypeOK, TokensAreRuns,
       TokensWerePublished, WasPublished
<1>4. ASSUME NEW c \in Callers,
             CallStarts(c) \/ ProofGiven(c) \/ ProbeProven(c) \/ ProbeFails(c) \/ BearerSent(c)
      PROVE  HandoffInv'
  <2>1. UNCHANGED <<handoffVars, clock>>
    BY <1>4 DEF CallStarts, ProofGiven, ProbeProven, ProbeFails, BearerSent
  <2> QED
    BY <2>1 DEF handoffVars, HandoffInv, HandoffTypeOK, TokensAreRuns, TokensWerePublished,
       WasPublished, ExposedAreDead
<1>5. CASE Tick
  BY <1>5 DEF Tick, handoffVars, proofVars, HandoffInv, HandoffTypeOK, TokensAreRuns,
     TokensWerePublished, WasPublished, ExposedAreDead
<1>6. CASE UNCHANGED linkVars
  BY <1>6 DEF linkVars, HandoffInv, HandoffTypeOK, TokensAreRuns, TokensWerePublished, WasPublished,
     ExposedAreDead
<1> QED
  BY <1>1, <1>2, <1>3, <1>4, <1>5, <1>6, SidecarInv DEF HandoffNext, ProofNext, SidecarNext

-----------------------------------------------------------------------------
(* The proof of a peer *)

\* A call, and the time of a proof that another part of a call or of the cache relies on.
Moments == 0..MaxTime
Names == Bearers \cup {"none"}
Call ==
  [pc : {"idle", "probing", "answered", "verified"}, of : Names, since : Moments, by : Names,
   proven : Moments]
Entry == [of : Names, at : Moments, by : Names, proven : Moments]

\* A call that was answered has its own proof, which the probe began before.
CallOK(call) ==
  /\ call.since <= clock
  /\ call.pc = "answered" => call.by = call.of /\ call.since <= call.proven /\ call.proven <= clock
  /\ call.pc = "verified" =>
       /\ call.by = call.of
       /\ LET age == call.since - call.proven IN age <= ProbeTime \/ age < TTL + ProbeTime

\* The cache has the proof of the bearer it names, no older than a probe when it came in.
EntryOK == cached.by = cached.of /\ cached.at <= clock /\ cached.at - cached.proven <= ProbeTime

ProofInv ==
  /\ procs \in [Runs -> Sidecar] /\ port \in 0..Other /\ clock \in 1..MaxTime
  /\ callers \in [Callers -> Call] /\ cached \in Entry
  /\ \A c \in Callers : CallOK(callers[c])
  /\ EntryOK

LEMMA ProofInit == LinkInit => ProofInv
BY PeerLinkAssumption
DEF LinkInit, ProofInv, CallOK, EntryOK, IdleCall, NoEntry, Call, Entry, Moments, Names, Sidecar,
    Runs, Nobody, Other

\* A step of one caller.
LEMMA CallerStep ==
  ASSUME ProofInv, NEW c \in Callers, NEW call \in Call, callers' = [callers EXCEPT ![c] = call],
         UNCHANGED <<procs, port, clock>>, CallOK(call),
         cached' = cached \/ (cached' \in Entry /\ EntryOK')
  PROVE  ProofInv'
<1>1. CallOK(call)'
  BY DEF CallOK
<1>2. \A d \in Callers : CallOK(callers[d])'
  BY <1>1 DEF ProofInv, CallOK
<1> QED
  BY <1>2 DEF ProofInv, EntryOK

LEMMA CallerInv ==
  ASSUME ProofInv, NEW c \in Callers,
         CallStarts(c) \/ ProofGiven(c) \/ ProbeProven(c) \/ ProbeFails(c) \/ BearerSent(c)
  PROVE  ProofInv'
<1> USE PeerLinkAssumption DEF Moments
<1>1. /\ callers[c] \in Call /\ CallOK(callers[c]) /\ cached \in Entry /\ EntryOK
      /\ clock \in 1..MaxTime /\ procs \in [Runs -> Sidecar]
  BY DEF ProofInv
<1>2. IdleCall \in Call /\ CallOK(IdleCall)
  BY <1>1 DEF IdleCall, Call, CallOK, Names
<1>3. UNCHANGED <<procs, port, clock>>
  BY DEF CallStarts, ProofGiven, ProbeProven, ProbeFails, BearerSent, handoffVars
<1>4. clock \in Moments
  BY <1>1
<1>5. CASE CallStarts(c)
  <2>1. PICK b \in Bearers :
          callers' = [callers EXCEPT ![c] =
            IF IsFresh(b)
            THEN [pc |-> "verified", of |-> b, since |-> clock, by |-> cached.by,
                  proven |-> cached.proven]
            ELSE [IdleCall EXCEPT !.pc = "probing", !.of = b, !.since = clock]]
    BY <1>5 DEF CallStarts
  <2>2. PICK call : /\ callers' = [callers EXCEPT ![c] = call]
                    /\ call = IF IsFresh(b)
                              THEN [pc |-> "verified", of |-> b, since |-> clock,
                                    by |-> cached.by, proven |-> cached.proven]
                              ELSE [IdleCall EXCEPT !.pc = "probing", !.of = b, !.since = clock]
    BY <2>1
  <2>3. CASE IsFresh(b)
    <3>1. call = [pc |-> "verified", of |-> b, since |-> clock, by |-> cached.by,
                  proven |-> cached.proven]
      BY <2>2, <2>3
    <3>2. /\ cached.of = b /\ cached.by = b /\ clock - cached.at < TTL
          /\ cached.at - cached.proven <= ProbeTime
          /\ cached.at \in Moments /\ cached.proven \in Moments
      BY <1>1, <2>3 DEF IsFresh, Entry, EntryOK
    <3>3. clock - cached.proven < TTL + ProbeTime
      BY <1>1, <3>2
    <3>4. call \in Call
      BY <1>1, <3>1, <3>2 DEF Call, Names
    <3>5. CallOK(call)
      BY <1>1, <3>1, <3>2, <3>3 DEF CallOK
    <3> QED
      BY <1>3, <1>5, <2>2, <3>4, <3>5, CallerStep DEF CallStarts
  <2>4. CASE ~IsFresh(b)
    <3>1. call = [pc |-> "probing", of |-> b, since |-> clock, by |-> "none", proven |-> 0]
      BY <2>2, <2>4 DEF IdleCall
    <3>2. call \in Call /\ CallOK(call)
      BY <1>1, <3>1 DEF Call, Names, CallOK
    <3> QED
      BY <1>3, <1>5, <2>2, <3>2, CallerStep DEF CallStarts
  <2> QED
    BY <2>3, <2>4
<1>6. CASE ProofGiven(c)
  <2> DEFINE g == [callers[c] EXCEPT !.pc = "answered", !.by = procs[port].bearer, !.proven = clock]
  <2>1. callers' = [callers EXCEPT ![c] = g]
    BY <1>6 DEF ProofGiven, ProofInv
  <2>2. procs[port].bearer = callers[c].of /\ callers[c].of \in Names
    BY <1>1, <1>6 DEF ProofGiven, Call
  <2>3. g \in Call
    BY <1>1, <1>4, <2>2, Zenon DEF Call
  <2>4. /\ g.pc = "answered" /\ g.by = g.of /\ g.since = callers[c].since /\ g.proven = clock
        /\ callers[c].since <= clock
    BY <1>1, <2>2 DEF Call, CallOK
  <2>5. CallOK(g)
    BY <1>1, <2>3, <2>4 DEF CallOK
  <2> HIDE DEF g
  <2> QED
    BY <1>3, <1>6, <2>1, <2>3, <2>5, CallerStep DEF ProofGiven
<1>7. CASE ProbeProven(c)
  <2> DEFINE g == [callers[c] EXCEPT !.pc = "verified", !.since = clock]
  <2>1. callers' = [callers EXCEPT ![c] = g]
    BY <1>7 DEF ProbeProven, ProofInv
  <2>2. /\ callers[c].pc = "answered" /\ clock - callers[c].since <= ProbeTime
        /\ callers[c].by = callers[c].of /\ callers[c].since <= callers[c].proven
        /\ callers[c].proven <= clock
    BY <1>1, <1>7 DEF ProbeProven, InTime, CallOK
  <2>3. clock - callers[c].proven <= ProbeTime
    BY <1>1, <2>2 DEF Call
  <2>4. g \in Call
    BY <1>1, <1>4, Zenon DEF Call
  <2>5. /\ g.pc = "verified" /\ g.by = g.of /\ g.since = clock
        /\ g.proven = callers[c].proven
    BY <1>1, <2>2 DEF Call
  <2>6. CallOK(g)
    BY <1>1, <2>3, <2>5 DEF CallOK
  <2>7. cached' \in Entry /\ EntryOK'
    BY <1>1, <1>3, <1>7, <2>2, <2>3 DEF ProbeProven, Remembered, Entry, EntryOK, Call
  <2> HIDE DEF g
  <2> QED
    BY <1>3, <2>1, <2>4, <2>6, <2>7, CallerStep
<1>8. CASE ProbeFails(c)
  <2>1. cached' \in Entry /\ EntryOK'
    BY <1>1, <1>3, <1>8 DEF ProbeFails, NoEntry, Entry, EntryOK, Names
  <2> QED
    BY <1>2, <1>3, <1>8, <2>1, CallerStep DEF ProbeFails
<1>9. CASE BearerSent(c)
  BY <1>2, <1>3, <1>9, CallerStep DEF BearerSent
<1> QED
  BY <1>5, <1>6, <1>7, <1>8, <1>9

LEMMA ProofStep ==
  ASSUME ProofInv, HandoffInv', [HandoffNext \/ ProofNext]_linkVars PROVE ProofInv'
<1> USE PeerLinkAssumption
<1>1. ASSUME UNCHANGED <<callers, cached>>, procs' \in [Runs -> Sidecar], port' \in 0..Other,
             clock' = clock \/ (clock' = clock + 1 /\ clock < MaxTime)
      PROVE  ProofInv'
  <2>1. clock' \in 1..MaxTime /\ clock <= clock'
    BY <1>1 DEF ProofInv
  <2>2. \A c \in Callers : CallOK(callers[c])'
    <3>1. SUFFICES ASSUME NEW c \in Callers PROVE CallOK(callers[c])'
      OBVIOUS
    <3>2. PICK call \in Call : call = callers[c] /\ call = callers'[c] /\ CallOK(call)
      BY <1>1 DEF ProofInv
    <3>3. CallOK(call)'
      BY <2>1, <3>2 DEF CallOK, ProofInv, Call, Moments
    <3> QED
      BY <3>2, <3>3
  <2>3. EntryOK'
    BY <1>1, <2>1 DEF EntryOK, ProofInv, Entry, Moments
  <2> QED
    BY <1>1, <2>1, <2>2, <2>3 DEF ProofInv
<1>2. ASSUME NEW n \in Runs,
             \/ SidecarBinds(n) \/ Publish(n) \/ SidecarStops(n) \/ WithdrawReads(n)
             \/ WithdrawRemoves(n) \/ SidecarCrashes(n)
      PROVE  ProofInv'
  <2>1. UNCHANGED <<callers, cached, clock>>
    BY <1>2 DEF SidecarBinds, Publish, SidecarStops, WithdrawReads, WithdrawRemoves,
       SidecarCrashes
  <2> QED
    BY <1>1, <2>1 DEF HandoffInv, HandoffTypeOK
<1>3. CASE OtherBinds \/ OtherLeaves
  BY <1>1, <1>3 DEF OtherBinds, OtherLeaves, ProofInv, Nobody, Other
<1>4. CASE HandoffLoaded \/ HandoffProbed \/ HandoffEnds \/ HandoffRequest
  BY <1>1, <1>4 DEF HandoffLoaded, HandoffProbed, HandoffEnds, HandoffRequest, ProofInv
<1>5. CASE Tick
  BY <1>1, <1>5 DEF Tick, handoffVars, proofVars, ProofInv
<1>6. CASE UNCHANGED linkVars
  BY <1>1, <1>6 DEF linkVars, ProofInv
<1> QED
  BY <1>2, <1>3, <1>4, <1>5, <1>6, CallerInv DEF HandoffNext, ProofNext, SidecarNext

LEMMA LinkInvariant == LinkSpec => [](HandoffInv /\ ProofInv)
<1>1. LinkInit => HandoffInv /\ ProofInv
  BY HandoffInit, ProofInit
<1>2. HandoffInv /\ ProofInv /\ [HandoffNext \/ ProofNext]_linkVars => (HandoffInv /\ ProofInv)'
  BY HandoffStep, ProofStep
<1> QED
  BY <1>1, <1>2, PTL DEF LinkSpec

\* LinkTypeOK: only a sidecar that is up listens on the port, under any order of its
\* start, stop and crash and of another program taking the port.
THEOREM LinkTypeInvariant == LinkSpec => []LinkTypeOK
<1>1. HandoffInv /\ ProofInv => LinkTypeOK
  BY DEF HandoffInv, HandoffTypeOK, ProofInv, LinkTypeOK, Sidecar, Call
<1> QED
  BY <1>1, LinkInvariant, PTL

\* ExposedTokenIsDead: publish mints a token for each run and a token leaves the client
\* only for the port that its run has given up, or for its run itself.
THEOREM ExposedTokenIsDeadInvariant == LinkSpec => []ExposedTokenIsDead
<1>1. ASSUME HandoffInv PROVE ExposedTokenIsDead
  <2>1. SUFFICES ASSUME NEW n \in Runs, procs[n].stage \in {"bound", "serving"},
                        procs[n].token \in exposed
                 PROVE  FALSE
    BY DEF ExposedTokenIsDead
  <2>2. procs[n].token = n
    BY <1>1, <2>1 DEF HandoffInv, HandoffTypeOK, TokensAreRuns, Runs
  <2> QED
    BY <1>1, <2>1, <2>2 DEF HandoffInv, ExposedAreDead
<1> QED
  BY <1>1, LinkInvariant, PTL

\* BearerFollowsProof: send_with_verified_bearer, with the cache of proofs that all
\* callers share, relies on a proof for that very bearer no longer than a probe and the
\* lifetime of an entry, for every lifetime, none at all included. That the listener
\* which gave the proof still has the port is not said (see OnlyHoldersAreSent).
THEOREM BearerFollowsProofInvariant == LinkSpec => []BearerFollowsProof
<1>1. ProofInv => BearerFollowsProof
  BY DEF ProofInv, CallOK, BearerFollowsProof
<1> QED
  BY <1>1, LinkInvariant, PTL

-----------------------------------------------------------------------------
(* The calls to Core *)

\* Core hears nothing before the request is sent, and answers what it was asked.
CoreIsAsked ==
  /\ stage \in {"called", "sent"} => core = "none"
  /\ stage \in {"upstream", "answering"} => core # "none"
  /\ stage = "upstream" => request.timed
  /\ core = "declined" => request.kind \in Declines
  /\ outcome \in {"invalid", "notHosted"} => core = "none"
  /\ outcome = "notHosted" => ~Hosted

\* A request that is on its way is valid, and no later than Core and Gateway let it be.
InBudget ==
  request.timed =>
    /\ stage \in {"sent", "upstream", "answering"} => request.timeout \in 1..MaxTimeout
    /\ elapsed - hops <= request.timeout
    /\ hops < Margin

\* What a best-effort wrapper has said.
Warns ==
  IF stage = "over" THEN warned = (outcome \notin {"ok", "notHosted"}) ELSE warned = FALSE

HostInv ==
  /\ HostTypeOK /\ ResultsAreTrue /\ GatewayDecides
  /\ request.timeout \in Nat /\ (request.timed => request.kind = "call")
  /\ CoreIsAsked /\ InBudget /\ Warns

LEMMA HostInitInv ==
  ASSUME HostInit PROVE HostInv
<1>1. /\ request.timeout \in Nat /\ (request.timed => request.kind = "call")
      /\ stage = "called" /\ core = "none" /\ outcome = "none"
      /\ elapsed = 0 /\ hops = 0 /\ warned = FALSE
  BY HostCallsAssumption DEF HostInit, Requests
<1>2. HostTypeOK
  <2>1. elapsed \in 0..MaxWait /\ hops \in 0..elapsed
    BY <1>1, HostCallsAssumption
  <2> QED
    BY <1>1, <2>1 DEF HostTypeOK
<1>3. ResultsAreTrue /\ GatewayDecides /\ CoreIsAsked /\ Warns
  BY <1>1 DEF ResultsAreTrue, GatewayDecides, CoreIsAsked, Warns
<1>4. InBudget
  BY <1>1, HostCallsAssumption DEF InBudget
<1> QED
  BY <1>1, <1>2, <1>3, <1>4 DEF HostInv

LEMMA SendsInv ==
  ASSUME HostInv, NEW kind \in Kinds, Sends(kind) PROVE HostInv'
<1>1. /\ stage = "called" /\ outcome = "none" /\ core = "none"
      /\ request' = request /\ core' = core /\ elapsed' = elapsed /\ hops' = hops
      /\ warned' = warned /\ env' = env
  BY DEF Sends, HostInv, HostTypeOK, CoreIsAsked
<1>2. \/ stage' = "returned" /\ outcome' = "invalid"
      \/ stage' = "returned" /\ outcome' = "notHosted" /\ ~Hosted
      \/ stage' = "sent" /\ outcome' = outcome /\ Valid
  BY DEF Sends, Returns
<1>3. ASSUME Valid, request.timed PROVE request.timeout \in 1..MaxTimeout
  BY <1>3 DEF Valid, ValidCall, HostInv
<1>4. HostTypeOK'
  BY <1>1, <1>2 DEF HostInv, HostTypeOK, Results
<1>5. ResultsAreTrue' /\ GatewayDecides'
  BY <1>1, <1>2 DEF HostInv, HostTypeOK, ResultsAreTrue, GatewayDecides
<1>6. Hosted' = Hosted
  BY <1>1 DEF Hosted, Endpoint, Token
<1>7. CoreIsAsked' /\ Warns'
  BY <1>1, <1>2, <1>6 DEF HostInv, CoreIsAsked, Warns
<1>8. InBudget'
  BY <1>1, <1>2, <1>3 DEF HostInv, InBudget
<1> QED
  BY <1>1, <1>4, <1>5, <1>7, <1>8 DEF HostInv

LEMMA AnswersInv ==
  ASSUME HostInv, NEW kind \in Kinds, NEW readsBody \in BOOLEAN, NEW result \in {"ok", "rejected"},
         Answers(kind, readsBody, result),
         result = "ok" => core \in {"refused", "done"} \/ kind = "report"
  PROVE  HostInv'
<1>1. /\ stage = "answering" /\ outcome = "none" /\ core # "none" /\ request.kind = kind
      /\ request' = request /\ core' = core /\ elapsed' = elapsed /\ hops' = hops
      /\ warned' = warned /\ env' = env /\ stage' = "returned"
  BY DEF Answers, Returns, HostInv, HostTypeOK, CoreIsAsked
<1>2. \/ outcome' \in {"rejected", "transport"}
      \/ outcome' = "ok" /\ (core = "done" \/ (kind = "report" /\ core = "declined"))
  BY <1>1 DEF Answers, Returns, HostInv, HostTypeOK
<1>3. HostTypeOK'
  BY <1>1, <1>2 DEF HostInv, HostTypeOK, Results
<1>4. ResultsAreTrue' /\ GatewayDecides'
  BY <1>1, <1>2 DEF HostInv, ResultsAreTrue, GatewayDecides
<1>5. CoreIsAsked' /\ Warns' /\ InBudget'
  BY <1>1, <1>2 DEF HostInv, CoreIsAsked, Warns, InBudget
<1> QED
  BY <1>1, <1>3, <1>4, <1>5 DEF HostInv

\* Nothing but a late answer of Core itself is left to a call with timeout_ms.
LEMMA BudgetIsKept ==
  ASSUME HostInv, request.timed, stage \in {"sent", "upstream", "answering"}
  PROVE  elapsed < Wait
<1>1. /\ elapsed \in Nat /\ hops \in Nat /\ request.timeout \in Nat /\ Margin \in Nat
      /\ elapsed - hops <= request.timeout /\ hops < Margin
  BY HostCallsAssumption DEF HostInv, HostTypeOK, InBudget
<1> QED
  BY <1>1 DEF Wait

LEMMA HostStep ==
  ASSUME HostInv, [HostNext]_hostVars PROVE HostInv'
<1> USE HostCallsAssumption
<1>1. CASE \/ PublishEvent \/ TryEmit \/ TryReport \/ AuthorizeAgent \/ StatusBody
           \/ CallWithAgentGrant
  BY <1>1, SendsInv
  DEF PublishEvent, TryEmit, TryReport, AuthorizeAgent, StatusBody, CallWithAgentGrant, Kinds
<1>2. CASE CoreActs
  <2>1. /\ stage = "sent" /\ UNCHANGED <<env, request, elapsed, hops, outcome, warned>>
        /\ core' \in {"refused", "done", "declined"}
        /\ core' = "declined" => request.kind \in Declines
        /\ (stage' = "upstream" /\ request.timed) \/ stage' = "answering"
        /\ outcome = "none" /\ ~warned
    BY <1>2 DEF CoreActs, HostInv, HostTypeOK, Warns
  <2>2. HostTypeOK' /\ ResultsAreTrue' /\ GatewayDecides'
    BY <2>1 DEF HostInv, HostTypeOK, ResultsAreTrue, GatewayDecides
  <2>3. CoreIsAsked' /\ Warns' /\ InBudget'
    BY <2>1 DEF HostInv, CoreIsAsked, Warns, InBudget
  <2> QED
    BY <2>1, <2>2, <2>3 DEF HostInv
<1>3. CASE GatewayAnswers
  BY <1>3 DEF GatewayAnswers, HostInv, HostTypeOK, ResultsAreTrue, GatewayDecides, CoreIsAsked,
     Warns, InBudget, Hosted, Endpoint, Token
<1>4. CASE HopTime \/ UpstreamTime
  <2>1. /\ UNCHANGED <<env, request, stage, core, outcome, warned>> /\ request.timed
        /\ elapsed \in 0..MaxWait /\ hops \in 0..elapsed /\ elapsed < MaxWait
        /\ elapsed' = elapsed + 1
        /\ \/ hops' = hops + 1 /\ hops + 1 < Margin
           \/ hops' = hops /\ elapsed - hops < request.timeout
    BY <1>4 DEF HopTime, UpstreamTime, HostInv, HostTypeOK, CoreIsAsked
  <2>2. elapsed' \in 0..MaxWait /\ hops' \in 0..elapsed'
    BY <2>1
  <2>3. HostTypeOK' /\ ResultsAreTrue' /\ GatewayDecides'
    BY <2>1, <2>2 DEF HostInv, HostTypeOK, ResultsAreTrue, GatewayDecides, Hosted, Endpoint, Token
  <2>4. CoreIsAsked' /\ Warns'
    BY <2>1 DEF HostInv, CoreIsAsked, Warns, Hosted, Endpoint, Token
  <2>5. elapsed - hops <= request.timeout /\ hops < Margin /\ request.timeout \in Nat
    BY <2>1 DEF HostInv, InBudget
  <2>6. elapsed' - hops' <= request.timeout /\ hops' < Margin
    BY <2>1, <2>5
  <2>7. InBudget'
    BY <2>1, <2>6 DEF HostInv, InBudget
  <2> QED
    BY <2>1, <2>3, <2>4, <2>7 DEF HostInv
<1>5. CASE CallTimesOut \/ CallLost
  <2>1. /\ stage \in {"sent", "upstream", "answering"} /\ stage' = "returned" /\ ~warned
        /\ UNCHANGED <<env, request, core, elapsed, hops, warned>>
        /\ outcome' = "transport" \/ (outcome' = "timeout" /\ (request.timed => elapsed >= Wait))
    BY <1>5 DEF CallTimesOut, CallLost, Returns, HostInv, Warns
  <2>2. request.timed => outcome' # "timeout"
    <3>1. request.timed => elapsed < Wait
      BY <2>1, BudgetIsKept
    <3>2. elapsed \in Nat /\ Wait \in Nat
      BY DEF HostInv, HostTypeOK, Wait
    <3> QED
      BY <2>1, <3>1, <3>2
  <2>3. HostTypeOK' /\ ResultsAreTrue' /\ GatewayDecides'
    BY <2>1, <2>2 DEF HostInv, HostTypeOK, ResultsAreTrue, GatewayDecides, Results
  <2>4. CoreIsAsked' /\ Warns' /\ InBudget'
    BY <2>1 DEF HostInv, CoreIsAsked, Warns, InBudget
  <2> QED
    BY <2>1, <2>3, <2>4 DEF HostInv
<1>6. CASE \/ PublishAnswered \/ EmitAnswered \/ ReportAnswered \/ AuthorizeAnswered
           \/ StatusAnswered \/ CallAnswered
  <2>1. core = "declined" => request.kind \in {"authorize", "report"}
    BY DEF HostInv, CoreIsAsked, Declines
  <2>2. core \in {"none", "refused", "declined", "done"} /\ (stage = "answering" => core # "none")
    BY DEF HostInv, HostTypeOK, CoreIsAsked
  <2>3. ASSUME NEW kind \in Kinds, NEW reads \in BOOLEAN, Answers(kind, reads, "ok"),
               kind # "authorize"
        PROVE  HostInv'
    BY <2>1, <2>2, <2>3, AnswersInv DEF Answers
  <2>4. CASE AuthorizeAnswered
    <3>1. PICK result \in {"ok", "rejected"} :
            /\ Answers("authorize", TRUE, result)
            /\ result = "ok" => core = "done"
      BY <2>4 DEF AuthorizeAnswered, Allows
    <3> QED
      BY <3>1, AnswersInv DEF Kinds
  <2> QED
    BY <1>6, <2>3, <2>4
    DEF PublishAnswered, EmitAnswered, ReportAnswered, StatusAnswered, CallAnswered, Kinds
<1>7. CASE PublishBestEffort \/ EmitWithHints \/ Report
  <2>1. /\ stage = "returned" /\ stage' = "over" /\ warned' = (outcome \notin {"ok", "notHosted"})
        /\ UNCHANGED <<env, request, core, elapsed, hops, outcome>>
    BY <1>7 DEF PublishBestEffort, EmitWithHints, Report, Swallows
  <2>2. Hosted' = Hosted
    BY <2>1 DEF Hosted, Endpoint, Token
  <2>3. HostTypeOK' /\ GatewayDecides'
    BY <2>1 DEF HostInv, HostTypeOK, GatewayDecides
  <2>4. ResultsAreTrue'
    BY <2>1, <2>2 DEF HostInv, ResultsAreTrue, CoreIsAsked
  <2>5. CoreIsAsked' /\ Warns' /\ InBudget'
    BY <2>1, <2>2 DEF HostInv, CoreIsAsked, Warns, InBudget
  <2> QED
    BY <2>1, <2>3, <2>4, <2>5 DEF HostInv
<1>8. CASE UNCHANGED hostVars
  BY <1>8 DEF hostVars, HostInv, HostTypeOK, ResultsAreTrue, GatewayDecides, CoreIsAsked,
     Warns, InBudget, Hosted, Endpoint, Token
<1> QED
  BY <1>1, <1>2, <1>3, <1>4, <1>5, <1>6, <1>7, <1>8 DEF HostNext

LEMMA HostInvariant == HostSpec => []HostInv
<1>1. HostInit => HostInv
  BY HostInitInv
<1>2. HostInv /\ [HostNext]_hostVars => HostInv'
  BY HostStep
<1> QED
  BY <1>1, <1>2, PTL DEF HostSpec

\* HostTypeOK: a call has an outcome exactly when it has returned.
THEOREM HostTypeInvariant == HostSpec => []HostTypeOK
<1>1. HostInv => HostTypeOK
  BY DEF HostInv
<1> QED
  BY <1>1, HostInvariant, PTL

\* ResultsAreTrue: publish, emit, report, authorize_agent, status and call, and the
\* best-effort wrappers around the first three.
THEOREM ResultsAreTrueInvariant == HostSpec => []ResultsAreTrue
<1>1. HostInv => ResultsAreTrue
  BY DEF HostInv
<1> QED
  BY <1>1, HostInvariant, PTL

\* GatewayDecides: call_with_agent_grant adds a margin that no way to Gateway and back
\* uses up, whatever timeout_ms is.
THEOREM GatewayDecidesInvariant == HostSpec => []GatewayDecides
<1>1. HostInv => GatewayDecides
  BY DEF HostInv
<1> QED
  BY <1>1, HostInvariant, PTL

-----------------------------------------------------------------------------
(* The model stream *)

Items == {"delta", "completed", "failed", "error"}

\* The least of a set of numbers.
LEMMA LeastOfNaturals ==
  ASSUME NEW S \in SUBSET Nat, S # {} PROVE Min(S) \in S /\ \A m \in S : Min(S) <= m
BY LeastOf DEF Min

\* A boundary is at two line breaks, and none when there are none.
LEMMA BoundaryFacts ==
  ASSUME NEW bytes \in Seq(Bytes)
  PROVE  LET n == FindBoundary(bytes) IN
         \/ n = 0 /\ \A i \in 1..(Len(bytes) - 1) : ~(bytes[i] = Break /\ bytes[i + 1] = Break)
         \/ /\ n \in 1..(Len(bytes) - 1) /\ bytes[n] = Break /\ bytes[n + 1] = Break
            /\ \A i \in 1..(n - 1) : ~(bytes[i] = Break /\ bytes[i + 1] = Break)
<1> DEFINE pairs == [i \in 1..(Len(bytes) - 1) |-> <<bytes[i], bytes[i + 1]>>]
           I == {i \in 1..Len(pairs) : pairs[i] = <<Break, Break>>}
<1>1. Len(bytes) \in Nat
  OBVIOUS
<1>2. Len(bytes) >= 1 => Len(pairs) = Len(bytes) - 1
  BY <1>1
<1>3. CASE Len(bytes) = 0
  <2>1. pairs = <<>>
    BY <1>3
  <2>2. 1..Len(pairs) = {}
    <3> HIDE DEF pairs
    <3>1. Len(pairs) = 0
      BY <2>1
    <3> QED
      BY <3>1
  <2>3. I = {}
    BY <2>2
  <2>4. FindBoundary(bytes) = 0
    BY <2>3 DEF FindBoundary, SelectInSeq
  <2> QED
    BY <1>3, <2>4
<1>4. CASE Len(bytes) >= 1
  <2>1. I = {i \in 1..(Len(bytes) - 1) : bytes[i] = Break /\ bytes[i + 1] = Break}
    BY <1>2, <1>4
  <2>2. FindBoundary(bytes) = IF I # {} THEN Min(I) ELSE 0
    BY DEF FindBoundary, SelectInSeq
  <2> HIDE DEF I
  <2>3. CASE I = {}
    BY <2>1, <2>2, <2>3
  <2>4. CASE I # {}
    <3>1. I \in SUBSET Nat
      BY <1>1, <2>1
    <3>2. Min(I) \in I /\ \A m \in I : Min(I) <= m
      BY <2>4, <3>1, LeastOfNaturals
    <3>3. PICK n \in Nat : n = FindBoundary(bytes) /\ n = Min(I)
      BY <2>2, <2>4, <3>1, <3>2
    <3>4. n \in 1..(Len(bytes) - 1) /\ bytes[n] = Break /\ bytes[n + 1] = Break
      BY <2>1, <3>2, <3>3
    <3>5. \A i \in 1..(n - 1) : ~(bytes[i] = Break /\ bytes[i + 1] = Break)
      <4>1. SUFFICES ASSUME NEW i \in 1..(n - 1), bytes[i] = Break, bytes[i + 1] = Break
                     PROVE  FALSE
        OBVIOUS
      <4>2. i \in I /\ i < n
        BY <1>1, <2>1, <3>4, <4>1
      <4> QED
        BY <3>2, <3>3, <4>2
    <3> QED
      BY <3>3, <3>4, <3>5
  <2> QED
    BY <2>3, <2>4
<1> QED
  BY <1>1, <1>3, <1>4

\* A frame becomes one item or none.
LEMMA FrameItems ==
  ASSUME NEW frame
  PROVE  ParseFrame(frame) = <<>> \/ \E x \in Items : ParseFrame(frame) = <<x>>
BY DEF ParseFrame, Items

StreamInv ==
  /\ StreamTypeOK
  /\ phase = "request" => buffer = <<>>

LEMMA StreamInitInv ==
  ASSUME StreamInit PROVE StreamInv
BY EmptySeq DEF StreamInit, StreamInv, StreamTypeOK

\* What a frame adds.
LEMMA FrameParsedFacts ==
  ASSUME StreamInv, FrameParsed
  PROVE  /\ items \in Seq(Items) /\ phase = "framing"
         /\ \/ items' = items /\ phase' = "framing"
            \/ items' = Append(items, "delta") /\ phase' = "framing"
            \/ \E x \in Items \ {"delta"} : items' = Append(items, x) /\ phase' = "ended"
         /\ buffer' \in Seq(Bytes) /\ received' = received
<1>1. PICK frame : /\ items' = items \o ParseFrame(frame)
                   /\ phase' = IF ParseFrame(frame) # <<>> /\ EndsStream(Head(ParseFrame(frame)))
                               THEN "ended" ELSE "framing"
  BY DEF FrameParsed
<1>2. items \in Seq(Items) /\ buffer \in Seq(Bytes) /\ phase = "framing" /\ received' = received
  BY DEF StreamInv, StreamTypeOK, FrameParsed, Items
<1>3. ASSUME ParseFrame(frame) = <<>> PROVE items' = items /\ phase' = "framing"
  BY <1>1, <1>2, <1>3, ConcatEmptySeq
<1>4. ASSUME NEW x \in Items, ParseFrame(frame) = <<x>>
      PROVE  /\ items' = Append(items, x)
             /\ phase' = IF x = "delta" THEN "framing" ELSE "ended"
  <2>1. <<x>> # <<>> /\ Head(<<x>>) = x
    OBVIOUS
  <2>2. EndsStream(x) <=> x # "delta"
    BY DEF EndsStream, Items
  <2>3. Append(items, x) = items \o <<x>>
    BY <1>2, AppendIsConcat
  <2> QED
    BY <1>1, <1>4, <2>1, <2>2, <2>3
<1>5. buffer' \in Seq(Bytes)
  <2>1. PICK n \in 1..(Len(buffer) - 1) : buffer' = SubSeq(buffer, n + 2, Len(buffer))
    BY <1>2, BoundaryFacts DEF FrameParsed, AfterBoundary
  <2>2. \A i \in (n + 2)..Len(buffer) : buffer[i] \in Bytes
    BY <1>2
  <2> QED
    BY <1>2, <2>1, <2>2, SubSeqProperties
<1>6. \/ items' = items /\ phase' = "framing"
      \/ \E x \in Items : /\ items' = Append(items, x)
                          /\ phase' = IF x = "delta" THEN "framing" ELSE "ended"
  <2>1. CASE ParseFrame(frame) = <<>>
    BY <1>3, <2>1
  <2>2. CASE \E x \in Items : ParseFrame(frame) = <<x>>
    BY <1>4, <2>2
  <2> QED
    BY <2>1, <2>2, FrameItems
<1> QED
  BY <1>2, <1>5, <1>6

LEMMA StreamStep ==
  ASSUME StreamInv, [StreamNext]_streamVars PROVE StreamInv'
<1>1. CASE StreamInvalid \/ StreamOpens
  <2>1. UNCHANGED <<received, buffer, items>> /\ buffer = <<>> /\ phase' \in {"refused", "reading"}
    BY <1>1 DEF StreamInvalid, StreamOpens, StreamInv
  <2>2. FindBoundary(buffer) = 0
    <3>1. buffer \in Seq(Bytes) /\ Len(buffer) = 0
      BY <2>1 DEF StreamInv, StreamTypeOK
    <3>2. FindBoundary(buffer) = 0 \/ FindBoundary(buffer) \in 1..(Len(buffer) - 1)
      BY <3>1, BoundaryFacts
    <3> QED
      BY <3>1, <3>2
  <2> QED
    BY <2>1, <2>2 DEF StreamInv, StreamTypeOK
<1>2. CASE ChunkArrives
  <2>1. PICK n \in 1..MaxChunk : \E chunk \in [1..n -> Bytes] :
          received' = received \o chunk /\ buffer' = buffer \o chunk
    BY <1>2 DEF ChunkArrives
  <2>2. PICK chunk \in [1..n -> Bytes] : received' = received \o chunk /\ buffer' = buffer \o chunk
    BY <2>1
  <2>3. n \in Nat /\ chunk \in Seq(Bytes)
    BY ModelStreamAssumption
  <2>4. received' \in Seq(Bytes) /\ buffer' \in Seq(Bytes)
    BY <2>2, <2>3, ConcatProperties DEF StreamInv, StreamTypeOK
  <2>5. phase' = "framing" /\ items' = items
    BY <1>2 DEF ChunkArrives
  <2> QED
    BY <2>4, <2>5 DEF StreamInv, StreamTypeOK
<1>3. CASE ChunkFails \/ ResponseEnds
  <2>1. items' \in Seq({"delta", "completed", "failed", "error"})
    BY <1>3, AppendProperties DEF ChunkFails, ResponseEnds, StreamInv, StreamTypeOK
  <2> QED
    BY <1>3, <2>1 DEF ChunkFails, ResponseEnds, StreamInv, StreamTypeOK
<1>4. CASE FrameParsed
  <2>1. items' \in Seq(Items) /\ phase' \in {"framing", "ended"}
    BY <1>4, FrameParsedFacts, AppendProperties DEF Items
  <2> QED
    BY <1>4, <2>1, FrameParsedFacts DEF StreamInv, StreamTypeOK, Items
<1>5. CASE NoFrameLeft \/ StreamDropped
  BY <1>5 DEF NoFrameLeft, StreamDropped, StreamInv, StreamTypeOK
<1>6. CASE UNCHANGED streamVars
  BY <1>6 DEF streamVars, StreamInv, StreamTypeOK
<1> QED
  BY <1>1, <1>2, <1>3, <1>4, <1>5, <1>6 DEF StreamNext

LEMMA StreamInvariant == StreamSpec => []StreamInv
<1>1. StreamInit => StreamInv
  BY StreamInitInv
<1>2. StreamInv /\ [StreamNext]_streamVars => StreamInv'
  BY StreamStep
<1> QED
  BY <1>1, <1>2, PTL DEF StreamSpec

\* StreamTypeOK: whenever the client waits for a chunk it has taken every whole frame
\* out of its buffer.
THEOREM StreamTypeInvariant == StreamSpec => []StreamTypeOK
<1>1. StreamInv => StreamTypeOK
  BY DEF StreamInv
<1> QED
  BY <1>1, StreamInvariant, PTL

\* ImplementsContract: drive_run is given deltas and then at most one last item, from
\* whatever Core sends and however it is cut into chunks.
THEOREM StreamKeepsContract == StreamSpec => ImplementsContract
<1> DEFINE state == IF phase \in {"ended", "dropped"} THEN phase
                    ELSE IF phase = "refused" THEN "dropped" ELSE "open"
<1>1. StreamInit => Contract!ContractInit
  BY DEF StreamInit, Contract!ContractInit
<1>2. ASSUME StreamInv, [StreamNext]_streamVars
      PROVE  [Contract!ContractNext]_<<items, state>>
  <2>1. CASE StreamInvalid \/ StreamOpens
    BY <1>2, <2>1
    DEF StreamInvalid, StreamOpens, Contract!ContractNext, Contract!Dropped
  <2>2. CASE ChunkArrives \/ NoFrameLeft
    BY <1>2, <2>2 DEF ChunkArrives, NoFrameLeft
  <2>3. CASE ChunkFails \/ ResponseEnds
    BY <1>2, <2>3
    DEF ChunkFails, ResponseEnds, Contract!ContractNext, Contract!Ending, Contract!Endings
  <2>4. CASE FrameParsed
    BY <1>2, <2>4, FrameParsedFacts
    DEF Items, Contract!ContractNext, Contract!Delta, Contract!Deltas, Contract!Ending,
        Contract!Endings
  <2>5. CASE StreamDropped
    BY <1>2, <2>5 DEF StreamDropped, Contract!ContractNext, Contract!Dropped
  <2>6. CASE UNCHANGED streamVars
    BY <2>6 DEF streamVars
  <2> QED
    BY <1>2, <2>1, <2>2, <2>3, <2>4, <2>5, <2>6 DEF StreamNext
<1> QED
  BY <1>1, <1>2, StreamInvariant, PTL
  DEF StreamSpec, ImplementsContract, Contract!ContractSpec

-----------------------------------------------------------------------------
(* A response read byte by byte *)

ReadStep(bytes, g, n) == IF n = 0 THEN NothingRead ELSE ReadByte(g[n - 1], bytes[n])
Reads(bytes, m, g) == g = [n \in 0..m |-> ReadStep(bytes, g, n)]

\* What has been read of the first m bytes is a function; it is defined up to one byte
\* more whenever it is up to m.
LEMMA ReadExists == ASSUME NEW bytes, NEW m \in Nat PROVE \E g : Reads(bytes, m, g)
<1> DEFINE S == {n \in Nat : ~ \E g : Reads(bytes, n, g)}
<1>1. CASE S = {}
  BY <1>1
<1>2. CASE S # {}
  <2>1. S \in SUBSET Nat
    OBVIOUS
  <2>2. PICK n \in S : \A k \in S : n <= k
    <3> HIDE DEF S
    <3> QED
      BY <1>2, <2>1, LeastOf
  <2>3. n \in Nat /\ ~ \E g : Reads(bytes, n, g)
    BY <2>2
  <2>4. CASE n = 0
    <3> DEFINE g == [k \in 0..0 |-> NothingRead]
    <3>1. \A k \in 0..0 : ReadStep(bytes, g, k) = NothingRead
      BY DEF ReadStep
    <3>2. g = [k \in 0..0 |-> ReadStep(bytes, g, k)]
      BY <3>1
    <3> QED
      BY <2>3, <2>4, <3>2 DEF Reads
  <2>5. CASE n # 0
    <3>1. PICK j \in Nat : n = j + 1
      <4>1. n - 1 \in Nat /\ n = (n - 1) + 1
        BY <2>3, <2>5
      <4> QED
        BY <4>1
    <3>2. j \notin S
      BY <2>2, <3>1
    <3>3. PICK f : Reads(bytes, j, f)
      BY <3>2
    <3>4. f = [k \in 0..j |-> ReadStep(bytes, f, k)]
      BY <3>3 DEF Reads
    <3> DEFINE g == [k \in 0..n |-> IF k = n THEN ReadByte(f[j], bytes[n]) ELSE f[k]]
    <3>5. g = [k \in 0..n |-> g[k]]
      OBVIOUS
    <3>6. ASSUME NEW k \in 0..n PROVE g[k] = ReadStep(bytes, g, k)
      <4>1. CASE k = n
        <5>1. g[k] = ReadByte(f[j], bytes[n])
          BY <4>1
        <5>2. n - 1 = j /\ j \in 0..n /\ j # n /\ k # 0
          BY <3>1, <4>1
        <5>3. g[n - 1] = f[j]
          BY <5>2
        <5> HIDE DEF g
        <5> QED
          BY <4>1, <5>1, <5>2, <5>3 DEF ReadStep
      <4>2. CASE k = 0
        <5>1. 0 \in 0..j /\ k # n
          BY <3>1, <4>2
        <5>2. g[k] = f[0]
          BY <4>2, <5>1
        <5>3. f[0] = ReadStep(bytes, f, 0)
          BY <3>4, <5>1
        <5> HIDE DEF g
        <5> QED
          BY <4>2, <5>2, <5>3 DEF ReadStep
      <4>3. CASE k # n /\ k # 0
        <5>1. k \in 0..j /\ k - 1 \in 0..n /\ k - 1 # n /\ k - 1 \in 0..j
          BY <3>1, <4>3
        <5>2. g[k] = f[k] /\ g[k - 1] = f[k - 1]
          BY <4>3, <5>1
        <5>3. f[k] = ReadStep(bytes, f, k)
          BY <3>4, <5>1
        <5> HIDE DEF g
        <5> QED
          BY <4>3, <5>2, <5>3 DEF ReadStep
      <4> QED
        BY <4>1, <4>2, <4>3
    <3> HIDE DEF g
    <3>7. g = [k \in 0..n |-> ReadStep(bytes, g, k)]
      BY <3>5, <3>6, Zenon
    <3> QED
      BY <2>3, <3>7 DEF Reads
  <2> QED
    BY <2>4, <2>5
<1> QED
  BY <1>1, <1>2

\* Each byte takes the reading one step further.
LEMMA ReadFacts ==
  ASSUME NEW bytes, Len(bytes) \in Nat
  PROVE  /\ Reading(bytes)[0] = NothingRead
         /\ \A n \in 1..Len(bytes) : Reading(bytes)[n] = ReadByte(Reading(bytes)[n - 1], bytes[n])
<1> DEFINE read[n \in 0..Len(bytes)] == ReadStep(bytes, read, n)
<1>1. Reading(bytes) = read
  BY Zenon DEF Reading, ReadStep
<1>2. \E g : g = [n \in 0..Len(bytes) |-> ReadStep(bytes, g, n)]
  BY ReadExists DEF Reads
<1>3. read = [n \in 0..Len(bytes) |-> ReadStep(bytes, read, n)]
  BY <1>2, Zenon DEF read
<1> HIDE DEF read
<1>4. \A n \in 0..Len(bytes) : read[n] = ReadStep(bytes, read, n)
  BY <1>3, Zenon
<1>5. 0 \in 0..Len(bytes) /\ \A n \in 1..Len(bytes) : n \in 0..Len(bytes) /\ n # 0
  OBVIOUS
<1> QED
  BY <1>1, <1>4, <1>5 DEF ReadStep

\* A response that grows is read up to its old end as before.
LEMMA ReadAgrees ==
  ASSUME NEW bytes, NEW longer, Len(bytes) \in Nat, Len(longer) \in Nat, Len(bytes) <= Len(longer),
         \A n \in 1..Len(bytes) : longer[n] = bytes[n]
  PROVE  \A n \in 0..Len(bytes) : Reading(longer)[n] = Reading(bytes)[n]
<1> DEFINE S == {n \in 0..Len(bytes) : Reading(longer)[n] # Reading(bytes)[n]}
<1> SUFFICES ASSUME S # {} PROVE FALSE
  OBVIOUS
<1>1. S \in SUBSET Nat
  OBVIOUS
<1>2. PICK n \in S : \A k \in S : n <= k
  <2> HIDE DEF S
  <2> QED
    BY <1>1, LeastOf
<1>3. n \in 0..Len(bytes) /\ Reading(longer)[n] # Reading(bytes)[n]
  BY <1>2
<1>4. Reading(longer)[0] = NothingRead /\ Reading(bytes)[0] = NothingRead
  BY ReadFacts
<1>5. n \in 1..Len(bytes) /\ n - 1 \in 0..Len(bytes) /\ ~(n <= n - 1) /\ n \in 1..Len(longer)
  <2>1. n # 0
    BY <1>3, <1>4
  <2> QED
    BY <1>3, <2>1
<1>6. Reading(longer)[n - 1] = Reading(bytes)[n - 1]
  <2>1. n - 1 \notin S
    BY <1>2, <1>5
  <2> QED
    BY <1>5, <2>1
<1>7. /\ Reading(longer)[n] = ReadByte(Reading(longer)[n - 1], longer[n])
      /\ Reading(bytes)[n] = ReadByte(Reading(bytes)[n - 1], bytes[n])
  BY <1>5, ReadFacts
<1>8. longer[n] = bytes[n]
  BY <1>5
<1> QED
  BY <1>3, <1>6, <1>7, <1>8

\* A piece of one more byte.
LEMMA PieceGrows ==
  ASSUME NEW bytes, NEW p \in Nat, NEW k \in Nat, p <= k
  PROVE  Append(SubSeq(bytes, p + 1, k), bytes[k + 1]) = SubSeq(bytes, p + 1, k + 1)
<1>1. PICK s, t : s = SubSeq(bytes, p + 1, k) /\ t = SubSeq(bytes, p + 1, k + 1)
  OBVIOUS
<1>2. IsSeq(s) /\ Len(s) = k - p /\ \A i \in 1..(k - p) : s[i] = bytes[p + i]
  <2>1. p <= k
    OBVIOUS
  <2>2. /\ IsSeq(SubSeq(bytes, p + 1, k)) /\ Len(SubSeq(bytes, p + 1, k)) = k - p
        /\ \A i \in 1..(k - p) : SubSeq(bytes, p + 1, k)[i] = bytes[p + i]
    BY ONLY <2>1, PartFacts
  <2> QED
    BY <1>1, <2>2
<1>3. IsSeq(t) /\ Len(t) = (k - p) + 1 /\ \A i \in 1..((k - p) + 1) : t[i] = bytes[p + i]
  <2>1. PICK n \in Nat : n = k + 1
    OBVIOUS
  <2>2. p <= n
    BY <2>1
  <2>3. /\ IsSeq(SubSeq(bytes, p + 1, n)) /\ Len(SubSeq(bytes, p + 1, n)) = n - p
        /\ \A i \in 1..(n - p) : SubSeq(bytes, p + 1, n)[i] = bytes[p + i]
    BY ONLY <2>2, PartFacts
  <2>4. n - p = (k - p) + 1
    BY <2>1
  <2> QED
    BY <1>1, <2>1, <2>3, <2>4
<1>4. PICK x, more : x = bytes[k + 1] /\ more = Append(s, x)
  OBVIOUS
<1>5. /\ IsSeq(more) /\ Len(more) = Len(s) + 1
      /\ \A i \in 1..Len(s) : more[i] = s[i]
      /\ more[Len(s) + 1] = x
  <2>1. IsSeq(s)
    BY <1>2
  <2>2. /\ IsSeq(Append(s, x)) /\ Len(Append(s, x)) = Len(s) + 1
        /\ \A i \in 1..Len(s) : Append(s, x)[i] = s[i]
        /\ Append(s, x)[Len(s) + 1] = x
    BY ONLY <2>1, AppendFacts
  <2> QED
    BY <1>4, <2>2
<1>6. Len(more) = Len(t) /\ \A i \in 1..Len(more) : more[i] = t[i]
  <2>1. k - p \in Nat /\ p + ((k - p) + 1) = k + 1
    OBVIOUS
  <2>2. t[(k - p) + 1] = x
    BY <1>3, <1>4, <2>1
  <2> QED
    BY <1>2, <1>3, <1>5, <2>1, <2>2
<1>7. more = t
  BY <1>3, <1>5, <1>6, SameSeq
<1> QED
  BY <1>1, <1>4, <1>7

\* Between position p, where a frame begins, and position q there are no two breaks.
WithoutBreaks(bytes, p, q, before) ==
  /\ Len(bytes) \in Nat /\ p \in Nat /\ q \in p..Len(bytes)
  /\ Reading(bytes)[p] = [frame |-> <<>>, items |-> before]
  /\ \A i \in (p + 1)..(q - 1) : ~(bytes[i] = Break /\ bytes[i + 1] = Break)

\* From an empty frame on, the frame is what was read since, up to the next two breaks.
LEMMA ReadsFrame ==
  ASSUME NEW bytes, NEW p, NEW q, NEW before, WithoutBreaks(bytes, p, q, before)
  PROVE  Reading(bytes)[q] = [frame |-> SubSeq(bytes, p + 1, q), items |-> before]
<1> SUFFICES
      ASSUME Len(bytes) \in Nat, p \in Nat, q \in p..Len(bytes),
             Reading(bytes)[p] = [frame |-> <<>>, items |-> before],
             \A i \in (p + 1)..(q - 1) : ~(bytes[i] = Break /\ bytes[i + 1] = Break)
      PROVE  Reading(bytes)[q] = [frame |-> SubSeq(bytes, p + 1, q), items |-> before]
  BY Zenon DEF WithoutBreaks
<1>1. p \in Nat
  OBVIOUS
<1> DEFINE S == {n \in p..q : Reading(bytes)[n] # [frame |-> SubSeq(bytes, p + 1, n), items |-> before]}
<1> SUFFICES ASSUME S # {} PROVE FALSE
  <2>1. q \in p..q
    OBVIOUS
  <2> QED
    BY <2>1
<1>2. S \in SUBSET Nat
  OBVIOUS
<1>3. PICK n \in S : \A k \in S : n <= k
  <2> HIDE DEF S
  <2> QED
    BY <1>2, LeastOf
<1>4. n \in p..q /\ Reading(bytes)[n] # [frame |-> SubSeq(bytes, p + 1, n), items |-> before]
  BY <1>3
<1>5. n # p
  <2>1. p <= p
    OBVIOUS
  <2>2. IsSeq(SubSeq(bytes, p + 1, p)) /\ Len(SubSeq(bytes, p + 1, p)) = p - p
    BY ONLY <1>1, <2>1, PartFacts
  <2>3. SubSeq(bytes, p + 1, p) = <<>>
    BY <2>2, EmptySeq DEF IsSeq
  <2> QED
    BY <1>4, <2>3
<1>6. PICK k \in p..q : n = k + 1 /\ ~(n <= k) /\ k \in Nat
  <2>1. n - 1 \in p..q /\ n = (n - 1) + 1 /\ ~(n <= n - 1) /\ n - 1 \in Nat
    BY <1>4, <1>5
  <2> QED
    BY <2>1
<1>7. PICK frame : frame = SubSeq(bytes, p + 1, k)
  OBVIOUS
<1>8. Reading(bytes)[k] = [frame |-> frame, items |-> before]
  <2>1. k \notin S
    BY <1>3, <1>6
  <2> QED
    BY <1>6, <1>7, <2>1
<1>9. Reading(bytes)[n] = ReadByte(Reading(bytes)[k], bytes[n])
  <2>1. PICK end \in Nat : end = Len(bytes)
    OBVIOUS
  <2>2. n \in 1..end /\ n - 1 = k
    BY <1>4, <1>6, <2>1
  <2> QED
    BY <2>1, <2>2, ReadFacts
<1>10. ~(bytes[n] = Break /\ frame # <<>> /\ Last(frame) = Break)
  <2> SUFFICES ASSUME bytes[n] = Break, frame # <<>>, Last(frame) = Break PROVE FALSE
    OBVIOUS
  <2>1. p <= k
    BY <1>6
  <2>2. k \in Nat
    BY <1>6
  <2>3. /\ IsSeq(SubSeq(bytes, p + 1, k)) /\ Len(SubSeq(bytes, p + 1, k)) = k - p
        /\ \A i \in 1..(k - p) : SubSeq(bytes, p + 1, k)[i] = bytes[p + i]
    BY ONLY <1>1, <2>1, <2>2, PartFacts
  <2>4. IsSeq(frame) /\ Len(frame) = k - p /\ \A i \in 1..(k - p) : frame[i] = bytes[p + i]
    BY <1>7, <2>3
  <2>5. Len(frame) # 0
    BY <2>4, EmptySeq DEF IsSeq
  <2>6. k - p \in 1..(k - p) /\ p + (k - p) = k /\ k \in (p + 1)..(q - 1)
    BY <1>4, <1>6, <2>4, <2>5
  <2>7. Last(frame) = bytes[k]
    BY <2>4, <2>6 DEF Last
  <2> QED
    BY <1>6, <2>6, <2>7
<1>11. Reading(bytes)[n] = [frame |-> Append(frame, bytes[n]), items |-> before]
  <2>1. PICK acc : acc = Reading(bytes)[k] /\ acc.frame = frame /\ acc.items = before
    BY <1>8
  <2> QED
    BY <1>9, <1>10, <2>1, Zenon DEF ReadByte
<1>12. Append(frame, bytes[n]) = SubSeq(bytes, p + 1, n)
  <2>1. p <= k /\ k \in Nat
    BY <1>6
  <2>2. Append(SubSeq(bytes, p + 1, k), bytes[k + 1]) = SubSeq(bytes, p + 1, k + 1)
    BY ONLY <1>1, <2>1, PieceGrows
  <2> QED
    BY <1>6, <1>7, <2>2
<1> QED
  BY <1>4, <1>11, <1>12

-----------------------------------------------------------------------------
(* Chunks *)

\* The buffer is what was received behind the last whole frame, and the items are what the
\* bytes before it say.
BufferIsRest ==
  \E p \in 0..Len(received) :
    /\ Len(buffer) = Len(received) - p
    /\ \A i \in 1..Len(buffer) : buffer[i] = received[p + i]
    /\ Reading(received)[p] = [frame |-> <<>>, items |-> items]

ReadInv == phase \in {"request", "reading", "framing"} => BufferIsRest

LEMMA ReadInitially == StreamInit => ReadInv
<1> SUFFICES ASSUME StreamInit PROVE BufferIsRest
  BY DEF ReadInv
<1>1. received = <<>> /\ buffer = <<>> /\ items = <<>> /\ Len(<<>>) = 0
  BY EmptySeq DEF StreamInit
<1>2. Reading(received)[0] = [frame |-> <<>>, items |-> <<>>]
  <2>1. Len(received) \in Nat
    BY <1>1
  <2> QED
    BY <2>1, ReadFacts DEF NothingRead
<1>3. 0 \in 0..Len(received) /\ Len(buffer) = Len(received) - 0 /\ \A i \in 1..Len(buffer) : FALSE
  BY <1>1
<1> QED
  BY <1>1, <1>2, <1>3 DEF BufferIsRest

\* A chunk does not change what was read before it.
LEMMA ChunkKeepsRead == StreamTypeOK /\ BufferIsRest /\ ChunkArrives => BufferIsRest'
<1> SUFFICES ASSUME StreamTypeOK, BufferIsRest, ChunkArrives PROVE BufferIsRest'
  OBVIOUS
<1>1. PICK p \in 0..Len(received) :
        /\ Len(buffer) = Len(received) - p
        /\ \A i \in 1..Len(buffer) : buffer[i] = received[p + i]
        /\ Reading(received)[p] = [frame |-> <<>>, items |-> items]
  BY DEF BufferIsRest
<1>2. PICK n \in 1..MaxChunk : \E chunk \in [1..n -> Bytes] :
        received' = received \o chunk /\ buffer' = buffer \o chunk
  BY DEF ChunkArrives
<1>3. PICK chunk \in [1..n -> Bytes] : received' = received \o chunk /\ buffer' = buffer \o chunk
  BY <1>2
<1>4. n \in Nat /\ chunk \in Seq(Bytes) /\ Len(chunk) = n
  BY ModelStreamAssumption
<1>5. received \in Seq(Bytes) /\ buffer \in Seq(Bytes) /\ items' = items
  BY DEF StreamTypeOK, ChunkArrives
<1>6. IsSeq(received) /\ IsSeq(buffer) /\ IsSeq(chunk)
  BY <1>4, <1>5 DEF IsSeq
<1>7. PICK old, new, rest, left : /\ old = received /\ new = received \o chunk
                                  /\ rest = buffer /\ left = buffer \o chunk
  OBVIOUS
<1>8. /\ Len(new) = Len(old) + n /\ \A i \in 1..Len(old) : new[i] = old[i]
      /\ \A i \in 1..n : new[Len(old) + i] = chunk[i]
  BY <1>4, <1>6, <1>7, BehindFacts
<1>9. /\ Len(left) = Len(rest) + n /\ \A i \in 1..Len(rest) : left[i] = rest[i]
      /\ \A i \in 1..n : left[Len(rest) + i] = chunk[i]
  BY <1>4, <1>6, <1>7, BehindFacts
<1>10. Len(old) \in Nat /\ Len(rest) \in Nat
  BY <1>5, <1>7
<1>11. Reading(new)[p] = [frame |-> <<>>, items |-> items]
  <2>1. Len(new) \in Nat /\ Len(old) <= Len(new)
    BY <1>4, <1>8, <1>10
  <2>2. Reading(new)[p] = Reading(old)[p]
    BY <1>7, <1>8, <1>10, <2>1, ReadAgrees
  <2> QED
    BY <1>1, <1>7, <2>2
<1>12. p \in 0..Len(new) /\ Len(left) = Len(new) - p
  BY <1>1, <1>4, <1>7, <1>8, <1>9, <1>10
<1>13. ASSUME NEW i \in 1..Len(left) PROVE left[i] = new[p + i]
  <2>1. CASE i \in 1..Len(rest)
    <3>1. p + i \in 1..Len(old)
      BY <1>1, <1>7, <1>10, <2>1
    <3> QED
      BY <1>1, <1>7, <1>8, <1>9, <2>1, <3>1
  <2>2. CASE i \notin 1..Len(rest)
    <3>1. PICK j \in 1..n : i = Len(rest) + j
      <4>1. i - Len(rest) \in 1..n /\ i = Len(rest) + (i - Len(rest))
        BY <1>4, <1>9, <1>10, <2>2
      <4> QED
        BY <4>1
    <3>2. p + i = Len(old) + j
      BY <1>1, <1>7, <1>10, <3>1
    <3> QED
      BY <1>8, <1>9, <3>1, <3>2
  <2> QED
    BY <2>1, <2>2
<1>14. received' = new /\ buffer' = left
  BY <1>3, <1>7
<1> QED
  BY <1>5, <1>11, <1>12, <1>13, <1>14 DEF BufferIsRest

\* A frame that is taken out of the buffer is the one the reading comes to next.
LEMMA FrameKeepsRead == StreamTypeOK /\ BufferIsRest /\ FrameParsed => BufferIsRest'
<1> SUFFICES ASSUME StreamTypeOK, BufferIsRest, FrameParsed PROVE BufferIsRest'
  OBVIOUS
<1>1. PICK p \in 0..Len(received) :
        /\ Len(buffer) = Len(received) - p
        /\ \A i \in 1..Len(buffer) : buffer[i] = received[p + i]
        /\ Reading(received)[p] = [frame |-> <<>>, items |-> items]
  BY DEF BufferIsRest
<1>2. /\ received \in Seq(Bytes) /\ buffer \in Seq(Bytes) /\ Len(received) \in Nat /\ Len(buffer) \in Nat
      /\ received' = received
  BY DEF StreamTypeOK, FrameParsed
<1>3. PICK b : b = FindBoundary(buffer)
  OBVIOUS
<1>4. /\ b \in 1..(Len(buffer) - 1) /\ buffer[b] = Break /\ buffer[b + 1] = Break
      /\ \A i \in 1..(b - 1) : ~(buffer[i] = Break /\ buffer[i + 1] = Break)
  BY <1>2, <1>3, BoundaryFacts DEF FrameParsed
<1>5. /\ items' = items \o ParseFrame(SubSeq(buffer, 1, b - 1))
      /\ buffer' = SubSeq(buffer, b + 2, Len(buffer))
  BY <1>3 DEF FrameParsed, AfterBoundary
<1>6. PICK q \in Nat, len \in Nat :
        /\ q = p + b /\ len = Len(received) /\ q \in p..len /\ q + 1 \in 1..len
        /\ Len(buffer) = len - p /\ b \in Nat /\ p \in Nat
  <2>1. PICK len \in Nat, space \in Nat : len = Len(received) /\ space = Len(buffer)
    BY <1>2
  <2>2. p \in 0..len /\ space = len - p /\ b \in 1..(space - 1)
    BY <1>1, <1>4, <2>1
  <2>3. /\ p + b \in Nat /\ p + b \in p..len /\ (p + b) + 1 \in 1..len /\ b \in Nat /\ p \in Nat
    BY <2>2
  <2> QED
    BY <2>1, <2>2, <2>3
<1>7. \A i \in (p + 1)..(q - 1) : ~(received[i] = Break /\ received[i + 1] = Break)
  <2> SUFFICES ASSUME NEW i \in (p + 1)..(q - 1) PROVE ~(received[i] = Break /\ received[i + 1] = Break)
    OBVIOUS
  <2>1. PICK j \in 1..(b - 1) : i = p + j
    <3>1. i - p \in 1..(b - 1) /\ i = p + (i - p)
      BY <1>6
    <3> QED
      BY <3>1
  <2>2. j \in 1..Len(buffer) /\ j + 1 \in 1..Len(buffer) /\ i + 1 = p + (j + 1)
    BY <1>4, <1>6, <2>1
  <2>3. buffer[j] = received[i] /\ buffer[j + 1] = received[i + 1]
    BY <1>1, <2>1, <2>2
  <2> QED
    BY <1>4, <2>1, <2>3
<1>8. received[q] = Break /\ received[q + 1] = Break
  <2>1. b \in 1..Len(buffer) /\ b + 1 \in 1..Len(buffer) /\ q + 1 = p + (b + 1)
    BY <1>4, <1>6
  <2>2. buffer[b] = received[p + b] /\ buffer[b + 1] = received[p + (b + 1)]
    BY <1>1, <2>1
  <2> QED
    BY <1>4, <1>6, <2>1, <2>2
<1>9. PICK frame : frame = SubSeq(received, p + 1, q)
  OBVIOUS
<1>10. Reading(received)[q] = [frame |-> frame, items |-> items]
  <2>1. Len(received) \in Nat
    BY <1>2
  <2>2. p \in Nat /\ q \in p..Len(received)
    BY <1>6
  <2>3. Reading(received)[p] = [frame |-> <<>>, items |-> items]
    BY <1>1
  <2>4. WithoutBreaks(received, p, q, items)
    BY <1>7, <2>1, <2>2, <2>3, Zenon DEF WithoutBreaks
  <2> QED
    BY <1>9, <2>4, ReadsFrame
<1>11. IsSeq(frame) /\ Len(frame) = b /\ \A i \in 1..b : frame[i] = received[p + i]
  <2>1. p <= q /\ p \in Nat /\ q \in Nat
    BY <1>6
  <2>2. /\ IsSeq(SubSeq(received, p + 1, q)) /\ Len(SubSeq(received, p + 1, q)) = q - p
        /\ \A i \in 1..(q - p) : SubSeq(received, p + 1, q)[i] = received[p + i]
    BY ONLY <2>1, PartFacts
  <2>3. q - p = b
    BY <1>6
  <2> QED
    BY <1>9, <2>2, <2>3
<1>12. frame # <<>> /\ Last(frame) = Break
  <2>1. b \in 1..b /\ b # 0 /\ Len(<<>>) = 0
    BY <1>4
  <2>2. frame[b] = Break
    BY <1>6, <1>8, <1>11, <2>1
  <2> QED
    BY <1>11, <2>1, <2>2 DEF Last
<1>13. Front(frame) = SubSeq(buffer, 1, b - 1)
  <2>1. PICK zero \in Nat, m \in Nat : zero = 0 /\ m = b - 1 /\ b = m + 1
    BY <1>4
  <2>2. zero <= m
    BY <2>1
  <2>3. /\ IsSeq(SubSeq(frame, zero + 1, m)) /\ Len(SubSeq(frame, zero + 1, m)) = m - zero
        /\ \A i \in 1..(m - zero) : SubSeq(frame, zero + 1, m)[i] = frame[zero + i]
    BY ONLY <2>2, PartFacts
  <2>4. /\ IsSeq(SubSeq(buffer, zero + 1, m)) /\ Len(SubSeq(buffer, zero + 1, m)) = m - zero
        /\ \A i \in 1..(m - zero) : SubSeq(buffer, zero + 1, m)[i] = buffer[zero + i]
    BY ONLY <2>2, PartFacts
  <2>5. \A i \in 1..(m - zero) : frame[zero + i] = buffer[zero + i]
    <3> SUFFICES ASSUME NEW i \in 1..(m - zero) PROVE frame[zero + i] = buffer[zero + i]
      OBVIOUS
    <3>1. zero + i = i /\ i \in 1..b /\ i \in 1..Len(buffer)
      BY <1>4, <1>6, <2>1
    <3>2. frame[i] = received[p + i] /\ buffer[i] = received[p + i]
      BY <1>1, <1>11, <3>1
    <3> QED
      BY <3>1, <3>2
  <2>6. PICK s, t : s = SubSeq(frame, zero + 1, m) /\ t = SubSeq(buffer, zero + 1, m)
    OBVIOUS
  <2>7. s = t
    <3>1. /\ IsSeq(s) /\ IsSeq(t) /\ Len(s) = Len(t)
          /\ \A i \in 1..(m - zero) : s[i] = t[i]
      BY <2>3, <2>4, <2>5, <2>6
    <3>2. Len(s) = m - zero
      BY <2>3, <2>6
    <3> QED
      BY <3>1, <3>2, SameSeq
  <2>8. zero + 1 = 1 /\ Len(frame) - 1 = m
    BY <1>11, <2>1
  <2> QED
    BY <2>1, <2>6, <2>7, <2>8 DEF Front
<1>14. Reading(received)[q + 1] = [frame |-> <<>>, items |-> items']
  <2>1. Reading(received)[q + 1] = ReadByte(Reading(received)[q], received[q + 1])
    <3>1. PICK n \in 1..len : n = q + 1 /\ n - 1 = q
      BY <1>6
    <3>2. n \in 1..Len(received) /\ Len(received) \in Nat
      BY <1>6, <3>1
    <3>3. Reading(received)[n] = ReadByte(Reading(received)[n - 1], received[n])
      BY <3>2, ReadFacts
    <3> QED
      BY <3>1, <3>3
  <2>2. PICK acc : acc = Reading(received)[q] /\ acc.frame = frame /\ acc.items = items
    BY <1>10
  <2>3. ReadByte(acc, received[q + 1]) = [frame |-> <<>>, items |-> items \o ParseFrame(Front(frame))]
    BY <1>8, <1>12, <2>2, Zenon DEF ReadByte
  <2> QED
    BY <1>5, <1>13, <2>1, <2>2, <2>3
<1>15. PICK left : left = buffer'
  OBVIOUS
<1>16. Len(left) = Len(buffer) - (b + 1) /\ \A i \in 1..Len(left) : left[i] = buffer[(b + 1) + i]
  <2>1. PICK m \in Nat, n \in Nat : m = b + 1 /\ n = Len(buffer) /\ m <= n /\ m + 1 = b + 2
    BY <1>2, <1>4
  <2>2. m <= n
    BY <2>1
  <2>3. /\ IsSeq(SubSeq(buffer, m + 1, n)) /\ Len(SubSeq(buffer, m + 1, n)) = n - m
        /\ \A i \in 1..(n - m) : SubSeq(buffer, m + 1, n)[i] = buffer[m + i]
    BY ONLY <2>2, PartFacts
  <2> QED
    BY <1>5, <1>15, <2>1, <2>3
<1>17. /\ q + 1 \in 0..Len(received) /\ Len(left) = Len(received) - (q + 1)
       /\ \A i \in 1..Len(left) : left[i] = received[(q + 1) + i]
  <2>1. q + 1 \in 0..Len(received) /\ Len(left) = Len(received) - (q + 1)
    BY <1>6, <1>16
  <2>2. ASSUME NEW i \in 1..Len(left) PROVE left[i] = received[(q + 1) + i]
    <3>1. PICK j \in 1..Len(buffer) : j = (b + 1) + i /\ p + j = (q + 1) + i
      <4>1. (b + 1) + i \in 1..Len(buffer) /\ p + ((b + 1) + i) = (q + 1) + i
        BY <1>6, <1>16
      <4> QED
        BY <4>1
    <3> QED
      BY <1>1, <1>16, <3>1
  <2> QED
    BY <2>1, <2>2
<1> QED
  BY <1>2, <1>14, <1>15, <1>17 DEF BufferIsRest

LEMMA ReadStepInv == StreamInv /\ ReadInv /\ [StreamNext]_streamVars => ReadInv'
<1> SUFFICES ASSUME StreamInv, ReadInv, [StreamNext]_streamVars PROVE ReadInv'
  OBVIOUS
<1>1. StreamTypeOK
  BY DEF StreamInv
<1>2. CASE StreamInvalid \/ StreamOpens \/ NoFrameLeft \/ StreamDropped
  <2>1. UNCHANGED <<received, buffer, items>> /\ phase \in {"request", "reading", "framing"}
    BY <1>2 DEF StreamInvalid, StreamOpens, NoFrameLeft, StreamDropped
  <2> QED
    BY <2>1 DEF ReadInv, BufferIsRest
<1>3. CASE ChunkArrives
  BY <1>1, <1>3, ChunkKeepsRead DEF ReadInv, ChunkArrives
<1>4. CASE FrameParsed
  BY <1>1, <1>4, FrameKeepsRead DEF ReadInv, FrameParsed
<1>5. CASE ChunkFails \/ ResponseEnds
  BY <1>5 DEF ReadInv, ChunkFails, ResponseEnds
<1>6. CASE UNCHANGED streamVars
  BY <1>6 DEF ReadInv, BufferIsRest, streamVars
<1> QED
  BY <1>2, <1>3, <1>4, <1>5, <1>6 DEF StreamNext

\* ChunksAreInvisible: what the stream has yielded when the client waits for bytes is what
\* the response so far says read byte by byte, for responses and chunks of any length.
THEOREM ChunksAreInvisibleInvariant == StreamSpec => []ChunksAreInvisible
<1>1. StreamInv /\ ReadInv => ChunksAreInvisible
  <2> SUFFICES ASSUME StreamInv, ReadInv, phase = "reading" PROVE items = ItemsOf(received)
    BY DEF ChunksAreInvisible
  <2>1. PICK p \in 0..Len(received) :
          /\ Len(buffer) = Len(received) - p
          /\ \A i \in 1..Len(buffer) : buffer[i] = received[p + i]
          /\ Reading(received)[p] = [frame |-> <<>>, items |-> items]
    BY DEF ReadInv, BufferIsRest
  <2>2. /\ buffer \in Seq(Bytes) /\ Len(received) \in Nat /\ Len(buffer) \in Nat /\ p \in Nat
        /\ FindBoundary(buffer) = 0
    BY DEF StreamInv, StreamTypeOK
  <2>3. \A i \in 1..(Len(buffer) - 1) : ~(buffer[i] = Break /\ buffer[i + 1] = Break)
    BY <2>2, BoundaryFacts
  <2>4. PICK q \in Nat : q = Len(received) /\ q \in p..q /\ p <= q /\ Len(buffer) = q - p
    BY <2>1, <2>2
  <2>5. \A i \in (p + 1)..(q - 1) : ~(received[i] = Break /\ received[i + 1] = Break)
    <3> SUFFICES ASSUME NEW i \in (p + 1)..(q - 1)
                 PROVE  ~(received[i] = Break /\ received[i + 1] = Break)
      OBVIOUS
    <3>1. PICK j \in 1..(Len(buffer) - 1) : i = p + j
      <4>1. i - p \in 1..(Len(buffer) - 1) /\ i = p + (i - p)
        BY <2>2, <2>4
      <4> QED
        BY <4>1
    <3>2. j \in 1..Len(buffer) /\ j + 1 \in 1..Len(buffer) /\ i + 1 = p + (j + 1)
      BY <2>2, <3>1
    <3>3. buffer[j] = received[i] /\ buffer[j + 1] = received[i + 1]
      BY <2>1, <3>1, <3>2
    <3> QED
      BY <2>3, <3>1, <3>3
  <2>6. Reading(received)[q] = [frame |-> SubSeq(received, p + 1, q), items |-> items]
    <3>1. Len(received) \in Nat
      BY <2>2
    <3>2. p \in Nat
      BY <2>2
    <3>3. q \in p..Len(received)
      BY <2>4
    <3>4. Reading(received)[p] = [frame |-> <<>>, items |-> items]
      BY <2>1
    <3>5. WithoutBreaks(received, p, q, items)
      BY <2>5, <3>1, <3>2, <3>3, <3>4, Zenon DEF WithoutBreaks
    <3> QED
      BY <3>5, ReadsFrame
  <2> QED
    BY <2>4, <2>6 DEF ItemsOf
<1>2. StreamInit => ReadInv
  BY ReadInitially
<1>3. StreamInv /\ ReadInv /\ [StreamNext]_streamVars => ReadInv'
  BY ReadStepInv
<1> QED
  BY <1>1, <1>2, <1>3, StreamInvariant, PTL DEF StreamSpec

-----------------------------------------------------------------------------
(* The library *)

\* The log rests while a file is sealed.
LogRests == part = "file" => header = "absent" /\ writer = NoWriter

\* What is proved of the parts holds of the library that a run checks: each of its
\* behaviors is one of the link, one of a call, one of a stream, and one of a log with the
\* file it is compacted to.
THEOREM LibraryHasItsParts == Spec => LinkSpec /\ HostSpec /\ StreamSpec /\ LogSpec
<1>1. Init => LinkInit /\ HostInit /\ StreamInit /\ LogInit
  BY DEF Init
<1>2. ASSUME [Next]_vars
      PROVE  /\ [HandoffNext \/ ProofNext]_linkVars
             /\ [HostNext]_hostVars /\ [StreamNext]_streamVars
  BY <1>2 DEF Next, vars
<1>3. Init => LogRests
  BY DEF Init, LogInit, LogRests
<1>4. LogRests /\ [Next]_vars => LogRests'
  BY DEF LogRests, Next, vars, logVars, recordVars
<1>5. LogRests /\ [Next]_vars => [LogNext]_logVars
  <2> SUFFICES ASSUME LogRests, [Next]_vars PROVE [LogNext]_logVars
    OBVIOUS
  <2>1. CASE part = "file" /\ JobNext /\ UNCHANGED recordVars
    BY <2>1 DEF LogNext
  <2>2. CASE part = "file" /\ KeysRotated /\ UNCHANGED recordVars
    <3>1. ~writer.open /\ header # "unsynced"
      BY <2>2 DEF LogRests, NoWriter
    <3> QED
      BY <2>2, <3>1 DEF LogNext, LogKeysRotated
  <2>3. CASE part = "log" /\ LogNext
    BY <2>3
  <2>4. CASE UNCHANGED logVars
    BY <2>4
  <2> QED
    BY <2>1, <2>2, <2>3, <2>4 DEF Next, vars
<1> QED
  BY <1>1, <1>2, <1>3, <1>4, <1>5, PTL DEF Spec, LinkSpec, HostSpec, StreamSpec, LogSpec

\* Whichever part of the library runs, its state and the state of those that rest have
\* their types.
THEOREM LibraryTypeInvariant == Spec => []LibraryTypeOK
BY LibraryHasItsParts, LinkTypeInvariant, HostTypeInvariant, StreamTypeInvariant,
   LogTypeInvariant, LogHasFile, FileTypeInvariant, PTL DEF LibraryTypeOK
===============================================================================
