------------------------------ MODULE MCLibrary ------------------------------
\* The library crates a sidecar is built from, side by side. They share no state: a
\* behavior is one of the part chosen at its start, and the others rest.
EXTENDS ModelStream, PeerLink, HostCalls, SealedLog

VARIABLE part

vars == <<part, streamVars, linkVars, hostVars, logVars>>
MCContents == {SubSeq(<<"a", "b", "c", "d", "e">>, 1, n) : n \in 0..5}

\* The parts that rest have one initial state.
Rests(p) ==
  /\ p # "calls" => request.kind = "emit" /\ ~request.fields /\ ~request.quiet
                    /\ env = [port |-> "set", bind |-> "set", token |-> "set"]
  /\ p # "file" => name = Absent
  /\ p = "file" => name # Absent

Init ==
  /\ part \in {"stream", "handoff", "proof", "calls", "file", "log"}
  /\ StreamInit /\ LinkInit /\ HostInit /\ LogInit
  /\ Rests(part)

Next ==
  \/ part = "stream" /\ StreamNext /\ UNCHANGED <<part, linkVars, hostVars, logVars>>
  \/ part = "handoff" /\ HandoffNext /\ UNCHANGED <<part, streamVars, hostVars, logVars>>
  \/ part = "proof" /\ ProofNext /\ UNCHANGED <<part, streamVars, hostVars, logVars>>
  \/ part = "calls" /\ HostNext /\ UNCHANGED <<part, streamVars, linkVars, logVars>>
  \/ part = "file" /\ (JobNext \/ KeysRotated) /\ UNCHANGED <<part, streamVars, linkVars, hostVars, recordVars>>
  \/ part = "log" /\ LogNext /\ UNCHANGED <<part, streamVars, linkVars, hostVars>>

Spec == Init /\ [][Next]_vars

\* The parts have their types.
LibraryTypeOK == StreamTypeOK /\ LinkTypeOK /\ HostTypeOK /\ FileTypeOK /\ LogTypeOK
===============================================================================
