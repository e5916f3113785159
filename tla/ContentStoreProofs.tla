-------------------------- MODULE ContentStoreProofs --------------------------
(***************************************************************************)
(* Theorems about ContentStore, for any number of keys, processes, columns *)
(* and rows: what the store's record, its rows and its values promise each *)
(* other while processes open, seal, scrub, write and stop.                *)
(***************************************************************************)
EXTENDS ContentStore, FiniteSetTheorems, SequenceTheorems, TLAPS

\* Where a process can be only with a key, and with the record's key in its ring.
OpenedStages ==
  {"vacuum", "scrub", "compact", "reopen", "migrate", "item", "batch", "close", "finish",
   "deferred"}

Stages == OpenedStages \cup {"root", "fill", "pin", "check", "serve", "write", "unhealthy"}

Up(p) == proc[p].pc # "off"

\* A process has its store open under a key.
Working(p) == proc[p].pc \in OpenedStages \/ (proc[p].pc = "serve" /\ ~Keyless(p))

\* Beside a process that holds a key runs no other one that does, and outside Core
\* no other one at all.
OneKeyed ==
  \A p, q \in Procs : p # q /\ Up(p) /\ Up(q) => ~alone /\ (Keyless(p) \/ Keyless(q))

\* How a process has come by its key.
KeyStage(p) ==
  /\ proc[p].pc \in {"root", "fill", "pin"} => alone
  /\ proc[p].pc \in {"fill", "pin"} \cup OpenedStages => proc[p].key \in Keys
  /\ Up(p) /\ proc[p].key \in Keys => proc[p].key \in proc[p].ring
  /\ alone /\ Up(p) /\ proc[p].pc \notin {"root", "fill", "pin"} =>
       proc[p].key = pin /\ proc[p].key \in Keys

\* What a process that works on the store relies on: the record names a key of its
\* ring, the columns before its own are sealed, and what it seals is recorded as owed.
WorkStage(p) ==
  /\ Working(p) => record.kcv \in proc[p].ring
  /\ proc[p].pc \in {"item", "batch", "close"} =>
       proc[p].item > 0 /\ \A i \in Items : i < proc[p].item => item[i].state = "sealed"
  /\ proc[p].pc \in {"batch", "close"} =>
       /\ proc[p].item \in Items /\ item[proc[p].item].state = "sealing"
       /\ record.state = "vacuum_pending"
  /\ proc[p].pc = "close" => item[proc[p].item].cursor = NumRows
  /\ proc[p].pc \in {"finish", "deferred"} \/ (proc[p].pc = "serve" /\ ~Keyless(p)) =>
       \A i \in Items : item[i].state = "sealed"

\* Sealing begins with a record, and a cursor means something only while it goes on.
ItemsFollowRecord ==
  /\ record.kcv = NoKey => \A i \in Items : item[i].state = "none"
  /\ \A i \in Items : item[i].state # "sealing" => item[i].cursor = 0

\* What the cursor has passed, or a finished column holds, is not plaintext.
Passed(c) == item[c[1]].state = "sealed" \/ c[2] <= item[c[1]].cursor
PassedIsSealed == \A c \in Cells \ strays : Passed(c) => cell[c].key # NoKey

\* A value holds the text last written, escaped where it is not sealed.
ValuesKeepText ==
  \A c \in Cells : cell[c].text = IF cell[c].key = NoKey THEN Escape(written[c]) ELSE written[c]

\* The inductive invariant.
StoreInv ==
  /\ TypeOK
  /\ OneKeyed
  /\ \A p \in Procs : KeyStage(p)
  /\ \A p \in Procs : WorkStage(p)
  /\ StandaloneStoreIsPinned
  /\ ItemsFollowRecord
  /\ PassedIsSealed
  /\ ValuesKeepText
  /\ OkMeansScrubbed

-----------------------------------------------------------------------------
(* Processes *)

\* A process that is up has all its columns.
LEMMA UpColumns ==
  ASSUME TypeOK, NEW p \in Procs, Up(p)
  PROVE  proc[p] \in Process
BY DEF TypeOK, Up, Off

\* Replacing one process keeps the others and the type.
LEMMA ProcReplaced ==
  ASSUME TypeOK, NEW p \in Procs, NEW h \in Process \cup {Off}, proc' = [proc EXCEPT ![p] = h]
  PROVE  /\ proc' \in [Procs -> Process \cup {Off}]
         /\ proc'[p] = h
         /\ \A q \in Procs \ {p} : proc'[q] = proc[q]
BY DEF TypeOK

\* What moving on leaves alone.
LEMMA GotoFacts ==
  ASSUME TypeOK, NEW p \in Procs, Up(p), NEW pc \in Stages, Goto(p, pc)
  PROVE  /\ proc' \in [Procs -> Process \cup {Off}]
         /\ proc'[p] = [proc[p] EXCEPT !.pc = pc]
         /\ proc'[p].pc = pc /\ proc'[p].key = proc[p].key /\ proc'[p].ring = proc[p].ring
         /\ proc'[p].item = proc[p].item
         /\ \A q \in Procs \ {p} : proc'[q] = proc[q]
<1>1. proc[p] \in Process
  BY UpColumns
<1>2. proc' = [proc EXCEPT ![p] = [proc[p] EXCEPT !.pc = pc]]
  BY DEF Goto, TypeOK
<1>3. [proc[p] EXCEPT !.pc = pc] \in Process
  BY <1>1 DEF Process, Stages, OpenedStages
<1>4. /\ [proc[p] EXCEPT !.pc = pc].pc = pc /\ [proc[p] EXCEPT !.pc = pc].key = proc[p].key
      /\ [proc[p] EXCEPT !.pc = pc].ring = proc[p].ring
      /\ [proc[p] EXCEPT !.pc = pc].item = proc[p].item
  BY <1>1 DEF Process
<1> QED
  BY <1>2, <1>3, <1>4, ProcReplaced

\* What opening the store for use leaves alone.
LEMMA ServesFacts ==
  ASSUME TypeOK, NEW p \in Procs, Up(p), Serves(p)
  PROVE  /\ proc' \in [Procs -> Process \cup {Off}]
         /\ proc'[p].pc = "serve" /\ proc'[p].key = proc[p].key /\ proc'[p].ring = proc[p].ring
         /\ \A q \in Procs \ {p} : proc'[q] = proc[q]
<1> DEFINE h == [proc[p] EXCEPT !.pc = "serve", !.item = 0, !.retired = FALSE,
                                !.sealed = FALSE, !.unreadable = FALSE]
<1>1. proc[p] \in Process
  BY UpColumns
<1>2. proc' = [proc EXCEPT ![p] = h]
  BY DEF Serves, TypeOK
<1>3. h \in Process
  <2>1. 0 \in 0..(NumItems + 1)
    BY StoreAssumption
  <2> QED
    BY <1>1, <2>1, Zenon DEF Process
<1>4. h.pc = "serve" /\ h.key = proc[p].key /\ h.ring = proc[p].ring
  BY <1>1 DEF Process
<1> HIDE DEF h
<1> QED
  BY <1>2, <1>3, <1>4, ProcReplaced

\* A process that ends leaves a free slot.
LEMMA EndsFacts ==
  ASSUME TypeOK, NEW p \in Procs, Ends(p)
  PROVE  /\ proc' \in [Procs -> Process \cup {Off}]
         /\ proc'[p].pc = "off"
         /\ \A q \in Procs \ {p} : proc'[q] = proc[q]
<1>1. Off \in Process \cup {Off} /\ Off.pc = "off"
  BY DEF Off
<1> QED
  BY <1>1, ProcReplaced DEF Ends

\* What a process begins with.
LEMMA BeginsFacts ==
  ASSUME TypeOK, NEW p \in Procs, NEW pc \in Stages, NEW k \in Keys \cup {NoKey},
         NEW retired \in SUBSET Keys, proc' = [proc EXCEPT ![p] = Begins(pc, k, retired)]
  PROVE  /\ proc' \in [Procs -> Process \cup {Off}]
         /\ proc'[p].pc = pc /\ proc'[p].key = k /\ (k \in Keys => k \in proc'[p].ring)
         /\ \A q \in Procs \ {p} : proc'[q] = proc[q]
<1>1. Begins(pc, k, retired) \in Process
  BY StoreAssumption DEF Begins, Process, Stages, OpenedStages
<1>2. /\ Begins(pc, k, retired).pc = pc /\ Begins(pc, k, retired).key = k
      /\ k \in Keys => k \in Begins(pc, k, retired).ring
  BY DEF Begins
<1> QED
  BY <1>1, <1>2, ProcReplaced

-----------------------------------------------------------------------------
(* Steps of one process and the others *)

\* What a step of p keeps of the invariant for the others, when it touches the record,
\* the columns and the pin only under a key.
LEMMA OthersKeep ==
  ASSUME StoreInv, NEW p \in Procs, alone' = alone,
         \A q \in Procs \ {p} : proc'[q] = proc[q],
         UNCHANGED <<record, item, pin>> \/ (Up(p) /\ proc[p].key \in Keys)
  PROVE  \A q \in Procs \ {p} : KeyStage(q)' /\ WorkStage(q)'
<1> SUFFICES ASSUME NEW q \in Procs \ {p}
             PROVE  KeyStage(q)' /\ WorkStage(q)'
  OBVIOUS
<1>1. q \in Procs /\ q # p /\ proc'[q] = proc[q] /\ KeyStage(q) /\ WorkStage(q)
  BY DEF StoreInv
<1>2. CASE UNCHANGED <<record, item, pin>>
  BY <1>1, <1>2 DEF KeyStage, WorkStage, Working, Keyless, Up
<1>3. CASE Up(p) /\ proc[p].key \in Keys /\ Up(q)
  <2>1. ~alone /\ proc[q].key = NoKey
    BY <1>1, <1>3, StoreAssumption DEF StoreInv, OneKeyed, Keyless
  <2>2. KeyStage(q)'
    BY <1>1, <2>1 DEF KeyStage, Up
  <2>3. proc[q].pc \notin OpenedStages
    BY <1>1, <2>1, StoreAssumption DEF KeyStage
  <2>4. WorkStage(q)'
    BY <1>1, <2>1, <2>3 DEF WorkStage, Working, Keyless, OpenedStages
  <2> QED
    BY <2>2, <2>4
<1>4. CASE ~Up(q)
  BY <1>1, <1>4 DEF KeyStage, WorkStage, Working, Keyless, Up, OpenedStages
<1> QED
  BY <1>2, <1>3, <1>4

\* A process that stays up under its key, or goes, keeps the others apart from it.
LEMMA OneKeyedKept ==
  ASSUME StoreInv, NEW p \in Procs, alone' = alone,
         \A q \in Procs \ {p} : proc'[q] = proc[q],
         proc'[p].pc = "off" \/ (Up(p) /\ (proc'[p].key = proc[p].key \/ alone))
  PROVE  OneKeyed'
BY DEF StoreInv, OneKeyed, Up, Keyless

\* The two together.
LEMMA ProcessStep ==
  ASSUME StoreInv, NEW p \in Procs, alone' = alone, Up(p),
         \A q \in Procs \ {p} : proc'[q] = proc[q],
         UNCHANGED <<record, item, pin>> \/ proc[p].key \in Keys,
         proc'[p].pc = "off" \/ proc'[p].key = proc[p].key \/ alone,
         KeyStage(p)', WorkStage(p)'
  PROVE  /\ OneKeyed'
         /\ \A q \in Procs : KeyStage(q)'
         /\ \A q \in Procs : WorkStage(q)'
BY OthersKeep, OneKeyedKept

\* A process that stops leaves nothing to keep.
LEMMA StoppedStages ==
  ASSUME NEW p \in Procs, proc'[p].pc = "off"
  PROVE  KeyStage(p)' /\ WorkStage(p)'
BY DEF KeyStage, WorkStage, Working, Keyless, Up, OpenedStages

-----------------------------------------------------------------------------
(* Finding the key *)

\* The parts of the invariant that are about the store, not about a process.
StoreParts ==
  StandaloneStoreIsPinned /\ ItemsFollowRecord /\ PassedIsSealed /\ ValuesKeepText /\ OkMeansScrubbed

\* They hold as long as the store is left alone.
LEMMA SameStore ==
  ASSUME StoreInv, alone' = alone, pin' = pin, UNCHANGED <<database, history>>
  PROVE  StoreParts'
BY DEF StoreInv, StoreParts, StandaloneStoreIsPinned, ItemsFollowRecord, PassedIsSealed, Passed,
   ValuesKeepText, OkMeansScrubbed, database, history

\* A process that begins where the others allow it.
LEMMA StartInv ==
  ASSUME StoreInv, NEW p \in Procs, Start(p) \/ StartKeyless(p)
  PROVE  StoreInv'
<1>1. TypeOK /\ proc[p] = Off /\ UNCHANGED <<alone, root, pin, database, history>>
  BY DEF StoreInv, Start, StartKeyless, files
<1> DEFINE Chosen(pc, k, retired) ==
             /\ proc' = [proc EXCEPT ![p] = Begins(pc, k, retired)]
             /\ pc = "check" => ~alone
             /\ pc = "root" => alone /\ k = NoKey
             /\ pc = "pin" => alone /\ k \in Keys
             /\ \A q \in Procs : proc[q] # Off => ~alone /\ (k = NoKey \/ Keyless(q))
<1> HIDE DEF Chosen
<1>2. \E pc \in {"check", "root", "pin"}, k \in Keys \cup {NoKey}, retired \in SUBSET Keys :
        Chosen(pc, k, retired)
  <2>1. CASE StartKeyless(p)
    <3>1. Chosen("check", NoKey, {})
      BY <2>1 DEF StartKeyless, Chosen
    <3> QED
      BY <3>1, Zenon
  <2>2. CASE Start(p)
    <3>1. \A q \in Procs : proc[q] # Off => Keyless(q) /\ ~alone
      BY <2>2 DEF Start
    <3>2. CASE ~alone /\ \E d \in DeliveredKeys : proc' = [proc EXCEPT ![p] = Begins("check", d.key, d.retired)]
      <4>1. PICK d \in DeliveredKeys : proc' = [proc EXCEPT ![p] = Begins("check", d.key, d.retired)]
        BY <3>2
      <4>2. Chosen("check", d.key, d.retired)
        BY <3>1, <3>2, <4>1 DEF Chosen
      <4>3. d.key \in Keys \cup {NoKey} /\ d.retired \in SUBSET Keys
        BY DEF DeliveredKeys
      <4> QED
        BY <4>2, <4>3, Zenon
    <3>3. CASE alone /\ proc' = [proc EXCEPT ![p] = Begins("root", NoKey, {})]
      <4>1. Chosen("root", NoKey, {})
        BY <3>1, <3>3 DEF Chosen
      <4> QED
        BY <4>1, Zenon
    <3>4. CASE alone /\ \E d \in MasterKeys : proc' = [proc EXCEPT ![p] = Begins("pin", d.key, d.retired)]
      <4>1. PICK d \in MasterKeys : proc' = [proc EXCEPT ![p] = Begins("pin", d.key, d.retired)]
        BY <3>4
      <4>2. d.key \in Keys /\ d.retired \in SUBSET Keys
        BY DEF MasterKeys
      <4>3. Chosen("pin", d.key, d.retired)
        BY <3>1, <3>4, <4>1, <4>2 DEF Chosen
      <4> QED
        BY <4>2, <4>3, Zenon
    <3> QED
      BY <2>2, <3>2, <3>3, <3>4 DEF Start
  <2> QED
    BY <2>1, <2>2
<1>3. PICK pc \in {"check", "root", "pin"}, k \in Keys \cup {NoKey}, retired \in SUBSET Keys :
        Chosen(pc, k, retired)
  BY <1>2, Zenon
<1>4. /\ proc' \in [Procs -> Process \cup {Off}]
      /\ proc'[p].pc = pc /\ proc'[p].key = k /\ (k \in Keys => k \in proc'[p].ring)
      /\ \A q \in Procs \ {p} : proc'[q] = proc[q]
  BY <1>1, <1>3, BeginsFacts DEF Stages, Chosen
<1>5. TypeOK'
  BY <1>1, <1>4 DEF TypeOK, database, history
<1>6. OneKeyed'
  <2>1. \A q \in Procs : Up(q) => proc[q] # Off
    BY DEF Up, Off
  <2> QED
    BY <1>1, <1>3, <1>4, <2>1 DEF Chosen, StoreInv, OneKeyed, Keyless, Up
<1>7. KeyStage(p)' /\ WorkStage(p)'
  BY <1>1, <1>3, <1>4 DEF Chosen, KeyStage, WorkStage, Working, Keyless, Up, OpenedStages
<1>8. \A q \in Procs \ {p} : KeyStage(q)' /\ WorkStage(q)'
  BY <1>1, <1>4, OthersKeep DEF database
<1> QED
  BY <1>1, <1>5, <1>6, <1>7, <1>8, SameStore DEF StoreInv, StoreParts

\* Reading, creating and filling the root file: no store is touched.
LEMMA RootInv ==
  ASSUME StoreInv, NEW p \in Procs, ReadRoot(p) \/ FillRoot(p)
  PROVE  StoreInv'
<1>1. TypeOK /\ Up(p) /\ UNCHANGED <<alone, pin, database, history>>
  BY DEF StoreInv, ReadRoot, FillRoot, Up
<1>2. alone
  BY DEF StoreInv, ReadRoot, FillRoot, KeyStage
<1>3. /\ root' \in Keys \cup {NoKey, Empty}
      /\ proc' \in [Procs -> Process \cup {Off}]
      /\ proc'[p].pc = "off" \/
           (proc'[p].pc \in {"fill", "pin"} /\ proc'[p].key \in Keys /\ proc'[p].key \in proc'[p].ring)
      /\ \A q \in Procs \ {p} : proc'[q] = proc[q]
  <2>1. "pin" \in Stages /\ "fill" \in Stages /\ {} \in SUBSET Keys
    BY DEF Stages
  <2>2. CASE ReadRoot(p) /\ Ends(p) /\ UNCHANGED root
    BY <1>1, <2>2, EndsFacts DEF TypeOK
  <2>3. CASE root \in Keys /\ proc' = [proc EXCEPT ![p] = Begins("pin", root, {})] /\ UNCHANGED root
    <3>1. TypeOK /\ root \in Keys \cup {NoKey} /\ root \in Keys /\ root' \in Keys
      BY <1>1, <2>3
    <3>2. /\ proc' \in [Procs -> Process \cup {Off}]
          /\ proc'[p].pc = "pin" /\ proc'[p].key = root /\ (root \in Keys => root \in proc'[p].ring)
          /\ \A q \in Procs \ {p} : proc'[q] = proc[q]
      BY <2>1, <2>3, <3>1, BeginsFacts, Zenon
    <3> QED
      BY <3>1, <3>2
  <2>4. CASE root' = Empty /\ \E k \in Keys : proc' = [proc EXCEPT ![p] = Begins("fill", k, {})]
    <3>1. PICK k \in Keys : proc' = [proc EXCEPT ![p] = Begins("fill", k, {})]
      BY <2>4
    <3>2. TypeOK /\ k \in Keys \cup {NoKey}
      BY <1>1
    <3>3. /\ proc' \in [Procs -> Process \cup {Off}]
          /\ proc'[p].pc = "fill" /\ proc'[p].key = k /\ (k \in Keys => k \in proc'[p].ring)
          /\ \A q \in Procs \ {p} : proc'[q] = proc[q]
      BY <2>1, <3>1, <3>2, BeginsFacts, Zenon
    <3> QED
      BY <2>4, <3>3
  <2>5. CASE FillRoot(p)
    <3>1. proc[p].key \in Keys /\ proc[p].key \in proc[p].ring
      BY <1>1, <2>5 DEF FillRoot, StoreInv, KeyStage
    <3> QED
      BY <1>1, <2>1, <2>5, <3>1, GotoFacts DEF FillRoot
  <2> QED
    BY <2>2, <2>3, <2>4, <2>5 DEF ReadRoot
<1>4. TypeOK'
  BY <1>1, <1>3 DEF TypeOK, database, history
<1>5. KeyStage(p)' /\ WorkStage(p)'
  BY <1>1, <1>2, <1>3 DEF KeyStage, WorkStage, Working, Keyless, Up, OpenedStages
<1>6. UNCHANGED <<record, item, pin>>
  BY <1>1 DEF database
<1> QED
  BY <1>1, <1>2, <1>3, <1>4, <1>5, <1>6, ProcessStep, SameStore DEF StoreInv, StoreParts

\* A pin is written once: a process that finds another key pinned ends.
LEMMA PinKeyInv ==
  ASSUME StoreInv, NEW p \in Procs, PinKey(p)
  PROVE  StoreInv'
<1>1. TypeOK /\ Up(p) /\ UNCHANGED <<alone, root, database, history>>
  BY DEF StoreInv, PinKey, Up
<1>2. alone /\ proc[p].key \in Keys /\ proc[p].key \in proc[p].ring
  BY <1>1 DEF StoreInv, PinKey, KeyStage
<1>3. /\ pin' \in Keys \cup {NoKey}
      /\ pin' = pin \/ pin = NoKey
      /\ proc' \in [Procs -> Process \cup {Off}]
      /\ proc'[p].pc = "off" \/
           (proc'[p].pc = "check" /\ proc'[p].key = proc[p].key /\ proc'[p].ring = proc[p].ring
              /\ pin' = proc[p].key)
      /\ \A q \in Procs \ {p} : proc'[q] = proc[q]
  <2>1. "check" \in Stages
    BY DEF Stages
  <2>2. CASE pin \in {NoKey, proc[p].key} /\ pin' = proc[p].key /\ Goto(p, "check")
    BY <1>1, <1>2, <2>1, <2>2, GotoFacts
  <2>3. CASE UNCHANGED pin /\ Ends(p)
    BY <1>1, <2>3, EndsFacts DEF TypeOK
  <2> QED
    BY <2>2, <2>3 DEF PinKey
<1>4. TypeOK'
  BY <1>1, <1>3 DEF TypeOK, database, history
<1>5. KeyStage(p)' /\ WorkStage(p)'
  BY <1>1, <1>2, <1>3 DEF KeyStage, WorkStage, Working, Keyless, Up, OpenedStages
<1>6. StoreParts'
  <2>1. StandaloneStoreIsPinned'
    BY <1>1, <1>3 DEF StoreInv, StandaloneStoreIsPinned, database
  <2> QED
    BY <1>1, <2>1 DEF StoreInv, StoreParts, ItemsFollowRecord, PassedIsSealed, Passed,
       ValuesKeepText, OkMeansScrubbed, database, history
<1> QED
  BY <1>1, <1>2, <1>3, <1>4, <1>5, <1>6, ProcessStep DEF StoreInv, StoreParts

-----------------------------------------------------------------------------
(* Opening the store *)

\* A process that works on the store holds a key.
LEMMA WorkersAreKeyed ==
  ASSUME StoreInv, NEW p \in Procs, Working(p)
  PROVE  /\ Up(p) /\ proc[p].key \in Keys /\ proc[p].key \in proc[p].ring
         /\ proc[p].ring \subseteq Keys /\ record.kcv \in Keys
         /\ alone => proc[p].key = pin
<1>1. Up(p) /\ TypeOK /\ KeyStage(p) /\ WorkStage(p)
  BY DEF StoreInv, Working, Up, OpenedStages
<1>2. proc[p] \in Process
  BY <1>1, UpColumns
<1>3. proc[p].key \in Keys
  BY <1>1, <1>2 DEF KeyStage, Working, Keyless, Process
<1> QED
  BY <1>1, <1>2, <1>3 DEF KeyStage, WorkStage, Process, Working, OpenedStages

\* What it means for the record that a key is entered.
LEMMA RecordedFacts ==
  ASSUME TypeOK, NEW k \in Keys
  PROVE  /\ Recorded(k) \in Record
         /\ Recorded(k).kcv = k
         /\ record.state = "vacuum_pending" => Recorded(k).state = "vacuum_pending"
BY DEF TypeOK, Record, Recorded

\* The key is checked and entered into an empty record.
LEMMA CheckKeyInv ==
  ASSUME StoreInv, NEW p \in Procs, CheckKey(p)
  PROVE  StoreInv'
<1>1. TypeOK /\ Up(p) /\ UNCHANGED <<alone, root, pin, item, cell, residue, history>>
  BY DEF StoreInv, CheckKey, Up, files
<1>2. proc[p] \in Process /\ KeyStage(p)
  BY <1>1, UpColumns DEF StoreInv
<1>3. "serve" \in Stages /\ "unhealthy" \in Stages /\ "vacuum" \in Stages
  BY DEF Stages, OpenedStages
<1>4. /\ proc' \in [Procs -> Process \cup {Off}]
      /\ proc'[p].key = proc[p].key /\ proc'[p].ring = proc[p].ring
      /\ \A q \in Procs \ {p} : proc'[q] = proc[q]
  BY <1>1, <1>3, GotoFacts DEF CheckKey
<1>5. CASE UNCHANGED record /\ proc'[p].pc \in {"serve", "unhealthy"} /\ (proc'[p].pc = "serve" => Keyless(p))
  <2>1. TypeOK'
    BY <1>1, <1>4, <1>5 DEF TypeOK, history
  <2>2. KeyStage(p)' /\ WorkStage(p)'
    BY <1>1, <1>2, <1>4, <1>5 DEF CheckKey, KeyStage, WorkStage, Working, Keyless, Up, OpenedStages
  <2>3. UNCHANGED <<record, item, pin>> /\ UNCHANGED <<database, history>>
    BY <1>1, <1>5 DEF database
  <2> QED
    BY <1>1, <1>4, <2>1, <2>2, <2>3, ProcessStep, SameStore DEF StoreInv, StoreParts
<1>6. CASE /\ ~Keyless(p) /\ ~Mismatch(p) /\ proc'[p].pc = "vacuum"
           /\ record' = IF record.kcv = NoKey THEN Recorded(proc[p].key) ELSE record
  <2>1. proc[p].key \in Keys /\ proc[p].key \in proc[p].ring
    BY <1>1, <1>2, <1>6 DEF Keyless, Process, KeyStage
  <2>2. record' \in Record /\ record'.kcv \in proc[p].ring /\ record'.kcv \in Keys
        /\ (alone => proc[p].key = pin)
    <3>1. CASE record.kcv = NoKey
      BY <1>1, <1>2, <1>6, <2>1, <3>1, RecordedFacts DEF CheckKey, KeyStage
    <3>2. CASE record.kcv # NoKey
      <4>1. record.kcv \in proc[p].ring
        BY <1>6, <2>1, <3>2 DEF Mismatch, MatchKcv
      <4> QED
        BY <1>1, <1>2, <1>6, <3>2, <4>1 DEF CheckKey, KeyStage, TypeOK, Record
    <3> QED
      BY <3>1, <3>2
  <2>3. TypeOK'
    BY <1>1, <1>4, <2>2 DEF TypeOK, history
  <2>4. KeyStage(p)' /\ WorkStage(p)'
    BY <1>1, <1>2, <1>4, <1>6, <2>1, <2>2
       DEF CheckKey, KeyStage, WorkStage, Working, Keyless, Up, OpenedStages
  <2>5. StoreParts'
    <3>1. CASE record' = record
      BY <1>1, <3>1, SameStore DEF database
    <3>2. CASE record.kcv = NoKey /\ record' = Recorded(proc[p].key)
      <4>1. \A i \in Items : item[i].state = "none"
        BY <3>2 DEF StoreInv, ItemsFollowRecord
      <4>2. 1 \in Items
        BY StoreAssumption DEF Items
      <4>3. OkMeansScrubbed'
        BY <1>1, <4>1, <4>2 DEF OkMeansScrubbed
      <4>4. record'.kcv = proc[p].key /\ record'.kcv # NoKey
        BY <1>1, <2>1, <3>2, RecordedFacts, StoreAssumption
      <4>5. StandaloneStoreIsPinned'
        BY <1>1, <2>2, <4>4 DEF StandaloneStoreIsPinned
      <4>6. ItemsFollowRecord' /\ PassedIsSealed' /\ ValuesKeepText'
        BY <1>1, <4>4 DEF StoreInv, ItemsFollowRecord, PassedIsSealed, Passed, ValuesKeepText, history
      <4> QED
        BY <4>3, <4>5, <4>6 DEF StoreParts
    <3> QED
      BY <1>6, <3>1, <3>2
  <2> QED
    BY <1>1, <1>4, <2>1, <2>3, <2>4, <2>5, ProcessStep DEF StoreInv, StoreParts
<1> QED
  <2>1. CASE Keyless(p)
    BY <1>1, <1>3, <1>5, <2>1, GotoFacts DEF CheckKey
  <2>2. CASE ~Keyless(p) /\ Mismatch(p)
    BY <1>1, <1>3, <1>5, <2>2, GotoFacts DEF CheckKey
  <2>3. CASE ~Keyless(p) /\ ~Mismatch(p)
    BY <1>1, <1>3, <1>6, <2>3, GotoFacts DEF CheckKey
  <2> QED
    BY <2>1, <2>2, <2>3

\* How a scrub or a compaction is noted in the record.
Notes == {Cleared} \cup {Pending(scrubbed, tried) : scrubbed \in BOOLEAN, tried \in BOOLEAN}

LEMMA NoteFacts ==
  ASSUME TypeOK, NEW new \in Notes
  PROVE  /\ new \in Record /\ new.kcv = record.kcv
         /\ new.state \in {"ok", "vacuum_pending"}
         /\ new.state = "ok" => new = Cleared
<1>1. record \in Record
  BY DEF TypeOK
<1>2. CASE new = Cleared
  <2>1. Cleared \in Record
    BY <1>1, Zenon DEF Record, Cleared
  <2>2. Cleared.kcv = record.kcv /\ Cleared.state = "ok"
    BY <1>1 DEF Record, Cleared
  <2> QED
    BY <1>2, <2>1, <2>2
<1>3. ASSUME NEW scrubbed \in BOOLEAN, NEW tried \in BOOLEAN, new = Pending(scrubbed, tried)
      PROVE  new \in Record /\ new.kcv = record.kcv /\ new.state = "vacuum_pending"
  <2>1. Pending(scrubbed, tried) \in Record
    BY <1>1, Zenon DEF Record, Pending
  <2>2. Pending(scrubbed, tried).kcv = record.kcv /\ Pending(scrubbed, tried).state = "vacuum_pending"
    BY <1>1 DEF Record, Pending
  <2> QED
    BY <1>3, <2>1, <2>2
<1> QED
  BY <1>2, <1>3 DEF Notes

\* A process that scrubs or compacts, noting it or not, on its way through the
\* stages before the migration.
LEMMA PendingInv ==
  ASSUME StoreInv, NEW p \in Procs,
         PendingSkips(p) \/ PendingRuns(p) \/ PendingScrubs(p) \/ PendingCompacts(p)
  PROVE  StoreInv'
<1>1. TypeOK /\ Up(p) /\ Working(p) /\ UNCHANGED <<alone, root, pin, item, cell, history>>
  BY DEF StoreInv, PendingSkips, PendingRuns, PendingScrubs, PendingCompacts, Up, files, database,
     Working, OpenedStages
<1>2. \A pc \in {"scrub", "compact", AfterVacuum(p)} : pc \in Stages
  BY DEF AfterVacuum, Stages, OpenedStages
<1>3. PICK pc \in {"scrub", "compact", "reopen", "migrate"} : Goto(p, pc)
  BY DEF PendingSkips, PendingRuns, PendingScrubs, PendingCompacts, AfterVacuum
<1>4. /\ proc' \in [Procs -> Process \cup {Off}]
      /\ proc'[p].pc = pc
      /\ proc'[p].key = proc[p].key /\ proc'[p].ring = proc[p].ring
      /\ \A q \in Procs \ {p} : proc'[q] = proc[q]
  BY <1>1, <1>3, GotoFacts DEF Stages, OpenedStages
<1>5. /\ residue' \subseteq residue
      /\ record' = record \/ (record' \in Notes /\ (record' = Cleared => residue' = {}))
  <2>1. ASSUME NEW a \in BOOLEAN, NEW b \in BOOLEAN
        PROVE  Pending(a, b) \in Notes /\ Pending(a, b) # Cleared
    <3>1. record \in Record
      BY <1>1 DEF TypeOK
    <3>2. Pending(a, b).state = "vacuum_pending" /\ Cleared.state = "ok"
      BY <3>1 DEF Pending, Cleared, Record
    <3> QED
      BY <3>2 DEF Notes
  <2>2. Cleared \in Notes
    BY DEF Notes
  <2>3. CASE PendingSkips(p)
    BY <2>3 DEF PendingSkips, database
  <2>4. CASE PendingRuns(p)
    BY <2>4 DEF PendingRuns
  <2>5. CASE PendingScrubs(p)
    BY <2>1, <2>5 DEF PendingScrubs
  <2>6. CASE PendingCompacts(p)
    BY <2>1, <2>2, <2>6 DEF PendingCompacts
  <2> QED
    BY <2>3, <2>4, <2>5, <2>6
<1>6. record' \in Record /\ record'.kcv = record.kcv
      /\ (record'.state = "ok" => record' = record \/ residue' = {})
  BY <1>1, <1>5, NoteFacts DEF TypeOK
<1>7. TypeOK'
  BY <1>1, <1>4, <1>5, <1>6 DEF TypeOK, history
<1>8. KeyStage(p)' /\ WorkStage(p)'
  <2>1. KeyStage(p) /\ WorkStage(p)
    BY DEF StoreInv
  <2> QED
    BY <1>1, <1>4, <1>6, <2>1, WorkersAreKeyed
       DEF KeyStage, WorkStage, Working, Keyless, Up, OpenedStages
<1>9. StoreParts'
  <2>1. OkMeansScrubbed'
    BY <1>1, <1>5, <1>6 DEF StoreInv, OkMeansScrubbed, history
  <2> QED
    BY <1>1, <1>6, <2>1 DEF StoreInv, StoreParts, StandaloneStoreIsPinned, ItemsFollowRecord,
       PassedIsSealed, Passed, ValuesKeepText, history
<1> QED
  BY <1>1, <1>4, <1>7, <1>8, <1>9, ProcessStep, WorkersAreKeyed DEF StoreInv, StoreParts

\* A column that holds plaintext again is begun anew.
LEMMA ReopenInv ==
  ASSUME StoreInv, NEW p \in Procs, ReopenItems(p)
  PROVE  StoreInv'
<1>1. TypeOK /\ Up(p) /\ Working(p) /\ UNCHANGED <<alone, root, pin, record, cell, residue, history>>
  BY DEF StoreInv, ReopenItems, Up, files, database, Working, OpenedStages
<1>2. /\ proc' \in [Procs -> Process \cup {Off}]
      /\ proc'[p].pc = "migrate"
      /\ proc'[p].key = proc[p].key /\ proc'[p].ring = proc[p].ring
      /\ \A q \in Procs \ {p} : proc'[q] = proc[q]
  BY <1>1, GotoFacts DEF Stages, OpenedStages, ReopenItems
<1>3. \A i \in Items : item'[i] = item[i] \/ (item[i].state = "sealed" /\ item'[i] = ItemRow("pending", 0))
  BY DEF ReopenItems
<1>4. item' \in [Items -> [state: {"none", "pending", "sealing", "sealed"}, cursor: 0..NumRows]]
  <2>1. ItemRow("pending", 0) \in [state: {"none", "pending", "sealing", "sealed"}, cursor: 0..NumRows]
    BY StoreAssumption DEF ItemRow
  <2> QED
    BY <1>1, <2>1 DEF ReopenItems, TypeOK
<1>5. TypeOK'
  BY <1>1, <1>2, <1>4 DEF TypeOK, history
<1>6. KeyStage(p)' /\ WorkStage(p)'
  <2>1. KeyStage(p) /\ WorkStage(p)
    BY DEF StoreInv
  <2> QED
    BY <1>1, <1>2, <2>1, WorkersAreKeyed
       DEF KeyStage, WorkStage, Working, Keyless, Up, OpenedStages
<1>7. StoreParts'
  <2>1. \A i \in Items : item'[i].state = "sealed" => item[i].state = "sealed"
    BY <1>3 DEF ItemRow
  <2>2. OkMeansScrubbed'
    BY <1>1, <2>1 DEF StoreInv, OkMeansScrubbed, history
  <2>3. ItemsFollowRecord'
    BY <1>1, <1>3 DEF StoreInv, ItemsFollowRecord, ItemRow
  <2>4. PassedIsSealed'
    <3> SUFFICES ASSUME NEW c \in Cells \ strays, Passed(c)' PROVE cell[c].key # NoKey
      BY <1>1 DEF PassedIsSealed, history
    <3>1. c[1] \in Items /\ c[2] \in Nat \ {0}
      BY DEF Cells, Items, Rows
    <3>2. Passed(c)
      BY <1>3, <3>1 DEF Passed, ItemRow
    <3> QED
      BY <3>2 DEF StoreInv, PassedIsSealed
  <2> QED
    BY <1>1, <2>2, <2>3, <2>4 DEF StoreInv, StoreParts, StandaloneStoreIsPinned, ValuesKeepText, history
<1> QED
  BY <1>1, <1>2, <1>5, <1>6, <1>7, ProcessStep, WorkersAreKeyed DEF StoreInv, StoreParts

-----------------------------------------------------------------------------
(* Sealing the columns *)

\* A process that works on the store goes to another stage: what a step that leaves
\* the record alone has to show.
LEMMA WorkStep ==
  ASSUME StoreInv, NEW p \in Procs, Working(p), UNCHANGED <<files, history>>,
         proc' \in [Procs -> Process \cup {Off}], \A q \in Procs \ {p} : proc'[q] = proc[q],
         proc'[p].pc \in OpenedStages \cup {"serve"},
         proc'[p].key = proc[p].key, proc'[p].ring = proc[p].ring,
         record'.kcv \in proc[p].ring, WorkStage(p)', StoreParts',
         record' \in Record, residue' \subseteq {"wal", "free", "pages"},
         item' \in [Items -> [state: {"none", "pending", "sealing", "sealed"}, cursor: 0..NumRows]],
         cell' \in [Cells -> [key: Keys \cup {NoKey}, text: Escaped]]
  PROVE  StoreInv'
<1>1. TypeOK'
  BY DEF StoreInv, TypeOK, files, history
<1>2. KeyStage(p)'
  BY WorkersAreKeyed DEF KeyStage, Up, OpenedStages, files
<1> QED
  BY <1>1, <1>2, ProcessStep, WorkersAreKeyed DEF StoreInv, StoreParts, files

\* The migration begins with the first column.
LEMMA MigrateBeginInv ==
  ASSUME StoreInv, NEW p \in Procs, MigrateBegin(p)
  PROVE  StoreInv'
<1>1. TypeOK /\ Up(p) /\ Working(p) /\ UNCHANGED <<files, database, history>>
  BY DEF StoreInv, MigrateBegin, Up, Working, OpenedStages
<1> DEFINE h == [proc[p] EXCEPT !.pc = "item", !.item = 1,
                                !.retired = MatchKcv(p, record.kcv) = "retired"]
<1>2. proc[p] \in Process
  BY <1>1, UpColumns
<1>3. h \in Process
  <2>1. 1 \in 0..(NumItems + 1) /\ (MatchKcv(p, record.kcv) = "retired") \in BOOLEAN
    BY StoreAssumption
  <2> QED
    BY <1>2, <2>1, Zenon DEF Process
<1>4. h.pc = "item" /\ h.item = 1 /\ h.key = proc[p].key /\ h.ring = proc[p].ring
  BY <1>2 DEF Process
<1>5. proc' = [proc EXCEPT ![p] = h]
  BY <1>1 DEF MigrateBegin, TypeOK
<1> HIDE DEF h
<1>6. /\ proc' \in [Procs -> Process \cup {Off}]
      /\ proc'[p] = h
      /\ \A q \in Procs \ {p} : proc'[q] = proc[q]
  BY <1>1, <1>3, <1>5, ProcReplaced
<1>7. record.kcv \in proc[p].ring
  BY <1>1 DEF StoreInv, WorkStage
<1>8. WorkStage(p)'
  BY <1>1, <1>4, <1>6, <1>7 DEF WorkStage, Working, OpenedStages, Items, database
<1> QED
  <2>1. StoreParts'
    BY <1>1, SameStore DEF files
  <2>2. proc'[p].pc \in OpenedStages
    BY <1>4, <1>6 DEF OpenedStages
  <2> QED
    BY <1>1, <1>4, <1>6, <1>7, <1>8, <2>1, <2>2, WorkStep DEF database, StoreInv, TypeOK

\* A process goes from a column to the next.
LEMMA NextItemFacts ==
  ASSUME TypeOK, NEW p \in Procs, Up(p), proc[p].item \in Items,
         proc' = [proc EXCEPT ![p].pc = "item", ![p].item = @ + 1]
  PROVE  /\ proc' \in [Procs -> Process \cup {Off}]
         /\ proc'[p].pc = "item" /\ proc'[p].item = proc[p].item + 1
         /\ proc'[p].key = proc[p].key /\ proc'[p].ring = proc[p].ring
         /\ \A q \in Procs \ {p} : proc'[q] = proc[q]
<1> DEFINE h == [proc[p] EXCEPT !.pc = "item", !.item = proc[p].item + 1]
<1>1. proc[p] \in Process
  BY UpColumns
<1>2. h \in Process
  <2>1. proc[p].item + 1 \in 0..(NumItems + 1)
    BY StoreAssumption DEF Items
  <2> QED
    BY <1>1, <2>1, Zenon DEF Process
<1>3. /\ h.pc = "item" /\ h.item = proc[p].item + 1
      /\ h.key = proc[p].key /\ h.ring = proc[p].ring
  BY <1>1 DEF Process
<1>4. proc' = [proc EXCEPT ![p] = h]
  BY DEF TypeOK
<1> HIDE DEF h
<1> QED
  BY <1>2, <1>3, <1>4, ProcReplaced

\* Sealed columns are skipped, and after the last one all of them are.
LEMMA ItemSkipsInv ==
  ASSUME StoreInv, NEW p \in Procs, ItemSkips(p)
  PROVE  StoreInv'
<1>1. TypeOK /\ Up(p) /\ Working(p) /\ WorkStage(p) /\ UNCHANGED <<files, database, history>>
  BY DEF StoreInv, ItemSkips, Up, Working, OpenedStages
<1>2. record.kcv \in proc[p].ring
  BY <1>1 DEF WorkStage
<1>3. /\ proc' \in [Procs -> Process \cup {Off}]
      /\ proc'[p].pc \in OpenedStages \cup {"serve"}
      /\ proc'[p].key = proc[p].key /\ proc'[p].ring = proc[p].ring
      /\ \A q \in Procs \ {p} : proc'[q] = proc[q]
      /\ WorkStage(p)'
  <2>1. CASE proc[p].item > NumItems
    <3>1. \A i \in Items : item[i].state = "sealed"
      <4>1. proc[p].item \in Nat
        BY <1>1, UpColumns, StoreAssumption DEF Process
      <4>2. \A i \in Items : i < proc[p].item
        BY <2>1, <4>1, StoreAssumption DEF Items
      <4> QED
        BY <1>1, <4>2 DEF WorkStage, ItemSkips
    <3>2. ~(proc[p].item \in Items)
      BY <2>1, StoreAssumption DEF Items
    <3>3. CASE Goto(p, "finish")
      <4>1. /\ proc' \in [Procs -> Process \cup {Off}] /\ proc'[p].pc = "finish"
            /\ proc'[p].key = proc[p].key /\ proc'[p].ring = proc[p].ring
            /\ \A q \in Procs \ {p} : proc'[q] = proc[q]
        BY <1>1, <3>3, GotoFacts DEF Stages, OpenedStages
      <4> QED
        BY <1>1, <1>2, <3>1, <4>1 DEF WorkStage, OpenedStages, database
    <3>4. CASE Serves(p)
      <4>1. /\ proc' \in [Procs -> Process \cup {Off}] /\ proc'[p].pc = "serve"
            /\ proc'[p].key = proc[p].key /\ proc'[p].ring = proc[p].ring
            /\ \A q \in Procs \ {p} : proc'[q] = proc[q]
        BY <1>1, <3>4, ServesFacts
      <4> QED
        BY <1>1, <1>2, <3>1, <4>1 DEF WorkStage, database
    <3> QED
      BY <2>1, <3>2, <3>3, <3>4 DEF ItemSkips
  <2>2. CASE proc[p].item \in Items /\ item[proc[p].item].state = "sealed"
    <3>1. ~(proc[p].item > NumItems) /\ proc[p].item \in Nat
      BY <2>2, StoreAssumption DEF Items
    <3>2. proc' = [proc EXCEPT ![p].item = @ + 1] /\ proc[p].pc = "item"
      BY <3>1 DEF ItemSkips
    <3>3. proc' = [proc EXCEPT ![p].pc = "item", ![p].item = @ + 1]
      <4>1. proc[p] \in Process
        BY <1>1, UpColumns
      <4> QED
        BY <1>1, <3>2, <4>1 DEF TypeOK, Process
    <3>4. /\ proc' \in [Procs -> Process \cup {Off}]
          /\ proc'[p].pc = "item" /\ proc'[p].item = proc[p].item + 1
          /\ proc'[p].key = proc[p].key /\ proc'[p].ring = proc[p].ring
          /\ \A q \in Procs \ {p} : proc'[q] = proc[q]
      BY <1>1, <2>2, <3>3, NextItemFacts
    <3>5. \A i \in Items : i < proc[p].item + 1 => i < proc[p].item \/ i = proc[p].item
      BY <3>1 DEF Items
    <3>6. WorkStage(p)'
      BY <1>1, <1>2, <2>2, <3>1, <3>2, <3>4, <3>5 DEF WorkStage, Working, OpenedStages, database
    <3> QED
      BY <3>4, <3>6 DEF OpenedStages
  <2> QED
    BY <2>1, <2>2 DEF ItemSkips
<1> QED
  <2>1. StoreParts'
    BY <1>1, SameStore DEF files
  <2> QED
    BY <1>1, <1>2, <1>3, <2>1, WorkStep DEF database, StoreInv, TypeOK

\* A column is begun, and what it will cost is owed from now on.
LEMMA ItemBeginsInv ==
  ASSUME StoreInv, NEW p \in Procs, ItemBegins(p)
  PROVE  StoreInv'
<1>1. TypeOK /\ Up(p) /\ Working(p) /\ WorkStage(p) /\ UNCHANGED <<files, cell, residue, history>>
  BY DEF StoreInv, ItemBegins, Up, Working, OpenedStages
<1>2. /\ proc' \in [Procs -> Process \cup {Off}] /\ proc'[p].pc = "batch"
      /\ proc'[p].item = proc[p].item
      /\ proc'[p].key = proc[p].key /\ proc'[p].ring = proc[p].ring
      /\ \A q \in Procs \ {p} : proc'[q] = proc[q]
  BY <1>1, GotoFacts DEF Stages, OpenedStages, ItemBegins
<1>3. record' \in Record /\ record'.kcv = record.kcv /\ record'.state = "vacuum_pending"
  <2>1. record \in Record
    BY <1>1 DEF TypeOK
  <2>2. record.tried \in BOOLEAN
    BY <2>1 DEF Record
  <2>3. ScrubOwed \in Record /\ ScrubOwed.kcv = record.kcv /\ ScrubOwed.state = "vacuum_pending"
    <3>1. ASSUME NEW tried \in BOOLEAN
          PROVE  /\ Pending(FALSE, tried) \in Record /\ Pending(FALSE, tried).kcv = record.kcv
                 /\ Pending(FALSE, tried).state = "vacuum_pending"
      <4>1. Pending(FALSE, tried) \in Record
        BY <2>1, Zenon DEF Pending, Record
      <4> QED
        BY <2>1, <4>1 DEF Pending, Record
    <3> QED
      BY <2>2, <3>1, Zenon DEF ScrubOwed
  <2> QED
    BY <2>3 DEF ItemBegins
<1> DEFINE n == proc[p].item
<1>4. n \in Items /\ item[n].state # "sealed" /\ proc[p].pc = "item"
  BY DEF ItemBegins
<1>5. /\ item' \in [Items -> [state: {"none", "pending", "sealing", "sealed"}, cursor: 0..NumRows]]
      /\ item'[n].state = "sealing" /\ item'[n].cursor = item[n].cursor
      /\ \A i \in Items \ {n} : item'[i] = item[i]
  BY <1>1, <1>4 DEF ItemBegins, TypeOK
<1>6. record.kcv \in proc[p].ring /\ record.kcv \in Keys
  BY <1>1, WorkersAreKeyed DEF WorkStage
<1>7. WorkStage(p)'
  <2>1. \A i \in Items : i < n => item'[i].state = "sealed"
    BY <1>1, <1>4, <1>5 DEF WorkStage
  <2>2. n > 0
    BY <1>1, <1>4 DEF WorkStage
  <2> QED
    BY <1>2, <1>3, <1>4, <1>5, <1>6, <2>1, <2>2 DEF WorkStage
<1>8. StoreParts'
  <2>1. StandaloneStoreIsPinned'
    BY <1>1, <1>3 DEF StoreInv, StandaloneStoreIsPinned, files
  <2>2. ItemsFollowRecord'
    BY <1>3, <1>4, <1>5, <1>6, StoreAssumption DEF StoreInv, ItemsFollowRecord
  <2>3. PassedIsSealed'
    <3> SUFFICES ASSUME NEW c \in Cells \ strays, Passed(c)' PROVE cell[c].key # NoKey
      BY <1>1 DEF PassedIsSealed, history
    <3>1. c[1] \in Items
      BY DEF Cells
    <3>2. Passed(c)
      BY <1>4, <1>5, <3>1 DEF Passed
    <3> QED
      BY <3>2 DEF StoreInv, PassedIsSealed
  <2>4. ValuesKeepText' /\ OkMeansScrubbed'
    BY <1>1, <1>3 DEF StoreInv, ValuesKeepText, OkMeansScrubbed, history
  <2> QED
    BY <2>1, <2>2, <2>3, <2>4 DEF StoreParts
<1>9. proc'[p].pc \in OpenedStages \cup {"serve"}
  BY <1>2 DEF OpenedStages
<1>10. /\ residue' \subseteq {"wal", "free", "pages"}
       /\ cell' \in [Cells -> [key: Keys \cup {NoKey}, text: Escaped]]
  BY <1>1 DEF TypeOK
<1> QED
  BY <1>1, <1>2, <1>3, <1>5, <1>6, <1>7, <1>8, <1>9, <1>10, WorkStep

\* The next batch: rows after the cursor, as many as the cursor then advances by, and
\* the last rows when it is short.
LEMMA BatchFacts ==
  ASSUME TypeOK, NEW i \in Items
  PROVE  /\ Batch(i) \subseteq Rows
         /\ CursorAfter(i) \in 0..NumRows
         /\ Cardinality(Batch(i)) < BatchSize => CursorAfter(i) = NumRows
         /\ \A r \in Rows : r <= CursorAfter(i) => r <= item[i].cursor \/ r \in Batch(i)
<1> DEFINE from == item[i].cursor + 1
           to == IF item[i].cursor + BatchSize <= NumRows THEN item[i].cursor + BatchSize ELSE NumRows
<1>1. item[i].cursor \in 0..NumRows
  BY DEF TypeOK
<1>2. from \in Int /\ to \in Int
  BY <1>1, StoreAssumption
<1>3. Batch(i) = from..to
  BY <1>1, StoreAssumption DEF Batch, Rows
<1>4. Cardinality(Batch(i)) = IF from > to THEN 0 ELSE to - from + 1
  <2> HIDE DEF from, to
  <2> QED
    BY <1>2, <1>3, FS_Interval
<1>5. CursorAfter(i) = to
  BY <1>1, <1>4, StoreAssumption DEF CursorAfter
<1> QED
  BY <1>1, <1>3, <1>4, <1>5, StoreAssumption DEF Rows

\* An element in front of a sequence is its head.
LEMMA PushFacts ==
  ASSUME NEW S, NEW t \in Seq(S), NEW r \in S
  PROVE  Head(<<r>> \o t) = r /\ Tail(<<r>> \o t) = t /\ <<r>> \o t # <<>>
<1>1. <<r>> \in Seq(S) /\ Len(<<r>>) = 1 /\ <<r>>[1] = r
  OBVIOUS
<1> DEFINE s == <<r>> \o t
<1>2. /\ s \in Seq(S) /\ Len(s) = 1 + Len(t)
      /\ \A i \in 1..(1 + Len(t)) : s[i] = IF i <= 1 THEN <<r>>[i] ELSE t[i - 1]
  BY <1>1, ConcatProperties
<1> HIDE DEF s
<1>3. s # <<>> /\ s[1] = r /\ Len(t) \in Nat
  BY <1>1, <1>2
<1>4. Head(s) = r
  BY <1>2, <1>3
<1>5. Tail(s) \in Seq(S) /\ Len(Tail(s)) = Len(t) /\ \A i \in 1..Len(t) : Tail(s)[i] = t[i]
  BY <1>2, <1>3, HeadTailProperties
<1>6. Tail(s) = t
  BY <1>5, SeqEqual
<1> QED
  BY <1>3, <1>4, <1>6 DEF s

\* Escaping a text is undone, and never leaves what looks like an envelope.
LEMMA EscapeFacts ==
  ASSUME NEW t \in Texts
  PROVE  /\ Unescape(Escape(t)) = t /\ ~Starts(Escape(t), "v1")
         /\ t \in Escaped /\ Escape(t) \in Escaped
<1>1. CASE t = <<>>
  BY <1>1 DEF Escape, Unescape, Starts, Escaped
<1>2. CASE t # <<>>
  <2>1. PICK x \in Typed : t = <<x>>
    BY <1>2 DEF Texts
  <2>2. t \in Seq({"v1", "raw"}) /\ Escape(t) = <<"raw">> \o t
    BY <1>2, <2>1, StoreAssumption DEF Escape
  <2>3. Head(Escape(t)) = "raw" /\ Tail(Escape(t)) = t /\ Escape(t) # <<>>
    BY <2>2, PushFacts
  <2>4. Escape(t) \in Escaped
    BY <1>2 DEF Escape, Escaped
  <2> QED
    BY <2>1, <2>3, <2>4 DEF Unescape, Starts, Escaped
<1> QED
  BY <1>1, <1>2

\* The values a column can hold.
Values == [key: Keys \cup {NoKey}, text: Escaped]

\* What sealing a value makes of it: the same text, under a key.
LEMMA ResealedFacts ==
  ASSUME NEW k \in Keys, NEW ring \in SUBSET Keys, NEW v \in Values, NEW t \in Texts,
         v.text = IF v.key = NoKey THEN Escape(t) ELSE t
  PROVE  /\ Resealed(k, ring, v) \in Values
         /\ Resealed(k, ring, v).key \in Keys
         /\ Resealed(k, ring, v).text = t
         /\ Resealed(k, ring, v) # v => Resealed(k, ring, v).key = k
<1>1. NoKey \notin Keys
  BY StoreAssumption
<1>2. Sealed(k, t) \in Values /\ Sealed(k, t).key = k /\ Sealed(k, t).text = t
  BY EscapeFacts DEF Sealed, Values
<1>3. CASE v.key = NoKey
  BY <1>2, <1>3, EscapeFacts DEF Resealed
<1>4. CASE v.key # NoKey
  <2>1. v.key \in Keys /\ v.text = t
    BY <1>4 DEF Values
  <2> QED
    BY <1>2, <1>4, <2>1 DEF Resealed
<1> QED
  BY <1>3, <1>4

\* A batch is sealed, and the cursor moves past it.
LEMMA SealBatchInv ==
  ASSUME StoreInv, NEW p \in Procs, SealBatch(p)
  PROVE  StoreInv'
<1>1. TypeOK /\ Up(p) /\ Working(p) /\ WorkStage(p) /\ UNCHANGED <<files, record, history>>
  BY DEF StoreInv, SealBatch, Up, Working, OpenedStages
<1> DEFINE n == proc[p].item
           rows == Batch(n)
           new == [c \in Cells |->
                     IF c[1] = n /\ c[2] \in rows
                     THEN Resealed(proc[p].key, proc[p].ring, cell[c]) ELSE cell[c]]
           h == [proc[p] EXCEPT
                   !.pc = IF Cardinality(rows) < BatchSize THEN "close" ELSE "batch",
                   !.sealed = proc[p].sealed \/ new # cell,
                   !.unreadable = proc[p].unreadable
                                    \/ \E r \in rows : Unreadable(proc[p].ring, cell[<<n, r>>])]
<1>2. proc[p] \in Process /\ proc[p].pc = "batch"
  BY <1>1, UpColumns DEF SealBatch
<1>3. n \in Items /\ item[n].state = "sealing" /\ record.state = "vacuum_pending"
  BY <1>1, <1>2 DEF WorkStage
<1>4. /\ cell' = new /\ item' = [item EXCEPT ![n].cursor = CursorAfter(n)]
      /\ proc' = [proc EXCEPT ![p] = h]
      /\ residue' \in {residue, {"wal", "free", "pages"}}
  <2>1. proc' = [proc EXCEPT
                  ![p].pc = IF Cardinality(rows) < BatchSize THEN "close" ELSE "batch",
                  ![p].sealed = @ \/ new # cell,
                  ![p].unreadable = @ \/ \E r \in rows : Unreadable(proc[p].ring, cell[<<n, r>>])]
    BY Zenon DEF SealBatch
  <2>2. proc' = [proc EXCEPT ![p] = h]
    BY <1>1, <2>1, Zenon DEF TypeOK
  <2> QED
    BY <2>2 DEF SealBatch
<1>5. /\ h \in Process /\ h.pc \in {"batch", "close"} /\ h.item = n
      /\ h.key = proc[p].key /\ h.ring = proc[p].ring
      /\ h.pc = "close" => Cardinality(rows) < BatchSize
  <2>1. /\ (proc[p].sealed \/ new # cell) \in BOOLEAN
        /\ (proc[p].unreadable \/ \E r \in rows : Unreadable(proc[p].ring, cell[<<n, r>>])) \in BOOLEAN
    OBVIOUS
  <2>2. h \in Process
    BY <1>2, <2>1, Zenon DEF Process
  <2>3. /\ h.pc = IF Cardinality(rows) < BatchSize THEN "close" ELSE "batch"
        /\ h.item = n /\ h.key = proc[p].key /\ h.ring = proc[p].ring
    BY <1>2, Zenon DEF Process
  <2> QED
    BY <2>2, <2>3
<1> HIDE DEF h
<1>6. /\ proc' \in [Procs -> Process \cup {Off}]
      /\ proc'[p] = h
      /\ \A q \in Procs \ {p} : proc'[q] = proc[q]
  BY <1>1, <1>4, <1>5, ProcReplaced
<1>7. /\ item' \in [Items -> [state: {"none", "pending", "sealing", "sealed"}, cursor: 0..NumRows]]
      /\ item'[n].state = "sealing" /\ item'[n].cursor = CursorAfter(n)
      /\ \A i \in Items \ {n} : item'[i] = item[i]
  BY <1>1, <1>3, <1>4, BatchFacts DEF TypeOK
<1>8. /\ proc[p].key \in Keys /\ proc[p].ring \in SUBSET Keys /\ record.kcv \in Keys
      /\ record.kcv \in proc[p].ring
  BY <1>1, WorkersAreKeyed DEF WorkStage
<1>9. ASSUME NEW c \in Cells
      PROVE  /\ new[c] \in Values /\ new[c].text = IF new[c].key = NoKey THEN Escape(written[c]) ELSE written[c]
             /\ cell[c].key # NoKey => new[c].key # NoKey
             /\ c[1] = n /\ c[2] \in rows => new[c].key # NoKey
  <2>1. cell[c] \in Values /\ written[c] \in Texts
    BY <1>1 DEF TypeOK, Values
  <2>2. cell[c].text = IF cell[c].key = NoKey THEN Escape(written[c]) ELSE written[c]
    BY DEF StoreInv, ValuesKeepText
  <2> DEFINE w == Resealed(proc[p].key, proc[p].ring, cell[c])
  <2>3. w \in Values /\ w.key \in Keys /\ w.text = written[c]
    BY <1>8, <2>1, <2>2, ResealedFacts
  <2>4. new[c] = IF c[1] = n /\ c[2] \in rows THEN w ELSE cell[c]
    OBVIOUS
  <2> HIDE DEF w, new, rows
  <2> QED
    BY <2>1, <2>2, <2>3, <2>4, StoreAssumption
<1>10. cell' \in [Cells -> [key: Keys \cup {NoKey}, text: Escaped]]
  BY <1>4, <1>9 DEF Values
<1>11. WorkStage(p)'
  <2>1. \A i \in Items : i < n => item'[i].state = "sealed"
    BY <1>1, <1>2, <1>3, <1>7 DEF WorkStage, Items
  <2>2. n > 0
    BY <1>1, <1>2 DEF WorkStage
  <2>3. h.pc = "close" => item'[n].cursor = NumRows
    BY <1>1, <1>3, <1>5, <1>7, BatchFacts
  <2> QED
    BY <1>1, <1>3, <1>5, <1>6, <1>7, <1>8, <2>1, <2>2, <2>3 DEF WorkStage, Working, OpenedStages
<1>12. StoreParts'
  <2>1. StandaloneStoreIsPinned'
    BY <1>1 DEF StoreInv, StandaloneStoreIsPinned, files
  <2>2. ItemsFollowRecord'
    BY <1>1, <1>3, <1>7, <1>8, StoreAssumption DEF StoreInv, ItemsFollowRecord
  <2>3. PassedIsSealed'
    <3> SUFFICES ASSUME NEW c \in Cells \ strays, Passed(c)' PROVE new[c].key # NoKey
      BY <1>1, <1>4 DEF PassedIsSealed, history
    <3>1. c[1] \in Items /\ c[2] \in Rows
      BY DEF Cells
    <3>2. CASE Passed(c)
      BY <1>9, <3>2 DEF StoreInv, PassedIsSealed
    <3>3. CASE ~Passed(c)
      <4>1. c[1] = n /\ c[2] <= CursorAfter(n) /\ ~(c[2] <= item[n].cursor)
        BY <1>3, <1>7, <3>1, <3>3 DEF Passed
      <4> QED
        BY <1>1, <1>3, <1>9, <3>1, <4>1, BatchFacts
    <3> QED
      BY <3>2, <3>3
  <2>4. ValuesKeepText'
    BY <1>1, <1>4, <1>9 DEF ValuesKeepText, history
  <2>5. OkMeansScrubbed'
    BY <1>1, <1>3 DEF OkMeansScrubbed
  <2> QED
    BY <2>1, <2>2, <2>3, <2>4, <2>5 DEF StoreParts
<1>13. /\ proc'[p].pc \in OpenedStages \cup {"serve"} /\ residue' \subseteq {"wal", "free", "pages"}
       /\ record' \in Record
  BY <1>1, <1>4, <1>5, <1>6 DEF OpenedStages, TypeOK
<1> QED
  BY <1>1, <1>5, <1>6, <1>7, <1>8, <1>10, <1>11, <1>12, <1>13, WorkStep DEF history

\* A column is closed when the cursor has passed its last row.
LEMMA ItemClosesInv ==
  ASSUME StoreInv, NEW p \in Procs, ItemCloses(p)
  PROVE  StoreInv'
<1>1. TypeOK /\ Up(p) /\ Working(p) /\ WorkStage(p) /\ UNCHANGED <<files, cell, residue, history>>
  BY DEF StoreInv, ItemCloses, Up, Working, OpenedStages
<1> DEFINE n == proc[p].item
<1>2. proc[p].pc = "close"
  BY DEF ItemCloses
<1>3. /\ n \in Items /\ item[n].cursor = NumRows /\ record.state = "vacuum_pending"
      /\ n > 0 /\ n \in Nat
  BY <1>1, <1>2 DEF WorkStage, Items
<1>4. /\ proc' \in [Procs -> Process \cup {Off}]
      /\ proc'[p].pc = "item" /\ proc'[p].item = n + 1
      /\ proc'[p].key = proc[p].key /\ proc'[p].ring = proc[p].ring
      /\ \A q \in Procs \ {p} : proc'[q] = proc[q]
  BY <1>1, <1>3, NextItemFacts DEF ItemCloses
<1>5. /\ item' \in [Items -> [state: {"none", "pending", "sealing", "sealed"}, cursor: 0..NumRows]]
      /\ item'[n].state = "sealed" /\ item'[n].cursor = 0
      /\ \A i \in Items \ {n} : item'[i] = item[i]
  <2>1. /\ ItemRow("sealed", 0) \in [state: {"none", "pending", "sealing", "sealed"}, cursor: 0..NumRows]
        /\ ItemRow("sealed", 0).state = "sealed" /\ ItemRow("sealed", 0).cursor = 0
    BY StoreAssumption DEF ItemRow
  <2>2. item' = [item EXCEPT ![n] = ItemRow("sealed", 0)]
    BY DEF ItemCloses
  <2> QED
    BY <1>1, <1>3, <2>1, <2>2 DEF TypeOK
<1>6. /\ proc[p].key \in Keys /\ proc[p].key \in proc[p].ring /\ (alone => proc[p].key = pin)
      /\ record.kcv \in Keys /\ record.kcv \in proc[p].ring
  BY <1>1, WorkersAreKeyed DEF WorkStage
<1>7. /\ record' \in Record /\ record'.state = "vacuum_pending"
      /\ record'.kcv \in proc[p].ring /\ record'.kcv \in Keys
      /\ record'.kcv \in {record.kcv, proc[p].key}
  BY <1>1, <1>3, <1>6, RecordedFacts DEF ItemCloses, TypeOK
<1>8. WorkStage(p)'
  <2>1. \A i \in Items : i < n + 1 => i < n \/ i = n
    BY <1>3 DEF Items
  <2>2. \A i \in Items : i < n + 1 => item'[i].state = "sealed"
    BY <1>1, <1>2, <1>5, <2>1 DEF WorkStage
  <2> QED
    BY <1>3, <1>4, <1>7, <2>2 DEF WorkStage, Working, OpenedStages
<1>9. StoreParts'
  <2>1. StandaloneStoreIsPinned'
    BY <1>1, <1>6, <1>7, StoreAssumption DEF StoreInv, StandaloneStoreIsPinned, files
  <2>2. ItemsFollowRecord'
    BY <1>5, <1>7, StoreAssumption DEF StoreInv, ItemsFollowRecord
  <2>3. PassedIsSealed'
    <3> SUFFICES ASSUME NEW c \in Cells \ strays, Passed(c)' PROVE cell[c].key # NoKey
      BY <1>1 DEF PassedIsSealed, history
    <3>1. c[1] \in Items /\ c[2] \in Rows
      BY DEF Cells
    <3>2. c[2] <= NumRows
      BY <3>1, StoreAssumption DEF Rows
    <3>3. Passed(c)
      BY <1>3, <1>5, <3>1, <3>2 DEF Passed
    <3> QED
      BY <3>3 DEF StoreInv, PassedIsSealed
  <2>4. ValuesKeepText' /\ OkMeansScrubbed'
    BY <1>1, <1>7 DEF StoreInv, ValuesKeepText, OkMeansScrubbed, history
  <2> QED
    BY <2>1, <2>2, <2>3, <2>4 DEF StoreParts
<1>10. /\ proc'[p].pc \in OpenedStages \cup {"serve"} /\ residue' \subseteq {"wal", "free", "pages"}
       /\ cell' \in [Cells -> [key: Keys \cup {NoKey}, text: Escaped]]
  BY <1>1, <1>4 DEF OpenedStages, TypeOK
<1> QED
  BY <1>1, <1>4, <1>5, <1>7, <1>8, <1>9, <1>10, WorkStep

\* The store is finished: whatever its scrub and its compaction come to is noted before
\* it is used.
LEMMA FinishInv ==
  ASSUME StoreInv, NEW p \in Procs, FinishFails(p) \/ FinishScrubs(p) \/ FinishCompacts(p)
  PROVE  StoreInv'
<1>1. TypeOK /\ Up(p) /\ Working(p) /\ WorkStage(p) /\ UNCHANGED <<files, item, cell, history>>
      /\ proc[p].pc \in {"finish", "deferred"}
  BY DEF StoreInv, FinishFails, FinishScrubs, FinishCompacts, Up, Working, OpenedStages
<1>2. /\ residue' \subseteq residue
      /\ record' = record \/ (record' \in Notes /\ (record' = Cleared => residue' = {}))
      /\ Goto(p, "deferred") \/ Serves(p)
  <2>1. ASSUME NEW a \in BOOLEAN, NEW b \in BOOLEAN
        PROVE  Pending(a, b) \in Notes /\ Pending(a, b) # Cleared
    <3>1. record \in Record
      BY <1>1 DEF TypeOK
    <3>2. Pending(a, b).state = "vacuum_pending" /\ Cleared.state = "ok"
      BY <3>1 DEF Pending, Cleared, Record
    <3> QED
      BY <3>2 DEF Notes
  <2>2. Cleared \in Notes
    BY DEF Notes
  <2>3. CASE FinishFails(p)
    BY <2>1, <2>3 DEF FinishFails
  <2>4. CASE FinishScrubs(p)
    BY <2>1, <2>4 DEF FinishScrubs
  <2>5. CASE FinishCompacts(p)
    <3>1. Serves(p)
      BY <2>5 DEF FinishCompacts
    <3>2. \/ residue' = {} /\ record' = Cleared
          \/ UNCHANGED residue /\ record' = Pending(TRUE, FALSE)
      BY <2>5, Zenon DEF FinishCompacts
    <3> QED
      BY <2>1, <2>2, <3>1, <3>2
  <2> QED
    BY <2>3, <2>4, <2>5
<1>3. /\ proc' \in [Procs -> Process \cup {Off}]
      /\ proc'[p].pc \in {"deferred", "serve"}
      /\ proc'[p].key = proc[p].key /\ proc'[p].ring = proc[p].ring
      /\ \A q \in Procs \ {p} : proc'[q] = proc[q]
  BY <1>1, <1>2, GotoFacts, ServesFacts DEF Stages, OpenedStages
<1>4. record' \in Record /\ record'.kcv = record.kcv
      /\ (record'.state = "ok" => record' = record \/ residue' = {})
  BY <1>1, <1>2, NoteFacts DEF TypeOK
<1>5. record'.kcv \in proc[p].ring
  BY <1>1, <1>4 DEF WorkStage
<1>6. WorkStage(p)'
  BY <1>1, <1>3, <1>5 DEF WorkStage, OpenedStages
<1>7. StoreParts'
  <2>1. OkMeansScrubbed'
    BY <1>1, <1>2, <1>4 DEF StoreInv, OkMeansScrubbed, history
  <2> QED
    BY <1>1, <1>4, <2>1 DEF StoreInv, StoreParts, StandaloneStoreIsPinned, ItemsFollowRecord,
       PassedIsSealed, Passed, ValuesKeepText, files, history
<1>8. /\ proc'[p].pc \in OpenedStages \cup {"serve"} /\ residue' \subseteq {"wal", "free", "pages"}
      /\ item' \in [Items -> [state: {"none", "pending", "sealing", "sealed"}, cursor: 0..NumRows]]
      /\ cell' \in [Cells -> [key: Keys \cup {NoKey}, text: Escaped]]
  BY <1>1, <1>2, <1>3 DEF OpenedStages, TypeOK
<1> QED
  BY <1>1, <1>3, <1>4, <1>5, <1>6, <1>7, <1>8, WorkStep

-----------------------------------------------------------------------------
(* Writing, stopping, waiting *)

\* A value is written by a process that may: sealed where it holds a key, escaped and
\* noted as a stray where the store has a record.
LEMMA WriteInv ==
  ASSUME StoreInv, NEW p \in Procs, Write(p)
  PROVE  StoreInv'
<1>1. /\ TypeOK /\ KeyStage(p) /\ WorkStage(p)
      /\ Up(p) /\ proc[p].pc = (IF Refreshes(p) THEN "write" ELSE "serve")
      /\ UNCHANGED <<files, record, item>>
  BY DEF StoreInv, Write, EnsureWritable, Up
<1>2. PICK c \in Cells, text \in Texts :
        /\ cell' = [cell EXCEPT ![c] = IF Keyless(p) THEN Plain(Escape(text)) ELSE Sealed(proc[p].key, text)]
        /\ written' = [written EXCEPT ![c] = text]
        /\ strays' = strays \cup (IF Keyless(p) /\ record.kcv # NoKey THEN {c} ELSE {})
        /\ residue' = IF cell[c].key = NoKey THEN {"wal", "free", "pages"} ELSE residue
  BY DEF Write
<1>3. /\ proc' \in [Procs -> Process \cup {Off}] /\ proc'[p].pc = "serve"
      /\ proc'[p].key = proc[p].key /\ proc'[p].ring = proc[p].ring
      /\ \A q \in Procs \ {p} : proc'[q] = proc[q]
  BY <1>1, GotoFacts DEF Write, Stages
<1>4. alone' = alone /\ UNCHANGED <<record, item, pin>>
  BY <1>1 DEF files
<1>5. KeyStage(p)' /\ WorkStage(p)'
  <2>1. KeyStage(p)'
    BY <1>1, <1>3, <1>4 DEF KeyStage, Up, OpenedStages
  <2>2. WorkStage(p)'
    BY <1>1, <1>3, <1>4 DEF WorkStage, Working, Keyless, Refreshes, OpenedStages
  <2> QED
    BY <2>1, <2>2
<1>6. OneKeyed' /\ (\A q \in Procs : KeyStage(q)') /\ (\A q \in Procs : WorkStage(q)')
  BY <1>1, <1>3, <1>4, <1>5, ProcessStep
<1>7. CASE Keyless(p)
  <2>1. /\ Plain(Escape(text)) \in Values /\ Plain(Escape(text)).key = NoKey
        /\ Plain(Escape(text)).text = Escape(text)
    BY EscapeFacts DEF Plain, Values
  <2>2. /\ cell' \in [Cells -> Values] /\ cell'[c].key = NoKey /\ cell'[c].text = Escape(text)
        /\ \A d \in Cells \ {c} : cell'[d] = cell[d]
    BY <1>1, <1>2, <1>7, <2>1 DEF TypeOK, Values
  <2>3. record.kcv = NoKey \/ c \in strays'
    BY <1>2, <1>7
  <2>4. TypeOK'
    BY <1>1, <1>2, <1>3, <2>2, StoreAssumption DEF TypeOK, Values, Write, files
  <2>5. ValuesKeepText'
    BY <1>1, <1>2, <2>2 DEF StoreInv, ValuesKeepText, TypeOK
  <2>6. PassedIsSealed' /\ OkMeansScrubbed'
    <3>1. CASE record.kcv = NoKey
      <4>1. \A i \in Items : item[i].state = "none" /\ item[i].cursor = 0
        BY <3>1 DEF StoreInv, ItemsFollowRecord
      <4>2. 1 \in Items
        BY StoreAssumption DEF Items
      <4>3. \A d \in Cells : ~Passed(d)
        BY <4>1 DEF Passed, Cells, Rows
      <4>4. \A d \in Cells : ~Passed(d)'
        BY <1>1, <4>3 DEF Passed
      <4> QED
        BY <1>1, <4>1, <4>2, <4>4 DEF PassedIsSealed, OkMeansScrubbed
    <3>2. CASE c \in strays'
      <4>1. strays' # {} /\ strays \subseteq strays'
        BY <1>2, <3>2
      <4>2. ASSUME NEW d \in Cells \ strays', Passed(d)' PROVE cell'[d].key # NoKey
        <5>1. d \in Cells \ strays /\ Passed(d) /\ d # c
          BY <1>1, <3>2, <4>1, <4>2 DEF Passed
        <5> QED
          BY <2>2, <5>1 DEF StoreInv, PassedIsSealed
      <4> QED
        BY <4>1, <4>2 DEF PassedIsSealed, OkMeansScrubbed
    <3> QED
      BY <2>3, <3>1, <3>2
  <2> QED
    BY <1>4, <1>6, <2>4, <2>5, <2>6 DEF StoreInv, StandaloneStoreIsPinned, ItemsFollowRecord
<1>8. CASE ~Keyless(p)
  <2>1. Working(p) /\ (\A i \in Items : item[i].state = "sealed")
    BY <1>1, <1>8 DEF Working, WorkStage, Refreshes
  <2>2. proc[p].key \in Keys
    BY <2>1, WorkersAreKeyed
  <2>3. /\ Sealed(proc[p].key, text) \in Values /\ Sealed(proc[p].key, text).key = proc[p].key
        /\ Sealed(proc[p].key, text).text = text
    BY <2>2, EscapeFacts DEF Sealed, Values
  <2>4. /\ cell' \in [Cells -> Values] /\ cell'[c].key = proc[p].key /\ cell'[c].text = text
        /\ \A d \in Cells \ {c} : cell'[d] = cell[d]
    BY <1>1, <1>2, <1>8, <2>3 DEF TypeOK, Values
  <2>5. strays' = strays
    BY <1>2, <1>8
  <2>6. TypeOK'
    BY <1>1, <1>2, <1>3, <2>4, <2>5, StoreAssumption DEF TypeOK, Values, Write, files
  <2>7. ValuesKeepText'
    BY <1>1, <1>2, <2>2, <2>4, StoreAssumption DEF StoreInv, ValuesKeepText, TypeOK
  <2>8. PassedIsSealed'
    BY <1>1, <2>2, <2>4, <2>5, StoreAssumption DEF StoreInv, PassedIsSealed, Passed
  <2>9. OkMeansScrubbed'
    <3> SUFFICES ASSUME record.state = "ok", strays = {} PROVE residue' = {}
      BY <1>1, <2>5 DEF OkMeansScrubbed
    <3>1. residue = {}
      BY <2>1 DEF StoreInv, OkMeansScrubbed
    <3>2. c[1] \in Items
      BY DEF Cells
    <3>3. cell[c].key # NoKey
      BY <2>1, <3>2 DEF StoreInv, PassedIsSealed, Passed
    <3> QED
      BY <1>2, <3>1, <3>3
  <2> QED
    BY <1>4, <1>6, <2>6, <2>7, <2>8, <2>9 DEF StoreInv, StandaloneStoreIsPinned, ItemsFollowRecord
<1> QED
  BY <1>7, <1>8

\* refresh_compat looks at the record and changes only the process.
LEMMA RefreshCompatInv ==
  ASSUME StoreInv, NEW p \in Procs, RefreshCompat(p)
  PROVE  StoreInv'
<1>1. /\ TypeOK /\ KeyStage(p) /\ WorkStage(p) /\ Up(p) /\ proc[p].pc = "serve" /\ Keyless(p)
      /\ UNCHANGED <<files, database, history>>
  BY DEF StoreInv, RefreshCompat, Refreshes, Up
<1>2. PICK pc \in {"write", "unhealthy"} : Goto(p, pc)
  BY DEF RefreshCompat
<1>3. /\ proc' \in [Procs -> Process \cup {Off}] /\ proc'[p].pc = pc
      /\ proc'[p].key = proc[p].key /\ proc'[p].ring = proc[p].ring
      /\ \A q \in Procs \ {p} : proc'[q] = proc[q]
  BY <1>1, <1>2, GotoFacts DEF Stages
<1>4. UNCHANGED <<record, item, pin>> /\ alone' = alone
  BY <1>1 DEF database, files
<1>5. TypeOK'
  BY <1>1, <1>3 DEF TypeOK, files, database, history
<1>6. KeyStage(p)' /\ WorkStage(p)'
  <2>1. KeyStage(p)'
    BY <1>1, <1>3, <1>4 DEF KeyStage, Up, OpenedStages
  <2>2. WorkStage(p)'
    BY <1>3 DEF WorkStage, Working, OpenedStages
  <2> QED
    BY <2>1, <2>2
<1> QED
  BY <1>1, <1>3, <1>4, <1>5, <1>6, ProcessStep, SameStore DEF StoreInv, StoreParts

\* A process stops, at any point.
LEMMA StopInv ==
  ASSUME StoreInv, NEW p \in Procs, Stop(p)
  PROVE  StoreInv'
<1>1. TypeOK /\ Up(p) /\ UNCHANGED <<files, database, history>>
  <2>1. TypeOK /\ proc[p] # Off
    BY DEF StoreInv, Stop
  <2>2. Up(p)
    BY <2>1 DEF TypeOK, Process, Up
  <2> QED
    BY <2>1, <2>2 DEF Stop
<1>2. /\ proc' \in [Procs -> Process \cup {Off}]
      /\ proc'[p].pc = "off"
      /\ \A q \in Procs \ {p} : proc'[q] = proc[q]
  BY <1>1, EndsFacts DEF Stop
<1>3. TypeOK'
  BY <1>1, <1>2 DEF TypeOK, files, database, history
<1>4. UNCHANGED <<record, item, pin>> /\ alone' = alone
  BY <1>1 DEF database, files
<1>5. StoreParts'
  BY <1>1, <1>4, SameStore
<1> QED
  BY <1>1, <1>2, <1>3, <1>4, <1>5, ProcessStep, StoppedStages DEF StoreInv, StoreParts

\* A day later the compaction is tried again.
LEMMA DayPassesInv ==
  ASSUME StoreInv, DayPasses
  PROVE  StoreInv'
<1>1. TypeOK /\ UNCHANGED <<files, item, cell, residue, proc, history>>
  BY DEF StoreInv, DayPasses
<1>2. record' \in Record /\ record'.kcv = record.kcv /\ record'.state = record.state
  <2>1. record \in Record /\ record' = [record EXCEPT !.tried = FALSE]
    BY <1>1 DEF DayPasses, TypeOK
  <2>2. record' \in Record
    BY <2>1, Zenon DEF Record
  <2> QED
    BY <2>1, <2>2 DEF Record
<1>3. TypeOK'
  BY <1>1, <1>2 DEF TypeOK, files, history
<1> QED
  BY <1>1, <1>2, <1>3 DEF StoreInv, OneKeyed, KeyStage, WorkStage, Working, Keyless, Up,
     StandaloneStoreIsPinned, ItemsFollowRecord, PassedIsSealed, Passed, ValuesKeepText,
     OkMeansScrubbed, files, history

-----------------------------------------------------------------------------
(* The theorems *)

LEMMA StoreInvInit == Init => StoreInv
<1> SUFFICES ASSUME Init PROVE StoreInv
  OBVIOUS
<1>1. <<>> \in Texts /\ <<>> \in Escaped /\ Escape(<<>>) = <<>>
  BY DEF Texts, Escaped, Escape
<1>2. \A p \in Procs : proc[p] = Off /\ proc[p].pc = "off"
  BY DEF Init, Off
<1>3. TypeOK
  <2>1. Plain(<<>>) \in [key: Keys \cup {NoKey}, text: Escaped]
    BY <1>1 DEF Plain
  <2>2. ItemRow("none", 0) \in [state: {"none", "pending", "sealing", "sealed"}, cursor: 0..NumRows]
    BY StoreAssumption DEF ItemRow
  <2>3. record \in Record
    BY Zenon DEF Init, Record
  <2>4. writes \in 0..MaxWrites
    BY StoreAssumption DEF Init
  <2> QED
    BY <1>1, <2>1, <2>2, <2>3, <2>4 DEF Init, TypeOK
<1>4. \A i \in Items : item[i].state = "none" /\ item[i].cursor = 0
  BY DEF Init, ItemRow
<1>5. \A c \in Cells : cell[c].key = NoKey /\ cell[c].text = <<>> /\ written[c] = <<>>
  BY DEF Init, Plain
<1>6. OneKeyed /\ \A p \in Procs : KeyStage(p) /\ WorkStage(p)
  BY <1>2 DEF OneKeyed, KeyStage, WorkStage, Working, Keyless, Up, OpenedStages
<1>7. record.kcv = NoKey /\ record.state = "none"
  BY DEF Init
<1>8. PassedIsSealed
  <2>1. \A c \in Cells : c[1] \in Items /\ ~(c[2] <= 0)
    BY DEF Cells, Rows
  <2> QED
    BY <1>4, <2>1 DEF PassedIsSealed, Passed
<1> QED
  BY <1>1, <1>3, <1>4, <1>5, <1>6, <1>7, <1>8
     DEF StoreInv, StandaloneStoreIsPinned, ItemsFollowRecord, ValuesKeepText, OkMeansScrubbed

\* Every step of any process keeps the invariant.
LEMMA StoreInvStep ==
  ASSUME StoreInv, [Next]_vars
  PROVE  StoreInv'
<1>1. ASSUME NEW p \in Procs, Resolves(p) PROVE StoreInv'
  BY <1>1, StartInv, RootInv, PinKeyInv DEF Resolves
<1>2. ASSUME NEW p \in Procs, Opens(p) PROVE StoreInv'
  BY <1>2, CheckKeyInv, PendingInv, ReopenInv DEF Opens
<1>3. ASSUME NEW p \in Procs, Migrates(p) PROVE StoreInv'
  BY <1>3, MigrateBeginInv, ItemSkipsInv, ItemBeginsInv, SealBatchInv, ItemClosesInv, FinishInv
     DEF Migrates
<1>4. CASE UNCHANGED vars
  <2>1. TypeOK'
    BY <1>4 DEF StoreInv, TypeOK, vars
  <2> QED
    BY <1>4, <2>1 DEF StoreInv, OneKeyed, KeyStage, WorkStage, Working, Keyless, Up,
       StandaloneStoreIsPinned, ItemsFollowRecord, PassedIsSealed, Passed, ValuesKeepText,
       OkMeansScrubbed, vars
<1> QED
  BY <1>1, <1>2, <1>3, <1>4, RefreshCompatInv, WriteInv, StopInv, DayPassesInv DEF Next

\* The store, its key files and its processes have their types, under any number of
\* processes, columns and rows.
THEOREM ContentTypeInvariant == Spec => []TypeOK
<1>1. StoreInv => TypeOK
  BY DEF StoreInv
<1> QED
  BY <1>1, StoreInvInit, StoreInvStep, PTL DEF Spec

\* Outside Core, no store is sealed under a key that a later start would not insist on:
\* the pin is written once, before the record.
THEOREM StandaloneStoreIsPinnedInvariant == Spec => []StandaloneStoreIsPinned
<1>1. StoreInv => StandaloneStoreIsPinned
  BY DEF StoreInv
<1> QED
  BY <1>1, StoreInvInit, StoreInvStep, PTL DEF Spec

\* A finished column holds no plaintext but what keyless processes wrote after the store
\* had a record: the cursor is committed with its batch, and a short batch ends at the
\* last row.
THEOREM SealedItemsHoldNoPlaintextInvariant == Spec => []SealedItemsHoldNoPlaintext
<1>1. StoreInv => SealedItemsHoldNoPlaintext
  BY DEF StoreInv, SealedItemsHoldNoPlaintext, PassedIsSealed, Passed
<1> QED
  BY <1>1, StoreInvInit, StoreInvStep, PTL DEF Spec

\* A record that says ok, over sealed columns, means that no trace of the plaintext is
\* left in the file.
THEOREM OkMeansScrubbedInvariant == Spec => []OkMeansScrubbed
<1>1. StoreInv => OkMeansScrubbed
  BY DEF StoreInv
<1> QED
  BY <1>1, StoreInvInit, StoreInvStep, PTL DEF Spec

\* A value reads back as the text that was last written, or not at all, whatever was
\* typed and however often it was sealed again.
THEOREM ReadsBackInvariant == Spec => []ReadsBack
<1>1. StoreInv => ReadsBack
  <2> SUFFICES ASSUME StoreInv, NEW p \in Procs, proc[p].pc = "serve", NEW c \in Cells
               PROVE  Opened(proc[p].ring, cell[c]) =
                        IF cell[c].key \in proc[p].ring \cup {NoKey} THEN {written[c]} ELSE {}
    BY DEF ReadsBack
  <2>1. TypeOK /\ Up(p) /\ written[c] \in Texts
    BY DEF StoreInv, TypeOK, Up
  <2>2. proc[p].ring \subseteq Keys /\ NoKey \notin proc[p].ring
    BY <2>1, UpColumns, StoreAssumption DEF Process
  <2>3. cell[c].text = IF cell[c].key = NoKey THEN Escape(written[c]) ELSE written[c]
    BY DEF StoreInv, ValuesKeepText
  <2>4. CASE cell[c].key = NoKey
    BY <2>1, <2>3, <2>4, EscapeFacts DEF Opened
  <2>5. CASE cell[c].key # NoKey
    BY <2>2, <2>3, <2>5 DEF Opened
  <2> QED
    BY <2>4, <2>5
<1> QED
  BY <1>1, StoreInvInit, StoreInvStep, PTL DEF Spec

\* Who changes a value, and into what.
LEMMA CellWriters ==
  ASSUME Next
  PROVE  UNCHANGED cell \/ \E p \in Procs : SealBatch(p) \/ Write(p)
<1>1. ASSUME NEW p \in Procs, Resolves(p) \/ Opens(p) \/ RefreshCompat(p) \/ Stop(p)
      PROVE  UNCHANGED cell
  BY <1>1 DEF Resolves, Start, StartKeyless, ReadRoot, FillRoot, PinKey, Opens, CheckKey, PendingSkips,
     PendingRuns, PendingScrubs, PendingCompacts, ReopenItems, RefreshCompat, Stop, database
<1>2. ASSUME NEW p \in Procs, Migrates(p) PROVE UNCHANGED cell \/ SealBatch(p)
  BY <1>2 DEF Migrates, MigrateBegin, ItemSkips, ItemBegins, ItemCloses, FinishFails, FinishScrubs,
     FinishCompacts, database
<1>3. DayPasses => UNCHANGED cell
  BY DEF DayPasses
<1> QED
  BY <1>1, <1>2, <1>3 DEF Next

\* A value is sealed only by a process that holds the key which the store records.
LEMMA SealsWhereItCanReadStep ==
  ASSUME StoreInv, Next, NEW c \in Cells, cell'[c] # cell[c], cell'[c].key # NoKey
  PROVE  \E p \in Procs : proc[p] # Off /\ proc[p].key = cell'[c].key /\ record.kcv \in proc[p].ring
<1>1. PICK p \in Procs : SealBatch(p) \/ Write(p)
  BY CellWriters
<1>2. TypeOK /\ KeyStage(p) /\ WorkStage(p)
  BY DEF StoreInv
<1>3. proc[p] # Off
  <2>1. proc[p].pc \in {"batch", "serve", "write"}
    <3>1. SealBatch(p) => proc[p].pc = "batch"
      BY DEF SealBatch
    <3>2. Write(p) => proc[p].pc \in {"serve", "write"}
      BY DEF Write, EnsureWritable
    <3> QED
      BY <1>1, <3>1, <3>2
  <2> QED
    BY <2>1 DEF Off
<1>4. CASE SealBatch(p)
  <2>1. Working(p)
    BY <1>4 DEF SealBatch, Working, OpenedStages
  <2>2. record.kcv \in proc[p].ring /\ proc[p].key \in Keys /\ proc[p].ring \in SUBSET Keys
    BY <1>2, <2>1, WorkersAreKeyed DEF WorkStage
  <2>3. cell'[c] = Resealed(proc[p].key, proc[p].ring, cell[c])
    BY <1>4 DEF SealBatch
  <2>4. cell[c] \in Values /\ written[c] \in Texts
    BY <1>2 DEF TypeOK, Values
  <2>5. cell[c].text = IF cell[c].key = NoKey THEN Escape(written[c]) ELSE written[c]
    BY DEF StoreInv, ValuesKeepText
  <2>6. cell'[c].key = proc[p].key
    BY <2>2, <2>3, <2>4, <2>5, ResealedFacts
  <2> QED
    BY <1>3, <2>2, <2>6
<1>5. CASE Write(p)
  <2>1. PICK d \in Cells, text \in Texts :
          cell' = [cell EXCEPT ![d] = IF Keyless(p) THEN Plain(Escape(text)) ELSE Sealed(proc[p].key, text)]
    BY <1>5 DEF Write
  <2>2. cell'[c] = IF Keyless(p) THEN Plain(Escape(text)) ELSE Sealed(proc[p].key, text)
    BY <1>2, <2>1 DEF TypeOK
  <2>3. ~Keyless(p) /\ cell'[c].key = proc[p].key
    BY <2>2 DEF Plain, Sealed
  <2>4. record.kcv \in proc[p].ring
    BY <1>2, <1>5, <2>3 DEF Write, EnsureWritable, Refreshes, WorkStage, Working
  <2> QED
    BY <1>3, <2>3, <2>4
<1> QED
  BY <1>1, <1>4, <1>5

\* Of every step: nothing is sealed under a key that the store's record does not vouch
\* for.
THEOREM SealsWhereItCanReadHolds == Spec => SealsWhereItCanRead
<1>1. StoreInv /\ [Next]_vars =>
        [\A c \in Cells : cell'[c] # cell[c] /\ cell'[c].key # NoKey =>
           \E p \in Procs : proc[p] # Off /\ proc[p].key = cell'[c].key
                              /\ record.kcv \in proc[p].ring]_cell
  BY SealsWhereItCanReadStep DEF vars
<1> QED
  BY <1>1, StoreInvInit, StoreInvStep, PTL DEF Spec, SealsWhereItCanRead
================================================================================
