----------------------------- MODULE CustodyProofs -----------------------------
(***************************************************************************)
(* Theorems about Custody, for any number of keys, processes, retired keys *)
(* and commands: no key that seals data is destroyed, and every process    *)
(* that resolved its key against the record seals under the recorded one.  *)
(***************************************************************************)
EXTENDS Custody, FiniteSetTheorems, TLAPS

\* The part of TypeOK that is not about the processes.
FolderTypeOK ==
  /\ chain \in Keys \cup {NoKey, Corrupt} /\ master \in Keys \cup {NoKey, Corrupt}
  /\ memory \in Keys \cup {NoKey, Corrupt} /\ record \in Keys \cup {NoKey}
  /\ index \in [Keys -> Custodies]
  /\ vault \subseteq Keys
  /\ sealed \subseteq Keys /\ lost \subseteq Keys /\ commands \in 0..MaxCommands
  /\ Cardinality(Retired) <= MaxRetired

\* The keys in a slot or a file, those that still are or have been lost, and those
\* that nobody has to worry about.
Slots == Keys \cap {chain, master, memory}
Found == Slots \cup lost
Safe == Held \cup OperatorKeys \cup lost

\* The keys that an index names.
RetiredIn(custody) == {k \in Keys : custody[k] # "none"}

Commanding(h) == h.then \in {"install", "remove", "off"}

\* What a process h is about at each place.
Staged(h) ==
  /\ h.env \in OperatorKeys \cup {NoKey}
  /\ h.pc \in {"ladder", "store", "verify", "publish", "recover", "check", "probe", "use"} =>
       h.then = "use" /\ h.todo = {}
  /\ h.pc \in {"install", "file"} => h.then = "install" /\ h.todo = {}
  /\ h.pc = "remove" => h.then = "remove"
  /\ h.pc = "note" => h.then \in {"use", "note", "install"}
  /\ h.pc \notin {"ladder", "recover"} => h.key \in Keys

\* The record changes only while no process has read one, and it is p that writes it.
Reads(p, h) ==
  /\ h.read \in {NoKey, record}
  /\ p \in Recorders /\ ~Commanding(h) /\ h.pc # "use" /\ h.read = NoKey => record = NoKey

\* The process is on its way to record its key.
Recording(h) ==
  \/ h.pc = "probe"
  \/ h.pc = "note" /\ ~Commanding(h)
  \/ h.pc \in {"retire", "index"} /\ h.then = "note"

\* The key a process has chosen is safe, it is the recorded one if one was read, and
\* what a process that runs beside others retires is still somewhere else.
Resolved(p, h) ==
  /\ h.pc \in {"check", "probe", "note", "use"} \/ (h.pc \in {"retire", "index"} /\ ~Commanding(h))
       => h.key \in Safe
  /\ h.pc \in {"verify", "check", "probe"} /\ h.src # "env" => h.key \in Found
  /\ Recording(h) => p \in Recorders /\ h.read = NoKey
  /\ h.pc = "use" /\ h.read # NoKey => h.key = h.read
  /\ h.pc \in {"retire", "index"} /\ h.then = "use" => h.key = h.read
  /\ ~Commanding(h) => h.todo \subseteq Found

\* The index at hand has every key that is only in the vault, although others may have
\* replaced the file since it was read.
Indexed(h) ==
  h.pc = "index" =>
    /\ RetiredIn(h.at) \subseteq vault
    /\ Cardinality(RetiredIn(h.at)) <= MaxRetired
    /\ Retired \subseteq RetiredIn(h.at) \cup (IF Commanding(h) THEN {} ELSE Found)
    /\ ~Commanding(h) => RetiredIn(h.at) \subseteq Retired \cup Found

\* What a command need not fear to overwrite, now or once it has retired what it must.
Spared(h) ==
  {h.key} \cup h.todo \cup Retired \cup (IF h.pc = "index" THEN RetiredIn(h.at) ELSE {})

\* A command overwrites the slot, and a file that holds the recorded key, only
\* when they are spared.
Installing(h) ==
  h.then = "install" =>
    /\ h.pc \in {"retire", "index", "install"} /\ h.chainOn /\ chain \in Keys => chain \in Spared(h)
    /\ h.pc # "note" /\ master \in Keys /\ master = record => master \in Spared(h)
    /\ h.pc = "note" => h.key \in Slots

Good(p, h) == Staged(h) /\ Reads(p, h) /\ Resolved(p, h) /\ Indexed(h) /\ Installing(h)

\* Every retired key that an index names has its material in the vault.
IndexedIsStored == Retired \subseteq vault

\* Nothing else runs while a command does.
CommandAlone ==
  \A p, q \in Procs : p # q /\ proc[p] # Off /\ Commanding(proc[p]) => proc[q] = Off

\* The inductive invariant.
CustodyInv ==
  /\ FolderTypeOK
  /\ proc \in [Procs -> Process \cup {Off}]
  /\ IndexedIsStored
  /\ SealingKeyIsHeld
  /\ CommandAlone
  /\ \A p \in Procs : proc[p] # Off => Good(p, proc[p])

-----------------------------------------------------------------------------
(* Processes *)

\* A process that is up has all its columns.
LEMMA UpColumns ==
  ASSUME CustodyInv, NEW p \in Procs, proc[p].pc # "off"
  PROVE  proc[p] \in Process /\ proc[p] # Off /\ Good(p, proc[p])
BY DEF CustodyInv, Off

\* The other way round.
LEMMA ProcessIsUp == ASSUME NEW h \in Process PROVE h # Off /\ h.pc # "off"
BY DEF Process, Off

Stages ==
  {"ladder", "store", "verify", "publish", "recover", "check", "probe", "retire", "index", "note",
   "use", "install", "file", "remove"}

\* h is g moved to another place.
Moved(h, g, pc) ==
  /\ h.pc = pc
  /\ h.env = g.env /\ h.chainOn = g.chainOn /\ h.read = g.read /\ h.key = g.key
  /\ h.src = g.src /\ h.todo = g.todo /\ h.at = g.at /\ h.then = g.then

\* What moving on does to a process.
LEMMA GotoFacts ==
  ASSUME CustodyInv, NEW p \in Procs, proc[p].pc # "off", NEW pc \in Stages, Goto(p, pc)
  PROVE  \E h \in Process : proc' = [proc EXCEPT ![p] = h] /\ Moved(h, proc[p], pc)
<1> DEFINE h == [proc[p] EXCEPT !.pc = pc]
<1>1. proc[p] \in Process
  BY UpColumns
<1>2. proc' = [proc EXCEPT ![p] = h]
  BY DEF Goto, CustodyInv
<1>3. h \in Process
  BY <1>1, Zenon DEF Process, Stages
<1>4. Moved(h, proc[p], pc)
  BY <1>1 DEF Moved, Process
<1> HIDE DEF h
<1> QED
  BY <1>2, <1>3, <1>4

\* What the choice of a key does.
LEMMA ChooseFacts ==
  ASSUME CustodyInv, NEW p \in Procs, proc[p].pc # "off", NEW pc \in Stages, NEW k \in Keys,
         NEW src \in Sources, Choose(p, pc, k, src)
  PROVE  \E h \in Process :
           /\ proc' = [proc EXCEPT ![p] = h]
           /\ h.pc = pc /\ h.key = k /\ h.src = src
           /\ h.env = proc[p].env /\ h.chainOn = proc[p].chainOn /\ h.read = proc[p].read
           /\ h.todo = proc[p].todo /\ h.at = proc[p].at /\ h.then = proc[p].then
<1> DEFINE h == [proc[p] EXCEPT !.pc = pc, !.key = k, !.src = src]
<1>1. proc[p] \in Process
  BY UpColumns
<1>2. proc' = [proc EXCEPT ![p] = h]
  BY DEF Choose, CustodyInv
<1>3. h \in Process
  BY <1>1, Zenon DEF Process, Stages
<1>4. /\ h.pc = pc /\ h.key = k /\ h.src = src
      /\ h.env = proc[p].env /\ h.chainOn = proc[p].chainOn /\ h.read = proc[p].read
      /\ h.todo = proc[p].todo /\ h.at = proc[p].at /\ h.then = proc[p].then
  BY <1>1 DEF Process
<1> HIDE DEF h
<1> QED
  BY <1>2, <1>3, <1>4

\* What a process begins with.
LEMMA BeginsFacts ==
  ASSUME FolderTypeOK, NEW pc \in Stages, NEW env \in OperatorKeys \cup {NoKey}, NEW on \in BOOLEAN
  PROVE  Begins(pc, env, on) \in Process
<1>1. NoIndex \in [Keys -> Custodies]
  BY DEF NoIndex, Custodies
<1> QED
  BY <1>1, CustodyAssumption, Zenon DEF Begins, Process, Stages, Sources, FolderTypeOK

\* What the resolution of a key leaves of a process.
LEMMA UsesFacts ==
  ASSUME CustodyInv, NEW p \in Procs, proc[p].pc # "off", NEW k \in Keys, Uses(p, k)
  PROVE  \E h \in Process :
           /\ proc' = [proc EXCEPT ![p] = h]
           /\ h.pc = "use" /\ h.key = k /\ h.read = proc[p].read /\ h.env = NoKey
           /\ h.todo = {} /\ h.then = "use"
<1> DEFINE g == Begins("use", NoKey, FALSE)
           h == [g EXCEPT !.key = k, !.read = proc[p].read]
<1>1. g \in Process /\ proc[p] \in Process
  BY BeginsFacts, UpColumns DEF Stages, CustodyInv
<1>2. proc' = [proc EXCEPT ![p] = h]
  BY DEF Uses, CustodyInv
<1>3. proc[p].read \in Keys \cup {NoKey}
  BY <1>1 DEF Process
<1>4. h \in Process
  BY <1>1, <1>3, Zenon DEF Process
<1>5. /\ h.pc = "use" /\ h.key = k /\ h.read = proc[p].read /\ h.env = NoKey
      /\ h.todo = {} /\ h.then = "use"
  BY DEF Begins
<1> HIDE DEF h
<1> QED
  BY <1>2, <1>4, <1>5

\* Resolving to another key first retires the one that was found.
LEMMA UsesInsteadFacts ==
  ASSUME CustodyInv, NEW p \in Procs, proc[p].pc # "off", NEW k \in Keys, proc[p].key \in Keys,
         NEW then \in {"use", "note"}, UsesInstead(p, k, then)
  PROVE  \E h \in Process :
           /\ proc' = [proc EXCEPT ![p] = h]
           /\ h.pc = "retire" /\ h.key = k /\ h.read = proc[p].read /\ h.env = proc[p].env
           /\ h.then = then
           /\ h.todo = IF proc[p].src = "env" THEN {} ELSE {proc[p].key}
<1> DEFINE todo == IF proc[p].src = "env" THEN {} ELSE {proc[p].key}
           h == [proc[p] EXCEPT !.pc = "retire", !.key = k, !.then = then, !.todo = todo]
<1>1. proc[p] \in Process /\ todo \in SUBSET Keys
  BY UpColumns
<1>2. proc' = [proc EXCEPT ![p] = h]
  BY DEF UsesInstead, CustodyInv
<1> HIDE DEF todo
<1>3. h \in Process
  BY <1>1, Zenon DEF Process
<1>4. /\ h.pc = "retire" /\ h.key = k /\ h.read = proc[p].read /\ h.env = proc[p].env
      /\ h.then = then /\ h.todo = todo
  BY <1>1 DEF Process
<1> HIDE DEF h
<1> QED
  BY <1>2, <1>3, <1>4 DEF todo

-----------------------------------------------------------------------------
(* Steps of one process *)

\* What a step of p has to leave, beside p itself: a right folder, and what the
\* others rely on.
StepOK(p) ==
  /\ FolderTypeOK' /\ IndexedIsStored' /\ SealingKeyIsHeld'
  /\ \A q \in Procs \ {p} : proc[q] # Off => Good(q, proc[q])'

\* Then the invariant holds again.
LEMMA Assembled ==
  ASSUME CustodyInv, NEW p \in Procs, NEW h \in Process \cup {Off},
         proc' = [proc EXCEPT ![p] = h], StepOK(p), h # Off => Good(p, h)',
         \A q \in Procs \ {p} : proc[q] # Off /\ h # Off =>
           ~Commanding(proc[q]) /\ ~Commanding(h)
  PROVE  CustodyInv'
<1>1. /\ proc' \in [Procs -> Process \cup {Off}]
      /\ proc'[p] = h /\ \A q \in Procs \ {p} : proc'[q] = proc[q]
  BY DEF CustodyInv
<1>2. CommandAlone'
  <2>1. SUFFICES ASSUME NEW q \in Procs, NEW s \in Procs, q # s, proc'[q] # Off,
                        Commanding(proc'[q])
                 PROVE  proc'[s] = Off
    BY DEF CommandAlone
  <2>2. CASE q # p /\ s # p
    BY <1>1, <2>1, <2>2 DEF CustodyInv, CommandAlone
  <2>3. CASE q = p
    BY <1>1, <2>1, <2>3
  <2>4. CASE s = p
    BY <1>1, <2>1, <2>4
  <2> QED
    BY <2>2, <2>3, <2>4
<1>3. Good(p, proc[p])' <=> Good(p, h)'
  BY <1>1 DEF Good, Staged, Reads, Resolved, Recording, Indexed, Installing, Spared, Commanding
<1>4. \A q \in Procs : proc'[q] # Off => Good(q, proc[q])'
  BY <1>1, <1>3 DEF StepOK
<1> QED
  BY <1>1, <1>2, <1>4 DEF CustodyInv, StepOK

\* A process that goes on while others run is no command, and they are none.
LEMMA NobodyCommands ==
  ASSUME CustodyInv, NEW p \in Procs, proc[p] # Off, NEW h, Commanding(h) <=> Commanding(proc[p])
  PROVE  \A q \in Procs \ {p} : proc[q] # Off => ~Commanding(proc[q]) /\ ~Commanding(h)
BY DEF CustodyInv, CommandAlone

\* A process that runs beside p keeps what it relies on, when p forgets no key, leaves
\* the index with those that are nowhere else, and writes no record but the first.
LEMMA OthersKeep ==
  ASSUME CustodyInv, NEW p \in Procs,
         Found \subseteq Found', Safe \subseteq Safe', vault \subseteq vault',
         Retired \subseteq Retired' \cup Found', Retired' \subseteq Retired \cup Found',
         record' = record \/ (record = NoKey /\ p \in Recorders),
         NEW q \in Procs \ {p}, proc'[q] = proc[q], proc[q] # Off, ~Commanding(proc[q])
  PROVE  Good(q, proc[q])'
<1>1. Good(q, proc[q])
  BY DEF CustodyInv
<1>2. PICK h : h = proc[q] /\ h = proc'[q]
  OBVIOUS
<1>3. Good(q, h) /\ ~Commanding(h)
  BY <1>1, <1>2
<1>4. Staged(h)'
  BY <1>3 DEF Good, Staged
<1>5. Reads(q, h)'
  <2>1. p \in Recorders => q \notin Recorders
    BY CustodyAssumption
  <2> QED
    BY <1>3, <2>1 DEF Good, Reads, Commanding
<1>6. Resolved(q, h)'
  BY <1>3 DEF Good, Resolved, Recording, Commanding
<1>7. Indexed(h)'
  BY <1>3 DEF Good, Indexed, RetiredIn, Commanding
<1>8. Installing(h)'
  BY <1>3 DEF Installing, Commanding
<1>9. Good(q, h)'
  BY <1>4, <1>5, <1>6, <1>7, <1>8 DEF Good
<1> QED
  BY <1>2, <1>9

\* A step that only moves p on leaves the folder as it is.
LEMMA LocalStep ==
  ASSUME CustodyInv, NEW p \in Procs, NEW h \in Process \cup {Off}, proc' = [proc EXCEPT ![p] = h],
         UNCHANGED <<folder, sealed, lost>>, commands' \in 0..MaxCommands,
         h # Off => Good(p, h),
         \A q \in Procs \ {p} : proc[q] # Off /\ h # Off =>
           ~Commanding(proc[q]) /\ ~Commanding(h)
  PROVE  CustodyInv'
<1>1. UNCHANGED <<Slots, Held, Retired, RetiredIn(index)>>
  BY DEF folder, Slots, Held, Loads, Retired, RetiredIn
<1>2. FolderTypeOK' /\ IndexedIsStored' /\ SealingKeyIsHeld'
  BY <1>1 DEF CustodyInv, FolderTypeOK, IndexedIsStored, SealingKeyIsHeld, folder
<1>3. ASSUME NEW q \in Procs, NEW g, Good(q, g) PROVE Good(q, g)'
  BY <1>1, <1>3 DEF Good, Staged, Reads, Resolved, Recording, Indexed, Installing, Spared,
     Commanding, RetiredIn, Found, Safe, folder
<1>4. \A q \in Procs \ {p} : proc[q] # Off => Good(q, proc[q])'
  <2>1. SUFFICES ASSUME NEW q \in Procs \ {p}, proc[q] # Off PROVE Good(q, proc[q])'
    OBVIOUS
  <2>2. PICK g : g = proc[q] /\ g = proc'[q]
    BY DEF CustodyInv
  <2>3. Good(q, g)
    BY <2>1, <2>2 DEF CustodyInv
  <2>4. Good(q, g)'
    BY <1>3, <2>3
  <2> QED
    BY <2>2, <2>4
<1>5. h # Off => Good(p, h)'
  BY <1>3
<1> QED
  BY <1>2, <1>4, <1>5, Assembled DEF StepOK

\* A step on the folder by a process that runs beside others.
LEMMA BesideStep ==
  ASSUME CustodyInv, NEW p \in Procs, NEW h \in Process, proc' = [proc EXCEPT ![p] = h],
         proc[p] # Off, ~Commanding(proc[p]), ~Commanding(h),
         FolderTypeOK', IndexedIsStored',
         Found \subseteq Found', Safe \subseteq Safe', vault \subseteq vault',
         Retired \subseteq Retired' \cup Found', Retired' \subseteq Retired \cup Found',
         record' = record \/ (record = NoKey /\ p \in Recorders),
         sealed' \cup ({record'} \cap Keys) \subseteq Safe', Good(p, h)'
  PROVE  CustodyInv'
<1>1. SealingKeyIsHeld'
  BY DEF SealingKeyIsHeld, Safe
<1>2. \A q \in Procs \ {p} : proc[q] # Off => ~Commanding(proc[q]) /\ ~Commanding(h)
  BY NobodyCommands
<1>3. \A q \in Procs \ {p} : proc'[q] = proc[q]
  BY DEF CustodyInv
<1>4. \A q \in Procs \ {p} : proc[q] # Off => Good(q, proc[q])'
  BY <1>2, <1>3, OthersKeep
<1> QED
  BY <1>1, <1>2, <1>4, Assembled DEF StepOK

\* A step on the folder by a command, which is alone.
LEMMA CommandStep ==
  ASSUME CustodyInv, NEW p \in Procs, NEW h \in Process \cup {Off}, proc' = [proc EXCEPT ![p] = h],
         proc[p] # Off, Commanding(proc[p]), FolderTypeOK', IndexedIsStored',
         sealed' \cup ({record'} \cap Keys) \subseteq Safe', h # Off => Good(p, h)'
  PROVE  CustodyInv'
<1>1. SealingKeyIsHeld'
  BY DEF SealingKeyIsHeld, Safe
<1>2. \A q \in Procs \ {p} : proc[q] = Off
  BY DEF CustodyInv, CommandAlone
<1> QED
  BY <1>1, <1>2, Assembled DEF StepOK

\* A process that ends leaves nothing to keep.
LEMMA EndsInv ==
  ASSUME CustodyInv, NEW p \in Procs, Ends(p), UNCHANGED <<folder, sealed, lost, commands>>
  PROVE  CustodyInv'
<1>1. commands' \in 0..MaxCommands
  BY DEF CustodyInv, FolderTypeOK
<1> QED
  BY <1>1, LocalStep DEF Ends

\* Moving on with nothing written.
LEMMA GotoInv ==
  ASSUME CustodyInv, NEW p \in Procs, proc[p].pc # "off", NEW pc \in Stages, Goto(p, pc),
         UNCHANGED <<folder, sealed, lost, commands>>,
         \A h \in Process : Moved(h, proc[p], pc) => Good(p, h)
  PROVE  CustodyInv'
<1>1. PICK h \in Process : proc' = [proc EXCEPT ![p] = h] /\ Moved(h, proc[p], pc)
  BY GotoFacts
<1>2. /\ commands' \in 0..MaxCommands /\ Good(p, h) /\ proc[p] # Off
      /\ Commanding(h) <=> Commanding(proc[p])
  BY <1>1, UpColumns DEF CustodyInv, FolderTypeOK, Moved, Commanding
<1>3. \A q \in Procs \ {p} : proc[q] # Off => ~Commanding(proc[q]) /\ ~Commanding(h)
  BY <1>2, NobodyCommands
<1>4. \A q \in Procs \ {p} : proc[q] # Off /\ h # Off => ~Commanding(proc[q]) /\ ~Commanding(h)
  BY <1>3
<1>5. UNCHANGED <<folder, sealed, lost>> /\ h \in Process \cup {Off} /\ (h # Off => Good(p, h))
  BY <1>2
<1> QED
  BY <1>1, <1>2, <1>4, <1>5, LocalStep

-----------------------------------------------------------------------------
(* load_master_key_guarded *)

\* What the ladder's choice makes of a process, in the folder as it is.
LEMMA ChosenGood ==
  ASSUME CustodyInv, NEW p \in Procs, proc[p].pc \in {"ladder", "publish"},
         NEW h \in Process, h.pc \in {"check", "store", "publish"}, h.key \in Keys,
         h.env = proc[p].env, h.read = proc[p].read, h.todo = proc[p].todo,
         h.then = proc[p].then,
         h.pc = "check" => h.key \in Safe /\ (h.src # "env" => h.key \in Found)
  PROVE  Good(p, h) /\ ~Commanding(h) /\ ~Commanding(proc[p])
<1>1. Good(p, proc[p])
  BY UpColumns
<1>2. h.then = "use" /\ h.todo = {} /\ ~Commanding(h) /\ ~Commanding(proc[p])
  BY <1>1 DEF Good, Staged, Commanding
<1> QED
  BY <1>1, <1>2 DEF Good, Staged, Reads, Resolved, Recording, Indexed, Installing

\* A key from the environment, from the slot, the file, or none that exists.
LEMMA ChoiceInv ==
  ASSUME CustodyInv, NEW p \in Procs, proc[p].pc = "ladder",
         NEW pc \in {"check", "store", "publish"}, NEW k \in Keys, NEW src \in Sources,
         Choose(p, pc, k, src), UNCHANGED <<folder, sealed, lost, commands>>,
         pc = "check" => k \in Safe /\ (src # "env" => k \in Found)
  PROVE  CustodyInv'
<1>1. PICK h \in Process :
        /\ proc' = [proc EXCEPT ![p] = h]
        /\ h.pc = pc /\ h.key = k /\ h.src = src
        /\ h.env = proc[p].env /\ h.chainOn = proc[p].chainOn /\ h.read = proc[p].read
        /\ h.todo = proc[p].todo /\ h.at = proc[p].at /\ h.then = proc[p].then
  BY ChooseFacts DEF Stages
<1>2. Good(p, h) /\ ~Commanding(h) /\ ~Commanding(proc[p]) /\ proc[p] # Off
  BY <1>1, ChosenGood, UpColumns
<1>3. \A q \in Procs \ {p} : proc[q] # Off /\ h # Off => ~Commanding(proc[q]) /\ ~Commanding(h)
  BY <1>2, NobodyCommands
<1>4. /\ UNCHANGED <<folder, sealed, lost>> /\ h \in Process \cup {Off}
      /\ (h # Off => Good(p, h)) /\ commands' \in 0..MaxCommands
  BY <1>2 DEF CustodyInv, FolderTypeOK
<1> QED
  BY <1>1, <1>3, <1>4, LocalStep

\* A slot or a file holds a key that is found.
LEMMA SlotsAreSafe == Found \subseteq Safe /\ Slots \subseteq Found
BY DEF Found, Safe, Slots, Held

\* The legacy key goes when the keychain has it: no key does.
LEMMA MemoryDropped ==
  ASSUME CustodyInv, chain \in Keys, memory' = MemoryWithout(chain),
         UNCHANGED <<chain, master, record, index, vault, sealed, lost, commands>>
  PROVE  /\ Found' = Found /\ Safe' = Safe /\ Retired' = Retired
         /\ FolderTypeOK' /\ IndexedIsStored'
         /\ sealed' \cup ({record'} \cap Keys) \subseteq Safe'
<1>1. Slots' = Slots /\ Held' = Held /\ Retired' = Retired
  BY CustodyAssumption DEF Slots, Held, Loads, Retired, MemoryWithout
<1>2. memory' \in Keys \cup {NoKey, Corrupt}
  BY DEF CustodyInv, FolderTypeOK, MemoryWithout
<1> QED
  BY <1>1, <1>2 DEF CustodyInv, FolderTypeOK, IndexedIsStored, SealingKeyIsHeld, Found, Safe

\* A step by a process that runs beside others and leaves the keys, the index and the
\* record as they are.
LEMMA QuietStep ==
  ASSUME CustodyInv, NEW p \in Procs, NEW h \in Process, proc' = [proc EXCEPT ![p] = h],
         proc[p] # Off, ~Commanding(proc[p]), ~Commanding(h), FolderTypeOK', IndexedIsStored',
         Found \subseteq Found', Safe \subseteq Safe',
         UNCHANGED <<vault, index, record, sealed>>, Good(p, h)'
  PROVE  CustodyInv'
<1>1. Retired' = Retired
  BY DEF Retired
<1>2. sealed' \cup ({record'} \cap Keys) \subseteq Safe'
  BY DEF CustodyInv, SealingKeyIsHeld, Safe
<1> QED
  BY <1>1, <1>2, BesideStep

\* The slot's key, and the legacy file is done with.
LEMMA LadderKeychainInv ==
  ASSUME CustodyInv, NEW p \in Procs, LadderKeychain(p) PROVE CustodyInv'
<1>1. chain \in Keys /\ proc[p].pc = "ladder" /\ "keychain" \in Sources
  BY CustodyAssumption DEF LadderKeychain, Get, Sources
<1>2. PICK h \in Process :
        /\ proc' = [proc EXCEPT ![p] = h]
        /\ h.pc = "check" /\ h.key = chain /\ h.src = "keychain"
        /\ h.env = proc[p].env /\ h.chainOn = proc[p].chainOn /\ h.read = proc[p].read
        /\ h.todo = proc[p].todo /\ h.at = proc[p].at /\ h.then = proc[p].then
  BY <1>1, ChooseFacts DEF LadderKeychain, Stages
<1>3. chain \in Found /\ chain \in Safe
  BY <1>1, SlotsAreSafe DEF Slots
<1>4. Good(p, h) /\ ~Commanding(h) /\ ~Commanding(proc[p]) /\ proc[p] # Off
  BY <1>1, <1>2, <1>3, ChosenGood, UpColumns
<1>5. /\ Found' = Found /\ Safe' = Safe /\ Retired' = Retired
      /\ FolderTypeOK' /\ IndexedIsStored'
  BY <1>1, MemoryDropped DEF LadderKeychain
<1>6. Good(p, h)'
  BY <1>2, <1>4, <1>5 DEF Good, Staged, Reads, Resolved, Recording, Indexed, Installing, Commanding,
     LadderKeychain
<1> QED
  BY <1>2, <1>4, <1>5, <1>6, QuietStep DEF LadderKeychain

\* A key that exists or a fresh one.
LEMMA ObtainsInv ==
  ASSUME CustodyInv, NEW p \in Procs, proc[p].pc = "ladder", NEW pc \in {"store", "publish"},
         NEW src \in Sources, Obtains(p, pc, src), UNCHANGED <<folder, sealed, lost, commands>>
  PROVE  CustodyInv'
<1>1. PICK k \in Keys : Choose(p, pc, k, src)
  BY DEF Obtains
<1> QED
  BY <1>1, ChoiceInv

\* The steps of the ladder that write nothing.
LEMMA LadderInv ==
  ASSUME CustodyInv, NEW p \in Procs,
         LadderEnv(p) \/ LadderEmpty(p) \/ LadderUnavailable(p) \/ LadderRefuses(p)
  PROVE  CustodyInv'
<1>1. proc[p].pc = "ladder" /\ UNCHANGED <<folder, sealed, lost, commands>> /\ Sources = {"env", "keychain", "file"}
  BY DEF LadderEnv, LadderEmpty, LadderUnavailable, LadderRefuses, Sources
<1>2. Good(p, proc[p]) /\ proc[p] \in Process
  BY <1>1, UpColumns
<1>3. CASE LadderEnv(p)
  <2>1. proc[p].env \in Keys /\ proc[p].env \in Safe
    BY <1>2, <1>3, CustodyAssumption DEF LadderEnv, Good, Staged, Safe
  <2> QED
    BY <1>1, <1>3, <2>1, ChoiceInv DEF LadderEnv
<1>4. CASE LadderEmpty(p)
  BY <1>1, <1>4, ObtainsInv DEF LadderEmpty
<1>5. CASE LadderUnavailable(p)
  <2>1. CASE master \in Keys
    <3>1. master \in Found /\ master \in Safe
      BY <2>1, SlotsAreSafe DEF Slots
    <3> QED
      BY <1>1, <1>5, <2>1, <3>1, ChoiceInv DEF LadderUnavailable
  <2>2. CASE master \notin Keys
    BY <1>1, <1>5, <2>2, ObtainsInv DEF LadderUnavailable
  <2> QED
    BY <2>1, <2>2
<1>6. CASE LadderRefuses(p)
  <2>1. Goto(p, "recover") /\ "recover" \in Stages
    BY <1>6 DEF LadderRefuses, Stages
  <2>2. ASSUME NEW h \in Process, Moved(h, proc[p], "recover") PROVE Good(p, h)
    BY <1>1, <1>2, <2>2 DEF Moved, Good, Staged, Reads, Resolved, Recording, Indexed, Installing, Commanding
  <2> QED
    BY <1>1, <2>1, <2>2, GotoInv
<1> QED
  BY <1>3, <1>4, <1>5, <1>6

\* A process starts where no command runs.
LEMMA StartInv ==
  ASSUME CustodyInv, NEW p \in Procs, Start(p) \/ StartMalformed(p) PROVE CustodyInv'
<1>1. PICK pc \in {"ladder", "recover"}, env \in OperatorKeys \cup {NoKey}, on \in BOOLEAN :
        Starts(p, Begins(pc, env, on))
  BY DEF Start, StartMalformed
<1>2. PICK h \in Process :
        /\ proc' = [proc EXCEPT ![p] = h]
        /\ h.pc = pc /\ h.env = env /\ h.read = record /\ h.todo = {} /\ h.then = "use"
  <2>1. Begins(pc, env, on) \in Process
    BY BeginsFacts DEF Stages, CustodyInv
  <2> QED
    BY <1>1, <2>1 DEF Starts, Begins
<1>3. Good(p, h) /\ ~Commanding(h)
  BY <1>2 DEF Good, Staged, Reads, Resolved, Recording, Indexed, Installing, Commanding
<1>4. \A q \in Procs \ {p} : proc[q] # Off /\ h # Off => ~Commanding(proc[q]) /\ ~Commanding(h)
  BY <1>1, <1>3 DEF Starts, IsCommand, Commanding
<1>5. /\ UNCHANGED <<folder, sealed, lost>> /\ h \in Process \cup {Off}
      /\ (h # Off => Good(p, h)) /\ commands' \in 0..MaxCommands
  BY <1>1, <1>3 DEF Starts, CustodyInv, FolderTypeOK
<1> QED
  BY <1>2, <1>4, <1>5, LocalStep

\* Keychain::set: what the slot held by then is lost, unless it is this key.
LEMMA StoreKeyInv ==
  ASSUME CustodyInv, NEW p \in Procs, StoreKey(p) PROVE CustodyInv'
<1>1. /\ proc[p] \in Process /\ Good(p, proc[p]) /\ proc[p] # Off /\ proc[p].pc = "store"
      /\ UNCHANGED <<master, memory, record, index, vault, sealed, commands>>
  BY UpColumns DEF StoreKey
<1>2. proc[p].key \in Keys /\ proc[p].then = "use"
  BY <1>1 DEF Good, Staged
<1>3. CASE chain' = proc[p].key /\ lost' = lost \cup (({chain} \cap Keys) \ {proc[p].key})
           /\ Goto(p, "verify")
  <2>1. PICK h \in Process : proc' = [proc EXCEPT ![p] = h] /\ Moved(h, proc[p], "verify")
    BY <1>1, <1>3, GotoFacts DEF Stages
  <2>2. Retired' = Retired /\ Loads(TRUE)' = Loads(TRUE)
    BY <1>1 DEF Retired, Loads
  <2>3. Found \subseteq Found' /\ proc[p].key \in Found'
    BY <1>1, <1>2, <1>3 DEF Found, Slots
  <2>4. Safe \subseteq Safe'
    BY <1>1, <1>2, <1>3, <2>2 DEF Safe, Held
  <2>5. FolderTypeOK' /\ IndexedIsStored'
    BY <1>1, <1>2, <1>3, <2>2 DEF CustodyInv, FolderTypeOK, IndexedIsStored
  <2>6. ~Commanding(h) /\ ~Commanding(proc[p]) /\ h.key = proc[p].key /\ h.pc = "verify"
    BY <1>2, <2>1 DEF Moved, Commanding
  <2>7. Good(p, h)'
    <3>1. Staged(h)' /\ Reads(p, h)'
      BY <1>1, <2>1, <2>6 DEF Moved, Good, Staged, Reads, Commanding
    <3>2. Resolved(p, h)' /\ Indexed(h)' /\ Installing(h)'
      BY <1>1, <2>1, <2>3, <2>6 DEF Moved, Good, Staged, Resolved, Recording, Indexed, Installing,
         Commanding
    <3> QED
      BY <3>1, <3>2 DEF Good
  <2> QED
    BY <1>1, <2>1, <2>3, <2>4, <2>5, <2>6, <2>7, QuietStep
<1>4. ASSUME UNCHANGED <<chain, lost>>, NEW pc \in {"publish", "recover"}, Goto(p, pc)
      PROVE  CustodyInv'
  <2>1. ASSUME NEW h \in Process, Moved(h, proc[p], pc) PROVE Good(p, h)
    BY <1>1, <1>4, <2>1 DEF Moved, Good, Staged, Reads, Resolved, Recording, Indexed, Installing,
       Commanding
  <2>2. pc \in Stages /\ UNCHANGED <<folder, sealed, lost, commands>> /\ proc[p].pc # "off"
    BY <1>1, <1>4 DEF Stages, folder
  <2> QED
    BY <1>4, <2>1, <2>2, GotoInv
<1> QED
  BY <1>3, <1>4 DEF StoreKey

\* The slot reads back: the key is the slot's.
LEMMA VerifyKeyInv ==
  ASSUME CustodyInv, NEW p \in Procs, VerifyKey(p) PROVE CustodyInv'
<1>1. /\ proc[p] \in Process /\ Good(p, proc[p]) /\ proc[p] # Off /\ proc[p].pc = "verify"
      /\ UNCHANGED <<chain, master, record, index, vault, sealed, lost, commands>>
  BY UpColumns DEF VerifyKey
<1>2. proc[p].key \in Keys /\ proc[p].then = "use"
  BY <1>1 DEF Good, Staged
<1>3. CASE chain = proc[p].key /\ memory' = MemoryWithout(chain) /\ Goto(p, "check")
  <2>1. PICK h \in Process : proc' = [proc EXCEPT ![p] = h] /\ Moved(h, proc[p], "check")
    BY <1>1, <1>3, GotoFacts DEF Stages
  <2>2. /\ Found' = Found /\ Safe' = Safe /\ Retired' = Retired
        /\ FolderTypeOK' /\ IndexedIsStored'
    BY <1>1, <1>2, <1>3, MemoryDropped
  <2>3. ~Commanding(h) /\ ~Commanding(proc[p]) /\ h.key = proc[p].key /\ h.pc = "check"
    BY <1>2, <2>1 DEF Moved, Commanding
  <2>4. proc[p].key \in Found /\ proc[p].key \in Safe
    BY <1>2, <1>3, SlotsAreSafe DEF Slots
  <2>5. Good(p, h)'
    <3>1. Staged(h)' /\ Reads(p, h)'
      BY <1>1, <2>1, <2>3 DEF Moved, Good, Staged, Reads, Commanding
    <3>2. Resolved(p, h)' /\ Indexed(h)' /\ Installing(h)'
      BY <1>1, <2>1, <2>2, <2>3, <2>4 DEF Moved, Good, Staged, Resolved, Recording, Indexed,
         Installing, Commanding
    <3> QED
      BY <3>1, <3>2 DEF Good
  <2> QED
    BY <1>1, <2>1, <2>2, <2>3, <2>5, QuietStep
<1>4. CASE UNCHANGED memory /\ Goto(p, "recover")
  <2>1. ASSUME NEW h \in Process, Moved(h, proc[p], "recover") PROVE Good(p, h)
    BY <1>1, <2>1 DEF Moved, Good, Staged, Reads, Resolved, Recording, Indexed, Installing,
       Commanding
  <2>2. "recover" \in Stages /\ UNCHANGED <<folder, sealed, lost, commands>> /\ proc[p].pc # "off"
    BY <1>1, <1>4 DEF Stages, folder
  <2> QED
    BY <1>4, <2>1, <2>2, GotoInv
<1> QED
  BY <1>3, <1>4 DEF VerifyKey

\* write_key_file: nothing is written over a key.
LEMMA PublishKeyInv ==
  ASSUME CustodyInv, NEW p \in Procs, PublishKey(p) PROVE CustodyInv'
<1>1. /\ proc[p] \in Process /\ Good(p, proc[p]) /\ proc[p] # Off /\ proc[p].pc = "publish"
      /\ UNCHANGED <<chain, memory, record, index, vault, sealed, lost, commands>>
  BY UpColumns DEF PublishKey
<1>2. proc[p].key \in Keys /\ proc[p].then = "use"
  BY <1>1 DEF Good, Staged
<1>3. ASSUME NEW k \in Keys, master \in {NoKey, k}, master' = k, Choose(p, "check", k, "file")
      PROVE  CustodyInv'
  <2>1. PICK h \in Process :
          /\ proc' = [proc EXCEPT ![p] = h]
          /\ h.pc = "check" /\ h.key = k /\ h.src = "file"
          /\ h.env = proc[p].env /\ h.chainOn = proc[p].chainOn /\ h.read = proc[p].read
          /\ h.todo = proc[p].todo /\ h.at = proc[p].at /\ h.then = proc[p].then
    BY <1>1, <1>3, ChooseFacts DEF Stages, Sources
  <2>2. Retired' = Retired /\ Loads(TRUE)' = Loads(TRUE)
    BY <1>1 DEF Retired, Loads
  <2>3. Found \subseteq Found' /\ k \in Found'
    BY <1>1, <1>3, CustodyAssumption DEF Found, Slots
  <2>4. Safe \subseteq Safe' /\ k \in Safe'
    BY <1>1, <1>3, <2>2, CustodyAssumption DEF Safe, Held
  <2>5. FolderTypeOK' /\ IndexedIsStored'
    BY <1>1, <1>3, <2>2 DEF CustodyInv, FolderTypeOK, IndexedIsStored
  <2>6. ~Commanding(h) /\ ~Commanding(proc[p])
    BY <1>2, <2>1 DEF Commanding
  <2>7. Good(p, h)'
    <3>1. Staged(h)' /\ Reads(p, h)'
      BY <1>1, <2>1, <2>6 DEF Good, Staged, Reads, Commanding
    <3>2. Resolved(p, h)' /\ Indexed(h)' /\ Installing(h)'
      BY <1>1, <2>1, <2>3, <2>4, <2>6 DEF Good, Staged, Resolved, Recording, Indexed, Installing,
         Commanding
    <3> QED
      BY <3>1, <3>2 DEF Good
  <2> QED
    BY <1>1, <2>1, <2>3, <2>4, <2>5, <2>6, <2>7, QuietStep
<1>4. CASE UNCHANGED master /\ Goto(p, "recover")
  <2>1. ASSUME NEW h \in Process, Moved(h, proc[p], "recover") PROVE Good(p, h)
    BY <1>1, <2>1 DEF Moved, Good, Staged, Reads, Resolved, Recording, Indexed, Installing,
       Commanding
  <2>2. "recover" \in Stages /\ UNCHANGED <<folder, sealed, lost, commands>> /\ proc[p].pc # "off"
    BY <1>1, <1>4 DEF Stages, folder
  <2> QED
    BY <1>4, <2>1, <2>2, GotoInv
<1> QED
  BY <1>2, <1>3, <1>4 DEF PublishKey

-----------------------------------------------------------------------------
(* resolve *)

\* Using key k in the folder as it is.
LEMMA UsesInv ==
  ASSUME CustodyInv, NEW p \in Procs, proc[p].pc # "off", NEW k \in Keys, Uses(p, k),
         UNCHANGED <<folder, sealed, lost, commands>>, k \in Safe, ~Commanding(proc[p]),
         proc[p].read = NoKey \/ proc[p].read = k
  PROVE  CustodyInv'
<1>1. PICK h \in Process :
        /\ proc' = [proc EXCEPT ![p] = h]
        /\ h.pc = "use" /\ h.key = k /\ h.read = proc[p].read /\ h.env = NoKey
        /\ h.todo = {} /\ h.then = "use"
  BY UsesFacts
<1>2. Good(p, proc[p]) /\ proc[p] # Off
  BY UpColumns
<1>3. Good(p, h) /\ ~Commanding(h)
  BY <1>1, <1>2 DEF Good, Staged, Reads, Resolved, Recording, Indexed, Installing, Commanding
<1>4. \A q \in Procs \ {p} : proc[q] # Off /\ h # Off => ~Commanding(proc[q]) /\ ~Commanding(h)
  BY <1>2, <1>3, NobodyCommands
<1>5. /\ UNCHANGED <<folder, sealed, lost>> /\ h \in Process \cup {Off}
      /\ (h # Off => Good(p, h)) /\ commands' \in 0..MaxCommands
  BY <1>3 DEF CustodyInv, FolderTypeOK
<1> QED
  BY <1>1, <1>4, <1>5, LocalStep

\* Another key than the ladder's: that one is retired first, unless it came from the
\* environment.
LEMMA UsesInsteadInv ==
  ASSUME CustodyInv, NEW p \in Procs, proc[p].pc \in {"check", "probe"},
         NEW k \in Keys, NEW then \in {"use", "note"},
         UsesInstead(p, k, then), UNCHANGED <<folder, sealed, lost, commands>>, k \in Safe,
         IF then = "use" THEN proc[p].read = k ELSE proc[p].pc = "probe"
  PROVE  CustodyInv'
<1>1. /\ Good(p, proc[p]) /\ proc[p] # Off /\ proc[p].key \in Keys /\ ~Commanding(proc[p])
      /\ proc[p].pc # "off"
  BY UpColumns DEF Good, Staged, Commanding
<1>2. PICK h \in Process :
        /\ proc' = [proc EXCEPT ![p] = h]
        /\ h.pc = "retire" /\ h.key = k /\ h.read = proc[p].read /\ h.env = proc[p].env
        /\ h.then = then
        /\ h.todo = IF proc[p].src = "env" THEN {} ELSE {proc[p].key}
  BY <1>1, UsesInsteadFacts
<1>3. ~Commanding(h)
  BY <1>2 DEF Commanding
<1>4. h.todo \subseteq Found
  BY <1>1, <1>2 DEF Good, Resolved
<1>5. Good(p, h)
  BY <1>1, <1>2, <1>3, <1>4
  DEF Good, Staged, Reads, Resolved, Recording, Indexed, Installing, Commanding
<1>6. \A q \in Procs \ {p} : proc[q] # Off /\ h # Off => ~Commanding(proc[q]) /\ ~Commanding(h)
  BY <1>1, <1>3, NobodyCommands
<1>7. /\ UNCHANGED <<folder, sealed, lost>> /\ h \in Process \cup {Off}
      /\ (h # Off => Good(p, h)) /\ commands' \in 0..MaxCommands
  BY <1>5 DEF CustodyInv, FolderTypeOK
<1> QED
  BY <1>2, <1>6, <1>7, LocalStep

\* The recorded key is safe to use.
LEMMA RecordIsSafe ==
  ASSUME CustodyInv, NEW k \in Keys, k = record \/ k \in sealed PROVE k \in Safe
BY DEF CustodyInv, SealingKeyIsHeld, Safe

\* What a process sees as candidates are keys.
LEMMA CandidatesAreKeys ==
  ASSUME CustodyInv, NEW p \in Procs PROVE Candidates(p) \subseteq Keys
BY DEF Candidates, LoadAll, Loads, CustodyInv, FolderTypeOK

\* resolve finds the recorded key, or another one where none is recorded.
LEMMA ResolveInv ==
  ASSUME CustodyInv, NEW p \in Procs,
         Recover(p) \/ CheckMatches(p) \/ CheckMismatch(p) \/ ProbeKey(p)
  PROVE  CustodyInv'
<1>1. /\ proc[p].pc \in {"recover", "check", "probe"}
      /\ UNCHANGED <<folder, sealed, lost, commands>>
  BY DEF Recover, CheckMatches, CheckMismatch, ProbeKey
<1>2. /\ proc[p] \in Process /\ Good(p, proc[p]) /\ proc[p].pc # "off"
      /\ ~Commanding(proc[p]) /\ proc[p].read \in {NoKey, record}
  BY <1>1, UpColumns DEF Good, Staged, Reads, Commanding
<1>3. NoKey \notin Candidates(p)
  BY CandidatesAreKeys, CustodyAssumption
<1>4. CASE Ends(p)
  BY <1>1, <1>4, EndsInv
<1>5. ASSUME NEW pc \in {"probe", "note"}, Goto(p, pc), proc[p].pc \in {"check", "probe"},
             p \in Recorders, proc[p].read = NoKey
      PROVE  CustodyInv'
  <2>1. ASSUME NEW h \in Process, Moved(h, proc[p], pc) PROVE Good(p, h)
    BY <1>2, <1>5, <2>1 DEF Moved, Good, Staged, Reads, Resolved, Recording, Indexed, Installing,
       Commanding
  <2>2. pc \in Stages
    BY <1>5 DEF Stages
  <2> QED
    BY <1>1, <1>2, <1>5, <2>1, <2>2, GotoInv
<1>6. CASE Recover(p)
  <2>1. CASE proc[p].read \in Candidates(p)
    <3>1. proc[p].read \in Keys /\ proc[p].read = record
      BY <1>2, <1>3, <2>1, CandidatesAreKeys
    <3> QED
      BY <1>1, <1>2, <1>6, <2>1, <3>1, RecordIsSafe, UsesInv DEF Recover
  <2> QED
    BY <1>4, <1>6, <2>1 DEF Recover
<1>7. CASE CheckMatches(p)
  <2>1. proc[p].key \in Keys /\ proc[p].key \in Safe /\ proc[p].read \in {proc[p].key, NoKey}
    BY <1>2, <1>7 DEF CheckMatches, Mismatched, Good, Staged, Resolved
  <2>2. CASE proc[p].read = NoKey /\ p \in Recorders
    BY <1>5, <1>7, <2>2 DEF CheckMatches
  <2>3. CASE ~(proc[p].read = NoKey /\ p \in Recorders)
    BY <1>1, <1>2, <1>7, <2>1, <2>3, UsesInv DEF CheckMatches
  <2> QED
    BY <2>2, <2>3
<1>8. CASE CheckMismatch(p)
  <2>1. CASE UsesInstead(p, proc[p].read, "use")
    <3>1. proc[p].read \in Keys /\ proc[p].read = record
      BY <1>2, <1>8 DEF CheckMismatch, Mismatched, Process
    <3> QED
      BY <1>1, <1>8, <2>1, <3>1, RecordIsSafe, UsesInsteadInv DEF CheckMismatch
  <2> QED
    BY <1>4, <1>8, <2>1 DEF CheckMismatch
<1>9. CASE ProbeKey(p)
  <2>1. p \in Recorders /\ proc[p].read = NoKey /\ proc[p].pc = "probe"
    BY <1>2, <1>9 DEF ProbeKey, Good, Resolved, Recording
  <2>2. ASSUME NEW sampled \in SUBSET sealed, NEW k \in Candidates(p),
               Probe(sampled, k) = "passed", UsesInstead(p, k, "note")
        PROVE  CustodyInv'
    <3>1. k \in Keys /\ k \in Safe
      BY <2>2, CandidatesAreKeys, RecordIsSafe DEF Probe
    <3> QED
      BY <1>1, <2>1, <2>2, <3>1, UsesInsteadInv
  <2> QED
    BY <1>4, <1>5, <1>9, <2>1, <2>2 DEF ProbeKey
<1> QED
  BY <1>6, <1>7, <1>8, <1>9

\* write_kcv_record: the first record of a folder, while every other process has read
\* none, or the one a command writes alone.
LEMMA NoteKeyInv ==
  ASSUME CustodyInv, NEW p \in Procs, NoteKey(p) PROVE CustodyInv'
<1>1. /\ proc[p] \in Process /\ Good(p, proc[p]) /\ proc[p] # Off /\ proc[p].pc = "note"
      /\ UNCHANGED <<chain, master, memory, index, vault, sealed, lost, commands>>
      /\ record' = proc[p].key
  BY UpColumns DEF NoteKey
<1>2. proc[p].key \in Keys /\ proc[p].key \in Safe
  BY <1>1 DEF Good, Staged, Resolved
<1>3. Slots' = Slots /\ Held' = Held /\ Retired' = Retired /\ Found' = Found /\ Safe' = Safe
  BY <1>1 DEF Slots, Held, Loads, Retired, Found, Safe
<1>4. FolderTypeOK' /\ IndexedIsStored' /\ sealed' \cup ({record'} \cap Keys) \subseteq Safe'
  BY <1>1, <1>2, <1>3
  DEF CustodyInv, FolderTypeOK, IndexedIsStored, SealingKeyIsHeld, Safe
<1>5. CASE proc[p].then = "install"
  <2>1. proc' = [proc EXCEPT ![p] = Off] /\ Commanding(proc[p])
    BY <1>5 DEF NoteKey, Ends, Commanding
  <2> QED
    BY <1>1, <1>4, <2>1, CommandStep
<1>6. CASE proc[p].then # "install"
  <2>1. ~Commanding(proc[p])
    BY <1>1, <1>6 DEF Good, Staged, Commanding
  <2>2. p \in Recorders /\ proc[p].read = NoKey /\ record = NoKey
    BY <1>1, <2>1 DEF Good, Reads, Resolved, Recording
  <2>3. Uses(p, proc[p].key)
    BY <1>6 DEF NoteKey
  <2>4. PICK h \in Process :
          /\ proc' = [proc EXCEPT ![p] = h]
          /\ h.pc = "use" /\ h.key = proc[p].key /\ h.read = proc[p].read /\ h.env = NoKey
          /\ h.todo = {} /\ h.then = "use"
    BY <1>1, <1>2, <2>3, UsesFacts
  <2>5. ~Commanding(h)
    BY <2>4 DEF Commanding
  <2>6. Good(p, h)'
    BY <1>2, <1>3, <2>2, <2>4
    DEF Good, Staged, Reads, Resolved, Recording, Indexed, Installing, Commanding
  <2> QED
    BY <1>1, <1>3, <1>4, <2>1, <2>2, <2>4, <2>5, <2>6, BesideStep
<1> QED
  BY <1>5, <1>6

\* Sealing under the resolved key.
LEMMA SealInv ==
  ASSUME CustodyInv, NEW p \in Procs, Seal(p) PROVE CustodyInv'
<1>1. /\ proc[p] \in Process /\ Good(p, proc[p]) /\ proc[p] # Off /\ proc[p].pc = "use"
      /\ UNCHANGED <<folder, proc, lost, commands>> /\ sealed' = sealed \cup {proc[p].key}
  BY UpColumns DEF Seal
<1>2. proc[p].key \in Keys /\ proc[p].key \in Safe /\ ~Commanding(proc[p])
  BY <1>1 DEF Good, Staged, Resolved, Commanding
<1>3. Slots' = Slots /\ Held' = Held /\ Retired' = Retired /\ Found' = Found /\ Safe' = Safe
  BY <1>1 DEF Slots, Held, Loads, Retired, Found, Safe, folder
<1>4. FolderTypeOK' /\ IndexedIsStored' /\ sealed' \cup ({record'} \cap Keys) \subseteq Safe'
  BY <1>1, <1>2, <1>3
  DEF CustodyInv, FolderTypeOK, IndexedIsStored, SealingKeyIsHeld, Safe, folder
<1>5. PICK h \in Process : h = proc[p]
  BY <1>1
<1>6. Good(p, h)'
  BY <1>1, <1>3, <1>5 DEF Good, Staged, Reads, Resolved, Recording, Indexed, Installing, Spared,
     Commanding, RetiredIn, folder
<1>7. proc' = [proc EXCEPT ![p] = h]
  BY <1>1, <1>5 DEF CustodyInv
<1> QED
  BY <1>1, <1>2, <1>3, <1>4, <1>5, <1>6, <1>7, BesideStep DEF folder

-----------------------------------------------------------------------------
(* RetiredVault::retire *)

\* All were retired: the command or the resolution goes on.
LEMMA RetireDoneInv ==
  ASSUME CustodyInv, NEW p \in Procs, RetireDone(p) PROVE CustodyInv'
<1>1. /\ proc[p] \in Process /\ Good(p, proc[p]) /\ proc[p].pc = "retire" /\ proc[p].todo = {}
      /\ UNCHANGED <<folder, sealed, lost, commands>> /\ proc[p].pc # "off"
  BY UpColumns DEF RetireDone
<1>2. proc[p].then \in {"use", "note", "install", "remove", "off"}
  BY <1>1 DEF Process
<1>3. CASE proc[p].then = "off"
  <2>1. Ends(p)
    BY <1>3 DEF RetireDone
  <2> QED
    BY <1>1, <2>1, EndsInv
<1>4. CASE proc[p].then = "use"
  <2>1. Uses(p, proc[p].key)
    BY <1>4 DEF RetireDone
  <2>2. /\ proc[p].key \in Keys /\ proc[p].key \in Safe /\ ~Commanding(proc[p])
        /\ proc[p].read = proc[p].key
    BY <1>1, <1>4 DEF Good, Staged, Resolved, Commanding
  <2> QED
    BY <1>1, <2>1, <2>2, UsesInv
<1>5. CASE proc[p].then \in {"note", "install", "remove"}
  <2>1. Goto(p, proc[p].then) /\ proc[p].then \in Stages
    BY <1>2, <1>5 DEF RetireDone, Stages
  <2>2. ASSUME NEW h \in Process, Moved(h, proc[p], proc[p].then) PROVE Good(p, h)
    <3>1. Staged(h) /\ Reads(p, h)
      BY <1>1, <1>5, <2>2 DEF Moved, Good, Staged, Reads, Commanding
    <3>2. Resolved(p, h) /\ Indexed(h)
      BY <1>1, <1>5, <2>2 DEF Moved, Good, Resolved, Recording, Indexed, Commanding
    <3>3. Installing(h)
      BY <1>1, <1>5, <2>2 DEF Moved, Good, Installing, Spared
    <3> QED
      BY <3>1, <3>2, <3>3 DEF Good
  <2> QED
    BY <1>1, <2>1, <2>2, GotoInv
<1> QED
  BY <1>2, <1>3, <1>4, <1>5

\* h is g with other keys to retire.
ButTodo(h, g, todo) ==
  /\ h.todo = todo
  /\ h.env = g.env /\ h.chainOn = g.chainOn /\ h.read = g.read /\ h.key = g.key
  /\ h.src = g.src /\ h.then = g.then

\* A key that is retired already needs no retiring, one without room is passed over.
LEMMA RetireSkipsInv ==
  ASSUME CustodyInv, NEW p \in Procs, NEW k \in Keys, RetireSkips(p, k) PROVE CustodyInv'
<1>1. /\ proc[p] \in Process /\ Good(p, proc[p]) /\ proc[p].pc = "retire" /\ proc[p] # Off
      /\ UNCHANGED <<folder, sealed, lost, commands>>
  BY UpColumns DEF RetireSkips
<1>2. CASE Ends(p)
  BY <1>1, <1>2, EndsInv
<1>3. CASE /\ proc' = [proc EXCEPT ![p].todo = @ \ {k}]
           /\ k \in Retired \/ ~Commanding(proc[p])
  <2> DEFINE g == [proc[p] EXCEPT !.todo = proc[p].todo \ {k}]
  <2>1. proc[p].todo \ {k} \in SUBSET Keys
    BY <1>1 DEF Process
  <2>2. g \in Process
    BY <1>1, <2>1, Zenon DEF Process
  <2>3. proc' = [proc EXCEPT ![p] = g]
    BY <1>3 DEF CustodyInv
  <2>4. ButTodo(g, proc[p], proc[p].todo \ {k}) /\ g.pc = "retire"
    BY <1>1 DEF Process, ButTodo
  <2> HIDE DEF g
  <2>5. PICK h \in Process :
          /\ proc' = [proc EXCEPT ![p] = h]
          /\ ButTodo(h, proc[p], proc[p].todo \ {k}) /\ h.pc = "retire"
    BY <2>2, <2>3, <2>4
  <2>6. Commanding(h) <=> Commanding(proc[p])
    BY <2>5 DEF ButTodo, Commanding
  <2>7. Good(p, h)
    <3>1. Staged(h) /\ Reads(p, h)
      BY <1>1, <2>5, <2>6 DEF ButTodo, Good, Staged, Reads
    <3>2. Resolved(p, h) /\ Indexed(h)
      BY <1>1, <2>5, <2>6 DEF ButTodo, Good, Resolved, Recording, Indexed
    <3>3. h.then = "install" => Spared(h) = Spared(proc[p])
      BY <1>1, <1>3, <2>5 DEF ButTodo, Spared, Commanding
    <3>4. Installing(h)
      BY <1>1, <2>5, <3>3 DEF ButTodo, Good, Installing
    <3> QED
      BY <3>1, <3>2, <3>4 DEF Good
  <2>8. \A q \in Procs \ {p} : proc[q] # Off /\ h # Off => ~Commanding(proc[q]) /\ ~Commanding(h)
    BY <1>1, <2>6, NobodyCommands
  <2>9. /\ UNCHANGED <<folder, sealed, lost>> /\ h \in Process \cup {Off}
        /\ (h # Off => Good(p, h)) /\ commands' \in 0..MaxCommands
    BY <1>1, <2>7 DEF CustodyInv, FolderTypeOK
  <2> QED
    BY <2>5, <2>8, <2>9, LocalStep
<1> QED
  BY <1>1, <1>2, <1>3 DEF RetireSkips, IsCommand, Commanding

\* The keys that can be loaded are the indexed ones.
LEMMA LoadedAreRetired ==
  ASSUME CustodyInv PROVE Loads(TRUE) = Retired /\ Retired = RetiredIn(index)
BY DEF CustodyInv, IndexedIsStored, FolderTypeOK, Custodies, Loads, Retired, RetiredIn

\* The material of one more key, and the index at hand names it.
LEMMA RetireStoresInv ==
  ASSUME CustodyInv, NEW p \in Procs, NEW k \in Keys, RetireStores(p, k) PROVE CustodyInv'
<1>1. /\ proc[p] \in Process /\ Good(p, proc[p]) /\ proc[p].pc = "retire" /\ proc[p] # Off
      /\ UNCHANGED <<chain, master, memory, record, index, sealed, lost, commands>>
      /\ k \in proc[p].todo /\ k \notin Retired /\ Cardinality(Retired \cup {k}) <= MaxRetired
      /\ vault' = vault \cup {k}
  BY UpColumns DEF RetireStores, HasRoom
<1>2. PICK c \in {"file", "keychain"} :
        proc' = [proc EXCEPT ![p].pc = "index", ![p].todo = @ \ {k}, ![p].at = [index EXCEPT ![k] = c]]
  BY DEF RetireStores
<1> DEFINE at == [index EXCEPT ![k] = c]
           g == [proc[p] EXCEPT !.pc = "index", !.todo = proc[p].todo \ {k}, !.at = at]
<1>3. index \in [Keys -> Custodies] /\ at \in [Keys -> Custodies]
  BY DEF CustodyInv, FolderTypeOK, Custodies
<1>4. RetiredIn(at) = Retired \cup {k}
  BY <1>3 DEF RetiredIn, Retired
<1>5. proc[p].todo \ {k} \in SUBSET Keys
  BY <1>1 DEF Process
<1>6. proc' = [proc EXCEPT ![p] = g]
  BY <1>2 DEF CustodyInv
<1> HIDE DEF at
<1>7. g \in Process
  BY <1>1, <1>3, <1>5, Zenon DEF Process
<1>8. ButTodo(g, proc[p], proc[p].todo \ {k}) /\ g.pc = "index" /\ g.at = at
  BY <1>1 DEF Process, ButTodo
<1> HIDE DEF g
<1>9. PICK h \in Process :
        /\ proc' = [proc EXCEPT ![p] = h]
        /\ ButTodo(h, proc[p], proc[p].todo \ {k}) /\ h.pc = "index"
        /\ RetiredIn(h.at) = Retired \cup {k}
  BY <1>4, <1>6, <1>7, <1>8
<1>10. Commanding(h) <=> Commanding(proc[p])
  BY <1>9 DEF ButTodo, Commanding
<1>11. Retired' = Retired /\ Slots' = Slots /\ Found' = Found
  BY <1>1 DEF Retired, Slots, Found
<1>12. Safe \subseteq Safe'
  BY <1>1, <1>11 DEF Safe, Held, Loads, Slots
<1>13. FolderTypeOK' /\ IndexedIsStored'
  BY <1>1, <1>11 DEF CustodyInv, FolderTypeOK, IndexedIsStored
<1>14. Good(p, h)'
  <2>1. Staged(h)' /\ Reads(p, h)'
    BY <1>1, <1>9, <1>10 DEF ButTodo, Good, Staged, Reads, Commanding
  <2>2. Resolved(p, h)'
    BY <1>1, <1>9, <1>10, <1>11, <1>12 DEF ButTodo, Good, Resolved, Recording, Commanding
  <2>3. Retired \subseteq vault
    BY DEF CustodyInv, IndexedIsStored
  <2>4. Indexed(h)'
    <3>1. RetiredIn(h.at)' = Retired \cup {k}
      BY <1>9 DEF RetiredIn
    <3>2. ~Commanding(h) => k \in Found
      BY <1>1, <1>10 DEF Good, Resolved
    <3> QED
      BY <1>1, <1>11, <2>3, <3>1, <3>2 DEF Indexed, Commanding
  <2>5. Installing(h)'
    <3>1. RetiredIn(h.at)' = Retired \cup {k}
      BY <1>9 DEF RetiredIn
    <3>2. Spared(proc[p]) \subseteq Spared(h)'
      BY <1>1, <1>9, <1>11, <3>1 DEF Spared, ButTodo
    <3> QED
      BY <1>1, <1>9, <3>2 DEF ButTodo, Good, Installing
  <2> QED
    BY <2>1, <2>2, <2>4, <2>5 DEF Good
<1>15. sealed' \cup ({record'} \cap Keys) \subseteq Safe'
  BY <1>1, <1>12 DEF CustodyInv, SealingKeyIsHeld, Safe
<1>16. CASE Commanding(proc[p])
  BY <1>1, <1>9, <1>13, <1>14, <1>15, <1>16, CommandStep
<1>17. CASE ~Commanding(proc[p])
  BY <1>1, <1>9, <1>10, <1>11, <1>12, <1>13, <1>14, <1>15, <1>17, BesideStep
<1> QED
  BY <1>16, <1>17

\* The index is replaced by the one at hand: no key is only in the one it replaces.
LEMMA RetireIndexesInv ==
  ASSUME CustodyInv, NEW p \in Procs, RetireIndexes(p) PROVE CustodyInv'
<1>1. /\ proc[p] \in Process /\ Good(p, proc[p]) /\ proc[p].pc = "index" /\ proc[p] # Off
      /\ UNCHANGED <<chain, master, memory, record, vault, sealed, lost, commands>>
      /\ index' = proc[p].at
  BY UpColumns DEF RetireIndexes, WriteRetiredIndex
<1> DEFINE g == [proc[p] EXCEPT !.pc = "retire", !.at = NoIndex]
<1>2. NoIndex \in [Keys -> Custodies] /\ proc[p].at \in [Keys -> Custodies]
  BY <1>1 DEF NoIndex, Custodies, Process
<1>3. g \in Process
  BY <1>1, <1>2, Zenon DEF Process
<1>4. proc' = [proc EXCEPT ![p] = g]
  BY DEF RetireIndexes, CustodyInv
<1>5. ButTodo(g, proc[p], proc[p].todo) /\ g.pc = "retire"
  BY <1>1 DEF Process, ButTodo
<1> HIDE DEF g
<1>6. PICK h \in Process :
        proc' = [proc EXCEPT ![p] = h] /\ ButTodo(h, proc[p], proc[p].todo) /\ h.pc = "retire"
  BY <1>3, <1>4, <1>5
<1>7. Commanding(h) <=> Commanding(proc[p])
  BY <1>6 DEF ButTodo, Commanding
<1>8. /\ RetiredIn(proc[p].at) \subseteq vault
      /\ Cardinality(RetiredIn(proc[p].at)) <= MaxRetired
      /\ Retired \subseteq RetiredIn(proc[p].at) \cup (IF Commanding(proc[p]) THEN {} ELSE Found)
      /\ ~Commanding(proc[p]) => RetiredIn(proc[p].at) \subseteq Retired \cup Found
  BY <1>1 DEF Good, Indexed
<1>9. Retired' = RetiredIn(proc[p].at) /\ Slots' = Slots /\ Found' = Found
  BY <1>1 DEF Retired, RetiredIn, Slots, Found
<1>10. Loads(TRUE)' = Retired'
  <2>1. PICK at \in [Keys -> Custodies] : index' = at /\ at = proc[p].at
    BY <1>1, <1>2
  <2>2. \A x \in Keys : at[x] \in {"none", "file", "keychain"}
    BY DEF Custodies
  <2>3. RetiredIn(at) \subseteq vault /\ vault \subseteq Keys /\ vault' = vault
    BY <1>1, <1>8, <2>1 DEF CustodyInv, FolderTypeOK
  <2>4. {x \in vault : at[x] = "file" \/ at[x] = "keychain"} = RetiredIn(at)
    BY <2>2, <2>3 DEF RetiredIn
  <2>5. Loads(TRUE)' = {x \in vault : at[x] = "file" \/ at[x] = "keychain"}
    BY <2>1, <2>3 DEF Loads
  <2> QED
    BY <1>9, <2>1, <2>4, <2>5
<1>11. Safe \subseteq Safe'
  <2>1. Held = Slots \cup Retired /\ Held' = Slots' \cup Retired'
    BY <1>10, LoadedAreRetired DEF Held, Slots
  <2>2. Retired \subseteq Retired' \cup Found
    BY <1>8, <1>9
  <2> QED
    BY <1>1, <1>9, <2>1, <2>2 DEF Safe, Found
<1>12. FolderTypeOK' /\ IndexedIsStored'
  BY <1>1, <1>2, <1>8, <1>9 DEF CustodyInv, FolderTypeOK, IndexedIsStored
<1>13. Good(p, h)'
  <2>1. Staged(h)' /\ Reads(p, h)'
    BY <1>1, <1>6, <1>7 DEF ButTodo, Good, Staged, Reads, Commanding
  <2>2. Resolved(p, h)' /\ Indexed(h)'
    BY <1>1, <1>6, <1>7, <1>9, <1>11 DEF ButTodo, Good, Resolved, Recording, Indexed, Commanding
  <2>3. h.then = "install" => Spared(proc[p]) \subseteq Spared(h)'
    BY <1>1, <1>6, <1>8, <1>9 DEF Spared, ButTodo, Commanding
  <2>4. Installing(h)'
    BY <1>1, <1>6, <2>3 DEF ButTodo, Good, Installing
  <2> QED
    BY <2>1, <2>2, <2>4 DEF Good
<1>14. sealed' \cup ({record'} \cap Keys) \subseteq Safe'
  BY <1>1, <1>11 DEF CustodyInv, SealingKeyIsHeld, Safe
<1>15. CASE Commanding(proc[p])
  BY <1>1, <1>6, <1>12, <1>13, <1>14, <1>15, CommandStep
<1>16. CASE ~Commanding(proc[p])
  <2>1. Retired \subseteq Retired' \cup Found' /\ Retired' \subseteq Retired \cup Found'
    BY <1>8, <1>9, <1>16
  <2>2. Found \subseteq Found' /\ vault \subseteq vault' /\ record' = record
    BY <1>1, <1>9
  <2> QED
    BY <1>1, <1>6, <1>7, <1>11, <1>12, <1>13, <1>14, <1>16, <2>1, <2>2, BesideStep
<1> QED
  BY <1>15, <1>16

-----------------------------------------------------------------------------
(* keys adopt, import_key_bundle, keys retire *)

\* A command begins alone, and what it will overwrite is spared.
LEMMA CommandBegins ==
  ASSUME CustodyInv, NEW p \in Procs, \A q \in Procs : proc[q] = Off,
         NEW env \in OperatorKeys \cup {NoKey}, NEW on \in BOOLEAN, NEW k \in Keys,
         NEW todo \in SUBSET Keys, NEW then \in {"install", "remove", "off"},
         proc' = [proc EXCEPT ![p] =
                    [Begins("retire", env, on) EXCEPT !.key = k, !.then = then, !.todo = todo]],
         UNCHANGED <<folder, sealed, lost>>, commands' \in 0..MaxCommands,
         then = "install" =>
           /\ on /\ chain \in Keys => chain \in {k} \cup todo \cup Retired
           /\ master \in Keys /\ master = record => master \in {k} \cup todo \cup Retired
  PROVE  CustodyInv'
<1> DEFINE b == Begins("retire", env, on)
           g == [b EXCEPT !.key = k, !.then = then, !.todo = todo]
<1>1. b \in Process
  BY BeginsFacts DEF CustodyInv, Stages
<1>2. b.env = env /\ b.chainOn = on /\ b.read = record /\ b.pc = "retire"
  BY DEF Begins
<1>3. proc' = [proc EXCEPT ![p] = g]
  OBVIOUS
<1> HIDE DEF b
<1>4. g \in Process
  BY <1>1, Zenon DEF Process
<1>5. /\ g.pc = "retire" /\ g.key = k /\ g.then = then /\ g.todo = todo
      /\ g.env = env /\ g.chainOn = on /\ g.read = record
  BY <1>1, <1>2 DEF Process
<1> HIDE DEF g
<1>6. PICK h \in Process :
        /\ proc' = [proc EXCEPT ![p] = h]
        /\ h.pc = "retire" /\ h.key = k /\ h.then = then /\ h.todo = todo
        /\ h.env = env /\ h.chainOn = on /\ h.read = record
  BY <1>3, <1>4, <1>5
<1>7. Good(p, h)
  <2>1. Commanding(h)
    BY <1>6 DEF Commanding
  <2>2. Spared(h) = {k} \cup todo \cup Retired
    BY <1>6 DEF Spared
  <2>3. Staged(h) /\ Reads(p, h) /\ Resolved(p, h) /\ Indexed(h)
    BY <1>6, <2>1 DEF Staged, Reads, Resolved, Recording, Indexed
  <2>4. Installing(h)
    BY <1>6, <2>2 DEF Installing
  <2> QED
    BY <2>3, <2>4 DEF Good
<1>8. \A q \in Procs \ {p} : proc[q] # Off /\ h # Off => ~Commanding(proc[q]) /\ ~Commanding(h)
  OBVIOUS
<1>9. h \in Process \cup {Off} /\ (h # Off => Good(p, h))
  BY <1>7
<1> QED
  BY <1>6, <1>8, <1>9, LocalStep

\* One more command was run.
LEMMA CommandsCount ==
  ASSUME CustodyInv, NEW p \in Procs, Commands(p)
  PROVE  commands' \in 0..MaxCommands /\ \A q \in Procs : proc[q] = Off
BY CustodyAssumption DEF CustodyInv, FolderTypeOK, Commands

\* What is retired before an installation is all that the installation overwrites.
LEMMA InstallsInv ==
  ASSUME CustodyInv, NEW p \in Procs, Commands(p), UNCHANGED <<folder, sealed, lost>>,
         NEW env \in OperatorKeys \cup {NoKey}, NEW on \in BOOLEAN, NEW k \in Keys,
         NEW extra \in SUBSET Keys, Installs(p, env, on, k, extra)
  PROVE  CustodyInv'
<1> DEFINE todo == ToRetire(env, on, k, extra)
<1>1. /\ chain \in Keys \cup {NoKey, Corrupt} /\ master \in Keys \cup {NoKey, Corrupt}
      /\ record \in Keys \cup {NoKey}
  BY DEF CustodyInv, FolderTypeOK
<1>2. Persistent(on) \subseteq Keys
  BY DEF Persistent
<1>3. todo \in SUBSET Keys
  BY <1>1, <1>2 DEF ToRetire
<1>4. on /\ chain \in Keys => chain \in {k} \cup todo
  BY CustodyAssumption DEF ToRetire, Persistent
<1>5. master \in Keys /\ master = record => master \in {k} \cup todo
  BY CustodyAssumption DEF ToRetire, SlotKeys
<1>6. proc' = [proc EXCEPT ![p] =
        [Begins("retire", env, on) EXCEPT !.key = k, !.then = "install", !.todo = todo]]
  BY DEF Installs
<1> HIDE DEF todo
<1>7. /\ on /\ chain \in Keys => chain \in {k} \cup todo \cup Retired
      /\ master \in Keys /\ master = record => master \in {k} \cup todo \cup Retired
  BY <1>4, <1>5
<1>8. commands' \in 0..MaxCommands /\ \A q \in Procs : proc[q] = Off
  BY CommandsCount
<1> QED
  BY <1>3, <1>6, <1>7, <1>8, CommandBegins

LEMMA AdoptInv ==
  ASSUME CustodyInv, NEW p \in Procs, Adopt(p) PROVE CustodyInv'
<1>1. PICK env \in OperatorKeys \cup {NoKey}, on \in BOOLEAN :
        \E k \in Adoptable(env, on) : Installs(p, env, on, k, {})
  BY DEF Adopt
<1>2. PICK k \in Adoptable(env, on) : Installs(p, env, on, k, {})
  BY <1>1
<1>3. k \in Keys
  BY DEF Adoptable, SlotKeys, Loads, CustodyInv, FolderTypeOK
<1>4. Commands(p) /\ UNCHANGED <<folder, sealed, lost>> /\ {} \in SUBSET Keys
  BY DEF Adopt
<1> QED
  BY <1>2, <1>3, <1>4, InstallsInv

LEMMA ImportInv ==
  ASSUME CustodyInv, NEW p \in Procs, Import(p) PROVE CustodyInv'
<1>1. PICK env \in OperatorKeys \cup {NoKey}, on \in BOOLEAN, b \in Bundles :
        IF record = b.key /\ b.key \in SlotKeys(env, on)
        THEN proc' = [proc EXCEPT ![p] = [Begins("retire", env, on) EXCEPT
                                            !.key = b.key, !.then = "off", !.todo = b.retired]]
        ELSE Installs(p, env, on, b.key, b.retired)
  BY DEF Import
<1>2. b.key \in Keys /\ b.retired \in SUBSET Keys
  BY CustodyAssumption DEF Bundles
<1>3. Commands(p) /\ UNCHANGED <<folder, sealed, lost>>
  BY DEF Import
<1>4. CASE record = b.key /\ b.key \in SlotKeys(env, on)
  <2>1. proc' = [proc EXCEPT ![p] = [Begins("retire", env, on) EXCEPT
                                       !.key = b.key, !.then = "off", !.todo = b.retired]]
    BY <1>1, <1>4
  <2>2. commands' \in 0..MaxCommands /\ \A q \in Procs : proc[q] = Off
    BY <1>3, CommandsCount
  <2> QED
    BY <1>2, <1>3, <2>1, <2>2, CommandBegins
<1>5. CASE ~(record = b.key /\ b.key \in SlotKeys(env, on))
  BY <1>1, <1>2, <1>3, <1>5, InstallsInv
<1> QED
  BY <1>4, <1>5

LEMMA RetireInv ==
  ASSUME CustodyInv, NEW p \in Procs, Retire(p) PROVE CustodyInv'
<1>1. PICK env \in OperatorKeys \cup {NoKey}, on \in BOOLEAN :
        \E k \in (SlotKeys(env, on) \cup ({memory} \cap Keys)) \ {record} :
          proc' = [proc EXCEPT ![p] = [Begins("retire", env, on) EXCEPT
                                         !.key = k, !.then = "remove", !.todo = {k}]]
  BY DEF Retire
<1>2. PICK k \in Keys :
        proc' = [proc EXCEPT ![p] = [Begins("retire", env, on) EXCEPT
                                       !.key = k, !.then = "remove", !.todo = {k}]]
  BY <1>1 DEF SlotKeys
<1>3. UNCHANGED <<folder, sealed, lost>> /\ {k} \in SUBSET Keys
  BY DEF Retire
<1>4. commands' \in 0..MaxCommands /\ \A q \in Procs : proc[q] = Off
  BY CommandsCount DEF Retire
<1> QED
  BY <1>2, <1>3, <1>4, CommandBegins

\* The slot is overwritten: what it held is retired or the same key.
LEMMA InstallStoresInv ==
  ASSUME CustodyInv, NEW p \in Procs, InstallStores(p) PROVE CustodyInv'
<1>1. /\ proc[p] \in Process /\ Good(p, proc[p]) /\ proc[p].pc = "install" /\ proc[p] # Off
      /\ proc[p].pc # "off"
      /\ UNCHANGED <<master, memory, record, index, vault, sealed, lost, commands>>
      /\ chain' \in {chain} \cup (IF proc[p].chainOn THEN {proc[p].key} ELSE {})
  BY UpColumns DEF InstallStores
<1>2. /\ Commanding(proc[p]) /\ proc[p].then = "install" /\ proc[p].todo = {}
      /\ proc[p].key \in Keys
  BY <1>1 DEF Good, Staged, Commanding
<1>3. Retired' = Retired /\ Loads(TRUE)' = Loads(TRUE)
  BY <1>1 DEF Retired, Loads
<1>4. Spared(proc[p]) = {proc[p].key} \cup Retired
  BY <1>1, <1>2 DEF Spared
<1>5. Safe \subseteq Safe'
  <2>1. CASE chain' = chain
    BY <1>1, <1>3, <2>1 DEF Safe, Held
  <2>2. CASE proc[p].chainOn /\ chain' = proc[p].key
    <3>1. chain \in Keys => chain \in {proc[p].key} \cup Loads(TRUE)
      BY <1>1, <1>2, <1>4, <2>2, LoadedAreRetired DEF Good, Installing
    <3> QED
      BY <1>1, <1>2, <1>3, <2>2, <3>1 DEF Safe, Held
  <2> QED
    BY <1>1, <2>1, <2>2
<1>6. FolderTypeOK' /\ IndexedIsStored'
  BY <1>1, <1>2, <1>3 DEF CustodyInv, FolderTypeOK, IndexedIsStored
<1>7. sealed' \cup ({record'} \cap Keys) \subseteq Safe'
  BY <1>1, <1>5 DEF CustodyInv, SealingKeyIsHeld, Safe
<1>8. CASE Ends(p)
  BY <1>1, <1>2, <1>6, <1>7, <1>8, CommandStep DEF Ends
<1>9. ASSUME NEW pc \in {"note", "file"}, Goto(p, pc), pc = "note" => chain' = proc[p].key
      PROVE  CustodyInv'
  <2>1. PICK h \in Process : proc' = [proc EXCEPT ![p] = h] /\ Moved(h, proc[p], pc)
    BY <1>1, <1>9, GotoFacts DEF Stages
  <2>2. Staged(h)' /\ Reads(p, h)' /\ Resolved(p, h)' /\ Indexed(h)'
    <3>1. /\ h.then = "install" /\ h.todo = {} /\ h.pc = pc /\ h.key \in Keys
          /\ h.env = proc[p].env /\ h.read = proc[p].read
      BY <1>2, <2>1 DEF Moved
    <3>2. Staged(h)'
      BY <1>1, <1>9, <3>1 DEF Good, Staged
    <3>3. Reads(p, h)'
      BY <1>1, <3>1 DEF Good, Reads, Commanding
    <3>4. pc = "note" => h.key \in Safe'
      BY <1>2, <1>9, <2>1, <3>1 DEF Moved, Safe, Held
    <3>5. Resolved(p, h)' /\ Indexed(h)'
      BY <1>9, <3>1, <3>4 DEF Resolved, Recording, Indexed, Commanding
    <3> QED
      BY <3>2, <3>3, <3>5
  <2>3. Spared(h)' = {proc[p].key} \cup Retired
    BY <1>2, <1>3, <1>9, <2>1 DEF Spared, Moved
  <2>4. pc # "note" /\ master \in Keys /\ master = record => master \in Spared(h)'
    BY <1>1, <1>2, <1>4, <2>3 DEF Good, Installing
  <2>5. pc = "note" => proc[p].key \in Slots'
    BY <1>2, <1>9 DEF Slots
  <2>6. Installing(h)'
    BY <1>1, <1>9, <2>1, <2>4, <2>5 DEF Moved, Installing
  <2> QED
    BY <1>1, <1>2, <1>6, <1>7, <2>1, <2>2, <2>6, CommandStep DEF Good
<1> QED
  BY <1>8, <1>9 DEF InstallStores

\* The file is overwritten: what it held is retired, the same key, or lost.
LEMMA InstallWritesInv ==
  ASSUME CustodyInv, NEW p \in Procs, InstallWrites(p) PROVE CustodyInv'
<1>1. /\ proc[p] \in Process /\ Good(p, proc[p]) /\ proc[p].pc = "file" /\ proc[p] # Off
      /\ proc[p].pc # "off" /\ Goto(p, "note")
      /\ UNCHANGED <<chain, memory, record, index, vault, sealed, commands>>
      /\ master' = proc[p].key /\ lost' = lost \cup ((Keys \cap {master}) \ {proc[p].key, record})
  BY UpColumns DEF InstallWrites
<1>2. /\ Commanding(proc[p]) /\ proc[p].then = "install" /\ proc[p].todo = {}
      /\ proc[p].key \in Keys
  BY <1>1 DEF Good, Staged, Commanding
<1>3. Retired' = Retired /\ Loads(TRUE)' = Loads(TRUE)
  BY <1>1 DEF Retired, Loads
<1>4. Spared(proc[p]) = {proc[p].key} \cup Retired
  BY <1>1, <1>2 DEF Spared
<1>5. master \in Keys /\ master = record => master \in {proc[p].key} \cup Loads(TRUE)
  BY <1>1, <1>2, <1>4, LoadedAreRetired DEF Good, Installing
<1>6. Safe \subseteq Safe'
  BY <1>1, <1>2, <1>3, <1>5 DEF Safe, Held
<1>7. FolderTypeOK' /\ IndexedIsStored'
  BY <1>1, <1>2, <1>3 DEF CustodyInv, FolderTypeOK, IndexedIsStored
<1>8. sealed' \cup ({record'} \cap Keys) \subseteq Safe'
  BY <1>1, <1>6 DEF CustodyInv, SealingKeyIsHeld, Safe
<1>9. PICK h \in Process : proc' = [proc EXCEPT ![p] = h] /\ Moved(h, proc[p], "note")
  BY <1>1, GotoFacts DEF Stages
<1>10. Staged(h)' /\ Reads(p, h)' /\ Resolved(p, h)' /\ Indexed(h)'
  <2>1. /\ h.then = "install" /\ h.todo = {} /\ h.pc = "note" /\ h.key \in Keys
        /\ h.env = proc[p].env /\ h.read = proc[p].read
    BY <1>2, <1>9 DEF Moved
  <2>2. Staged(h)'
    BY <1>1, <2>1 DEF Good, Staged
  <2>3. Reads(p, h)'
    BY <1>1, <2>1 DEF Good, Reads, Commanding
  <2>4. h.key \in Safe'
    BY <1>1, <1>2, <1>9, <2>1 DEF Moved, Safe, Held
  <2>5. Resolved(p, h)' /\ Indexed(h)'
    BY <2>1, <2>4 DEF Resolved, Recording, Indexed, Commanding
  <2> QED
    BY <2>2, <2>3, <2>5
<1>11. Installing(h)'
  BY <1>1, <1>2, <1>9 DEF Moved, Installing, Slots
<1> QED
  BY <1>1, <1>2, <1>7, <1>8, <1>9, <1>10, <1>11, CommandStep DEF Good

\* The slot is emptied: its key reads back from the vault.
LEMMA RetireRemovesInv ==
  ASSUME CustodyInv, NEW p \in Procs, RetireRemoves(p) PROVE CustodyInv'
<1>1. /\ proc[p] \in Process /\ Good(p, proc[p]) /\ proc[p].pc = "remove" /\ proc[p] # Off
      /\ Ends(p) /\ UNCHANGED <<chain, record, index, vault, sealed, lost, commands>>
  BY UpColumns DEF RetireRemoves
<1>2. Commanding(proc[p])
  BY <1>1 DEF Good, Staged, Commanding
<1>3. /\ master' = master \/ (master' = NoKey /\ master \in LoadAll(p))
      /\ memory' = memory \/ (memory' = NoKey /\ memory \in LoadAll(p))
  BY DEF RetireRemoves, ReadsBack
<1>4. LoadAll(p) \subseteq Loads(TRUE)
  BY DEF LoadAll, Loads
<1>5. Retired' = Retired /\ Loads(TRUE)' = Loads(TRUE)
  BY <1>1 DEF Retired, Loads
<1>6. Safe \subseteq Safe'
  BY <1>1, <1>3, <1>4, <1>5 DEF Safe, Held
<1>7. FolderTypeOK' /\ IndexedIsStored'
  BY <1>1, <1>3, <1>5 DEF CustodyInv, FolderTypeOK, IndexedIsStored
<1>8. sealed' \cup ({record'} \cap Keys) \subseteq Safe'
  BY <1>1, <1>6 DEF CustodyInv, SealingKeyIsHeld, Safe
<1> QED
  BY <1>1, <1>2, <1>7, <1>8, CommandStep DEF Ends

-----------------------------------------------------------------------------
(* The theorems *)

LEMMA CustodyInit ==
  ASSUME Init PROVE CustodyInv
<1>1. /\ chain \in Keys \cup {NoKey, Corrupt} /\ master \in Keys \cup {NoKey}
      /\ memory \in Keys \cup {NoKey} /\ record \in Keys \cup {NoKey} /\ sealed \subseteq Keys
      /\ lost = (sealed \cup ({record} \cap Keys)) \ {chain, master, memory}
  BY DEF Init
<1>2. index \in [Keys -> Custodies] /\ Retired = {}
  BY DEF Init, NoIndex, Custodies, Retired
<1>3. FolderTypeOK
  BY <1>1, <1>2, FS_EmptySet, CustodyAssumption DEF Init, FolderTypeOK
<1>4. \A p \in Procs : proc[p] = Off
  BY DEF Init
<1> QED
  BY <1>1, <1>2, <1>3, <1>4
  DEF Init, CustodyInv, IndexedIsStored, SealingKeyIsHeld, CommandAlone, Held

LEMMA CustodyStep ==
  ASSUME CustodyInv, [Next]_vars PROVE CustodyInv'
<1>1. ASSUME NEW p \in Procs, Resolve(p) PROVE CustodyInv'
  BY <1>1, StartInv, LadderInv, LadderKeychainInv, StoreKeyInv, VerifyKeyInv, PublishKeyInv,
     ResolveInv, NoteKeyInv, SealInv DEF Resolve
<1>2. ASSUME NEW p \in Procs, Retires(p) PROVE CustodyInv'
  BY <1>2, RetireDoneInv, RetireIndexesInv, RetireSkipsInv, RetireStoresInv DEF Retires
<1>3. ASSUME NEW p \in Procs, Command(p) PROVE CustodyInv'
  BY <1>3, AdoptInv, ImportInv, InstallStoresInv, InstallWritesInv, RetireInv, RetireRemovesInv
  DEF Command
<1>4. ASSUME NEW p \in Procs, Stop(p) PROVE CustodyInv'
  BY <1>4, EndsInv DEF Stop
<1>5. CASE UNCHANGED vars
  BY <1>5 DEF vars, CustodyInv, FolderTypeOK, IndexedIsStored, SealingKeyIsHeld, CommandAlone,
     Held, Loads, Retired, Good, Staged, Reads, Resolved, Recording, Indexed, Installing, Spared,
     Commanding, RetiredIn, Found, Slots, Safe
<1> QED
  BY <1>1, <1>2, <1>3, <1>4, <1>5 DEF Next

LEMMA CustodyInvariant == Spec => []CustodyInv
<1>1. Init => CustodyInv
  BY CustodyInit
<1>2. CustodyInv /\ [Next]_vars => CustodyInv'
  BY CustodyStep
<1> QED
  BY <1>1, <1>2, PTL DEF Spec

\* TypeOK: the folder's files, the slots and the processes keep their types, and never
\* more than MAX_RETIRED_KEYS keys are retired, however the writes of the index of
\* several processes interleave.
THEOREM CustodyTypeInvariant == Spec => []TypeOK
<1>1. CustodyInv => TypeOK
  BY DEF CustodyInv, FolderTypeOK, TypeOK
<1> QED
  BY <1>1, CustodyInvariant, PTL

\* SealingKeyIsHeld: the store, the publication, the retirement, the adoption and the
\* import of keys never destroy a key that seals data or that the folder records, but for
\* the two overwrites that are counted as lost.
THEOREM SealingKeyIsHeldInvariant == Spec => []SealingKeyIsHeld
<1>1. CustodyInv => SealingKeyIsHeld
  BY DEF CustodyInv
<1> QED
  BY <1>1, CustodyInvariant, PTL

\* SealsUnderRecord: resolve gives a process that read a record the recorded key, and
\* the record does not change under it.
THEOREM SealsUnderRecordInvariant == Spec => []SealsUnderRecord
<1>1. ASSUME CustodyInv PROVE SealsUnderRecord
  <2>1. SUFFICES ASSUME NEW p \in Procs, proc[p].pc = "use", proc[p].read # NoKey
                 PROVE  proc[p].key = record
    BY DEF SealsUnderRecord
  <2>2. Good(p, proc[p])
    BY <1>1, <2>1, UpColumns
  <2> QED
    BY <2>1, <2>2 DEF Good, Reads, Resolved
<1> QED
  BY <1>1, CustodyInvariant, PTL
================================================================================
