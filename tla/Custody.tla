-------------------------------- MODULE Custody --------------------------------
(***************************************************************************)
(* Custody of the master key of a data folder: the custody ladder          *)
(* (crates/core/crypto/src/lib.rs), its resolution against the recorded    *)
(* key check value, the retired keys, and the commands that adopt, import  *)
(* and retire keys (crates/core/crypto/src/custody.rs).                    *)
(*                                                                         *)
(* Several processes share the folder and the keychain, each may stop      *)
(* between any two writes, and each may find the keychain out of reach.    *)
(* A key check value tells keys apart, so it is the key itself here.       *)
(***************************************************************************)
EXTENDS Naturals, FiniteSets

CONSTANTS
  Keys,          \* master keys
  OperatorKeys,  \* those an operator holds: RYU_MASTER_KEY, exported bundles
  NoKey,         \* a missing file, an empty slot
  Corrupt,       \* key material that does not decode
  Procs,         \* processes that share the folder
  Recorders,     \* the one whose host owns the key check value's record (Core)
  AllowFile,     \* the hosts allow a key file
  MaxRetired,    \* MAX_RETIRED_KEYS
  MaxCommands    \* bound: commands the operator runs

ASSUME CustodyAssumption ==
  /\ OperatorKeys \subseteq Keys
  /\ NoKey \notin Keys /\ Corrupt \notin Keys /\ NoKey # Corrupt
  /\ "unavailable" \notin Keys
  /\ Recorders \subseteq Procs /\ \A p, q \in Recorders : p = q
  /\ AllowFile \in BOOLEAN
  /\ MaxRetired \in Nat /\ MaxCommands \in Nat

VARIABLES
  chain,     \* the keychain's slot for the master key
  master,    \* secrets/master.key
  memory,    \* secrets/memory.key
  record,    \* state/master-key.kcv
  index,     \* state/retired-keys.json: the custody of each retired key
  vault,     \* the retired keys' material, in the custody that the index names
  sealed,    \* the keys that data in the folder is sealed under
  proc,      \* the processes
  lost,      \* history: keys that were overwritten, or that the keychain has lost
  commands   \* how many commands were run

folder == <<chain, master, memory, record, index, vault>>
vars == <<chain, master, memory, record, index, vault, sealed, proc, lost, commands>>

-----------------------------------------------------------------------------
(* What a process sees *)

Off == [pc |-> "off"]
Sources == {"env", "keychain", "file"}

\* env and chainOn are the process's environment; read is the record as it was
\* read; key and src are what the ladder or the operator chose; todo is still to
\* be retired, through the index at hand, and then names what follows.
Custodies == {"none", "file", "keychain"}
Process == [pc: {"ladder", "store", "verify", "publish", "recover", "check", "probe", "retire",
                 "index", "note", "use", "install", "file", "remove"},
            env: Keys \cup {NoKey}, chainOn: BOOLEAN, read: Keys \cup {NoKey},
            key: Keys \cup {NoKey}, src: Sources, todo: SUBSET Keys,
            at: [Keys -> Custodies], then: {"use", "note", "install", "remove", "off"}]

NoIndex == [k \in Keys |-> "none"]
Begins(pc, env, on) ==
  [pc |-> pc, env |-> env, chainOn |-> on, read |-> record, key |-> NoKey, src |-> "env",
   todo |-> {}, at |-> NoIndex, then |-> "use"]

Ends(p) == proc' = [proc EXCEPT ![p] = Off]
Goto(p, pc) == proc' = [proc EXCEPT ![p].pc = pc]

\* Keychain::get.
Get(p) == IF proc[p].chainOn THEN chain ELSE "unavailable"

\* RetiredVault::load_all, for a process that does or does not reach the keychain.
Loads(on) == {k \in vault : index[k] = "file" \/ (on /\ index[k] = "keychain")}
LoadAll(p) == Loads(proc[p].chainOn)

\* candidates: every key the process can see.
Candidates(p) == (Keys \cap {proc[p].env, Get(p), master, memory}) \cup LoadAll(p)

Retired == {k \in Keys : index[k] # "none"}

\* host_sealed_evidence: what it may find.  Retired keys are always seen; sealed data
\* only where a database records its key or the host itself looks for it, and most
\* hosts report none.
SealedEvidence == IF Retired # {} THEN {TRUE} ELSE {FALSE, sealed # {}}

\* probe_master_key: whether the key opens one of the few sealed bodies the host
\* sampled, which are sealed under these keys.
Probe(sampled, k) ==
  IF sampled = {} THEN "noSealedData" ELSE IF k \in sampled THEN "passed" ELSE "failed"

-----------------------------------------------------------------------------
(* load_master_key_guarded *)

IsCommand(p) == proc[p] # Off /\ proc[p].then \in {"install", "remove", "off"}

\* The operator starts nothing while a command runs.
Starts(p, begun) ==
  /\ proc[p] = Off
  /\ \A q \in Procs : ~IsCommand(q)
  /\ proc' = [proc EXCEPT ![p] = begun]
  /\ UNCHANGED <<folder, sealed, lost, commands>>

Start(p) ==
  \E env \in OperatorKeys \cup {NoKey}, on \in BOOLEAN : Starts(p, Begins("ladder", env, on))

\* RYU_MASTER_KEY does not decode: the ladder refuses at once, and the value is no
\* candidate.
StartMalformed(p) == \E on \in BOOLEAN : Starts(p, Begins("recover", NoKey, on))

Choose(p, pc, k, src) ==
  proc' = [proc EXCEPT ![p].pc = pc, ![p].key = k, ![p].src = src]

LadderEnv(p) ==
  /\ proc[p].pc = "ladder" /\ proc[p].env # NoKey
  /\ Choose(p, "check", proc[p].env, "env")
  /\ UNCHANGED <<folder, sealed, lost, commands>>

\* retire_matching_legacy_key.
MemoryWithout(k) == IF memory = k THEN NoKey ELSE memory

LadderKeychain(p) ==
  /\ proc[p].pc = "ladder" /\ proc[p].env = NoKey
  /\ Get(p) \in Keys /\ memory # Corrupt
  /\ memory' = MemoryWithout(chain)
  /\ Choose(p, "check", chain, "keychain")
  /\ UNCHANGED <<chain, master, record, index, vault, sealed, lost, commands>>

\* GenerationGuard::may_generate: what it may answer.
MayGenerate(p) == {proc[p].read = NoKey /\ ~evidence : evidence \in SealedEvidence}

\* A generated key is none that exists or has existed.
Known ==
  lost \cup sealed \cup vault \cup {chain, master, memory, record}
    \cup {proc[q].key : q \in {x \in Procs : proc[x] # Off}}

\* A key file, then the legacy key, then a fresh one.
Existing == IF AllowFile /\ master # NoKey THEN master ELSE memory

Obtains(p, pc, src) ==
  \/ /\ Existing \in Keys
     /\ Choose(p, pc, Existing, src)
  \/ /\ Existing = NoKey /\ TRUE \in MayGenerate(p)
     /\ \E k \in Keys \ (Known \cup OperatorKeys) : Choose(p, pc, k, src)

LadderEmpty(p) ==
  /\ proc[p].pc = "ladder" /\ proc[p].env = NoKey
  /\ Get(p) = NoKey /\ memory # Corrupt
  /\ Obtains(p, "store", "keychain")
  /\ UNCHANGED <<folder, sealed, lost, commands>>

LadderUnavailable(p) ==
  /\ proc[p].pc = "ladder" /\ proc[p].env = NoKey
  /\ Get(p) = "unavailable" /\ memory # Corrupt
  /\ AllowFile
  /\ IF master \in Keys
     THEN Choose(p, "check", master, "file")
     ELSE Obtains(p, "publish", "file")
  /\ UNCHANGED <<folder, sealed, lost, commands>>

\* Corrupt material, no custody the host allows, or no key that may be generated.
LadderRefuses(p) ==
  /\ proc[p].pc = "ladder" /\ proc[p].env = NoKey
  /\ \/ Corrupt \in {memory, Get(p)}
     \/ Get(p) = "unavailable" /\ ~AllowFile
     \/ Get(p) \in {NoKey, "unavailable"} /\ Existing = Corrupt
     \/ Get(p) \in {NoKey, "unavailable"} /\ Existing = NoKey /\ FALSE \in MayGenerate(p)
  /\ Goto(p, "recover")
  /\ UNCHANGED <<folder, sealed, lost, commands>>

\* The slot is written whatever it holds by now.
StoreKey(p) ==
  /\ proc[p].pc = "store"
  /\ \/ /\ chain' = proc[p].key
        /\ lost' = lost \cup (({chain} \cap Keys) \ {proc[p].key})
        /\ Goto(p, "verify")
     \/ /\ UNCHANGED <<chain, lost>>
        /\ Goto(p, IF AllowFile THEN "publish" ELSE "recover")
  /\ UNCHANGED <<master, memory, record, index, vault, sealed, commands>>

VerifyKey(p) ==
  /\ proc[p].pc = "verify"
  /\ \/ /\ chain = proc[p].key
        /\ IF memory = Corrupt
           THEN UNCHANGED memory /\ Goto(p, "recover")
           ELSE memory' = MemoryWithout(chain) /\ Goto(p, "check")
     \/ UNCHANGED memory /\ Goto(p, "recover")
  /\ UNCHANGED <<chain, master, record, index, vault, sealed, lost, commands>>

\* write_key_file: the first writer wins, the others adopt its key.
PublishKey(p) ==
  /\ proc[p].pc = "publish"
  /\ \/ /\ master \in Keys \cup {NoKey}
        /\ LET k == IF master = NoKey THEN proc[p].key ELSE master
           IN master' = k /\ Choose(p, "check", k, "file")
     \/ /\ master = Corrupt
        /\ UNCHANGED master /\ Goto(p, "recover")
  /\ UNCHANGED <<chain, memory, record, index, vault, sealed, lost, commands>>

-----------------------------------------------------------------------------
(* resolve *)

\* Key k is used from now on; nothing else that was read matters any more.
Uses(p, k) ==
  proc' = [proc EXCEPT ![p] = [Begins("use", NoKey, FALSE) EXCEPT !.key = k, !.read = proc[p].read]]

\* The same, after the mismatched primary key was retired.
UsesInstead(p, k, then) ==
  proc' = [proc EXCEPT ![p].pc = "retire", ![p].key = k, ![p].then = then,
                       ![p].todo = IF proc[p].src = "env" THEN {} ELSE {proc[p].key}]

\* The ladder refused; the recorded key may still be found elsewhere.
Recover(p) ==
  /\ proc[p].pc = "recover"
  /\ IF proc[p].read \in Candidates(p) THEN Uses(p, proc[p].read) ELSE Ends(p)
  /\ UNCHANGED <<folder, sealed, lost, commands>>

\* Mutant: a key from the environment is trusted over the record.
Mismatched_TrustsEnv(p) == proc[p].src # "env" /\ proc[p].read \notin {proc[p].key, NoKey}

Mismatched(p) == proc[p].read \notin {proc[p].key, NoKey}

CheckMatches(p) ==
  /\ proc[p].pc = "check"
  /\ ~Mismatched(p)
  /\ IF proc[p].read = NoKey /\ p \in Recorders THEN Goto(p, "probe") ELSE Uses(p, proc[p].key)
  /\ UNCHANGED <<folder, sealed, lost, commands>>

\* No other candidate is the recorded key, or the operator's key is no known one.
CheckMismatch(p) ==
  /\ proc[p].pc = "check"
  /\ Mismatched(p)
  /\ IF \/ proc[p].src = "env" /\ proc[p].key \notin LoadAll(p)
        \/ proc[p].read \notin Candidates(p)
     THEN Ends(p)
     ELSE UsesInstead(p, proc[p].read, "use")
  /\ UNCHANGED <<folder, sealed, lost, commands>>

\* A folder without a record; a failed probe tries every other candidate.
ProbeKey(p) ==
  /\ proc[p].pc = "probe"
  /\ \E sampled \in SUBSET sealed :
       LET opening == {k \in Candidates(p) : Probe(sampled, k) = "passed"}
       IN \/ Probe(sampled, proc[p].key) # "failed" /\ Goto(p, "note")
          \/ /\ Probe(sampled, proc[p].key) = "failed"
             /\ \/ \E k \in opening : UsesInstead(p, k, "note")
                \/ opening = {} /\ Ends(p)
  /\ UNCHANGED <<folder, sealed, lost, commands>>

\* write_kcv_record; a command is done with it.
NoteKey(p) ==
  /\ proc[p].pc = "note"
  /\ record' = proc[p].key
  /\ IF proc[p].then = "install" THEN Ends(p) ELSE Uses(p, proc[p].key)
  /\ UNCHANGED <<chain, master, memory, index, vault, sealed, lost, commands>>

\* Stores, files and logs seal under the resolved key.
Seal(p) ==
  /\ proc[p].pc = "use"
  /\ sealed' = sealed \cup {proc[p].key}
  /\ UNCHANGED <<folder, proc, lost, commands>>

-----------------------------------------------------------------------------
(* RetiredVault::retire, one key after the other *)

RetireDone(p) ==
  /\ proc[p].pc = "retire" /\ proc[p].todo = {}
  /\ CASE proc[p].then = "off" -> Ends(p)
       [] proc[p].then = "use" -> Uses(p, proc[p].key)
       [] OTHER -> Goto(p, proc[p].then)
  /\ UNCHANGED <<folder, sealed, lost, commands>>

\* Mutant: one key too many.
HasRoom_OffByOne(ks) == Cardinality(Retired \cup ks) <= MaxRetired + 1

\* The vault takes these keys too.
HasRoom(ks) == Cardinality(Retired \cup ks) <= MaxRetired

\* Retired already, or no room left, which ends a command and is logged otherwise.
RetireSkips(p, k) ==
  /\ proc[p].pc = "retire" /\ k \in proc[p].todo
  /\ \/ k \in Retired /\ proc' = [proc EXCEPT ![p].todo = @ \ {k}]
     \/ /\ ~HasRoom({k})
        /\ IF IsCommand(p) THEN Ends(p) ELSE proc' = [proc EXCEPT ![p].todo = @ \ {k}]
  /\ UNCHANGED <<folder, sealed, lost, commands>>

PrefersKeychain(p) == proc[p].chainOn /\ (IsCommand(p) \/ proc[p].src = "keychain")

\* The material first, in a slot that reads back or in a file; the index later,
\* as it was read before.
RetireStores(p, k) ==
  /\ proc[p].pc = "retire" /\ k \in proc[p].todo
  /\ k \notin Retired /\ HasRoom({k})
  /\ \E c \in {"file"} \cup (IF PrefersKeychain(p) THEN {"keychain"} ELSE {}) :
       /\ vault' = vault \cup {k}
       /\ proc' = [proc EXCEPT ![p].pc = "index", ![p].todo = @ \ {k},
                               ![p].at = [index EXCEPT ![k] = c]]
  /\ UNCHANGED <<chain, master, memory, record, index, sealed, lost, commands>>

\* write_retired_index: the whole file, replaced at once.
WriteRetiredIndex(custody) == index' = custody

RetireIndexes(p) ==
  /\ proc[p].pc = "index"
  /\ WriteRetiredIndex(proc[p].at)
  /\ proc' = [proc EXCEPT ![p].pc = "retire", ![p].at = NoIndex]
  /\ UNCHANGED <<chain, master, memory, record, vault, sealed, lost, commands>>

-----------------------------------------------------------------------------
(* keys adopt, import_key_bundle, keys retire: run while nothing else is *)

Commands(p) ==
  /\ \A q \in Procs : proc[q] = Off
  /\ commands < MaxCommands
  /\ commands' = commands + 1

\* The slots that adopt and recorded_current_key look at.
SlotKeys(env, on) == Keys \cap {env, IF on THEN chain ELSE NoKey, master}
Persistent(on) == IF on /\ chain \in Keys THEN {chain} ELSE {master} \cap Keys

\* Mutant: only the persistent key is retired, not a recorded one held elsewhere.
ToRetire_PersistentOnly(env, on, k, extra) == (Persistent(on) \cup extra) \ {k}

\* install_current: what is retired before k becomes the current key.
ToRetire(env, on, k, extra) ==
  (Persistent(on) \cup ({record} \cap (SlotKeys(env, on) \cup {memory})) \cup extra) \ {k, NoKey}

Installs(p, env, on, k, extra) ==
  /\ HasRoom(ToRetire(env, on, k, extra))
  /\ proc' = [proc EXCEPT ![p] =
                [Begins("retire", env, on) EXCEPT !.key = k, !.then = "install",
                                                  !.todo = ToRetire(env, on, k, extra)]]

\* candidate_key: what adopt may be pointed at, a slot or a retired key.
Adoptable(env, on) == SlotKeys(env, on) \cup Loads(on)

\* A candidate that the probe rejects is adopted when the operator insists.
Adopt(p) ==
  /\ Commands(p)
  /\ \E env \in OperatorKeys \cup {NoKey}, on \in BOOLEAN :
       \E k \in Adoptable(env, on) : Installs(p, env, on, k, {})
  /\ UNCHANGED <<folder, sealed, lost>>

\* open_bundle: a key that some folder exported and the retired ones beside it.
Bundles == {b \in [key: OperatorKeys, retired: SUBSET OperatorKeys] : b.key \notin b.retired}

\* The bundle's keys; nothing is installed when its key is current already.
Import(p) ==
  /\ Commands(p)
  /\ \E env \in OperatorKeys \cup {NoKey}, on \in BOOLEAN, b \in Bundles :
       /\ env \in {NoKey, b.key} \cup b.retired
       /\ IF record = b.key /\ b.key \in SlotKeys(env, on)
          THEN proc' = [proc EXCEPT ![p] = [Begins("retire", env, on) EXCEPT
                                              !.key = b.key, !.then = "off", !.todo = b.retired]]
          ELSE Installs(p, env, on, b.key, b.retired)
  /\ UNCHANGED <<folder, sealed, lost>>

\* The keychain, when it takes the key and reads it back; else the key file.
InstallStores(p) ==
  /\ proc[p].pc = "install"
  /\ \/ /\ proc[p].chainOn
        /\ chain' = proc[p].key
        /\ Goto(p, "note")
     \/ /\ chain' \in {chain} \cup (IF proc[p].chainOn THEN {proc[p].key} ELSE {})
        /\ IF AllowFile THEN Goto(p, "file") ELSE Ends(p)
  /\ UNCHANGED <<master, memory, record, index, vault, sealed, lost, commands>>

\* The file is replaced, even one that holds a key nobody has retired.
InstallWrites(p) ==
  /\ proc[p].pc = "file"
  /\ master' = proc[p].key
  /\ lost' = lost \cup ((Keys \cap {master}) \ {proc[p].key, record})
  /\ Goto(p, "note")
  /\ UNCHANGED <<chain, memory, record, index, vault, sealed, commands>>

\* keys retire: neither the current key nor the one in the keychain's slot.
Retire(p) ==
  /\ Commands(p)
  /\ \E env \in OperatorKeys \cup {NoKey}, on \in BOOLEAN :
       \E k \in (SlotKeys(env, on) \cup ({memory} \cap Keys)) \ {record} :
         /\ k = env \/ ~on \/ chain # k
         /\ proc' = [proc EXCEPT ![p] = [Begins("retire", env, on) EXCEPT
                                           !.key = k, !.then = "remove", !.todo = {k}]]
  /\ UNCHANGED <<folder, sealed, lost>>

ReadsBack(p) == proc[p].key \in LoadAll(p)

\* The slot the key was found in is emptied once the retired copy reads back.
RetireRemoves(p) ==
  /\ proc[p].pc = "remove"
  /\ LET k == proc[p].key
         frees == k # proc[p].env /\ ReadsBack(p)
     IN /\ master' = IF frees /\ master = k THEN NoKey ELSE master
        /\ memory' = IF frees /\ master # k /\ memory = k THEN NoKey ELSE memory
  /\ Ends(p)
  /\ UNCHANGED <<chain, record, index, vault, sealed, lost, commands>>

-----------------------------------------------------------------------------

\* A process stops, at any point.
Stop(p) ==
  /\ proc[p] # Off
  /\ Ends(p)
  /\ UNCHANGED <<folder, sealed, lost, commands>>

\* A folder of an older version, or one in use: possibly a key in a slot, a key file
\* or a legacy key, recorded or not, with data sealed under it; the keychain may
\* have lost its entry.
Init ==
  /\ \E k \in Keys \ OperatorKeys :
       /\ chain \in {NoKey, Corrupt, k} /\ master \in {NoKey, k} /\ memory \in {NoKey, k}
       /\ sealed \in {{}, {k}}
       /\ record \in {NoKey, k}
       /\ lost = (sealed \cup ({record} \cap Keys)) \ {chain, master, memory}
  /\ index = NoIndex
  /\ vault = {}
  /\ proc = [p \in Procs |-> Off]
  /\ commands = 0

Resolve(p) ==
  \/ Start(p) \/ StartMalformed(p) \/ LadderEnv(p) \/ LadderKeychain(p) \/ LadderEmpty(p)
  \/ LadderUnavailable(p) \/ LadderRefuses(p) \/ StoreKey(p) \/ VerifyKey(p) \/ PublishKey(p)
  \/ Recover(p) \/ CheckMatches(p) \/ CheckMismatch(p) \/ ProbeKey(p) \/ NoteKey(p) \/ Seal(p)

Retires(p) ==
  \/ RetireDone(p) \/ RetireIndexes(p)
  \/ \E k \in Keys : RetireSkips(p, k) \/ RetireStores(p, k)

Command(p) ==
  \/ Adopt(p) \/ Import(p) \/ InstallStores(p) \/ InstallWrites(p) \/ Retire(p) \/ RetireRemoves(p)

Next ==
  \E p \in Procs : Resolve(p) \/ Retires(p) \/ Command(p) \/ Stop(p)

Spec == Init /\ [][Next]_vars
-----------------------------------------------------------------------------
(* Properties *)

\* The folder's files, the keychain and the processes have their types, and no more
\* keys are retired than the vault takes.
TypeOK ==
  /\ chain \in Keys \cup {NoKey, Corrupt} /\ master \in Keys \cup {NoKey, Corrupt}
  /\ memory \in Keys \cup {NoKey, Corrupt} /\ record \in Keys \cup {NoKey}
  /\ index \in [Keys -> Custodies]
  /\ vault \subseteq Keys
  /\ sealed \subseteq Keys /\ lost \subseteq Keys /\ commands \in 0..MaxCommands
  /\ proc \in [Procs -> Process \cup {Off}]
  /\ Cardinality(Retired) <= MaxRetired

\* The keys that the folder and the keychain still hold.
Held == (Keys \cap {chain, master, memory}) \cup Loads(TRUE)

\* A key that seals data, or that the folder records, is never destroyed: it stays
\* in a slot, a file or the vault, whatever is interrupted, unless an operator has
\* brought it or it is one of the lost.
SealingKeyIsHeld ==
  sealed \cup ({record} \cap Keys) \subseteq Held \cup OperatorKeys \cup lost

\* A process that resolved its key against a record seals under the key that is
\* recorded now, whatever the environment, the keychain and the key file offered it
\* and whatever the other processes did since.  It says nothing of a process that
\* found no record when it started: that one keeps the key it resolved, although
\* Core may record another one while it runs.
SealsUnderRecord ==
  \A p \in Procs : proc[p].pc = "use" /\ proc[p].read # NoKey => proc[p].key = record
===============================================================================
