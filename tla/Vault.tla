-------------------------------- MODULE Vault --------------------------------
(***************************************************************************)
(* The encrypted Secret Store (packages/secrets/src/vault.ts): one file,   *)
(* rewritten as a whole under a lock file, and the stores that have it     *)
(* open, one in each process, each with several commands that wait for the *)
(* file system between their steps.                                        *)
(*                                                                         *)
(* A command keeps a reference to the master key's buffer, which lock,     *)
(* unlock and a rotation of the protection overwrite with zeros.  Buffers  *)
(* are numbered: a store's current number is the one buffer that still     *)
(* holds its key, whatever the content, every other one is zeros.          *)
(***************************************************************************)
EXTENDS Naturals

CONSTANTS Store, Command, StoreOf,    \* StoreOf in [Command -> Store]
          Secret, Nobody,
          MaxCommands, MaxBuffers, MaxKeys, MaxFaults

VARIABLES
  vault,     \* the file: key number, generation, records
  lockFile,  \* .vault.lock: the store that made it
  aged,      \* a lock was broken for its age
  temps,     \* temporary files next to the vault
  state, buffer, key, generation,  \* of each store
  inLocks,   \* stores whose process has the path in inProcessLocks
  pc, mem,   \* of each command
  acked,     \* changes of each secret that a command has answered
  alarmed,   \* a store of the vault's generation could not decrypt a record it should
  commands, buffers, keys, faults, \* bounds
  overlapped \* two commands of one store ran side by side

own == <<state, buffer, key, generation>>
bounds == <<keys, faults, overlapped>>
answers == <<acked, alarmed>>
vars == <<vault, lockFile, aged, temps, own, inLocks, pc, mem, answers, commands, buffers,
          bounds>>

Zeros == 0
Absent == [changes |-> 0, copies |-> 0, key |-> 0]
NoVault == [key |-> 0, generation |-> 0, records |-> [s \in Secret |-> Absent]]
Changes == {"create", "replace", "rotate", "delete"}
Reads == {"use", "export"}
Blank == [kind |-> "none", secret |-> Nobody, buffer |-> 0, read |-> NoVault, next |-> NoVault]

\* Types; a store that calls itself unlocked has the buffer that holds its key.
TypeOK ==
  /\ vault.key \in 0..MaxKeys /\ vault.generation \in Nat
  /\ \A s \in Secret : vault.records[s].key \in 0..MaxKeys /\ vault.records[s].copies \in 0..2
  /\ lockFile \in Store \cup {Nobody} /\ inLocks \subseteq Store /\ temps \subseteq Command
  /\ state \in [Store -> {"uninitialized", "locked", "unlocked", "rotating", "error"}]
  /\ buffer \in [Store -> 0..MaxBuffers] /\ key \in [Store -> 0..MaxKeys]
  /\ pc \in [Command -> {"idle", "unlocking", "checking", "locking", "reading", "staging",
                         "writing", "verifying", "collecting", "decrypting"}]
  /\ \A i \in Store : state[i] = "unlocked" => buffer[i] # 0

Init ==
  /\ vault = NoVault /\ lockFile = Nobody /\ aged = FALSE /\ temps = {}
  /\ state = [i \in Store |-> "uninitialized"] /\ buffer = [i \in Store |-> 0]
  /\ key = [i \in Store |-> 0] /\ generation = [i \in Store |-> 0]
  /\ inLocks = {}
  /\ pc = [t \in Command |-> "idle"] /\ mem = [t \in Command |-> Blank]
  /\ acked = [s \in Secret |-> 0]
  /\ commands = 0 /\ buffers = 0 /\ keys = 0 /\ faults = 0 /\ overlapped = FALSE
  /\ alarmed = FALSE

-----------------------------------------------------------------------------
Exists(v) == v.key # 0

\* decodeVault: a file with two records of one identifier is refused as a whole.
Decodes(v) == \A s \in Secret : v.records[s].copies <= 1

Present(v, s) == v.records[s].copies > 0

\* encryptRecord and decryptRecord: the key of a record is wrapped with the master key,
\* and a record whose wrapping does not authenticate is answered as tampered with.
Encrypted(r, k) == [r EXCEPT !.key = k]
Decrypts(r, k) == r.key = k

\* What a captured buffer holds by now.
KeyIn(t) == IF mem[t].buffer = buffer[StoreOf[t]] THEN key[StoreOf[t]] ELSE Zeros

\* readDisk removes the temporary files it finds, those of a write under way too.
Cleans == temps' = {}

Goto(t, s) == pc' = [pc EXCEPT ![t] = s]
Remember(t, m) == mem' = [mem EXCEPT ![t] = m]
Ends(t) == Goto(t, "idle") /\ mem' = [mem EXCEPT ![t] = Blank]

\* The release removes the lock file, whoever made it.
Release(t) == inLocks' = inLocks \ {StoreOf[t]} /\ lockFile' = Nobody
KeepLocks == UNCHANGED <<inLocks, lockFile>>

Others(t) == {u \in Command \ {t} : StoreOf[u] = StoreOf[t]}

Starts(t, kind, s) ==
  /\ pc[t] = "idle" /\ commands < MaxCommands /\ commands' = commands + 1
  /\ Goto(t, CASE kind = "unlock" -> "unlocking" [] kind = "import" -> "checking"
               [] kind = "protect" -> "collecting" [] kind \in Reads -> "decrypting"
               [] OTHER -> "locking")
  /\ Remember(t, [Blank EXCEPT !.kind = kind, !.secret = s, !.buffer = buffer[StoreOf[t]],
                               !.read = IF kind = "unlock" THEN vault ELSE NoVault])
  /\ overlapped' = (overlapped \/ \E u \in Others(t) : pc[u] # "idle")

-----------------------------------------------------------------------------
(***************************************************************************)
(* unlock, lock and getBackendStatus.                                      *)
(***************************************************************************)
\* unlock reads the file here (mem.read) and derives the key when the answer is in.
Unlock(t) ==
  /\ Starts(t, "unlock", Nobody)
  /\ Cleans
  /\ UNCHANGED <<vault, lockFile, aged, own, inLocks, answers, buffers, keys, faults>>

\* clearMaster.
Clear(i) ==
  /\ buffer' = [buffer EXCEPT ![i] = 0] /\ key' = [key EXCEPT ![i] = 0]
  /\ generation' = [generation EXCEPT ![i] = 0]

\* A vault that does not decode throws before anything changes; a wrong passphrase locks.
Unlocked(t) ==
  LET i == StoreOf[t] v == mem[t].read IN
  /\ pc[t] = "unlocking"
  /\ \/ /\ Exists(v) /\ Decodes(v) /\ buffers < MaxBuffers
        /\ buffers' = buffers + 1
        /\ buffer' = [buffer EXCEPT ![i] = buffers'] /\ key' = [key EXCEPT ![i] = v.key]
        /\ generation' = [generation EXCEPT ![i] = v.generation]
        /\ state' = [state EXCEPT ![i] = "unlocked"]
     \/ /\ Exists(v) /\ Decodes(v)
        /\ Clear(i) /\ state' = [state EXCEPT ![i] = "locked"] /\ UNCHANGED buffers
     \/ ~Decodes(v) /\ UNCHANGED <<own, buffers>>
     \/ /\ ~Exists(v)
        /\ state' = [state EXCEPT ![i] = "uninitialized"]
        /\ UNCHANGED <<buffer, key, generation, buffers>>
  /\ Ends(t)
  /\ UNCHANGED <<vault, lockFile, aged, temps, inLocks, answers, commands, bounds>>

\* lock, called by the user or by the inactivity timer, at any time.
Lock(i) ==
  /\ state[i] \notin {"uninitialized", "locked"}
  /\ Clear(i) /\ state' = [state EXCEPT ![i] = "locked"]
  /\ overlapped' = (overlapped \/ \E t \in Command : StoreOf[t] = i /\ pc[t] # "idle")
  /\ UNCHANGED <<vault, lockFile, aged, temps, inLocks, pc, mem, answers, commands, buffers,
                 keys, faults>>

\* hasSecret, getSecretMetadata and listSecretMetadata, locked or not: reading cleans.
LookUp ==
  /\ temps # {} /\ Cleans
  /\ UNCHANGED <<vault, lockFile, aged, own, inLocks, pc, mem, answers, commands, buffers, bounds>>

\* getBackendStatus notices a vault that this store has not seen.
Inspect(i) ==
  /\ Exists(vault) /\ Decodes(vault) /\ state[i] = "uninitialized"
  /\ Cleans
  /\ state' = [state EXCEPT ![i] = IF @ = "uninitialized" THEN "locked" ELSE @]
  /\ UNCHANGED <<vault, lockFile, aged, buffer, key, generation, inLocks, pc, mem, answers,
                 commands, buffers, bounds>>

\* An error on the way there clears the key.
InspectFails(i) ==
  /\ ~Decodes(vault)
  /\ Clear(i) /\ state' = [state EXCEPT ![i] = "error"]
  /\ UNCHANGED <<vault, lockFile, aged, temps, inLocks, pc, mem, answers, commands, buffers,
                 bounds>>

-----------------------------------------------------------------------------
(***************************************************************************)
(* The commands that rewrite the file.                                     *)
(***************************************************************************)
Initialize(t) ==
  /\ Starts(t, "initialize", Nobody)
  /\ UNCHANGED <<vault, lockFile, aged, temps, own, inLocks, answers, buffers, keys, faults>>

\* requireMasterKey.  A new secret has an identifier that was never used.
Change(t, kind, s) ==
  /\ state[StoreOf[t]] = "unlocked"
  /\ kind = "create" => acked[s] = 0 /\ vault.records[s].changes = 0
                        /\ \A u \in Command : mem[u].secret # s
  /\ Starts(t, kind, s)
  /\ UNCHANGED <<vault, lockFile, aged, temps, own, inLocks, answers, buffers, keys, faults>>

\* importSecretsEncrypted captures the key, then looks for conflicting identifiers
\* without the lock; mutateRecords asks for the key again, and does not use it.
Import(t, s) ==
  /\ state[StoreOf[t]] = "unlocked"
  /\ Starts(t, "import", s)
  /\ UNCHANGED <<vault, lockFile, aged, temps, own, inLocks, answers, buffers, keys, faults>>

CheckConflicts(t) ==
  /\ pc[t] = "checking"
  /\ IF Exists(vault) /\ Decodes(vault) /\ ~Present(vault, mem[t].secret)
        /\ state[StoreOf[t]] = "unlocked"
     THEN Goto(t, "locking") /\ UNCHANGED mem
     ELSE Ends(t)
  /\ Cleans
  /\ UNCHANGED <<vault, lockFile, aged, own, inLocks, answers, commands, buffers, bounds>>

\* decodeSecureExport: a file of another Project, or that does not authenticate.
RefuseExport(t) ==
  /\ pc[t] = "checking" /\ Ends(t)
  /\ UNCHANGED <<vault, lockFile, aged, temps, own, inLocks, answers, commands, buffers, bounds>>

\* rotateVaultProtection decrypts every record before it takes the lock.
Protect(t) ==
  /\ state[StoreOf[t]] = "unlocked"
  /\ Starts(t, "protect", Nobody)
  /\ UNCHANGED <<vault, lockFile, aged, temps, own, inLocks, answers, buffers, keys, faults>>

\* Records that do not decrypt are reported as tampered with.
Reports(t, wanted) ==
  alarmed' = (alarmed \/ /\ vault.generation = generation[StoreOf[t]]
                         /\ \E s \in wanted : ~Decrypts(vault.records[s], KeyIn(t)))

\* The finally clause of a rotation: the state follows from whether there is a key.
Settled(i) == state' = [state EXCEPT ![i] = IF buffer[i] = 0 THEN "locked" ELSE "unlocked"]

Collect(t) ==
  LET i == StoreOf[t]
      opens == \A s \in Secret : Present(vault, s) => Decrypts(vault.records[s], KeyIn(t))
      new == keys + 1 IN
  /\ pc[t] = "collecting"
  /\ \/ /\ Exists(vault) /\ Decodes(vault) /\ opens /\ keys < MaxKeys
        /\ keys' = new
        /\ state' = [state EXCEPT ![i] = "rotating"]
        /\ Goto(t, "locking")
        /\ Remember(t, [mem[t] EXCEPT
             !.read = vault,
             !.next = [key |-> new, generation |-> vault.generation + 1,
                       records |-> [s \in Secret |-> IF Present(vault, s)
                                      THEN Encrypted(vault.records[s], new)
                                      ELSE vault.records[s]]]])
     \/ ~(Exists(vault) /\ Decodes(vault)) /\ Ends(t) /\ UNCHANGED <<state, keys>>
     \/ Exists(vault) /\ Decodes(vault) /\ ~opens /\ Ends(t) /\ Settled(i) /\ UNCHANGED keys
  /\ Cleans /\ Reports(t, {s \in Secret : Present(vault, s)})
  /\ UNCHANGED <<vault, lockFile, aged, buffer, key, generation, inLocks, acked, commands,
                 buffers, faults, overlapped>>

\* withSecret and exportSecretsEncrypted capture the key and wait for the file,
Read(t, kind, s) ==
  /\ state[StoreOf[t]] = "unlocked"
  /\ Starts(t, kind, s)
  /\ UNCHANGED <<vault, lockFile, aged, temps, own, inLocks, answers, buffers, keys, faults>>

\* and decrypt the secret, or every one, without comparing generations.
Decrypt(t, wanted) ==
  /\ pc[t] = "decrypting"
  /\ Cleans /\ Ends(t)
  /\ IF Exists(vault) /\ Decodes(vault) /\ \A s \in wanted : Present(vault, s)
     THEN Reports(t, wanted) ELSE UNCHANGED alarmed
  /\ UNCHANGED <<vault, lockFile, aged, own, inLocks, acked, commands, buffers, bounds>>

Use(t) == mem[t].kind = "use" /\ Decrypt(t, {mem[t].secret})

\* The export is another file, written in one piece from what was decrypted.
Export(t) == mem[t].kind = "export" /\ Decrypt(t, {s \in Secret : Present(vault, s)})

GivesUp(t) == IF mem[t].kind = "protect" THEN Settled(StoreOf[t]) ELSE UNCHANGED state

\* A bug: the lock file of another process is not looked at.
LockInProcess(t) ==
  /\ pc[t] = "locking"
  /\ IF StoreOf[t] \in inLocks
     THEN GivesUp(t) /\ Ends(t) /\ KeepLocks
     ELSE /\ inLocks' = inLocks \cup {StoreOf[t]} /\ lockFile' = StoreOf[t]
          /\ Goto(t, "reading") /\ UNCHANGED <<mem, state>>
  /\ UNCHANGED <<vault, aged, temps, buffer, key, generation, answers, commands, buffers, bounds>>

\* acquireVaultLock: a second command of the process, or a lock file, means BUSY.
LockVault(t) ==
  /\ pc[t] = "locking"
  /\ IF StoreOf[t] \in inLocks \/ lockFile # Nobody
     THEN GivesUp(t) /\ Ends(t) /\ KeepLocks
     ELSE /\ inLocks' = inLocks \cup {StoreOf[t]} /\ lockFile' = StoreOf[t]
          /\ Goto(t, "reading") /\ UNCHANGED <<mem, state>>
  /\ UNCHANGED <<vault, aged, temps, buffer, key, generation, answers, commands, buffers, bounds>>

\* A lock file older than five minutes is removed, whether its maker is gone or slow.
BreakLock ==
  /\ lockFile # Nobody
  /\ lockFile' = Nobody /\ aged' = (aged \/ lockFile \in inLocks)
  /\ UNCHANGED <<vault, temps, own, inLocks, pc, mem, answers, commands, buffers, bounds>>

Deleted(r) == [changes |-> r.changes + 1, copies |-> 0, key |-> 0]
Imported(r, k) == Encrypted([r EXCEPT !.changes = @ + 1, !.copies = @ + 1], k)
Written(r, k) == Encrypted([r EXCEPT !.changes = @ + 1, !.copies = 1], k)

\* The records after a change: a replacement and a rotation write the record anew, an
\* import adds one without looking again.
Changed(t) ==
  LET s == mem[t].secret
      r == vault.records[s]
      now == CASE mem[t].kind = "delete" -> Deleted(r)
               [] mem[t].kind = "import" -> Imported(r, KeyIn(t))
               [] OTHER -> Written(r, KeyIn(t))
  IN [vault EXCEPT !.generation = @ + 1, !.records[s] = now]

\* Whether the mutator goes through: a rotation of one secret decrypts it first.
Permitted(t) ==
  LET s == mem[t].secret IN
  CASE mem[t].kind = "rotate" -> Present(vault, s) /\ Decrypts(vault.records[s], KeyIn(t))
    [] mem[t].kind \in {"replace", "delete"} -> Present(vault, s)
    [] OTHER -> TRUE

\* A bug: the generation seen when the store was unlocked is not compared.
CurrentWithoutGeneration(t) ==
  CASE mem[t].kind = "initialize" -> ~Exists(vault)
    [] mem[t].kind = "protect" -> vault.key = mem[t].read.key
    [] OTHER -> Exists(vault)

\* What each command compares under the lock.
CurrentVault(t) ==
  CASE mem[t].kind = "initialize" -> ~Exists(vault)
    [] mem[t].kind = "protect" -> /\ vault.generation = mem[t].read.generation
                                  /\ vault.key = mem[t].read.key
    [] OTHER -> Exists(vault) /\ vault.generation = generation[StoreOf[t]]

\* The file is read under the lock, compared, and the new one computed: an initialisation
\* makes a key of its own.
ReadVault(t) ==
  LET kind == mem[t].kind IN
  /\ pc[t] = "reading"
  /\ IF Decodes(vault) /\ CurrentVault(t) /\ Permitted(t)
        /\ (kind = "initialize" => keys < MaxKeys)
     THEN /\ Goto(t, "staging")
          /\ Remember(t, [mem[t] EXCEPT !.next =
               CASE kind = "initialize" -> [NoVault EXCEPT !.key = keys + 1]
                 [] kind = "protect" -> @
                 [] OTHER -> Changed(t)])
          /\ keys' = IF kind = "initialize" THEN keys + 1 ELSE keys
          /\ KeepLocks /\ UNCHANGED state
     ELSE Release(t) /\ Ends(t) /\ GivesUp(t) /\ UNCHANGED keys
  /\ Cleans
  /\ UNCHANGED <<vault, aged, buffer, key, generation, answers, commands, buffers, faults,
                 overlapped>>

\* atomicWriteJson: a temporary file is written and synced,
StageVault(t) ==
  /\ pc[t] = "staging"
  /\ temps' = temps \cup {t}
  /\ Goto(t, "writing")
  /\ UNCHANGED <<vault, lockFile, aged, own, inLocks, mem, answers, commands, buffers, bounds>>

\* and replaces the vault, unless a reader has removed it; or the write
\* fails (a fault).
WriteVault(t) ==
  /\ pc[t] = "writing"
  /\ \/ /\ t \in temps
        /\ vault' = mem[t].next
        /\ Goto(t, "verifying")
        /\ KeepLocks /\ UNCHANGED <<mem, state, faults>>
     \/ /\ t \notin temps \/ faults < MaxFaults
        /\ faults' = IF t \in temps THEN faults + 1 ELSE faults
        /\ Release(t) /\ Ends(t) /\ GivesUp(t)
        /\ UNCHANGED vault
  /\ temps' = temps \ {t}
  /\ UNCHANGED <<aged, buffer, key, generation, answers, commands, buffers, keys, overlapped>>

\* The file is read back.  A verified change is answered; a verified new protection
\* installs its key, whatever state the store is in by then.
VerifyVault(t) ==
  LET i == StoreOf[t] m == mem[t] IN
  /\ pc[t] = "verifying" /\ (m.kind = "protect" => buffers < MaxBuffers)
  /\ IF Decodes(vault) /\ vault.generation = m.next.generation
     THEN /\ generation' = [generation EXCEPT ![i] = vault.generation]
          /\ acked' = IF m.kind \in Changes \cup {"import"}
                      THEN [acked EXCEPT ![m.secret] = m.next.records[m.secret].changes]
                      ELSE acked
          /\ IF m.kind = "protect"
             THEN /\ buffers' = buffers + 1
                  /\ buffer' = [buffer EXCEPT ![i] = buffers']
                  /\ key' = [key EXCEPT ![i] = m.next.key]
                  /\ state' = [state EXCEPT ![i] = "unlocked"]
             ELSE /\ state' = IF m.kind = "initialize" THEN [state EXCEPT ![i] = "locked"]
                              ELSE state
                  /\ UNCHANGED <<buffers, buffer, key>>
     ELSE GivesUp(t) /\ UNCHANGED <<generation, buffer, key, buffers, acked>>
  /\ Release(t) /\ Ends(t) /\ Cleans
  /\ UNCHANGED <<vault, aged, alarmed, commands, bounds>>

\* The process of a store ends: the lock file and a temporary file stay.
Crash(i) ==
  /\ faults < MaxFaults /\ faults' = faults + 1
  /\ Clear(i) /\ state' = [state EXCEPT ![i] = "uninitialized"]
  /\ inLocks' = inLocks \ {i}
  /\ pc' = [t \in Command |-> IF StoreOf[t] = i THEN "idle" ELSE pc[t]]
  /\ mem' = [t \in Command |-> IF StoreOf[t] = i THEN Blank ELSE mem[t]]
  /\ UNCHANGED <<vault, lockFile, aged, temps, answers, commands, buffers, keys, overlapped>>

Next ==
  \/ BreakLock \/ LookUp
  \/ \E i \in Store : Lock(i) \/ Inspect(i) \/ InspectFails(i) \/ Crash(i)
  \/ \E t \in Command :
       \/ Unlock(t) \/ Unlocked(t) \/ Initialize(t) \/ Protect(t) \/ Collect(t)
       \/ \E s \in Secret : Import(t, s) \/ Read(t, "use", s) \/ \E kind \in Changes : Change(t, kind, s)
       \/ Read(t, "export", Nobody) \/ Use(t) \/ Export(t)
       \/ CheckConflicts(t) \/ RefuseExport(t)
       \/ LockVault(t) \/ ReadVault(t) \/ StageVault(t) \/ WriteVault(t) \/ VerifyVault(t)

Spec == Init /\ [][Next]_vars

-----------------------------------------------------------------------------
(***************************************************************************)
(* Properties.                                                             *)
(***************************************************************************)
Readable ==
  Exists(vault) => /\ Decodes(vault)
                   /\ \A s \in Secret : Present(vault, s) => vault.records[s].key = vault.key

\* A change that was answered is never lost, whatever other commands, processes, crashes
\* and rotations of the protection do, as long as no lock was broken under a command that
\* still ran.
AcknowledgedChangesStay ==
  ~aged => \A s \in Secret : vault.records[s].changes >= acked[s]

\* Stores of several processes that change, rotate and protect the same file, one command
\* at a time in each store, never leave a record that the vault's key does not open nor a
\* file that does not decode: the generation tells a store that its key may be an old one.
\* Nor does a store that has the vault's generation ever report one of its records as
\* tampered with.
SecretsStayReadable == ~overlapped /\ ~aged => Readable /\ ~alarmed

\* PORTABLE_VAULT.md: "lock and fatal errors clear the master key [...] decryption and
\* mutation require an unlocked store": no record is encrypted with a cleared key.
MutationsUseTheKey ==
  \A s \in Secret : Present(vault, s) => vault.records[s].key # Zeros

\* PORTABLE_VAULT.md: "duplicate secret IDs [...] are rejected."
NoDuplicateSecret == Decodes(vault)
=============================================================================
