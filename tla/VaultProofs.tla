----------------------------- MODULE VaultProofs -----------------------------
(***************************************************************************)
(* What the Secret Store's commands keep, for any number of stores,        *)
(* commands, secrets, keys and faults: a change that was answered stays as *)
(* long as no lock was broken under a command that still ran, and, when    *)
(* besides each store works one command at a time, every record opens with *)
(* the vault's key.  And what the Secret Store of the desktop keeps        *)
(* (ProtectedKey), whose vault has a random key for its passphrase: that   *)
(* key is never lost.                                                      *)
(***************************************************************************)
EXTENDS Vault, TLAPS

CONSTANTS DesktopCommand, MaxCrashes

VARIABLES provider, keyFile, stale, keyVault, master, keyPc, keyMem, madeKeys, keyCommands,
          keyFaults, crashes, keyOverlapped, late

KeyFile == INSTANCE ProtectedKey WITH
  Task <- DesktopCommand, vault <- keyVault, pc <- keyPc, mem <- keyMem, keys <- madeKeys,
  commands <- keyCommands, faults <- keyFaults, overlapped <- keyOverlapped

\* Commands name stores, and "nobody" is no store.
Constants == StoreOf \in [Command -> Store] /\ Nobody \notin Store

-----------------------------------------------------------------------------
(***************************************************************************)
(* The inductive invariant, in three parts: types, what holds of every     *)
(* behaviour in which no lock was broken under a command, and what holds   *)
(* when, besides, each store worked one command at a time.                 *)
(***************************************************************************)
Rows == [changes : Nat, copies : Nat, key : Nat]
File == [key : Nat, generation : Nat, records : [Secret -> Rows]]

Writers == Changes \cup {"import", "protect", "initialize"}
Named == Changes \cup {"import", "use"}
Keyed == Changes \cup Reads \cup {"import", "protect"}
Holding == {"reading", "staging", "writing", "verifying"}

Stages == {"idle", "unlocking", "checking", "collecting", "decrypting", "locking"} \cup Holding
Memory == [kind : Writers \cup Reads \cup {"none", "unlock"}, secret : Secret \cup {Nobody},
           buffer : Nat, read : File, next : File]

\* The kinds of command that come to each stage.
KindsAt(s) ==
  CASE s = "idle" -> {"none"} [] s = "unlocking" -> {"unlock"} [] s = "checking" -> {"import"}
    [] s = "collecting" -> {"protect"} [] s = "decrypting" -> Reads [] OTHER -> Writers

\* What a command remembers fits its stage.
Fits(m, s) ==
  /\ m \in Memory /\ s \in Stages /\ m.kind \in KindsAt(s)
  /\ m.kind \in Named => m.secret \in Secret

CommandsTyped ==
  /\ pc \in [Command -> Stages] /\ mem \in [Command -> Memory]
  /\ \A t \in Command : Fits(mem[t], pc[t])

StoresTyped ==
  /\ state \in [Store -> {"uninitialized", "locked", "unlocked", "rotating", "error"}]
  /\ buffer \in [Store -> Nat] /\ key \in [Store -> Nat] /\ generation \in [Store -> Nat]
  /\ \A i \in Store : state[i] = "unlocked" => buffer[i] # 0
  /\ buffers \in Nat /\ keys \in Nat

Typed == vault \in File /\ acked \in [Secret -> Nat] /\ StoresTyped /\ CommandsTyped

\* The lock file keeps two commands from working on the vault.
OneHolder ==
  /\ \A t \in Command : pc[t] \in Holding => StoreOf[t] \in inLocks /\ lockFile = StoreOf[t]
  /\ \A t, u \in Command : pc[t] \in Holding /\ pc[u] \in Holding => t = u

\* A vault that was read is an older one, or the one that is there: generations tell.
Seen(v) ==
  Exists(v) => /\ Exists(vault) /\ v.generation <= vault.generation
               /\ v.generation = vault.generation => v = vault

\* A vault that may replace the one that is there.
Follows(n) ==
  /\ Exists(n)
  /\ Exists(vault) => n.generation > vault.generation
  /\ \A s \in Secret : n.records[s].changes >= vault.records[s].changes

\* A new protection is computed from what was read, before the lock is taken.
Reprotects(m) ==
  /\ Exists(m.read) /\ Exists(m.next) /\ m.next.generation = m.read.generation + 1
  /\ \A s \in Secret : m.next.records[s].changes = m.read.records[s].changes

\* What a command has in hand is in order with what is in the file.
InOrder(t) ==
  /\ Seen(mem[t].read)
  /\ mem[t].kind = "protect" /\ pc[t] \in {"locking", "reading"} => Reprotects(mem[t])
  /\ pc[t] \in {"staging", "writing"} => Follows(mem[t].next)
  /\ pc[t] = "verifying" => vault = mem[t].next

Ordered ==
  /\ ~Exists(vault) => vault = NoVault
  /\ \A t \in Command : InOrder(t)
  /\ \A s \in Secret : vault.records[s].changes >= acked[s]

LockInv == ~aged => OneHolder /\ Ordered

\* One command at a time in each store.
Alone ==
  \A t, u \in Command : StoreOf[t] = StoreOf[u] /\ t # u => pc[t] = "idle" \/ pc[u] = "idle"

\* The records of a file are wrapped with its key, and no identifier occurs twice.
Sound(v) ==
  \A s \in Secret : v.records[s].copies <= 1 /\ (Present(v, s) => v.records[s].key = v.key)

\* A store of the vault's generation has the vault's key.
KeysFit ==
  \A i \in Store : buffer[i] # 0 =>
    /\ Exists(vault) /\ generation[i] <= vault.generation
    /\ generation[i] = vault.generation => key[i] = vault.key

\* What a command relies on, while nothing else happens in its store.
Relies(t) ==
  LET i == StoreOf[t] m == mem[t] IN
  /\ m.kind \in Keyed => m.buffer = buffer[i] /\ buffer[i] # 0
  /\ m.kind = "protect" /\ pc[t] \in {"locking", "reading"} => Sound(m.next)
  /\ m.kind = "import" /\ pc[t] \in {"locking", "reading"} /\ vault.generation = generation[i] =>
       ~Present(vault, m.secret)
  /\ pc[t] \in {"staging", "writing", "verifying"} =>
       /\ Sound(m.next)
       /\ m.kind \in Changes \cup {"import"} => m.next.key = key[i]
       /\ m.kind = "initialize" => buffer[i] = 0

Safe == Alone /\ Sound(vault) /\ KeysFit /\ (\A t \in Command : Relies(t)) /\ ~alarmed

KeyInv == ~aged /\ ~overlapped => Safe

VaultInv == Typed /\ LockInv /\ KeyInv

-----------------------------------------------------------------------------
(***************************************************************************)
(* Types.                                                                  *)
(***************************************************************************)
LEMMA BlankFits == NoVault \in File /\ Fits(Blank, "idle")
<1>1. Absent \in Rows BY DEF Absent, Rows
<1>2. NoVault \in File BY <1>1 DEF NoVault, File
<1>3. Blank \in Memory BY <1>2 DEF Blank, Memory
<1>4. Blank.kind = "none" BY DEF Blank
<1>5. QED BY <1>2, <1>3, <1>4 DEF Fits, KindsAt, Stages, Named, Changes

\* Goto and Remember, with what fits.
LEMMA Remembered ==
  ASSUME CommandsTyped, NEW t \in Command, NEW m, NEW s, Fits(m, s),
         pc' = [pc EXCEPT ![t] = s], mem' = [mem EXCEPT ![t] = m]
  PROVE  CommandsTyped'
<1>1. pc' \in [Command -> Stages] /\ mem' \in [Command -> Memory]
  BY DEF CommandsTyped, Fits
<1>2. ASSUME NEW u \in Command PROVE Fits(mem'[u], pc'[u])
  BY DEF CommandsTyped
<1>3. QED BY <1>1, <1>2 DEF CommandsTyped

LEMMA EndsFits ==
  ASSUME CommandsTyped, NEW t \in Command, Ends(t) PROVE CommandsTyped'
BY BlankFits, Remembered DEF Ends, Goto

\* A command that goes on to another stage of its kind.
LEMMA GoesOn ==
  ASSUME CommandsTyped, NEW t \in Command, NEW s \in Stages, Goto(t, s), UNCHANGED mem,
         mem[t].kind \in KindsAt(s)
  PROVE  CommandsTyped'
<1>1. Fits(mem[t], s) BY DEF CommandsTyped, Fits
<1>2. mem' = [mem EXCEPT ![t] = mem[t]] BY DEF CommandsTyped
<1>3. QED BY <1>1, <1>2, Remembered DEF Goto

\* The stage a command begins at.
First(kind) ==
  CASE kind = "unlock" -> "unlocking" [] kind = "import" -> "checking"
    [] kind = "protect" -> "collecting" [] kind \in Reads -> "decrypting" [] OTHER -> "locking"

Begun(t, kind, s) ==
  [Blank EXCEPT !.kind = kind, !.secret = s, !.buffer = buffer[StoreOf[t]],
                !.read = IF kind = "unlock" THEN vault ELSE NoVault]

LEMMA StartsFits ==
  ASSUME Constants, Typed, NEW t \in Command, NEW kind \in Writers \cup Reads \cup {"unlock"}, NEW s,
         Starts(t, kind, s), s \in Secret \cup {Nobody}, kind \in Named => s \in Secret
  PROVE  CommandsTyped'
<1>1. pc' = [pc EXCEPT ![t] = First(kind)] /\ mem' = [mem EXCEPT ![t] = Begun(t, kind, s)]
  BY DEF Starts, Goto, Remember, First, Begun
<1>2. Begun(t, kind, s) \in Memory /\ Begun(t, kind, s).kind = kind
      /\ Begun(t, kind, s).secret = s
  <2>1. buffer[StoreOf[t]] \in Nat BY DEF Typed, StoresTyped, Constants
  <2>2. vault \in File /\ NoVault \in File BY BlankFits DEF Typed
  <2>3. QED BY <2>1, <2>2 DEF Begun, Blank, Memory
<1>3. First(kind) \in Stages /\ kind \in KindsAt(First(kind))
  BY DEF First, KindsAt, Stages, Writers, Reads, Changes
<1>4. Fits(Begun(t, kind, s), First(kind)) BY <1>2, <1>3 DEF Fits
<1>5. QED BY <1>1, <1>4, Remembered DEF Typed

\* Settled and Clear keep the types of the stores.
LEMMA SettledTypes ==
  ASSUME StoresTyped, NEW i \in Store, Settled(i), UNCHANGED <<buffer, key, generation, buffers>>,
         keys' \in Nat
  PROVE  StoresTyped'
BY DEF StoresTyped, Settled

LEMMA ClearTypes ==
  ASSUME StoresTyped, NEW i \in Store, NEW s \in {"uninitialized", "locked", "error"}, Clear(i),
         state' = [state EXCEPT ![i] = s], UNCHANGED <<buffers, keys>>
  PROVE  StoresTyped'
BY DEF StoresTyped, Clear

LEMMA GivesUpTypes ==
  ASSUME Constants, StoresTyped, NEW t \in Command, GivesUp(t),
         UNCHANGED <<buffer, key, generation, buffers, keys>>
  PROVE  StoresTyped'
<1>1. StoreOf[t] \in Store BY DEF Constants
<1>2. CASE Settled(StoreOf[t]) BY <1>1, <1>2, SettledTypes DEF StoresTyped
<1>3. CASE UNCHANGED state BY <1>3 DEF StoresTyped
<1>4. QED BY <1>2, <1>3 DEF GivesUp

\* The steps that begin a command.
Begins(t) ==
  \/ Unlock(t) \/ Initialize(t) \/ Protect(t) \/ Read(t, "export", Nobody)
  \/ \E s \in Secret : Import(t, s) \/ Read(t, "use", s) \/ \E kind \in Changes : Change(t, kind, s)

BeginsAs(t, kind, s) ==
  /\ Starts(t, kind, s)
  /\ kind \in Writers \cup Reads \cup {"unlock"} /\ s \in Secret \cup {Nobody}
  /\ kind \in Named => s \in Secret
  /\ kind \in Keyed => state[StoreOf[t]] = "unlocked"

LEMMA BeginCases ==
  ASSUME NEW t \in Command, Begins(t)
  PROVE  /\ \E kind, s : BeginsAs(t, kind, s)
         /\ UNCHANGED <<vault, lockFile, aged, own, inLocks, answers, buffers, keys>>
<1>1. UNCHANGED <<vault, lockFile, aged, own, inLocks, answers, buffers, keys>>
  BY DEF Begins, Unlock, Initialize, Protect, Import, Read, Change
<1>2. CASE Unlock(t)
  <2>1. BeginsAs(t, "unlock", Nobody)
    BY <1>2 DEF Unlock, BeginsAs, Named, Keyed, Changes, Reads
  <2>2. QED BY <1>1, <2>1
<1>3. CASE Initialize(t)
  <2>1. BeginsAs(t, "initialize", Nobody)
    BY <1>3 DEF Initialize, BeginsAs, Named, Keyed, Changes, Reads, Writers
  <2>2. QED BY <1>1, <2>1
<1>4. CASE Protect(t)
  <2>1. BeginsAs(t, "protect", Nobody)
    BY <1>4 DEF Protect, BeginsAs, Named, Changes, Writers
  <2>2. QED BY <1>1, <2>1
<1>5. CASE Read(t, "export", Nobody)
  <2>1. BeginsAs(t, "export", Nobody)
    BY <1>5 DEF Read, BeginsAs, Named, Changes, Reads
  <2>2. QED BY <1>1, <2>1
<1>6. ASSUME NEW s \in Secret, Import(t, s) PROVE BeginsAs(t, "import", s)
  BY <1>6 DEF Import, BeginsAs, Writers
<1>7. ASSUME NEW s \in Secret, Read(t, "use", s) PROVE BeginsAs(t, "use", s)
  BY <1>7 DEF Read, BeginsAs, Reads
<1>8. ASSUME NEW s \in Secret, NEW kind \in Changes, Change(t, kind, s) PROVE BeginsAs(t, kind, s)
  BY <1>8 DEF Change, BeginsAs, Writers
<1>9. QED BY <1>1, <1>2, <1>3, <1>4, <1>5, <1>6, <1>7, <1>8 DEF Begins

LEMMA BeginTypes ==
  ASSUME Constants, Typed, NEW t \in Command, Begins(t) PROVE Typed'
<1>1. PICK kind, s : BeginsAs(t, kind, s) BY BeginCases
<1>2. CommandsTyped' BY <1>1, StartsFits DEF BeginsAs
<1>3. UNCHANGED <<vault, own, answers, buffers, keys>> BY BeginCases
<1>4. QED BY <1>2, <1>3 DEF Typed, StoresTyped, own, answers

LEMMA UnlockedTypes ==
  ASSUME Constants, Typed, NEW t \in Command, Unlocked(t) PROVE Typed'
<1>1. CommandsTyped' BY EndsFits DEF Unlocked, Typed
<1>2. StoreOf[t] \in Store /\ mem[t].read \in File
  BY DEF Constants, Typed, CommandsTyped, Memory
<1>3. StoresTyped'
  BY <1>2 DEF Unlocked, Typed, StoresTyped, Clear, File, own, bounds
<1>4. QED BY <1>1, <1>3 DEF Typed, Unlocked, answers

\* The steps of a store, and those of nobody.
LEMMA NobodyTypes ==
  ASSUME Typed, BreakLock \/ LookUp PROVE Typed'
BY DEF BreakLock, LookUp, Typed, StoresTyped, CommandsTyped, own, answers, bounds

LEMMA StoreTypes ==
  ASSUME Constants, Typed, NEW i \in Store,
         Lock(i) \/ Inspect(i) \/ InspectFails(i) \/ Crash(i)
  PROVE  Typed'
<1>2. CASE Lock(i)
  BY <1>2, ClearTypes DEF Lock, Typed, CommandsTyped, answers
<1>3. CASE Inspect(i)
  BY <1>3 DEF Inspect, Typed, StoresTyped, CommandsTyped, answers, bounds
<1>4. CASE InspectFails(i)
  BY <1>4, ClearTypes DEF InspectFails, Typed, CommandsTyped, answers, bounds
<1>5. CASE Crash(i)
  <2>1. StoresTyped' BY <1>5, ClearTypes DEF Crash, Typed
  <2>2. CommandsTyped'
    <3>1. "idle" \in Stages /\ Blank \in Memory BY BlankFits DEF Fits
    <3>2. pc' \in [Command -> Stages] /\ mem' \in [Command -> Memory]
      BY <1>5, <3>1 DEF Crash, Typed, CommandsTyped
    <3>3. ASSUME NEW u \in Command PROVE Fits(mem'[u], pc'[u])
      BY <1>5, BlankFits DEF Crash, Typed, CommandsTyped
    <3>4. QED BY <3>2, <3>3 DEF CommandsTyped
  <2>3. QED BY <1>5, <2>1, <2>2 DEF Crash, Typed, answers
<1>6. QED BY <1>2, <1>3, <1>4, <1>5

LEMMA ReadingTypes ==
  ASSUME Constants, Typed, NEW t \in Command, CheckConflicts(t) \/ RefuseExport(t) \/ Use(t) \/ Export(t)
  PROVE  Typed'
<1>1. CommandsTyped'
  <2>1. CASE Ends(t) BY <2>1, EndsFits DEF Typed
  <2>2. CASE CheckConflicts(t) /\ Goto(t, "locking") /\ UNCHANGED mem
    <3>1. mem[t].kind \in KindsAt("locking")
      BY <2>2 DEF CheckConflicts, Typed, CommandsTyped, Fits, KindsAt, Writers
    <3>2. QED BY <2>2, <3>1, GoesOn DEF Typed, Stages
  <2>3. QED BY <2>1, <2>2 DEF CheckConflicts, RefuseExport, Use, Export, Decrypt
<1>2. UNCHANGED <<vault, own, acked, buffers, keys>>
  BY DEF CheckConflicts, RefuseExport, Use, Export, Decrypt, answers, bounds
<1>3. QED BY <1>1, <1>2 DEF Typed, StoresTyped, own

\* The file of a new protection.
Protected(v, new) ==
  [key |-> new, generation |-> v.generation + 1,
   records |-> [s \in Secret |-> IF Present(v, s) THEN Encrypted(v.records[s], new)
                                 ELSE v.records[s]]]

LEMMA ProtectedFile ==
  ASSUME NEW v \in File, NEW new \in Nat PROVE Protected(v, new) \in File
<1>1. ASSUME NEW s \in Secret
      PROVE  (IF Present(v, s) THEN Encrypted(v.records[s], new) ELSE v.records[s]) \in Rows
  BY DEF File, Rows, Encrypted
<1>2. QED BY <1>1 DEF Protected, File

\* What a successful collection of the records does.
Collected(t) ==
  /\ Exists(vault) /\ Decodes(vault)
  /\ \A s \in Secret : Present(vault, s) => Decrypts(vault.records[s], KeyIn(t))
  /\ keys' = keys + 1 /\ state' = [state EXCEPT ![StoreOf[t]] = "rotating"]
  /\ pc' = [pc EXCEPT ![t] = "locking"]
  /\ mem' = [mem EXCEPT ![t] = [@ EXCEPT !.read = vault, !.next = Protected(vault, keys + 1)]]

LEMMA CollectCases ==
  ASSUME NEW t \in Command, Typed, Collect(t)
  PROVE  \/ Collected(t)
         \/ Ends(t) /\ UNCHANGED <<state, keys>>
         \/ Ends(t) /\ Settled(StoreOf[t]) /\ UNCHANGED keys
BY DEF Collect, Collected, Protected, Goto, Remember, Typed, CommandsTyped

LEMMA CollectTypes ==
  ASSUME Constants, Typed, NEW t \in Command, Collect(t) PROVE Typed'
<1>1. StoreOf[t] \in Store BY DEF Constants
<1>2. UNCHANGED <<vault, acked, buffer, key, generation, buffers>> BY DEF Collect
<1>3. CASE Ends(t)
  <2>1. CommandsTyped' BY <1>3, EndsFits DEF Typed
  <2>2. StoresTyped'
    <3>1. CASE UNCHANGED <<state, keys>> BY <1>2, <3>1 DEF Typed, StoresTyped
    <3>2. CASE Settled(StoreOf[t]) /\ UNCHANGED keys
      BY <1>1, <1>2, <3>2, SettledTypes DEF Typed, StoresTyped
    <3>3. CASE Collected(t)
      BY <1>1, <1>2, <3>3 DEF Collected, Typed, StoresTyped
    <3>4. QED BY <3>1, <3>2, <3>3, CollectCases
  <2>3. QED BY <1>2, <2>1, <2>2 DEF Typed
<1>4. CASE Collected(t)
  <2>1. StoresTyped' BY <1>1, <1>2, <1>4 DEF Collected, Typed, StoresTyped
  <2>2. CommandsTyped'
    <3> DEFINE m == [mem[t] EXCEPT !.read = vault, !.next = Protected(vault, keys + 1)]
    <3>1. Protected(vault, keys + 1) \in File BY ProtectedFile DEF Typed, StoresTyped
    <3>2. m \in Memory /\ m.kind = mem[t].kind /\ m.secret = mem[t].secret
      BY <3>1 DEF Typed, CommandsTyped, Memory
    <3>3. pc[t] = "collecting" BY DEF Collect
    <3>4. mem[t].kind \in KindsAt("locking") /\ (mem[t].kind \in Named => mem[t].secret \in Secret)
      BY <3>3 DEF Typed, CommandsTyped, Fits, KindsAt, Writers
    <3>5. Fits(m, "locking") BY <3>2, <3>4 DEF Fits, Stages
    <3>6. mem' = [mem EXCEPT ![t] = m] BY <1>4 DEF Collected
    <3>7. pc' = [pc EXCEPT ![t] = "locking"] BY <1>4 DEF Collected
    <3>8. QED BY <3>5, <3>6, <3>7, Remembered DEF Typed
  <2>3. QED BY <1>2, <2>1, <2>2 DEF Typed
<1>5. QED BY <1>3, <1>4, CollectCases

LEMMA LockVaultTypes ==
  ASSUME Constants, Typed, NEW t \in Command, LockVault(t) PROVE Typed'
<1>1. UNCHANGED <<vault, acked, buffer, key, generation, buffers, keys>>
  BY DEF LockVault, answers, bounds
<1>2. CASE GivesUp(t) /\ Ends(t)
  BY <1>1, <1>2, EndsFits, GivesUpTypes DEF Typed
<1>3. CASE Goto(t, "reading") /\ UNCHANGED <<mem, state>>
  <2>1. mem[t].kind \in KindsAt("reading")
    BY DEF LockVault, Typed, CommandsTyped, Fits, KindsAt
  <2>2. CommandsTyped' BY <1>3, <2>1, GoesOn DEF Typed, Stages, Holding
  <2>3. QED BY <1>1, <1>3, <2>2 DEF Typed, StoresTyped
<1>4. QED BY <1>2, <1>3 DEF LockVault

\* The records of a change.
LEMMA RowsChange ==
  ASSUME NEW r \in Rows, NEW k \in Nat
  PROVE  /\ Encrypted([r EXCEPT !.changes = @ + 1, !.copies = @ + 1], k) \in Rows
         /\ Encrypted([r EXCEPT !.changes = @ + 1, !.copies = 1], k) \in Rows
<1>1. ASSUME NEW q \in Rows PROVE Encrypted(q, k) \in Rows
  BY DEF Encrypted, Rows
<1>2. ASSUME NEW n \in Nat, NEW c \in Nat PROVE [r EXCEPT !.changes = n, !.copies = c] \in Rows
  BY DEF Rows
<1>3. r.changes + 1 \in Nat /\ r.copies + 1 \in Nat BY DEF Rows
<1>4. QED BY <1>1, <1>2, <1>3

LEMMA AddedChanges ==
  ASSUME NEW r \in Rows, NEW k
  PROVE  /\ Encrypted([r EXCEPT !.changes = @ + 1, !.copies = @ + 1], k).changes = r.changes + 1
         /\ Encrypted([r EXCEPT !.changes = @ + 1, !.copies = 1], k).changes = r.changes + 1
BY DEF Encrypted, Rows

LEMMA AddedKey ==
  ASSUME NEW r \in Rows, NEW k
  PROVE  /\ Encrypted([r EXCEPT !.changes = @ + 1, !.copies = @ + 1], k).copies = r.copies + 1
         /\ Encrypted([r EXCEPT !.changes = @ + 1, !.copies = @ + 1], k).key = k
         /\ Encrypted([r EXCEPT !.changes = @ + 1, !.copies = 1], k).copies = 1
         /\ Encrypted([r EXCEPT !.changes = @ + 1, !.copies = 1], k).key = k
BY DEF Encrypted, Rows

\* The new file of a change, and of any command that writes.
LEMMA ChangedFile ==
  ASSUME Constants, Typed, NEW t \in Command, mem[t].kind \in Named
  PROVE  Changed(t) \in File
<1> DEFINE s == mem[t].secret
           r == vault.records[s]
           now == CASE mem[t].kind = "delete" -> Deleted(r)
                    [] mem[t].kind = "import" -> Imported(r, KeyIn(t))
                    [] OTHER -> Written(r, KeyIn(t))
<1>1. s \in Secret BY DEF Typed, CommandsTyped, Fits
<1>2. KeyIn(t) \in Nat BY DEF KeyIn, Zeros, Typed, StoresTyped, Constants
<1>3. r \in Rows BY <1>1 DEF Typed, File
<1>4. Deleted(r) \in Rows /\ Imported(r, KeyIn(t)) \in Rows /\ Written(r, KeyIn(t)) \in Rows
  <2>1. Deleted(r) \in Rows BY <1>3 DEF Deleted, Rows
  <2>2. QED BY <1>2, <1>3, <2>1, RowsChange DEF Imported, Written
<1>5. now \in Rows BY <1>4
<1>6. Changed(t) = [vault EXCEPT !.generation = @ + 1, !.records[s] = now]
  BY DEF Changed
<1> HIDE DEF s, now
<1>7. [vault.records EXCEPT ![s] = now] \in [Secret -> Rows] BY <1>1, <1>5 DEF Typed, File
<1>8. vault.generation + 1 \in Nat /\ vault.key \in Nat BY DEF Typed, File
<1>9. Changed(t) = [vault EXCEPT !.generation = vault.generation + 1,
                                !.records = [vault.records EXCEPT ![s] = now]]
  BY <1>6 DEF Typed, File
<1>10. QED BY <1>7, <1>8, <1>9 DEF Typed, File

\* The file that ReadVault computes.
Computed(t) ==
  CASE mem[t].kind = "initialize" -> [NoVault EXCEPT !.key = keys + 1]
    [] mem[t].kind = "protect" -> mem[t].next
    [] OTHER -> Changed(t)

\* What ReadVault does when it goes on.
Prepared(t) ==
  /\ Decodes(vault) /\ CurrentVault(t) /\ Permitted(t)
  /\ pc' = [pc EXCEPT ![t] = "staging"]
  /\ mem' = [mem EXCEPT ![t] = [@ EXCEPT !.next = Computed(t)]]
  /\ keys' = IF mem[t].kind = "initialize" THEN keys + 1 ELSE keys
  /\ KeepLocks /\ UNCHANGED state

LEMMA ReadVaultCases ==
  ASSUME Typed, NEW t \in Command, ReadVault(t)
  PROVE  \/ Prepared(t)
         \/ Release(t) /\ Ends(t) /\ GivesUp(t) /\ UNCHANGED keys
BY DEF ReadVault, Prepared, Computed, Goto, Remember, Typed, CommandsTyped

LEMMA ComputedFile ==
  ASSUME Constants, Typed, NEW t \in Command, mem[t].kind \in Writers
  PROVE  Computed(t) \in File
<1>1. CASE mem[t].kind = "initialize"
  BY <1>1, BlankFits DEF Computed, File, Typed, StoresTyped
<1>2. CASE mem[t].kind = "protect"
  BY <1>2 DEF Computed, Typed, CommandsTyped, Memory
<1>3. CASE mem[t].kind \in Changes \cup {"import"}
  BY <1>3, ChangedFile DEF Computed, Named, Changes
<1>4. QED BY <1>1, <1>2, <1>3 DEF Writers

LEMMA WritersHold ==
  ASSUME Typed, NEW t \in Command, pc[t] \in Holding \cup {"locking"} PROVE mem[t].kind \in Writers
BY DEF Typed, CommandsTyped, Fits, KindsAt, Holding

LEMMA ReadVaultTypes ==
  ASSUME Constants, Typed, NEW t \in Command, ReadVault(t) PROVE Typed'
<1>1. UNCHANGED <<vault, acked, buffer, key, generation, buffers>>
  BY DEF ReadVault, answers
<1>2. CASE Ends(t) /\ GivesUp(t) /\ UNCHANGED keys
  BY <1>1, <1>2, EndsFits, GivesUpTypes DEF Typed
<1>3. CASE Prepared(t)
  <2>1. StoresTyped' BY <1>1, <1>3 DEF Prepared, Typed, StoresTyped
  <2>2. mem[t].kind \in Writers BY WritersHold DEF ReadVault, Holding
  <2>3. CommandsTyped'
    <3> DEFINE m == [mem[t] EXCEPT !.next = Computed(t)]
    <3>1. Computed(t) \in File BY <2>2, ComputedFile
    <3>2. m \in Memory /\ m.kind = mem[t].kind /\ m.secret = mem[t].secret
      BY <3>1 DEF Typed, CommandsTyped, Memory
    <3>3. mem[t].kind \in Named => mem[t].secret \in Secret BY DEF Typed, CommandsTyped, Fits
    <3>4. Fits(m, "staging") BY <2>2, <3>2, <3>3 DEF Fits, Stages, Holding, KindsAt
    <3>5. mem' = [mem EXCEPT ![t] = m] /\ pc' = [pc EXCEPT ![t] = "staging"]
      BY <1>3 DEF Prepared
    <3>6. QED BY <3>4, <3>5, Remembered DEF Typed
  <2>4. QED BY <1>1, <2>1, <2>3 DEF Typed
<1>4. QED BY <1>2, <1>3, ReadVaultCases

LEMMA WritingTypes ==
  ASSUME Constants, Typed, NEW t \in Command, StageVault(t) \/ WriteVault(t) PROVE Typed'
<1>1. UNCHANGED <<acked, buffer, key, generation, buffers, keys>>
  BY DEF StageVault, WriteVault, own, answers, bounds
<1>2. vault' \in File BY DEF StageVault, WriteVault, Typed, CommandsTyped, Memory
<1>3. CASE GivesUp(t) /\ Ends(t)
  BY <1>1, <1>2, <1>3, EndsFits, GivesUpTypes DEF Typed
<1>4. ASSUME NEW s \in {"writing", "verifying"}, Goto(t, s), UNCHANGED <<mem, state>>,
             pc[t] \in Holding
      PROVE  Typed'
  <2>1. mem[t].kind \in KindsAt(s) BY <1>4, WritersHold DEF KindsAt
  <2>2. CommandsTyped' BY <1>4, <2>1, GoesOn DEF Typed, Stages, Holding
  <2>3. QED BY <1>1, <1>2, <1>4, <2>2 DEF Typed, StoresTyped
<1>5. QED BY <1>3, <1>4 DEF StageVault, WriteVault, Holding, own

LEMMA VerifyTypes ==
  ASSUME Constants, Typed, NEW t \in Command, VerifyVault(t) PROVE Typed'
<1>1. StoreOf[t] \in Store /\ mem[t].next \in File
  BY DEF Constants, Typed, CommandsTyped, Memory
<1>2. CommandsTyped' BY EndsFits DEF VerifyVault, Typed
<1>3. UNCHANGED <<vault, keys>> BY DEF VerifyVault, bounds
<1>4. acked' \in [Secret -> Nat]
  <2>1. CASE UNCHANGED acked BY <2>1 DEF Typed
  <2>2. CASE /\ mem[t].kind \in Changes \cup {"import"}
             /\ acked' = [acked EXCEPT ![mem[t].secret] =
                            mem[t].next.records[mem[t].secret].changes]
    <3>1. mem[t].secret \in Secret BY <2>2 DEF Typed, CommandsTyped, Fits, Named
    <3>2. QED BY <1>1, <2>2, <3>1 DEF Typed, File, Rows
  <2>3. QED BY <2>1, <2>2 DEF VerifyVault
<1>5. StoresTyped'
  <2>1. CASE GivesUp(t) /\ UNCHANGED <<generation, buffer, key, buffers>>
    BY <1>3, <2>1, GivesUpTypes DEF Typed
  <2>2. CASE /\ generation' = [generation EXCEPT ![StoreOf[t]] = vault.generation]
             /\ buffers' = buffers + 1
             /\ buffer' = [buffer EXCEPT ![StoreOf[t]] = buffers']
             /\ key' = [key EXCEPT ![StoreOf[t]] = mem[t].next.key]
             /\ state' = [state EXCEPT ![StoreOf[t]] = "unlocked"]
    BY <1>1, <1>3, <2>2 DEF Typed, StoresTyped, File
  <2>3. CASE /\ generation' = [generation EXCEPT ![StoreOf[t]] = vault.generation]
             /\ state' = IF mem[t].kind = "initialize" THEN [state EXCEPT ![StoreOf[t]] = "locked"]
                         ELSE state
             /\ UNCHANGED <<buffers, buffer, key>>
    BY <1>1, <1>3, <2>3 DEF Typed, StoresTyped, File
  <2>4. QED BY <2>1, <2>2, <2>3 DEF VerifyVault
<1>6. QED BY <1>2, <1>3, <1>4, <1>5 DEF Typed

LEMMA InitTypes ==
  ASSUME Constants, Init PROVE Typed
<1>1. Fits(Blank, "idle") /\ NoVault \in File BY BlankFits
<1>2. CommandsTyped BY <1>1 DEF Init, CommandsTyped, Fits
<1>3. QED BY <1>1, <1>2 DEF Init, Typed, StoresTyped

LEMMA StepTypes ==
  ASSUME Constants, Typed, [Next]_vars PROVE Typed'
<1>1. CASE UNCHANGED vars
  BY <1>1 DEF vars, Typed, StoresTyped, CommandsTyped, own, answers, bounds
<1>2. CASE Next
  BY <1>2, BeginTypes, UnlockedTypes, NobodyTypes, StoreTypes, ReadingTypes, CollectTypes,
     LockVaultTypes, ReadVaultTypes, WritingTypes, VerifyTypes DEF Next, Begins
<1>3. QED BY <1>1, <1>2

-----------------------------------------------------------------------------
(***************************************************************************)
(* The lock, and what it keeps.                                            *)
(***************************************************************************)
\* Only one command moves.
Only(t) == \A u \in Command \ {t} : pc'[u] = pc[u] /\ mem'[u] = mem[u]

Advances(t) ==
  \/ Begins(t) \/ Unlocked(t) \/ Collect(t) \/ Use(t) \/ Export(t) \/ CheckConflicts(t)
  \/ RefuseExport(t) \/ LockVault(t) \/ ReadVault(t) \/ StageVault(t) \/ WriteVault(t)
  \/ VerifyVault(t)

LEMMA OneMoves ==
  ASSUME CommandsTyped, NEW t \in Command, Advances(t) PROVE Only(t)
<1>1. ASSUME NEW s, Goto(t, s), UNCHANGED mem \/ \E m : Remember(t, m) PROVE Only(t)
  BY <1>1 DEF Goto, Remember, Only, CommandsTyped
<1>2. ASSUME Ends(t) PROVE Only(t)
  BY <1>2 DEF Ends, Goto, Only, CommandsTyped
<1>3. CASE Begins(t)
  <2>1. PICK kind, s : Starts(t, kind, s) BY <1>3, BeginCases DEF BeginsAs
  <2>2. QED BY <2>1, <1>1 DEF Starts
<1>4. CASE Unlocked(t) \/ Use(t) \/ Export(t) \/ RefuseExport(t) \/ VerifyVault(t)
  BY <1>2, <1>4 DEF Unlocked, Use, Export, Decrypt, RefuseExport, VerifyVault
<1>5. CASE Collect(t) \/ CheckConflicts(t) \/ LockVault(t)
  BY <1>1, <1>2, <1>5 DEF Collect, CheckConflicts, LockVault
<1>6. CASE ReadVault(t) \/ StageVault(t) \/ WriteVault(t)
  BY <1>1, <1>2, <1>6 DEF ReadVault, StageVault, WriteVault
<1>7. QED BY <1>3, <1>4, <1>5, <1>6 DEF Advances

\* Where a command is after it ended or went on.
LEMMA Arrives ==
  ASSUME CommandsTyped, NEW t \in Command
  PROVE  /\ Ends(t) => pc'[t] = "idle" /\ mem'[t] = Blank
         /\ \A s : Goto(t, s) => pc'[t] = s
BY DEF Ends, Goto, CommandsTyped

LEMMA HolderStays ==
  ASSUME OneHolder, NEW t \in Command, Only(t), UNCHANGED <<inLocks, lockFile>>,
         pc'[t] \in Holding => pc[t] \in Holding
  PROVE  OneHolder'
<1>1. \A u \in Command : pc'[u] \in Holding => pc[u] \in Holding BY DEF Only
<1>2. QED BY <1>1 DEF OneHolder

LEMMA HolderReleases ==
  ASSUME OneHolder, NEW t \in Command, Only(t), pc[t] \in Holding, pc'[t] \notin Holding
  PROVE  OneHolder'
<1>1. \A u \in Command : pc'[u] \notin Holding BY DEF Only, OneHolder
<1>2. QED BY <1>1 DEF OneHolder

LEMMA OrderMoves ==
  ASSUME Ordered, NEW t \in Command, Only(t), UNCHANGED vault, InOrder(t)',
         \A s \in Secret : vault.records[s].changes >= acked'[s]
  PROVE  Ordered'
<1>1. ASSUME NEW u \in Command, u # t PROVE InOrder(u)'
  <2>1. InOrder(u) /\ pc'[u] = pc[u] /\ mem'[u] = mem[u] BY <1>1 DEF Ordered, Only
  <2>2. QED BY <2>1 DEF InOrder, Seen, Reprotects, Follows, Exists
<1>2. QED BY <1>1 DEF Ordered, Exists

LEMMA OrderStays ==
  ASSUME Ordered, NEW t \in Command, Only(t), UNCHANGED <<vault, acked>>, InOrder(t)'
  PROVE  Ordered'
BY OrderMoves DEF Ordered

LEMMA EndsInOrder ==
  ASSUME CommandsTyped, NEW t \in Command, Ends(t) PROVE InOrder(t)'
<1>1. pc'[t] = "idle" /\ mem'[t] = Blank BY Arrives
<1>2. QED BY <1>1 DEF InOrder, Seen, Exists, Blank, NoVault

\* A command that ends without the lock.
LEMMA QuietEnd ==
  ASSUME OneHolder, Ordered, CommandsTyped, NEW t \in Command, Only(t), Ends(t),
         UNCHANGED <<vault, acked>>,
         UNCHANGED <<inLocks, lockFile>> \/ pc[t] \in Holding
  PROVE  OneHolder' /\ Ordered'
<1>1. pc'[t] = "idle" BY Arrives
<1>2. pc'[t] \notin Holding BY <1>1 DEF Holding
<1>3. QED BY <1>2, EndsInOrder, OrderStays, HolderStays, HolderReleases

LEMMA BeginOrder ==
  ASSUME Typed, OneHolder, Ordered, NEW t \in Command, Begins(t), Only(t)
  PROVE  OneHolder' /\ Ordered'
<1>1. PICK kind, s : BeginsAs(t, kind, s) BY BeginCases
<1>2. UNCHANGED <<vault, acked, inLocks, lockFile>> BY BeginCases DEF answers
<1>3. pc'[t] = First(kind) /\ mem'[t] = Begun(t, kind, s)
  BY <1>1 DEF BeginsAs, Starts, Goto, Remember, First, Begun, Typed, CommandsTyped
<1>4. pc'[t] \notin Holding /\ (pc'[t] = "locking" => kind # "protect")
  BY <1>3 DEF First, Holding
<1>5. OneHolder' BY <1>2, <1>4, HolderStays
<1>6. mem'[t].kind = kind /\ mem'[t].read \in {vault, NoVault}
  BY <1>3 DEF Begun, Blank
<1>7. InOrder(t)'
  <2>1. Seen(mem[t].read)' BY <1>2, <1>6 DEF Seen, Exists, NoVault, Typed, File
  <2>2. QED BY <1>4, <1>6, <2>1 DEF InOrder, Holding
<1>8. QED BY <1>2, <1>5, <1>7, OrderStays

LEMMA CollectOrder ==
  ASSUME Typed, OneHolder, Ordered, NEW t \in Command, Collect(t), Only(t)
  PROVE  OneHolder' /\ Ordered'
<1>1. UNCHANGED <<vault, acked, inLocks, lockFile>> BY DEF Collect
<1>2. CASE Ends(t) BY <1>1, <1>2, QuietEnd DEF Typed
<1>3. CASE Collected(t)
  <2>1. pc'[t] = "locking" /\ mem'[t].read = vault /\ mem'[t].next = Protected(vault, keys + 1)
    BY <1>3 DEF Collected, Typed, CommandsTyped, Memory
  <2>2. OneHolder' BY <1>1, <2>1, HolderStays DEF Holding
  <2>3. Exists(vault) /\ vault \in File /\ keys \in Nat
    BY <1>3 DEF Collected, Typed, StoresTyped
  <2>4. Reprotects(mem'[t])
    <3>1. Exists(Protected(vault, keys + 1)) BY <2>3 DEF Exists, Protected
    <3>2. \A s \in Secret : Protected(vault, keys + 1).records[s].changes = vault.records[s].changes
      BY <2>3 DEF Protected, Encrypted, File, Rows
    <3>3. Protected(vault, keys + 1).generation = vault.generation + 1 BY DEF Protected
    <3>4. QED BY <2>1, <2>3, <3>1, <3>2, <3>3 DEF Reprotects
  <2>5. InOrder(t)'
    BY <1>1, <2>1, <2>3, <2>4 DEF InOrder, Seen, Reprotects, Exists, File
  <2>6. QED BY <1>1, <2>2, <2>5, OrderStays
<1>4. QED BY <1>2, <1>3, CollectCases

LEMMA LockVaultOrder ==
  ASSUME Constants, Typed, OneHolder, Ordered, NEW t \in Command, LockVault(t), Only(t)
  PROVE  OneHolder' /\ Ordered'
<1>1. UNCHANGED <<vault, acked>> /\ pc[t] = "locking" BY DEF LockVault, answers
<1>2. CASE Ends(t) /\ KeepLocks BY <1>1, <1>2, QuietEnd DEF Typed, KeepLocks
<1>3. CASE /\ StoreOf[t] \notin inLocks /\ lockFile = Nobody
           /\ inLocks' = inLocks \cup {StoreOf[t]} /\ lockFile' = StoreOf[t]
           /\ Goto(t, "reading") /\ UNCHANGED <<mem, state>>
  <2>1. pc'[t] = "reading" BY <1>3, Arrives DEF Typed
  <2>2. \A u \in Command : pc[u] \notin Holding BY <1>3 DEF OneHolder, Constants
  <2>3. \A u \in Command : pc'[u] \in Holding => u = t BY <2>2 DEF Only
  <2>4. OneHolder' BY <1>3, <2>3 DEF OneHolder
  <2>5. InOrder(t) /\ mem'[t] = mem[t] BY <1>3 DEF Ordered
  <2>6. InOrder(t)'
    BY <1>1, <2>1, <2>5 DEF InOrder, Seen, Reprotects, Follows, Exists
  <2>7. QED BY <1>1, <2>4, <2>6, OrderStays
<1>4. QED BY <1>2, <1>3 DEF LockVault

\* The file a command is about to write follows the one that is there.
LEMMA ComputedFollows ==
  ASSUME Constants, Typed, Ordered, NEW t \in Command, pc[t] = "reading", CurrentVault(t)
  PROVE  Follows(Computed(t))
<1>1. mem[t].kind \in Writers BY WritersHold DEF Holding
<1>2. CASE mem[t].kind = "initialize"
  <2>1. vault = NoVault BY <1>2 DEF CurrentVault, Ordered
  <2>2. Computed(t) = [NoVault EXCEPT !.key = keys + 1] BY <1>2 DEF Computed
  <2>3. QED BY <2>1, <2>2, BlankFits DEF Follows, Exists, NoVault, Absent, Typed, StoresTyped
<1>3. CASE mem[t].kind = "protect"
  <2>1. Computed(t) = mem[t].next BY <1>3 DEF Computed
  <2>2. Reprotects(mem[t]) /\ Seen(mem[t].read) BY <1>3 DEF Ordered, InOrder
  <2>3. vault = mem[t].read BY <1>3, <2>2 DEF CurrentVault, Reprotects, Seen
  <2>4. QED BY <2>1, <2>2, <2>3 DEF Reprotects, Follows, Typed, File, Rows
<1>4. CASE mem[t].kind \in Changes \cup {"import"}
  <2>1. Computed(t) = Changed(t) BY <1>4 DEF Computed, Changes
  <2>2. Exists(vault) BY <1>4 DEF CurrentVault, Changes
  <2>3. Changed(t).key = vault.key /\ Changed(t).generation = vault.generation + 1
    BY DEF Changed, Typed, File
  <2>4. mem[t].secret \in Secret BY <1>4 DEF Typed, CommandsTyped, Fits, Named
  <2>5. ASSUME NEW s \in Secret
        PROVE  Changed(t).records[s].changes >= vault.records[s].changes
    <3>1. CASE s # mem[t].secret
      <4>1. Changed(t).records[s] = vault.records[s] BY <3>1 DEF Changed, Typed, File
      <4>2. QED BY <4>1 DEF Typed, File, Rows
    <3>2. CASE s = mem[t].secret
      <4> DEFINE r == vault.records[s]
      <4>1. Changed(t).records[s] \in {Deleted(r), Imported(r, KeyIn(t)), Written(r, KeyIn(t))}
        BY <3>2, <2>4 DEF Changed, Typed, File
      <4>2. r \in Rows BY DEF Typed, File
      <4>3. Deleted(r).changes = r.changes + 1 BY DEF Deleted
      <4>4. Imported(r, KeyIn(t)).changes = r.changes + 1
        BY <4>2, AddedChanges DEF Imported
      <4>5. Written(r, KeyIn(t)).changes = r.changes + 1
        BY <4>2, AddedChanges DEF Written
      <4>6. QED BY <4>1, <4>2, <4>3, <4>4, <4>5 DEF Rows
    <3>3. QED BY <3>1, <3>2
  <2>6. QED BY <2>1, <2>2, <2>3, <2>5 DEF Follows, Exists, Typed, File
<1>5. QED BY <1>1, <1>2, <1>3, <1>4 DEF Writers

LEMMA ReadVaultOrder ==
  ASSUME Constants, Typed, OneHolder, Ordered, NEW t \in Command, ReadVault(t), Only(t)
  PROVE  OneHolder' /\ Ordered'
<1>1. UNCHANGED <<vault, acked>> /\ pc[t] = "reading" BY DEF ReadVault, answers
<1>2. CASE Ends(t) BY <1>1, <1>2, QuietEnd DEF Typed, Holding
<1>3. CASE Prepared(t)
  <2>1. pc'[t] = "staging" /\ mem'[t].read = mem[t].read /\ mem'[t].next = Computed(t)
    BY <1>3 DEF Prepared, Typed, CommandsTyped, Memory
  <2>2. OneHolder' BY <1>1, <1>3, <2>1, HolderStays DEF Prepared, KeepLocks, Holding
  <2>3. Follows(Computed(t)) BY <1>1, <1>3, ComputedFollows DEF Prepared
  <2>4. Seen(mem[t].read) BY DEF Ordered, InOrder
  <2>5. InOrder(t)' BY <1>1, <2>1, <2>3, <2>4 DEF InOrder, Seen, Follows, Exists
  <2>6. QED BY <1>1, <2>2, <2>5, OrderStays
<1>4. QED BY <1>2, <1>3, ReadVaultCases

LEMMA StageOrder ==
  ASSUME Typed, OneHolder, Ordered, NEW t \in Command, StageVault(t), Only(t)
  PROVE  OneHolder' /\ Ordered'
<1>1. UNCHANGED <<vault, acked, inLocks, lockFile, mem>> /\ pc[t] = "staging"
  BY DEF StageVault, answers
<1>2. pc'[t] = "writing" BY Arrives DEF StageVault, Typed
<1>3. OneHolder' BY <1>1, HolderStays DEF Holding
<1>4. InOrder(t)' BY <1>1, <1>2 DEF Ordered, InOrder, Seen, Follows, Exists
<1>5. QED BY <1>1, <1>3, <1>4, OrderStays

LEMMA WriteOrder ==
  ASSUME Typed, OneHolder, Ordered, NEW t \in Command, WriteVault(t), Only(t)
  PROVE  OneHolder' /\ Ordered'
<1>1. UNCHANGED acked /\ pc[t] = "writing" BY DEF WriteVault, answers
<1>2. CASE Ends(t) /\ UNCHANGED vault
  BY <1>1, <1>2, QuietEnd DEF Typed, Holding
<1>3. CASE vault' = mem[t].next /\ Goto(t, "verifying") /\ KeepLocks /\ UNCHANGED mem
  <2>1. Follows(mem[t].next) /\ mem[t].next \in File
    BY <1>1 DEF Ordered, InOrder, Typed, CommandsTyped, Memory
  <2>2. pc'[t] = "verifying" BY <1>3, Arrives DEF Typed
  <2>3. OneHolder' BY <1>1, <1>3, HolderStays DEF KeepLocks, Holding
  <2>4. Exists(vault') /\ (Exists(vault) => vault'.generation > vault.generation)
    BY <1>3, <2>1 DEF Follows
  <2>5. ASSUME NEW v \in File, Seen(v) PROVE Seen(v)'
    BY <2>4, <2>5, <1>3, <2>1 DEF Seen, Typed, File, Exists
  <2>6. ASSUME NEW u \in Command PROVE InOrder(u)'
    <3>1. mem[u].read \in File BY DEF Typed, CommandsTyped, Memory
    <3>2. InOrder(u) /\ mem'[u] = mem[u] BY <1>3 DEF Ordered
    <3>3. Seen(mem[u].read)' BY <1>3, <2>5, <3>1, <3>2 DEF InOrder
    <3>4. CASE u = t BY <1>3, <2>2, <3>3, <3>4 DEF InOrder
    <3>5. CASE u # t
      <4>1. pc'[u] = pc[u] /\ pc[u] \notin Holding
        BY <1>1, <3>5 DEF Only, OneHolder, Holding
      <4>2. QED BY <3>2, <3>3, <4>1 DEF InOrder, Holding, Reprotects, Exists
    <3>6. QED BY <3>4, <3>5
  <2>7. ASSUME NEW s \in Secret PROVE vault'.records[s].changes >= acked'[s]
    <3>1. vault'.records[s].changes >= vault.records[s].changes BY <1>3, <2>1 DEF Follows
    <3>2. vault.records[s].changes >= acked[s] BY DEF Ordered
    <3>3. /\ vault.records[s].changes \in Nat /\ vault'.records[s].changes \in Nat
          /\ acked[s] \in Nat
      BY <1>3, <2>1 DEF Typed, File, Rows
    <3>4. QED BY <1>1, <3>1, <3>2, <3>3
  <2>8. QED BY <2>3, <2>4, <2>6, <2>7 DEF Ordered, Exists
<1>4. QED BY <1>2, <1>3 DEF WriteVault

LEMMA VerifyOrder ==
  ASSUME Typed, OneHolder, Ordered, NEW t \in Command, VerifyVault(t), Only(t)
  PROVE  OneHolder' /\ Ordered'
<1>1. UNCHANGED vault /\ pc[t] = "verifying" /\ Ends(t) BY DEF VerifyVault
<1>2. vault = mem[t].next BY <1>1 DEF Ordered, InOrder
<1>3. OneHolder'
  BY <1>1, Arrives, HolderReleases DEF Typed, Holding
<1>4. ASSUME NEW s \in Secret PROVE vault.records[s].changes >= acked'[s]
  <2>1. acked' \in {acked, [acked EXCEPT ![mem[t].secret] =
                              mem[t].next.records[mem[t].secret].changes]}
    BY DEF VerifyVault
  <2>2. vault.records[s].changes >= acked[s] /\ vault.records[s].changes \in Nat
    BY DEF Ordered, Typed, File, Rows
  <2>3. QED BY <1>2, <2>1, <2>2 DEF Typed
<1>5. QED BY <1>1, <1>3, <1>4, EndsInOrder, OrderMoves DEF Typed

\* The steps of a store, and those of nobody.
LEMMA StoreOrder ==
  ASSUME Typed, OneHolder, Ordered, NEW i \in Store,
         Lock(i) \/ Inspect(i) \/ InspectFails(i) \/ Crash(i)
  PROVE  OneHolder' /\ Ordered'
<1>1. CASE Lock(i) \/ Inspect(i) \/ InspectFails(i)
  <2>1. UNCHANGED <<vault, acked, inLocks, lockFile, pc, mem>>
    BY <1>1 DEF Lock, Inspect, InspectFails, answers
  <2>2. QED
    BY <2>1 DEF OneHolder, Ordered, InOrder, Seen, Follows, Reprotects, Exists
<1>2. CASE Crash(i)
  <2>1. UNCHANGED <<vault, acked, lockFile>> /\ inLocks' = inLocks \ {i}
    BY <1>2 DEF Crash, answers
  <2>2. ASSUME NEW t \in Command
        PROVE  \/ StoreOf[t] = i /\ pc'[t] = "idle" /\ mem'[t] = Blank
               \/ StoreOf[t] # i /\ pc'[t] = pc[t] /\ mem'[t] = mem[t]
    BY <1>2 DEF Crash
  <2>3. OneHolder' BY <2>1, <2>2 DEF OneHolder, Holding
  <2>4. ASSUME NEW t \in Command PROVE InOrder(t)'
    <3>1. CASE pc'[t] = "idle" /\ mem'[t] = Blank
      BY <3>1 DEF InOrder, Seen, Exists, Blank, NoVault
    <3>2. CASE pc'[t] = pc[t] /\ mem'[t] = mem[t]
      BY <2>1, <3>2 DEF Ordered, InOrder, Seen, Follows, Reprotects, Exists
    <3>3. QED BY <2>2, <3>1, <3>2
  <2>5. QED BY <2>1, <2>3, <2>4 DEF Ordered, Exists
<1>3. QED BY <1>1, <1>2

\* A broken lock with nobody at work is nobody's.
LEMMA NobodyOrder ==
  ASSUME OneHolder, Ordered, BreakLock \/ LookUp, ~aged' PROVE OneHolder' /\ Ordered'
<1>1. UNCHANGED <<vault, acked, inLocks, pc, mem>> BY DEF BreakLock, LookUp, answers
<1>2. Ordered' BY <1>1 DEF Ordered, InOrder, Seen, Follows, Reprotects, Exists
<1>3. CASE LookUp BY <1>1, <1>2, <1>3 DEF LookUp, OneHolder
<1>4. CASE BreakLock
  <2>1. lockFile \notin inLocks BY <1>4 DEF BreakLock
  <2>2. \A t \in Command : pc[t] \notin Holding BY <2>1 DEF OneHolder
  <2>3. QED BY <1>1, <1>2, <2>2 DEF OneHolder
<1>5. QED BY <1>3, <1>4

LEMMA AdvanceOrder ==
  ASSUME Constants, Typed, OneHolder, Ordered, NEW t \in Command, Advances(t)
  PROVE  OneHolder' /\ Ordered'
<1>1. Only(t) BY OneMoves DEF Typed
<1>2. CASE Unlocked(t) \/ Use(t) \/ Export(t) \/ RefuseExport(t)
  <2>1. Ends(t) /\ UNCHANGED <<vault, acked, inLocks, lockFile>>
    BY <1>2 DEF Unlocked, Use, Export, Decrypt, RefuseExport, answers
  <2>2. QED BY <1>1, <2>1, QuietEnd DEF Typed
<1>3. CASE CheckConflicts(t)
  <2>1. UNCHANGED <<vault, acked, inLocks, lockFile>> /\ pc[t] = "checking"
    BY <1>3 DEF CheckConflicts, answers
  <2>2. CASE Ends(t) BY <1>1, <2>1, <2>2, QuietEnd DEF Typed
  <2>3. CASE Goto(t, "locking") /\ UNCHANGED mem
    <3>1. pc'[t] = "locking" /\ mem'[t] = mem[t] BY <2>3, Arrives DEF Typed
    <3>2. mem[t].kind = "import" BY <2>1 DEF Typed, CommandsTyped, Fits, KindsAt
    <3>3. OneHolder' BY <1>1, <2>1, <3>1, HolderStays DEF Holding
    <3>4. InOrder(t)' BY <2>1, <3>1, <3>2 DEF Ordered, InOrder, Seen, Exists
    <3>5. QED BY <1>1, <2>1, <3>3, <3>4, OrderStays
  <2>4. QED BY <1>3, <2>2, <2>3 DEF CheckConflicts
<1>4. CASE Begins(t) \/ Collect(t) \/ LockVault(t)
  BY <1>1, <1>4, BeginOrder, CollectOrder, LockVaultOrder
<1>5. CASE ReadVault(t) \/ StageVault(t) \/ WriteVault(t) \/ VerifyVault(t)
  BY <1>1, <1>5, ReadVaultOrder, StageOrder, WriteOrder, VerifyOrder
<1>6. QED BY <1>2, <1>3, <1>4, <1>5 DEF Advances

\* The next-state relation, by who moves.
Stands(i) == Lock(i) \/ Inspect(i) \/ InspectFails(i) \/ Crash(i)

LEMMA Steps ==
  Next => BreakLock \/ LookUp \/ (\E i \in Store : Stands(i)) \/ (\E t \in Command : Advances(t))
BY DEF Next, Stands, Advances, Begins

\* A lock that was broken under a command stays so.
LEMMA AgedStays ==
  ASSUME [Next]_vars PROVE aged => aged'
<1>1. CASE BreakLock \/ LookUp BY <1>1 DEF BreakLock, LookUp
<1>2. ASSUME NEW i \in Store, Stands(i) PROVE UNCHANGED aged
  BY <1>2 DEF Stands, Lock, Inspect, InspectFails, Crash
<1>3. ASSUME NEW t \in Command, Advances(t) PROVE UNCHANGED aged
  BY <1>3, BeginCases DEF Advances, Unlocked, Collect, Use, Export, Decrypt, CheckConflicts,
     RefuseExport, LockVault, ReadVault, StageVault, WriteVault, VerifyVault
<1>4. QED BY <1>1, <1>2, <1>3, Steps DEF vars

LEMMA StepOrder ==
  ASSUME Constants, Typed, LockInv, [Next]_vars PROVE LockInv'
<1>1. SUFFICES ASSUME ~aged' PROVE OneHolder' /\ Ordered'
  BY DEF LockInv
<1>2. OneHolder /\ Ordered BY <1>1, AgedStays DEF LockInv
<1>3. CASE UNCHANGED vars
  BY <1>2, <1>3 DEF vars, answers, OneHolder, Ordered, InOrder, Seen, Follows, Reprotects, Exists
<1>4. CASE Next
  BY <1>1, <1>2, <1>4, Steps, StoreOrder, NobodyOrder, AdvanceOrder DEF Stands
<1>5. QED BY <1>3, <1>4

LEMMA InitOrder ==
  ASSUME Init PROVE LockInv
<1>1. vault = NoVault /\ acked = [s \in Secret |-> 0] BY DEF Init
<1>2. \A t \in Command : pc[t] = "idle" /\ mem[t] = Blank BY DEF Init
<1>3. OneHolder BY <1>2 DEF OneHolder, Holding
<1>4. ASSUME NEW t \in Command PROVE InOrder(t)
  BY <1>2 DEF InOrder, Seen, Exists, Blank, NoVault
<1>5. Ordered BY <1>1, <1>4 DEF Ordered, NoVault, Absent
<1>6. QED BY <1>3, <1>5 DEF LockInv

-----------------------------------------------------------------------------
(***************************************************************************)
(* The keys, while each store works one command at a time.                 *)
(***************************************************************************)
OthersIdle(t) == \A u \in Command \ {t} : StoreOf[u] = StoreOf[t] => pc[u] = "idle"

\* A step of a command leaves the keys of other stores alone.
OwnKept(t) ==
  \A i \in Store \ {StoreOf[t]} :
    buffer'[i] = buffer[i] /\ key'[i] = key[i] /\ generation'[i] = generation[i]

LEMMA AloneKeeps ==
  ASSUME Alone, NEW t \in Command, OthersIdle(t), Only(t) PROVE Alone'
<1>1. ASSUME NEW u \in Command, NEW v \in Command, StoreOf[u] = StoreOf[v], u # v
      PROVE  pc'[u] = "idle" \/ pc'[v] = "idle"
  <2>1. CASE u = t BY <1>1, <2>1 DEF OthersIdle, Only
  <2>2. CASE v = t BY <1>1, <2>2 DEF OthersIdle, Only
  <2>3. CASE u # t /\ v # t BY <1>1, <2>3 DEF Alone, Only
  <2>4. QED BY <2>1, <2>2, <2>3
<1>2. QED BY <1>1 DEF Alone

\* A command that does nothing relies on nothing.
LEMMA IdleRelies ==
  ASSUME NEW t \in Command, CommandsTyped', pc'[t] = "idle" PROVE Relies(t)'
<1>1. mem'[t].kind = "none" BY DEF CommandsTyped, Fits, KindsAt
<1>2. QED BY <1>1 DEF Relies, Keyed, Changes, Reads

LEMMA EndsRelies ==
  ASSUME NEW t \in Command, CommandsTyped, CommandsTyped', Ends(t) PROVE Relies(t)'
BY Arrives, IdleRelies

LEMMA OthersRely ==
  ASSUME Constants, CommandsTyped', NEW t \in Command, OthersIdle(t), Only(t), OwnKept(t),
         UNCHANGED vault, NEW u \in Command, u # t, Relies(u)
  PROVE  Relies(u)'
<1>1. pc'[u] = pc[u] /\ mem'[u] = mem[u] BY DEF Only
<1>2. CASE StoreOf[u] = StoreOf[t] BY <1>1, <1>2, IdleRelies DEF OthersIdle
<1>3. CASE StoreOf[u] # StoreOf[t]
  <2>1. /\ buffer'[StoreOf[u]] = buffer[StoreOf[u]] /\ key'[StoreOf[u]] = key[StoreOf[u]]
        /\ generation'[StoreOf[u]] = generation[StoreOf[u]]
    BY <1>3 DEF OwnKept, Constants
  <2>2. QED BY <1>1, <2>1 DEF Relies, Sound, Present
<1>4. QED BY <1>2, <1>3

LEMMA SafeMoves ==
  ASSUME Constants, CommandsTyped', Safe, NEW t \in Command, OthersIdle(t), Only(t), OwnKept(t),
         UNCHANGED vault, KeysFit', Relies(t)', ~alarmed'
  PROVE  Safe'
<1>1. \A u \in Command : Relies(u)' BY OthersRely DEF Safe
<1>2. Alone' BY AloneKeeps DEF Safe
<1>3. Sound(vault)' BY DEF Safe, Sound, Present
<1>4. QED BY <1>1, <1>2, <1>3 DEF Safe

LEMMA SafeStays ==
  ASSUME Constants, CommandsTyped', Safe, NEW t \in Command, OthersIdle(t), Only(t),
         UNCHANGED <<vault, buffer, key, generation>>, Relies(t)', ~alarmed'
  PROVE  Safe'
<1>1. OwnKept(t) BY DEF OwnKept
<1>2. KeysFit' BY DEF Safe, KeysFit, Exists
<1>3. QED BY <1>1, <1>2, SafeMoves

\* A captured buffer still holds the store's key, and a store of the vault's generation
\* has the vault's.
LEMMA CapturedKey ==
  ASSUME Constants, Safe, NEW t \in Command, mem[t].kind \in Keyed
  PROVE  /\ KeyIn(t) = key[StoreOf[t]] /\ Exists(vault)
         /\ generation[StoreOf[t]] <= vault.generation
         /\ vault.generation = generation[StoreOf[t]] => KeyIn(t) = vault.key
<1>1. Relies(t) /\ StoreOf[t] \in Store BY DEF Safe, Constants
<1>2. mem[t].buffer = buffer[StoreOf[t]] /\ buffer[StoreOf[t]] # 0 BY <1>1 DEF Relies
<1>3. QED BY <1>1, <1>2 DEF Safe, KeysFit, KeyIn

\* So no record that is there is reported.
LEMMA NothingReported ==
  ASSUME Constants, Safe, NEW t \in Command, mem[t].kind \in Keyed, NEW wanted \in SUBSET Secret,
         \A s \in wanted : Present(vault, s), Reports(t, wanted)
  PROVE  ~alarmed'
<1>1. ASSUME vault.generation = generation[StoreOf[t]], NEW s \in wanted
      PROVE  Decrypts(vault.records[s], KeyIn(t))
  BY <1>1, CapturedKey DEF Safe, Sound, Decrypts
<1>2. QED BY <1>1 DEF Reports, Safe

LEMMA BeginKeys ==
  ASSUME Constants, Typed, Typed', Safe, NEW t \in Command, Begins(t), Only(t), ~overlapped'
  PROVE  Safe'
<1>1. PICK kind, s : BeginsAs(t, kind, s) BY BeginCases
<1>2. UNCHANGED <<vault, buffer, key, generation, alarmed>> BY BeginCases DEF answers, own
<1>3. OthersIdle(t) BY <1>1 DEF BeginsAs, Starts, Others, OthersIdle
<1>4. pc'[t] = First(kind) /\ mem'[t] = Begun(t, kind, s)
  BY <1>1 DEF BeginsAs, Starts, Goto, Remember, First, Begun, Typed, CommandsTyped
<1>5. /\ pc'[t] \notin {"staging", "writing", "verifying", "reading"}
      /\ pc'[t] = "locking" => kind \notin {"protect", "import"}
  BY <1>4 DEF First
<1>6. mem'[t].kind = kind /\ mem'[t].buffer = buffer[StoreOf[t]] BY <1>4 DEF Begun, Blank
<1>7. kind \in Keyed => buffer[StoreOf[t]] # 0
  BY <1>1 DEF BeginsAs, Typed, StoresTyped, Constants
<1>8. Relies(t)' BY <1>2, <1>5, <1>6, <1>7 DEF Relies
<1>9. QED BY <1>2, <1>3, <1>8, SafeStays DEF Safe, Typed

LEMMA UnlockedKeys ==
  ASSUME Constants, Typed, Typed', Ordered, Safe, NEW t \in Command, Unlocked(t), Only(t),
         OthersIdle(t)
  PROVE  Safe'
<1> DEFINE i == StoreOf[t]
           v == mem[t].read
<1>1. i \in Store /\ Seen(v) BY DEF Constants, Ordered, InOrder
<1>2. UNCHANGED <<vault, alarmed>> BY DEF Unlocked, answers
<1>3. OwnKept(t)
  BY DEF OwnKept, Unlocked, Clear, own, Typed, StoresTyped
<1>4. KeysFit'
  <2>1. CASE /\ Exists(v) /\ buffer' = [buffer EXCEPT ![i] = buffers'] /\ key' = [key EXCEPT ![i] = v.key]
             /\ generation' = [generation EXCEPT ![i] = v.generation]
    BY <1>1, <1>2, <2>1 DEF KeysFit, Safe, Seen, Exists, Typed, StoresTyped
  <2>2. CASE Clear(i) BY <1>1, <1>2, <2>2 DEF KeysFit, Safe, Exists, Clear, Typed, StoresTyped
  <2>3. CASE UNCHANGED <<buffer, key, generation>> BY <1>2, <2>3 DEF KeysFit, Safe, Exists
  <2>4. QED BY <2>1, <2>2, <2>3 DEF Unlocked, own
<1>5. Relies(t)' BY EndsRelies DEF Unlocked, Typed
<1>6. QED BY <1>2, <1>3, <1>4, <1>5, SafeMoves DEF Safe, Typed

LEMMA CollectKeys ==
  ASSUME Constants, Typed, Typed', Safe, NEW t \in Command, Collect(t), Only(t), OthersIdle(t)
  PROVE  Safe'
<1>1. UNCHANGED <<vault, buffer, key, generation>> /\ pc[t] = "collecting" BY DEF Collect
<1>2. mem[t].kind = "protect" BY <1>1 DEF Typed, CommandsTyped, Fits, KindsAt
<1>3. mem[t].kind \in Keyed BY <1>2 DEF Keyed
<1>4. ~alarmed' BY <1>3, NothingReported DEF Collect
<1>5. CASE Ends(t)
  BY <1>1, <1>4, <1>5, EndsRelies, SafeStays DEF Typed
<1>6. CASE Collected(t)
  <2>1. /\ pc'[t] = "locking" /\ mem'[t].kind = "protect" /\ mem'[t].buffer = mem[t].buffer
        /\ mem'[t].next = Protected(vault, keys + 1)
    BY <1>2, <1>6 DEF Collected, Typed, CommandsTyped, Memory
  <2>2. Sound(Protected(vault, keys + 1))
    BY DEF Safe, Sound, Present, Protected, Encrypted, Typed, File, Rows
  <2>3. mem[t].buffer = buffer[StoreOf[t]] /\ buffer[StoreOf[t]] # 0
    BY <1>3 DEF Safe, Relies
  <2>4. Relies(t)' BY <1>1, <2>1, <2>2, <2>3 DEF Relies, Sound, Present
  <2>5. QED BY <1>1, <1>4, <2>4, SafeStays DEF Typed
<1>7. QED BY <1>5, <1>6, CollectCases

LEMMA ReadingKeys ==
  ASSUME Constants, Typed, Typed', Safe, NEW t \in Command, Only(t), OthersIdle(t),
         Use(t) \/ Export(t) \/ RefuseExport(t)
  PROVE  Safe'
<1>1. UNCHANGED <<vault, buffer, key, generation>> /\ Ends(t)
  BY DEF Use, Export, Decrypt, RefuseExport, own
<1>2. CASE UNCHANGED alarmed
  BY <1>1, <1>2, EndsRelies, SafeStays DEF Typed, Safe
<1>3. ASSUME NEW wanted \in SUBSET Secret, Reports(t, wanted), mem[t].kind \in Reads,
             \A s \in wanted : Present(vault, s)
      PROVE  Safe'
  <2>1. mem[t].kind \in Keyed BY <1>3 DEF Keyed
  <2>2. ~alarmed' BY <1>3, <2>1, NothingReported
  <2>3. QED BY <1>1, <2>2, EndsRelies, SafeStays DEF Typed
<1>4. CASE Use(t)
  <2>1. mem[t].kind \in Reads /\ mem[t].secret \in Secret
    BY <1>4 DEF Use, Reads, Typed, CommandsTyped, Fits, Named
  <2>2. QED BY <1>2, <1>3, <1>4, <2>1 DEF Use, Decrypt
<1>5. CASE Export(t)
  <2>1. mem[t].kind \in Reads BY <1>5 DEF Export, Reads
  <2>2. QED BY <1>2, <1>3, <1>5, <2>1 DEF Export, Decrypt
<1>6. QED BY <1>2, <1>4, <1>5 DEF RefuseExport, answers

\* The commands that get or lose the lock without touching file or keys.
LEMMA LockingKeys ==
  ASSUME Constants, Typed, Typed', Safe, NEW t \in Command, Only(t), OthersIdle(t),
         CheckConflicts(t) \/ LockVault(t) \/ StageVault(t)
  PROVE  Safe'
<1>1. UNCHANGED <<vault, buffer, key, generation, alarmed>>
  BY DEF CheckConflicts, LockVault, StageVault, own, answers
<1>2. Relies(t)'
  <2>1. CASE Ends(t) BY <2>1, EndsRelies DEF Typed
  <2>2. CASE CheckConflicts(t) /\ Goto(t, "locking") /\ UNCHANGED mem
             /\ ~Present(vault, mem[t].secret)
    <3>1. mem[t].kind = "import" BY <2>2 DEF CheckConflicts, Typed, CommandsTyped, Fits, KindsAt
    <3>2. pc'[t] = "locking" BY <2>2, Arrives DEF Typed
    <3>3. QED BY <1>1, <2>2, <3>1, <3>2 DEF Safe, Relies, Present
  <2>3. CASE LockVault(t) /\ Goto(t, "reading") /\ UNCHANGED mem
    <3>1. pc'[t] = "reading" /\ pc[t] = "locking" BY <2>3, Arrives DEF Typed, LockVault
    <3>2. QED BY <1>1, <2>3, <3>1 DEF Safe, Relies, Sound, Present
  <2>4. CASE StageVault(t)
    <3>1. pc'[t] = "writing" /\ pc[t] = "staging" /\ UNCHANGED mem
      BY <2>4, Arrives DEF Typed, StageVault
    <3>2. QED BY <1>1, <3>1 DEF Safe, Relies, Sound, Present
  <2>5. QED BY <2>1, <2>2, <2>3, <2>4 DEF CheckConflicts, LockVault
<1>3. QED BY <1>1, <1>2, SafeStays DEF Safe, Typed

\* A file that is computed is encrypted with one key.
LEMMA ComputedSound ==
  ASSUME Constants, Typed, Ordered, Safe, NEW t \in Command, pc[t] = "reading", CurrentVault(t)
  PROVE  /\ Sound(Computed(t))
         /\ mem[t].kind \in Changes \cup {"import"} => Computed(t).key = key[StoreOf[t]]
         /\ mem[t].kind = "initialize" => buffer[StoreOf[t]] = 0
<1>1. mem[t].kind \in Writers /\ Relies(t) BY WritersHold DEF Holding, Safe
<1>2. CASE mem[t].kind = "initialize"
  <2>1. Computed(t) = [NoVault EXCEPT !.key = keys + 1] BY <1>2 DEF Computed
  <2>2. buffer[StoreOf[t]] = 0 BY <1>2 DEF CurrentVault, Safe, KeysFit, Constants
  <2>3. QED BY <1>2, <2>1, <2>2 DEF Sound, Present, NoVault, Absent, Changes
<1>3. CASE mem[t].kind = "protect"
  BY <1>1, <1>3 DEF Computed, Relies, Changes
<1>4. CASE mem[t].kind \in Changes \cup {"import"}
  <2> DEFINE s == mem[t].secret
             r == vault.records[s]
             k == KeyIn(t)
  <2>1. Computed(t) = Changed(t) BY <1>4 DEF Computed, Changes
  <2>2. k = key[StoreOf[t]] /\ k = vault.key
    BY <1>4, CapturedKey DEF CurrentVault, Keyed, Changes
  <2>3. s \in Secret BY <1>4 DEF Typed, CommandsTyped, Fits, Named
  <2>4. Changed(t).key = vault.key BY DEF Changed, Typed, File
  <2>5. r \in Rows BY <2>3 DEF Typed, File
  <2>6. mem[t].kind = "import" => r.copies = 0
    BY <1>1, <1>4, <2>5 DEF CurrentVault, Relies, Present, Changes, Rows
  <2>7. ASSUME NEW q \in Secret
        PROVE  /\ Changed(t).records[q].copies <= 1
               /\ Changed(t).records[q].copies > 0 => Changed(t).records[q].key = vault.key
    <3>1. CASE q # s
      <4>1. Changed(t).records[q] = vault.records[q] BY <3>1 DEF Changed, Typed, File
      <4>2. QED BY <4>1 DEF Safe, Sound, Present
    <3>2. CASE q = s
      <4>1. \/ Changed(t).records[q] = Deleted(r)
            \/ mem[t].kind = "import" /\ Changed(t).records[q] = Imported(r, k)
            \/ Changed(t).records[q] = Written(r, k)
        BY <2>3, <3>2 DEF Changed, Typed, File
      <4>2. Deleted(r).copies = 0 BY DEF Deleted
      <4>3. mem[t].kind = "import" => Imported(r, k).copies = 1 /\ Imported(r, k).key = k
        <5>1. Imported(r, k).copies = r.copies + 1 /\ Imported(r, k).key = k
          BY <2>5, AddedKey DEF Imported
        <5>2. QED BY <2>6, <5>1
      <4>4. Written(r, k).copies = 1 /\ Written(r, k).key = k
        BY <2>5, AddedKey DEF Written
      <4>5. QED BY <2>2, <4>1, <4>2, <4>3, <4>4
    <3>3. QED BY <3>1, <3>2
  <2>8. Sound(Changed(t)) BY <2>4, <2>7 DEF Sound, Present
  <2>9. QED BY <1>4, <2>1, <2>2, <2>4, <2>8 DEF Changes
<1>5. QED BY <1>1, <1>2, <1>3, <1>4 DEF Writers

LEMMA ReadVaultKeys ==
  ASSUME Constants, Typed, Typed', Ordered, Safe, NEW t \in Command, ReadVault(t), Only(t),
         OthersIdle(t)
  PROVE  Safe'
<1>1. UNCHANGED <<vault, buffer, key, generation, alarmed>> /\ pc[t] = "reading"
  BY DEF ReadVault, answers
<1>2. Relies(t)'
  <2>1. CASE Ends(t) BY <2>1, EndsRelies DEF Typed
  <2>2. CASE Prepared(t)
    <3>1. /\ pc'[t] = "staging" /\ mem'[t].next = Computed(t)
          /\ mem'[t].kind = mem[t].kind /\ mem'[t].buffer = mem[t].buffer
      BY <2>2 DEF Prepared, Typed, CommandsTyped, Memory
    <3>2. /\ Sound(Computed(t))
          /\ mem[t].kind \in Changes \cup {"import"} => Computed(t).key = key[StoreOf[t]]
          /\ mem[t].kind = "initialize" => buffer[StoreOf[t]] = 0
      BY <1>1, <2>2, ComputedSound DEF Prepared
    <3>3. Relies(t) BY DEF Safe
    <3>4. QED BY <1>1, <3>1, <3>2, <3>3 DEF Relies, Sound, Present
  <2>3. QED BY <2>1, <2>2, ReadVaultCases
<1>3. QED BY <1>1, <1>2, SafeStays DEF Safe, Typed

LEMMA WriteKeys ==
  ASSUME Constants, Typed, Typed', OneHolder, Ordered, Safe, NEW t \in Command, WriteVault(t),
         Only(t), OthersIdle(t)
  PROVE  Safe'
<1>1. UNCHANGED <<buffer, key, generation, alarmed>> /\ pc[t] = "writing"
  BY DEF WriteVault, answers
<1>2. CASE Ends(t) /\ UNCHANGED vault
  BY <1>1, <1>2, EndsRelies, SafeStays DEF Safe, Typed
<1>3. CASE vault' = mem[t].next /\ Goto(t, "verifying") /\ UNCHANGED mem
  <2>1. Follows(mem[t].next) /\ Relies(t) BY <1>1 DEF Ordered, InOrder, Safe
  <2>2. pc'[t] = "verifying" BY <1>3, Arrives DEF Typed
  <2>3. Exists(vault') /\ (Exists(vault) => vault'.generation > vault.generation)
    BY <1>3, <2>1 DEF Follows
  <2>4. ASSUME NEW i \in Store, buffer[i] # 0 PROVE generation[i] < vault'.generation
    BY <2>3, <2>4 DEF Safe, KeysFit, Typed, StoresTyped, File
  <2>5. Sound(vault)' BY <1>1, <1>3, <2>1 DEF Relies, Sound, Present
  <2>6. ASSUME NEW i \in Store, buffer'[i] # 0
        PROVE  /\ Exists(vault') /\ generation'[i] <= vault'.generation
               /\ generation'[i] = vault'.generation => key'[i] = vault'.key
    <3>1. generation'[i] = generation[i] /\ generation[i] < vault'.generation
      BY <1>1, <2>4, <2>6
    <3>2. generation[i] \in Nat /\ vault'.generation \in Nat
      BY DEF Typed, StoresTyped, File
    <3>3. QED BY <2>3, <3>1, <3>2
  <2>7. KeysFit' BY <2>6 DEF KeysFit, Exists
  <2>8. Relies(t)' BY <1>1, <1>3, <2>1, <2>2 DEF Relies, Sound, Present
  <2>9. ASSUME NEW u \in Command, u # t PROVE Relies(u)'
    <3>1. pc'[u] = pc[u] /\ mem'[u] = mem[u] /\ pc[u] \notin Holding
      BY <1>1, <2>9 DEF Only, OneHolder, Holding
    <3>2. Relies(u) /\ StoreOf[u] \in Store BY DEF Safe, Constants
    <3>3. mem[u].kind = "import" => vault'.generation # generation[StoreOf[u]]
      <4>1. mem[u].kind = "import" => buffer[StoreOf[u]] # 0 BY <3>2 DEF Relies, Keyed
      <4>2. QED BY <2>4, <3>2, <4>1 DEF Typed, StoresTyped
    <3>4. QED BY <1>1, <3>1, <3>2, <3>3 DEF Relies, Holding, Sound, Present
  <2>10. Alone' BY AloneKeeps DEF Safe
  <2>11. QED BY <1>1, <2>5, <2>7, <2>8, <2>9, <2>10 DEF Safe
<1>4. QED BY <1>2, <1>3 DEF WriteVault

LEMMA VerifyKeys ==
  ASSUME Constants, Typed, Typed', Ordered, Safe, NEW t \in Command, VerifyVault(t), Only(t),
         OthersIdle(t)
  PROVE  Safe'
<1> DEFINE i == StoreOf[t]
           m == mem[t]
<1>1. UNCHANGED <<vault, alarmed>> /\ pc[t] = "verifying" /\ Ends(t) BY DEF VerifyVault
<1>2. vault = m.next /\ Relies(t) BY <1>1 DEF Ordered, InOrder, Safe
<1>3. i \in Store /\ m.kind \in Writers BY <1>1, WritersHold DEF Constants, Holding
<1>4. \/ UNCHANGED <<generation, buffer, key>>
      \/ /\ generation' = [generation EXCEPT ![i] = vault.generation]
         /\ \/ m.kind = "protect" /\ buffer' = [buffer EXCEPT ![i] = buffers']
               /\ key' = [key EXCEPT ![i] = m.next.key]
            \/ m.kind # "protect" /\ UNCHANGED <<buffer, key>>
  BY DEF VerifyVault
<1>5. OwnKept(t) BY <1>4 DEF OwnKept, Typed, StoresTyped
<1>6. KeysFit'
  <2>1. CASE UNCHANGED <<generation, buffer, key>>
    BY <1>1, <2>1 DEF Safe, KeysFit, Exists
  <2>2. CASE /\ generation' = [generation EXCEPT ![i] = vault.generation]
             /\ \/ m.kind = "protect" /\ key' = [key EXCEPT ![i] = m.next.key]
                \/ m.kind # "protect" /\ UNCHANGED <<buffer, key>>
    <3>1. ASSUME buffer'[i] # 0 PROVE Exists(vault) /\ key'[i] = vault.key
      <4>1. CASE m.kind = "protect" /\ key' = [key EXCEPT ![i] = m.next.key]
        <5>1. Exists(vault)
          <6>1. buffer[i] # 0 BY <1>2, <4>1 DEF Relies, Keyed
          <6>2. QED BY <1>3, <6>1 DEF Safe, KeysFit
        <5>2. QED BY <1>2, <1>3, <4>1, <5>1 DEF Typed, StoresTyped
      <4>2. CASE m.kind # "protect" /\ UNCHANGED <<buffer, key>>
        <5>1. buffer[i] # 0 BY <3>1, <4>2
        <5>2. m.kind \in Changes \cup {"import"} BY <1>1, <1>2, <1>3, <4>2, <5>1 DEF Relies, Writers
        <5>3. QED BY <1>1, <1>2, <1>3, <4>2, <5>1, <5>2 DEF Safe, KeysFit, Relies
      <4>3. QED BY <2>2, <4>1, <4>2
    <3>2. ASSUME NEW j \in Store, j # i
          PROVE  buffer'[j] = buffer[j] /\ key'[j] = key[j] /\ generation'[j] = generation[j]
      BY <1>5, <3>2 DEF OwnKept
    <3>3. generation'[i] = vault.generation BY <1>3, <2>2 DEF Typed, StoresTyped
    <3>4. vault.generation <= vault.generation BY DEF Typed, File
    <3>5. QED BY <1>1, <3>1, <3>2, <3>3, <3>4 DEF Safe, KeysFit, Exists
  <2>3. QED BY <1>4, <2>1, <2>2
<1>7. Relies(t)' BY <1>1, EndsRelies DEF Typed
<1>8. QED BY <1>1, <1>5, <1>6, <1>7, SafeMoves DEF Safe, Typed

LEMMA OverlapStays ==
  ASSUME [Next]_vars PROVE overlapped => overlapped'
<1>1. CASE BreakLock \/ LookUp BY <1>1 DEF BreakLock, LookUp, bounds
<1>2. ASSUME NEW i \in Store, Stands(i) PROVE overlapped => overlapped'
  BY <1>2 DEF Stands, Lock, Inspect, InspectFails, Crash, bounds
<1>3. ASSUME NEW t \in Command, Advances(t) PROVE overlapped => overlapped'
  <2>1. CASE Begins(t)
    <3>1. PICK kind, s : BeginsAs(t, kind, s) BY <2>1, BeginCases
    <3>2. QED BY <3>1 DEF BeginsAs, Starts
  <2>2. QED
    BY <1>3, <2>1 DEF Advances, Unlocked, Collect, Use, Export, Decrypt, CheckConflicts,
       RefuseExport, LockVault, ReadVault, StageVault, WriteVault, VerifyVault, bounds
<1>4. QED BY <1>1, <1>2, <1>3, Steps DEF vars, bounds

LEMMA StoreKeys ==
  ASSUME Constants, Typed, Typed', Safe, NEW i \in Store, Stands(i), ~overlapped'
  PROVE  Safe'
<1>1. UNCHANGED <<vault, alarmed>> BY DEF Stands, Lock, Inspect, InspectFails, Crash, answers
<1>2. Decodes(vault) BY DEF Safe, Sound, Decodes
<1>3. CASE Inspect(i)
  <2>1. UNCHANGED <<buffer, key, generation, pc, mem>> BY <1>3 DEF Inspect
  <2>2. QED BY <1>1, <2>1 DEF Safe, Alone, Sound, Present, KeysFit, Exists, Relies
<1>4. CASE Lock(i) \/ Crash(i)
  <2>1. ASSUME NEW t \in Command
        PROVE  \/ StoreOf[t] = i /\ pc'[t] = "idle"
               \/ StoreOf[t] # i /\ pc'[t] = pc[t] /\ mem'[t] = mem[t]
    BY <1>4 DEF Lock, Crash
  <2>2. /\ buffer' = [buffer EXCEPT ![i] = 0] /\ key' = [key EXCEPT ![i] = 0]
        /\ generation' = [generation EXCEPT ![i] = 0]
    BY <1>4 DEF Lock, Crash, Clear
  <2>3. KeysFit' BY <1>1, <2>2 DEF Safe, KeysFit, Exists, Typed, StoresTyped
  <2>4. ASSUME NEW t \in Command PROVE Relies(t)'
    <3>1. CASE pc'[t] = "idle" BY <3>1, IdleRelies DEF Typed
    <3>2. CASE StoreOf[t] # i /\ pc'[t] = pc[t] /\ mem'[t] = mem[t]
      <4>1. /\ buffer'[StoreOf[t]] = buffer[StoreOf[t]] /\ key'[StoreOf[t]] = key[StoreOf[t]]
            /\ generation'[StoreOf[t]] = generation[StoreOf[t]]
        BY <2>2, <3>2 DEF Constants, Typed, StoresTyped
      <4>2. QED BY <1>1, <3>2, <4>1 DEF Safe, Relies, Sound, Present
    <3>3. QED BY <2>1, <3>1, <3>2
  <2>5. Alone' BY <2>1 DEF Safe, Alone
  <2>6. QED BY <1>1, <2>3, <2>4, <2>5 DEF Safe, Sound, Present
<1>5. ~InspectFails(i) BY <1>2 DEF InspectFails
<1>6. QED BY <1>3, <1>4, <1>5 DEF Stands

LEMMA StepKeys ==
  ASSUME Constants, Typed, Typed', LockInv, KeyInv, [Next]_vars PROVE KeyInv'
<1>1. SUFFICES ASSUME ~aged', ~overlapped' PROVE Safe'
  BY DEF KeyInv
<1>2. OneHolder /\ Ordered /\ Safe
  BY <1>1, AgedStays, OverlapStays DEF LockInv, KeyInv
<1>3. CASE BreakLock \/ LookUp \/ UNCHANGED vars
  <2>1. UNCHANGED <<vault, buffer, key, generation, pc, mem, alarmed>>
    BY <1>3 DEF BreakLock, LookUp, vars, own, answers
  <2>2. QED BY <1>2, <2>1 DEF Safe, Alone, Sound, Present, KeysFit, Exists, Relies
<1>4. ASSUME NEW i \in Store, Stands(i) PROVE Safe'
  BY <1>1, <1>2, <1>4, StoreKeys
<1>5. ASSUME NEW t \in Command, Advances(t) PROVE Safe'
  <2>1. Only(t) BY <1>5, OneMoves DEF Typed
  <2>2. CASE Begins(t) BY <1>1, <1>2, <2>1, <2>2, BeginKeys
  <2>3. CASE ~Begins(t)
    <3>1. pc[t] # "idle"
      BY <1>5, <2>3 DEF Advances, Unlocked, Collect, Use, Export, Decrypt, CheckConflicts,
         RefuseExport, LockVault, ReadVault, StageVault, WriteVault, VerifyVault
    <3>2. OthersIdle(t) BY <1>2, <3>1 DEF Safe, Alone, OthersIdle
    <3>3. QED
      BY <1>2, <1>5, <2>1, <2>3, <3>2, UnlockedKeys, CollectKeys, ReadingKeys, LockingKeys,
         ReadVaultKeys, WriteKeys, VerifyKeys DEF Advances
  <2>4. QED BY <2>2, <2>3
<1>6. QED BY <1>3, <1>4, <1>5, Steps

LEMMA InitKeys ==
  ASSUME Constants, Init PROVE KeyInv
<1>1. \A t \in Command : pc[t] = "idle" /\ mem[t] = Blank BY DEF Init
<1>2. \A t \in Command : Relies(t)
  BY <1>1 DEF Relies, Blank, Keyed, Changes, Reads
<1>3. KeysFit BY DEF Init, KeysFit
<1>4. Sound(vault) BY DEF Init, Sound, Present, NoVault, Absent
<1>5. QED BY <1>1, <1>2, <1>3, <1>4 DEF KeyInv, Safe, Alone, Init

-----------------------------------------------------------------------------
LEMMA VaultStep ==
  ASSUME Constants, VaultInv, [Next]_vars PROVE VaultInv'
<1>1. Typed' BY StepTypes DEF VaultInv
<1>2. QED BY <1>1, StepOrder, StepKeys DEF VaultInv

\* The vault of vault.ts under its lock: who holds the lock, what each command has read and will
\* write, the keys of the file and the journal of a rotation fit together, in any number of
\* processes, through crashes and rotations that are finished later.
THEOREM VaultIsInvariant == ASSUME Constants PROVE Spec => []VaultInv
<1>1. Init => VaultInv BY InitTypes, InitOrder, InitKeys DEF VaultInv
<1>2. VaultInv /\ [Next]_vars => VaultInv' BY VaultStep
<1>3. QED BY <1>1, <1>2, PTL DEF Spec

\* mutateRecords and rotateVaultProtection: a change that was answered is in the file from
\* then on, whatever other commands, processes, crashes and rotations do, as long as no lock
\* was broken under a command that still ran.
THEOREM AnsweredChangesStay == ASSUME Constants PROVE Spec => []AcknowledgedChangesStay
<1>1. VaultInv => AcknowledgedChangesStay
  BY DEF VaultInv, LockInv, Ordered, AcknowledgedChangesStay
<1>2. QED BY <1>1, VaultIsInvariant, PTL

\* Stores of several processes that change, rotate and protect one file, one command at a
\* time in each, leave every record readable with the vault's key, and no store of the
\* vault's generation reports one as tampered with.
THEOREM VaultStaysReadable == ASSUME Constants PROVE Spec => []SecretsStayReadable
<1>1. VaultInv => SecretsStayReadable
  BY DEF VaultInv, KeyInv, Safe, Sound, SecretsStayReadable, Readable, Decodes
<1>2. QED BY <1>1, VaultIsInvariant, PTL

-----------------------------------------------------------------------------
(***************************************************************************)
(* The key of the desktop's vault.  Of two conditions of its own the       *)
(* invariant is made: a command that initializes is alone, finds no key    *)
(* file and no vault before it writes the one, and goes on to write the    *)
(* other; and a command that unlocks holds the key that the file has.      *)
(***************************************************************************)
KeyStages == {"idle", "renewing", "unlocking"} \cup KeyFile!Initializing

KeyTyped == keyPc \in [DesktopCommand -> KeyStages] /\ keyMem \in [DesktopCommand -> Nat]
            /\ master \in [DesktopCommand -> Nat] /\ keyFile \in Nat /\ madeKeys \in Nat
            /\ keyVault \in Nat

MastersFit == \A t \in DesktopCommand : master[t] \in {0, keyVault}

InitializesAlone ==
  \A t, u \in DesktopCommand :
    keyPc[t] \in KeyFile!Initializing /\ u # t => keyPc[u] = "idle"

HoldsTheKey ==
  \A t \in DesktopCommand : keyPc[t] \in {"renewing", "unlocking"} => keyMem[t] = keyFile

NoVaultYet ==
  \A t \in DesktopCommand :
    /\ keyPc[t] \in KeyFile!Initializing => keyVault = 0
    /\ keyPc[t] = "delegating" => keyMem[t] = keyFile

KeyKept == keyVault # 0 => keyFile = keyVault

KeyFileInv ==
  /\ KeyTyped /\ MastersFit
  /\ ~keyOverlapped => InitializesAlone /\ HoldsTheKey
  /\ ~keyOverlapped /\ ~late => NoVaultYet /\ KeyKept

\* What the steps of one command do to its stage and the key it holds.
KeyMoves(t, s, k) ==
  /\ keyPc' = [keyPc EXCEPT ![t] = s] /\ keyMem' = [keyMem EXCEPT ![t] = k]

LEMMA KeyArrives ==
  ASSUME KeyTyped, NEW t \in DesktopCommand, NEW s \in KeyStages, NEW k \in Nat, KeyMoves(t, s, k)
  PROVE  /\ keyPc' \in [DesktopCommand -> KeyStages] /\ keyMem' \in [DesktopCommand -> Nat]
         /\ keyPc'[t] = s /\ keyMem'[t] = k
         /\ \A u \in DesktopCommand : u # t => keyPc'[u] = keyPc[u] /\ keyMem'[u] = keyMem[u]
BY DEF KeyTyped, KeyMoves

\* A command that is not, or no longer, initializing, and leaves key file and vault as they are.
LEMMA KeyRests ==
  ASSUME KeyFileInv, NEW t \in DesktopCommand, NEW s \in {"idle", "renewing", "unlocking"},
         NEW k \in Nat, KeyMoves(t, s, k), UNCHANGED <<keyFile, keyVault, late>>,
         madeKeys' \in Nat, master' \in [DesktopCommand -> Nat], MastersFit',
         ~keyOverlapped' => ~keyOverlapped,
         s # "idle" /\ ~keyOverlapped' =>
           k = keyFile /\ \A u \in DesktopCommand : u # t => keyPc[u] \notin KeyFile!Initializing
  PROVE  KeyFileInv'
<1>1. s \in KeyStages /\ s \notin KeyFile!Initializing BY DEF KeyStages, KeyFile!Initializing
<1>2. /\ keyPc' \in [DesktopCommand -> KeyStages] /\ keyMem' \in [DesktopCommand -> Nat]
      /\ keyPc'[t] = s /\ keyMem'[t] = k
      /\ \A u \in DesktopCommand : u # t => keyPc'[u] = keyPc[u] /\ keyMem'[u] = keyMem[u]
  BY <1>1, KeyArrives DEF KeyFileInv
<1>3. KeyTyped' BY <1>2 DEF KeyFileInv, KeyTyped
<1>4. ~keyOverlapped' => InitializesAlone' /\ HoldsTheKey'
  BY <1>1, <1>2 DEF KeyFileInv, InitializesAlone, HoldsTheKey
<1>5. ~keyOverlapped' /\ ~late' => NoVaultYet' /\ KeyKept'
  BY <1>1, <1>2 DEF KeyFileInv, NoVaultYet, KeyKept, KeyFile!Initializing
<1>6. QED BY <1>3, <1>4, <1>5 DEF KeyFileInv

\* A command that initializes goes on or ends: nobody else is at work.
LEMMA KeyWorks ==
  ASSUME KeyFileInv, NEW t \in DesktopCommand, keyPc[t] \in KeyFile!Initializing,
         NEW s \in {"idle"} \cup KeyFile!Initializing, NEW k \in Nat, KeyMoves(t, s, k),
         UNCHANGED <<keyOverlapped, master>>, madeKeys' \in Nat, keyFile' \in Nat,
         keyVault' \in Nat, MastersFit', late => late',
         ~keyOverlapped /\ ~late' =>
           /\ s # "idle" => keyVault' = 0
           /\ s = "delegating" => k = keyFile'
           /\ KeyKept'
  PROVE  KeyFileInv'
<1>1. s \in KeyStages /\ s \notin {"renewing", "unlocking"} BY DEF KeyStages, KeyFile!Initializing
<1>2. /\ keyPc' \in [DesktopCommand -> KeyStages] /\ keyMem' \in [DesktopCommand -> Nat]
      /\ keyPc'[t] = s /\ keyMem'[t] = k
      /\ \A u \in DesktopCommand : u # t => keyPc'[u] = keyPc[u] /\ keyMem'[u] = keyMem[u]
  BY <1>1, KeyArrives DEF KeyFileInv
<1>3. KeyTyped' BY <1>2 DEF KeyFileInv, KeyTyped
<1>4. ASSUME ~keyOverlapped'
      PROVE  /\ \A u \in DesktopCommand : u # t => keyPc'[u] = "idle"
             /\ InitializesAlone' /\ HoldsTheKey'
  <2>1. \A u \in DesktopCommand : u # t => keyPc'[u] = "idle"
    BY <1>2, <1>4 DEF KeyFileInv, InitializesAlone
  <2>2. "idle" \notin KeyFile!Initializing BY DEF KeyFile!Initializing
  <2>3. QED BY <1>1, <1>2, <2>1, <2>2 DEF InitializesAlone, HoldsTheKey
<1>5. ~keyOverlapped' /\ ~late' => NoVaultYet' /\ KeyKept'
  BY <1>2, <1>4 DEF NoVaultYet, KeyFile!Initializing
<1>6. QED BY <1>3, <1>4, <1>5 DEF KeyFileInv

\* What the variables are to a command.
LEMMA KeyFacts ==
  ASSUME KeyFileInv, NEW t \in DesktopCommand
  PROVE  /\ keyMem[t] \in Nat /\ keyPc[t] \in KeyStages /\ keyFile \in Nat /\ keyVault \in Nat
         /\ madeKeys \in Nat /\ madeKeys + 1 \in Nat /\ master \in [DesktopCommand -> Nat]
         /\ MastersFit
         /\ keyPc' = [keyPc EXCEPT ![t] = keyPc[t]] <=> UNCHANGED keyPc
         /\ keyMem' = [keyMem EXCEPT ![t] = keyMem[t]] <=> UNCHANGED keyMem
BY DEF KeyFileInv, KeyTyped

LEMMA InitializeKeepsKey ==
  ASSUME KeyFileInv, NEW t \in DesktopCommand, KeyFile!Initialize(t) PROVE KeyFileInv'
<1>1. /\ keyPc[t] = "idle" /\ UNCHANGED <<keyFile, keyVault, late, master, keyMem, madeKeys>>
      /\ ~keyOverlapped' =>
           ~keyOverlapped /\ \A u \in DesktopCommand \ {t} : keyPc[u] = "idle"
  BY DEF KeyFile!Initialize, KeyFile!Starts
<1>2. CASE UNCHANGED keyPc
  <2>1. KeyMoves(t, "idle", keyMem[t]) BY <1>1, <1>2, KeyFacts DEF KeyMoves
  <2>2. QED BY <1>1, <2>1, KeyFacts, KeyRests DEF MastersFit
<1>3. CASE keyFile = 0 /\ KeyFile!Goto(t, "protecting")
  <2>1. KeyMoves(t, "protecting", keyMem[t])
    BY <1>1, <1>3, KeyFacts DEF KeyMoves, KeyFile!Goto
  <2>2. "protecting" \in KeyStages BY DEF KeyStages, KeyFile!Initializing
  <2>3. /\ keyPc' \in [DesktopCommand -> KeyStages] /\ keyMem' \in [DesktopCommand -> Nat]
        /\ keyPc'[t] = "protecting"
        /\ \A u \in DesktopCommand : u # t => keyPc'[u] = keyPc[u]
    BY <2>1, <2>2, KeyFacts, KeyArrives DEF KeyFileInv
  <2>4. KeyTyped' BY <1>1, <2>3 DEF KeyFileInv, KeyTyped
  <2>5. MastersFit' BY <1>1, KeyFacts DEF MastersFit
  <2>6. ASSUME ~keyOverlapped' PROVE InitializesAlone' /\ HoldsTheKey'
    <3>1. \A u \in DesktopCommand : u # t => keyPc'[u] = "idle" BY <1>1, <2>3, <2>6
    <3>2. "idle" \notin KeyFile!Initializing BY DEF KeyFile!Initializing
    <3>3. QED BY <2>3, <3>1, <3>2 DEF InitializesAlone, HoldsTheKey
  <2>7. ASSUME ~keyOverlapped', ~late' PROVE NoVaultYet' /\ KeyKept'
    <3>1. KeyKept BY <1>1, <2>7 DEF KeyFileInv
    <3>2. keyVault' = 0 BY <1>1, <1>3, <3>1 DEF KeyKept
    <3>3. \A u \in DesktopCommand : keyPc'[u] # "delegating" BY <1>1, <2>3, <2>7
    <3>4. QED BY <3>2, <3>3 DEF NoVaultYet, KeyKept
  <2>8. QED BY <2>4, <2>5, <2>6, <2>7 DEF KeyFileInv
<1>4. QED BY <1>2, <1>3 DEF KeyFile!Initialize

LEMMA WritesKeepKey ==
  ASSUME KeyFileInv, NEW t \in DesktopCommand,
         \/ KeyFile!WriteKey(t) \/ KeyFile!WriteKeyFails(t) \/ KeyFile!DelegateInitialize(t)
         \/ KeyFile!DelegateFails(t) \/ KeyFile!Undo(t)
  PROVE  KeyFileInv'
<1>1. keyPc[t] \in KeyFile!Initializing
  BY DEF KeyFile!WriteKey, KeyFile!WriteKeyFails, KeyFile!DelegateInitialize,
         KeyFile!DelegateFails, KeyFile!Undo, KeyFile!Initializing
<1>2. ~keyOverlapped /\ ~late =>
        keyVault = 0 /\ KeyKept /\ (keyPc[t] = "delegating" => keyMem[t] = keyFile)
  BY <1>1 DEF KeyFileInv, NoVaultYet
<1>3. /\ "delegating" \in KeyFile!Initializing /\ "undoing" \in KeyFile!Initializing
      /\ 0 \in Nat
  BY DEF KeyFile!Initializing
<1>4. CASE KeyFile!WriteKey(t)
  <2>1. /\ KeyMoves(t, "delegating", madeKeys + 1) /\ keyFile' = madeKeys + 1
        /\ madeKeys' = madeKeys + 1 /\ UNCHANGED <<keyVault, keyOverlapped, master, late>>
    BY <1>4 DEF KeyFile!WriteKey, KeyFile!Goto, KeyFile!Hold, KeyMoves, KeyFile!bounds
  <2>2. MastersFit' BY <2>1, KeyFacts DEF MastersFit
  <2>3. KeyKept' <=> keyVault = 0 \/ keyFile' = keyVault BY <2>1 DEF KeyKept
  <2>4. QED BY <1>1, <1>2, <1>3, <2>1, <2>2, <2>3, KeyFacts, KeyWorks
<1>5. CASE KeyFile!WriteKeyFails(t)
  <2>1. /\ KeyMoves(t, "idle", 0) /\ keyFile' \in {keyFile, madeKeys + 1}
        /\ madeKeys' = madeKeys + 1 /\ UNCHANGED <<keyVault, keyOverlapped, master, late>>
    BY <1>5 DEF KeyFile!WriteKeyFails, KeyFile!Ends, KeyFile!Goto, KeyFile!Hold, KeyMoves
  <2>2. MastersFit' BY <2>1, KeyFacts DEF MastersFit
  <2>3. KeyKept' <=> keyVault = 0 \/ keyFile' = keyVault BY <2>1 DEF KeyKept
  <2>4. keyFile' \in Nat /\ madeKeys' \in Nat /\ keyVault' \in Nat BY <2>1, KeyFacts
  <2>5. QED BY <1>1, <1>2, <1>3, <2>1, <2>2, <2>3, <2>4, KeyWorks
<1>6. CASE KeyFile!DelegateInitialize(t)
  <2>1. /\ keyPc[t] = "delegating"
        /\ UNCHANGED <<keyFile, master, madeKeys, keyOverlapped, late>>
    BY <1>6 DEF KeyFile!DelegateInitialize, KeyFile!bounds
  <2>2. CASE keyVault = 0 /\ keyVault' = keyMem[t] /\ KeyMoves(t, "idle", 0)
    <3>1. MastersFit' BY <2>1, <2>2, KeyFacts DEF MastersFit
    <3>2. KeyKept' <=> keyVault' = 0 \/ keyFile = keyVault' BY <2>1 DEF KeyKept
    <3>3. QED BY <1>1, <1>2, <1>3, <2>1, <2>2, <3>1, <3>2, KeyFacts, KeyWorks
  <2>3. CASE keyVault # 0 /\ KeyMoves(t, "undoing", keyMem[t]) /\ UNCHANGED keyVault
    <3>1. MastersFit' BY <2>1, <2>3, KeyFacts DEF MastersFit
    <3>2. keyOverlapped \/ late BY <1>2, <2>3
    <3>3. QED BY <1>1, <1>3, <2>1, <2>3, <3>1, <3>2, KeyFacts, KeyWorks
  <2>4. QED
    BY <1>6, <2>2, <2>3, KeyFacts
    DEF KeyFile!DelegateInitialize, KeyFile!Ends, KeyFile!Goto, KeyFile!Hold, KeyMoves
<1>7. CASE KeyFile!DelegateFails(t)
  <2>1. /\ keyPc[t] = "delegating" /\ keyVault = 0 /\ keyVault' \in {0, keyMem[t]}
        /\ late' = (late \/ keyVault' # 0) /\ KeyMoves(t, "undoing", keyMem[t])
        /\ UNCHANGED <<keyFile, master, madeKeys, keyOverlapped>>
    BY <1>7, KeyFacts DEF KeyFile!DelegateFails, KeyFile!Goto, KeyMoves
  <2>2. MastersFit' BY <2>1, KeyFacts DEF MastersFit
  <2>3. ~late' => keyVault' = 0 /\ KeyKept' BY <2>1 DEF KeyKept
  <2>4. keyFile' \in Nat /\ madeKeys' \in Nat /\ keyVault' \in Nat BY <2>1, KeyFacts
  <2>5. late => late' BY <2>1
  <2>6. QED BY <1>1, <1>3, <2>1, <2>2, <2>3, <2>4, <2>5, KeyFacts, KeyWorks
<1>8. CASE KeyFile!Undo(t)
  <2>1. /\ KeyMoves(t, "idle", 0) /\ keyFile' \in {0, keyFile}
        /\ UNCHANGED <<keyVault, madeKeys, keyOverlapped, master, late>>
    BY <1>8 DEF KeyFile!Undo, KeyFile!Ends, KeyFile!Goto, KeyFile!Hold, KeyMoves
  <2>2. MastersFit' BY <2>1, KeyFacts DEF MastersFit
  <2>3. KeyKept' <=> keyVault = 0 \/ keyFile' = keyVault BY <2>1 DEF KeyKept
  <2>4. keyFile' \in Nat /\ madeKeys' \in Nat /\ keyVault' \in Nat BY <2>1, KeyFacts
  <2>5. QED BY <1>1, <1>2, <1>3, <2>1, <2>2, <2>3, <2>4, KeyWorks
<1>9. QED BY <1>4, <1>5, <1>6, <1>7, <1>8

LEMMA UnlocksKeepKey ==
  ASSUME KeyFileInv, NEW t \in DesktopCommand,
         KeyFile!Unlock(t) \/ KeyFile!DelegateUnlock(t) \/ KeyFile!Lock(t)
  PROVE  KeyFileInv'
<1>1. CASE KeyFile!Unlock(t)
  <2>1. /\ keyPc[t] = "idle" /\ UNCHANGED <<keyFile, keyVault, late, master, madeKeys>>
        /\ ~keyOverlapped' =>
             /\ ~keyOverlapped
             /\ \A u \in DesktopCommand : u # t => keyPc[u] \notin KeyFile!Initializing
    <3>1. keyOverlapped' = (keyOverlapped \/ \E u \in DesktopCommand \ {t} :
                              keyPc[u] # "idle" /\ ("unlock" = "initialize"
                                                    \/ keyPc[u] \in KeyFile!Initializing))
      BY <1>1 DEF KeyFile!Unlock, KeyFile!Starts
    <3>2. "idle" \notin KeyFile!Initializing BY DEF KeyFile!Initializing
    <3>3. QED BY <1>1, <3>1, <3>2 DEF KeyFile!Unlock, KeyFile!Starts
  <2>2. MastersFit' BY <2>1, KeyFacts DEF MastersFit
  <2>3. CASE UNCHANGED <<keyPc, keyMem>>
    <3>1. KeyMoves(t, "idle", keyMem[t]) BY <2>1, <2>3, KeyFacts DEF KeyMoves
    <3>2. QED BY <2>1, <2>2, <3>1, KeyFacts, KeyRests
  <2>4. CASE \E s \in {"renewing", "unlocking"} : KeyMoves(t, s, keyFile)
    <3>1. PICK s \in {"renewing", "unlocking"} : KeyMoves(t, s, keyFile) BY <2>4
    <3>2. QED BY <2>1, <2>2, <3>1, KeyFacts, KeyRests
  <2>5. QED
    BY <1>1, <2>3, <2>4 DEF KeyFile!Unlock, KeyFile!Goto, KeyFile!Hold, KeyMoves
<1>2. CASE KeyFile!DelegateUnlock(t)
  <2>1. /\ KeyMoves(t, "idle", 0)
        /\ UNCHANGED <<keyFile, keyVault, late, madeKeys, keyOverlapped>>
        /\ master' = [master EXCEPT ![t] = IF keyVault = keyMem[t] THEN keyVault ELSE 0]
    BY <1>2 DEF KeyFile!DelegateUnlock, KeyFile!Ends, KeyFile!Goto, KeyFile!Hold, KeyMoves
  <2>2. master' \in [DesktopCommand -> Nat] /\ MastersFit'
    BY <2>1, KeyFacts DEF MastersFit
  <2>3. QED BY <2>1, <2>2, KeyFacts, KeyRests
<1>3. CASE KeyFile!Lock(t)
  <2>1. /\ keyPc[t] = "idle" /\ UNCHANGED <<keyFile, keyVault, late, madeKeys, keyPc, keyMem>>
        /\ master' = [master EXCEPT ![t] = 0]
        /\ ~keyOverlapped' => ~keyOverlapped
    BY <1>3 DEF KeyFile!Lock, KeyFile!Starts
  <2>2. master' \in [DesktopCommand -> Nat] /\ MastersFit'
    BY <2>1, KeyFacts DEF MastersFit
  <2>3. KeyMoves(t, "idle", keyMem[t]) BY <2>1, KeyFacts DEF KeyMoves
  <2>4. QED BY <2>1, <2>2, <2>3, KeyFacts, KeyRests
<1>4. QED BY <1>1, <1>2, <1>3

LEMMA RenewKeepsKey ==
  ASSUME KeyFileInv, NEW t \in DesktopCommand, KeyFile!Renew(t) PROVE KeyFileInv'
<1>1. /\ keyPc[t] = "renewing"
      /\ UNCHANGED <<keyVault, master, madeKeys, keyOverlapped, late>>
  BY DEF KeyFile!Renew
<1>2. MastersFit' BY <1>1, KeyFacts DEF MastersFit
<1>3. ~keyOverlapped =>
        keyMem[t] = keyFile /\ \A u \in DesktopCommand : keyPc[u] \notin KeyFile!Initializing
  <2>1. ASSUME ~keyOverlapped, NEW u \in DesktopCommand, keyPc[u] \in KeyFile!Initializing
        PROVE  FALSE
    BY <1>1, <2>1 DEF KeyFileInv, InitializesAlone, KeyFile!Initializing
  <2>2. ~keyOverlapped => keyMem[t] = keyFile BY <1>1 DEF KeyFileInv, HoldsTheKey
  <2>3. QED BY <2>1, <2>2
<1>4. CASE KeyMoves(t, "idle", 0) /\ UNCHANGED keyFile
  BY <1>1, <1>2, <1>4, KeyFacts, KeyRests
<1>5. CASE KeyMoves(t, "unlocking", keyMem[t]) /\ keyFile' = keyMem[t]
  <2>1. CASE ~keyOverlapped BY <1>1, <1>2, <1>3, <1>5, <2>1, KeyFacts, KeyRests
  <2>2. CASE keyOverlapped
    <3>1. "unlocking" \in KeyStages BY DEF KeyStages
    <3>2. /\ keyPc' \in [DesktopCommand -> KeyStages] /\ keyMem' \in [DesktopCommand -> Nat]
      BY <1>5, <3>1, KeyFacts, KeyArrives DEF KeyFileInv
    <3>3. KeyTyped' BY <1>1, <1>5, <3>2, KeyFacts DEF KeyTyped
    <3>4. QED BY <1>1, <1>2, <2>2, <3>3 DEF KeyFileInv
  <2>3. QED BY <2>1, <2>2
<1>6. QED
  BY <1>4, <1>5, KeyFacts
  DEF KeyFile!Renew, KeyFile!Ends, KeyFile!Goto, KeyFile!Hold, KeyMoves

LEMMA OutsideKeepsKey ==
  ASSUME KeyFileInv, KeyFile!ProviderChanges \/ KeyFile!KeyAges \/ KeyFile!Crash PROVE KeyFileInv'
<1>1. UNCHANGED <<keyFile, keyVault, madeKeys, keyOverlapped, late>>
  BY DEF KeyFile!ProviderChanges, KeyFile!KeyAges, KeyFile!Crash, KeyFile!bounds
<1>2. CASE UNCHANGED <<keyPc, keyMem, master>>
  BY <1>1, <1>2
  DEF KeyFileInv, KeyTyped, MastersFit, InitializesAlone, HoldsTheKey, NoVaultYet, KeyKept
<1>3. CASE /\ keyPc' = [t \in DesktopCommand |-> "idle"] /\ keyMem' = [t \in DesktopCommand |-> 0]
           /\ master' = [t \in DesktopCommand |-> 0]
  <2>1. KeyTyped' BY <1>1, <1>3 DEF KeyFileInv, KeyTyped, KeyStages
  <2>2. MastersFit' /\ InitializesAlone' /\ HoldsTheKey'
    BY <1>3 DEF MastersFit, InitializesAlone, HoldsTheKey, KeyFile!Initializing
  <2>3. NoVaultYet' BY <1>3 DEF NoVaultYet, KeyFile!Initializing
  <2>4. ~keyOverlapped' /\ ~late' => KeyKept' BY <1>1 DEF KeyFileInv, KeyKept
  <2>5. QED BY <2>1, <2>2, <2>3, <2>4 DEF KeyFileInv
<1>4. QED
  BY <1>2, <1>3 DEF KeyFile!ProviderChanges, KeyFile!KeyAges, KeyFile!Crash

LEMMA KeyFileStep == ASSUME KeyFileInv, [KeyFile!Next]_(KeyFile!vars) PROVE KeyFileInv'
<1>1. CASE UNCHANGED KeyFile!vars
  BY <1>1
  DEF KeyFile!vars, KeyFile!bounds, KeyFileInv, KeyTyped, MastersFit, InitializesAlone,
      HoldsTheKey, NoVaultYet, KeyKept
<1>2. QED
  BY <1>1, InitializeKeepsKey, WritesKeepKey, UnlocksKeepKey, RenewKeepsKey, OutsideKeepsKey
  DEF KeyFile!Next

\* os.ts initialize and readProtectedKey: whatever is repeated, refused, renewed or interrupted,
\* a vault is not left without the key it was made with and an unlocked store has that key,
\* unless an initialization ran beside another command or failed after its file was in place.
THEOREM DesktopKeyIsKept == KeyFile!Spec => []KeyFile!KeyOpensVault
<1>1. KeyFile!Init => KeyFileInv
  BY DEF KeyFile!Init, KeyFileInv, KeyTyped, KeyStages, MastersFit, InitializesAlone, HoldsTheKey,
         NoVaultYet, KeyKept, KeyFile!Initializing
<1>2. KeyFileInv /\ [KeyFile!Next]_(KeyFile!vars) => KeyFileInv' BY KeyFileStep
<1>3. KeyFileInv => KeyFile!KeyOpensVault
  BY DEF KeyFileInv, KeyKept, MastersFit, KeyFile!KeyOpensVault
<1>4. QED BY <1>1, <1>2, <1>3, PTL DEF KeyFile!Spec
=============================================================================
