----------------------------- MODULE ProtectedKey -----------------------------
(***************************************************************************)
(* The Secret Store of the desktop (packages/secrets/src/os.ts): a vault   *)
(* whose passphrase is a random key, kept in a second file under the       *)
(* protection of the operating system.  The two files are written one      *)
(* after the other, and reading the key may write it again.                *)
(*                                                                         *)
(* A key is a number; the vault is the number of the key it was made with, *)
(* 0 when there is none.  What happens in the vault afterwards is Vault's. *)
(***************************************************************************)
EXTENDS Naturals

CONSTANTS Task,              \* commands of as many stores, in one process or in several
          MaxKeys, MaxCommands, MaxFaults, MaxCrashes

VARIABLES
  provider,                  \* what the operating system offers
  keyFile, stale,            \* os-protected-key.json; its protection is to be renewed
  vault,                     \* the vault file
  master,                    \* the key each store has unlocked its vault with
  pc, mem,                   \* where each command is; the key it holds
  keys, commands, faults, crashes,
  overlapped,                \* an initialization and another command ran side by side
  late                       \* the vault's initialization failed after its file was in place

bounds == <<commands, faults, crashes>>
vars == <<provider, keyFile, stale, vault, master, pc, mem, keys, bounds, overlapped, late>>

Providers == {"secure", "off", "basic_text", "unknown"}
Initializing == {"protecting", "delegating", "undoing"}

Init ==
  /\ provider \in Providers
  /\ keyFile = 0 /\ stale = FALSE /\ vault = 0
  /\ master = [t \in Task |-> 0]
  /\ pc = [t \in Task |-> "idle"] /\ mem = [t \in Task |-> 0]
  /\ keys = 0 /\ commands = 0 /\ faults = 0 /\ crashes = 0
  /\ overlapped = FALSE /\ late = FALSE

\* backendStatus: only a provider that is named and available will do.
requireAvailable == provider = "secure"

Goto(t, s) == pc' = [pc EXCEPT ![t] = s]
Hold(t, k) == mem' = [mem EXCEPT ![t] = k]
Ends(t) == Goto(t, "idle") /\ Hold(t, 0)

Starts(t, kind) ==
  /\ pc[t] = "idle" /\ commands < MaxCommands /\ commands' = commands + 1
  /\ overlapped' =
       (overlapped \/ \E u \in Task \ {t} : pc[u] # "idle" /\ (kind = "initialize" \/ pc[u] \in Initializing))

Fault == faults < MaxFaults /\ faults' = faults + 1

-----------------------------------------------------------------------------
\* Mutant: the existing key file is not looked for.
InitializeAgain(t) ==
  /\ Starts(t, "initialize")
  /\ IF requireAvailable THEN Goto(t, "protecting") ELSE UNCHANGED pc
  /\ UNCHANGED <<provider, keyFile, stale, vault, master, mem, keys, faults, crashes, late>>

\* initialize looks for the key file before it makes a key; with one there, or without a
\* provider, it is refused at once.
Initialize(t) ==
  /\ Starts(t, "initialize")
  /\ IF requireAvailable /\ keyFile = 0 THEN Goto(t, "protecting") ELSE UNCHANGED pc
  /\ UNCHANGED <<provider, keyFile, stale, vault, master, mem, keys, faults, crashes, late>>

\* The key, encrypted by the provider, replaces what the file holds by now.
WriteKey(t) ==
  /\ pc[t] = "protecting" /\ keys < MaxKeys
  /\ keys' = keys + 1 /\ Hold(t, keys + 1)
  /\ keyFile' = keys + 1 /\ stale' = FALSE
  /\ Goto(t, "delegating")
  /\ UNCHANGED <<provider, vault, master, bounds, overlapped, late>>

\* The encryption, the write or the sync after its rename fails: a file that is in place stays.
WriteKeyFails(t) ==
  /\ pc[t] = "protecting" /\ keys < MaxKeys /\ Fault
  /\ keys' = keys + 1
  /\ keyFile' \in {keyFile, keys + 1}
  /\ Ends(t)
  /\ UNCHANGED <<provider, stale, vault, master, commands, crashes, overlapped, late>>

\* The vault's own initialize, under the vault's lock: it refuses a vault that exists.
DelegateInitialize(t) ==
  /\ pc[t] = "delegating"
  /\ IF vault = 0
     THEN vault' = mem[t] /\ Ends(t)
     ELSE Goto(t, "undoing") /\ UNCHANGED <<vault, mem>>
  /\ UNCHANGED <<provider, keyFile, stale, master, keys, bounds, overlapped, late>>

\* It fails before its rename, or in the sync and the reading that follow.
DelegateFails(t) ==
  /\ pc[t] = "delegating" /\ vault = 0 /\ Fault
  /\ vault' \in {0, mem[t]} /\ late' = (late \/ vault' # 0)
  /\ Goto(t, "undoing")
  /\ UNCHANGED <<provider, keyFile, stale, master, mem, keys, commands, crashes, overlapped>>

\* Whatever the reason, the key file goes; a removal that fails is not reported.
Undo(t) ==
  /\ pc[t] = "undoing" /\ Ends(t)
  /\ \/ keyFile' = 0 /\ UNCHANGED faults
     \/ Fault /\ UNCHANGED keyFile
  /\ UNCHANGED <<provider, stale, vault, master, keys, commands, crashes, overlapped, late>>

-----------------------------------------------------------------------------
\* unlock: readProtectedKey reads and decrypts; the provider may want its protection renewed.
Unlock(t) ==
  /\ Starts(t, "unlock")
  /\ IF requireAvailable /\ keyFile # 0
     THEN Hold(t, keyFile) /\ Goto(t, IF stale THEN "renewing" ELSE "unlocking")
     ELSE UNCHANGED <<pc, mem>>
  /\ UNCHANGED <<provider, keyFile, stale, vault, master, keys, faults, crashes, late>>

\* The key read before is written back.
Renew(t) ==
  /\ pc[t] = "renewing"
  /\ \/ keyFile' = mem[t] /\ stale' = FALSE /\ Goto(t, "unlocking") /\ UNCHANGED <<mem, faults>>
     \/ Fault /\ Ends(t) /\ UNCHANGED <<keyFile, stale>>
  /\ UNCHANGED <<provider, vault, master, keys, commands, crashes, overlapped, late>>

\* The vault opens to the key it was made with; another one locks the store.
DelegateUnlock(t) ==
  /\ pc[t] = "unlocking" /\ Ends(t)
  /\ master' = [master EXCEPT ![t] = IF vault = mem[t] THEN vault ELSE 0]
  /\ UNCHANGED <<provider, keyFile, stale, vault, keys, bounds, overlapped, late>>

Lock(t) ==
  /\ Starts(t, "lock") /\ master' = [master EXCEPT ![t] = 0]
  /\ UNCHANGED <<provider, keyFile, stale, vault, pc, mem, keys, faults, crashes, late>>

-----------------------------------------------------------------------------
\* The user's session or the system's keys change.
ProviderChanges ==
  /\ Fault /\ provider' \in Providers \ {provider}
  /\ UNCHANGED <<keyFile, stale, vault, master, pc, mem, keys, commands, crashes, overlapped, late>>

KeyAges ==
  /\ keyFile # 0 /\ ~stale /\ stale' = TRUE
  /\ UNCHANGED <<provider, keyFile, vault, master, pc, mem, keys, bounds, overlapped, late>>

\* A process ends between any two writes.
Crash ==
  /\ crashes < MaxCrashes /\ crashes' = crashes + 1
  /\ pc' = [t \in Task |-> "idle"] /\ mem' = [t \in Task |-> 0]
  /\ master' = [t \in Task |-> 0]
  /\ UNCHANGED <<provider, keyFile, stale, vault, keys, commands, faults, overlapped, late>>

Next ==
  \/ ProviderChanges \/ KeyAges \/ Crash
  \/ \E t \in Task :
       \/ Initialize(t) \/ WriteKey(t) \/ WriteKeyFails(t)
       \/ DelegateInitialize(t) \/ DelegateFails(t) \/ Undo(t)
       \/ Unlock(t) \/ Renew(t) \/ DelegateUnlock(t) \/ Lock(t)

Spec == Init /\ [][Next]_vars

-----------------------------------------------------------------------------
(***************************************************************************)
(* Properties.                                                             *)
(***************************************************************************)
\* initialize and readProtectedKey: a vault is never left without the key it was made with,
\* whatever is repeated, refused, renewed or interrupted, and an unlocked store has that
\* key.  Two things do lose it: an initialization beside another command, and a failure of
\* the vault's initialization after its file was in place.
KeyOpensVault ==
  /\ vault # 0 /\ ~overlapped /\ ~late => keyFile = vault
  /\ \A t \in Task : master[t] \in {0, vault}
=============================================================================
