----------------------------- MODULE ProxyManager -----------------------------
(***************************************************************************)
(* The commands on one proxy: application-service executeProxyCommand over *)
(* the repository persistence-sqlite proxy.ts and the health rules of      *)
(* archive-core proxy.ts.  A command reads the row, waits for the Secret   *)
(* Store or the network, and writes the row under the revision it read; an *)
(* import writes it under the revision it finds.  The credential is in the *)
(* vault, the reference to it in the row: two stores.                      *)
(*                                                                         *)
(* Host, port, label, weights and latency are one configuration, which the *)
(* model numbers; other proxies are only what an import can meet: one of   *)
(* another identifier may have the identity a record names.                *)
(***************************************************************************)
EXTENDS Naturals

CONSTANTS Command, NoRef, failureThreshold, MaxRefs, MaxRevision, MaxCommands, MaxFaults

VARIABLES
  row,       \* the row of the proxy; revision 0 when there is none
  store,     \* credentials in the Secret Store
  drawn,     \* references drawn so far
  cooling,   \* the row's cooldownUntil lies ahead
  pc, mem,   \* where each command is, and what it remembers
  configs,   \* history: configurations written so far
  reborn,    \* history: the proxy was deleted under a command that had read it
  adopted,   \* history: a caller named an existing credential
  commands, faults \* bounds

vars == <<row, store, drawn, cooling, pc, mem, configs, reborn, adopted, commands, faults>>

HealthStates == {"healthy", "degraded", "cooldown", "disabled"}
Ref == 1..MaxRefs

NoRow == [rev |-> 0, enabled |-> TRUE, health |-> "degraded", failures |-> 0, ref |-> NoRef,
          config |-> 0]
Row == [rev : 0..MaxRevision, enabled : BOOLEAN, health : HealthStates, failures : Nat,
        ref : Ref \cup {NoRef}, config : Nat]

Blank == [row |-> NoRow, ref |-> NoRef, created |-> NoRef]
Kinds == {"create", "update", "enable", "disable", "delete", "import", "test", "eligibility"}
Stages == {"idle", "network"} \cup Kinds
          \cup {"removeCreated", "removeOld", "write create", "write update", "write import"}

\* Types; a row refers to a reference that acquireProxyCredential has drawn, or to none.
TypeOK ==
  /\ row \in Row
  /\ store \subseteq 1..drawn /\ drawn \in 0..MaxRefs
  /\ cooling \in BOOLEAN /\ {reborn, adopted} \subseteq BOOLEAN
  /\ pc \in [Command -> Stages]
  /\ \A c \in Command : mem[c].row \in Row /\ {mem[c].ref, mem[c].created} \subseteq Ref \cup {NoRef}

Init ==
  /\ row = NoRow /\ store = {} /\ drawn = 0 /\ cooling = FALSE
  /\ pc = [c \in Command |-> "idle"] /\ mem = [c \in Command |-> Blank]
  /\ configs = 0 /\ reborn = FALSE /\ adopted = FALSE /\ commands = 0 /\ faults = 0

-----------------------------------------------------------------------------
Goto(c, s) == pc' = [pc EXCEPT ![c] = s]
Done(c) == Goto(c, "idle") /\ mem' = [mem EXCEPT ![c] = Blank]
Exists == row.rev > 0
Fault == faults < MaxFaults /\ faults' = faults + 1
Vault == <<store, drawn>>

\* A command reads the row; all but create and import need one.
Read(c, kind) ==
  /\ pc[c] = "idle" /\ commands < MaxCommands /\ commands' = commands + 1
  /\ Exists \/ kind \in {"create", "import"}
  /\ Goto(c, kind)
  /\ mem' = [mem EXCEPT ![c].row = row]
  /\ UNCHANGED <<row, Vault, cooling, configs, reborn, adopted, faults>>

\* What a write that fails leaves behind is the credential made for it.
GiveUp(c) ==
  IF mem[c].created = NoRef THEN Done(c) ELSE Goto(c, "removeCreated") /\ UNCHANGED mem

\* removeSecret; a secret that is gone already is no error, another failure leaves it.
RemoveSecret(c) ==
  /\ pc[c] \in {"removeCreated", "removeOld"}
  /\ LET ref == IF pc[c] = "removeOld" THEN mem[c].row.ref ELSE mem[c].created IN
     \/ store' = store \ {ref} /\ UNCHANGED faults
     \/ Fault /\ UNCHANGED store
  /\ Done(c)
  /\ UNCHANGED <<row, drawn, cooling, configs, reborn, adopted, commands>>

-----------------------------------------------------------------------------
(***************************************************************************)
(* The repository: each call is one transaction, and fails as a whole.     *)
(***************************************************************************)
\* assertProxyMetadata: enabled and the health state agree.
Valid(r) == r.enabled = (r.health # "disabled") /\ r.rev >= 1

\* createProxy: the identifier is not in use.
InsertRow(r) == ~Exists /\ Valid(r) /\ row' = r

\* A bug: the row is looked up by its identifier alone.
AnyRevision(c) == Exists

\* updateProxy: the row is still of the revision read,
SameRevision(c) == Exists /\ row.rev = mem[c].row.rev

\* and the new one is the next after that.
ReplaceRow(c, r) == SameRevision(c) /\ r.rev = mem[c].row.rev + 1 /\ Valid(r) /\ row' = r

\* deleteProxy, whatever the revision.
DeleteRow == Exists /\ row' = NoRow

\* importProxies overwrites the row of the identifier at the revision it has now, or
\* enters a new one.
ImportRow(r) == Valid(r) /\ row' = [r EXCEPT !.rev = row.rev + 1]

-----------------------------------------------------------------------------
(***************************************************************************)
(* create, update and import: the credential first, then the row.          *)
(***************************************************************************)
\* createProxyCredentialSecret draws a reference and stores the credential under it.
CreateSecret(c) ==
  /\ drawn < MaxRefs /\ drawn' = drawn + 1 /\ store' = store \cup {drawn + 1}
  /\ mem' = [mem EXCEPT ![c].ref = drawn + 1, ![c].created = drawn + 1]

\* assertProxySecretReference: an active credential of this proxy.
Referable(ref) == ref \in store

\* acquireCredential: a new secret, the one referred to (it must be there), none, or the
\* one the row had.
AcquireCredential(c) ==
  /\ pc[c] \in {"create", "update", "import"}
  /\ Goto(c, CASE pc[c] = "create" -> "write create" [] pc[c] = "update" -> "write update"
               [] OTHER -> "write import")
  /\ \/ CreateSecret(c) /\ UNCHANGED adopted
     \/ /\ \E ref \in Ref : Referable(ref) /\ mem' = [mem EXCEPT ![c].ref = ref]
        /\ adopted' = TRUE
        /\ UNCHANGED Vault
     \/ /\ \E ref \in {NoRef} \cup {r \in {mem[c].row.ref} : pc[c] = "update"} :
             mem' = [mem EXCEPT ![c].ref = ref]
        /\ UNCHANGED <<Vault, adopted>>
  /\ UNCHANGED <<row, cooling, configs, reborn, commands, faults>>

Health(enabled) == IF enabled THEN "degraded" ELSE "disabled"

\* createProxyMetadata: counters and cooldown begin anew.
NewRow(c, rev, enabled) ==
  [rev |-> rev, enabled |-> enabled, health |-> Health(enabled), failures |-> 0,
   ref |-> mem[c].ref, config |-> configs + 1]

\* buildMetadata, at the revision after the one read; the bound keeps revisions finite.
Built(c) == {NewRow(c, mem[c].row.rev + 1, enabled) : enabled \in BOOLEAN}
Configured == row.rev < MaxRevision /\ configs' = configs + 1 /\ cooling' = FALSE

WriteCreate(c) ==
  /\ pc[c] = "write create"
  /\ \/ /\ \E enabled \in BOOLEAN : InsertRow(NewRow(c, 1, enabled))
        /\ Configured /\ Done(c) /\ UNCHANGED faults
     \/ Exists /\ GiveUp(c) /\ UNCHANGED <<row, configs, cooling, faults>>
     \/ Fault /\ GiveUp(c) /\ UNCHANGED <<row, configs, cooling>>
  /\ UNCHANGED <<Vault, reborn, adopted, commands>>

\* The old credential goes when a new one took its place.
WriteUpdate(c) ==
  /\ pc[c] = "write update"
  /\ \/ /\ \E r \in Built(c) : ReplaceRow(c, r)
        /\ Configured
        /\ IF mem[c].row.ref # NoRef /\ mem[c].created # NoRef
           THEN Goto(c, "removeOld") /\ UNCHANGED mem ELSE Done(c)
        /\ UNCHANGED faults
     \/ ~SameRevision(c) /\ GiveUp(c) /\ UNCHANGED <<row, configs, cooling, faults>>
     \/ Fault /\ GiveUp(c) /\ UNCHANGED <<row, configs, cooling>>
  /\ UNCHANGED <<Vault, reborn, adopted, commands>>

\* The credential to remove is that of the row seen at the beginning.  A record whose
\* identity is another proxy's is skipped.
WriteImport(c) ==
  /\ pc[c] = "write import"
  /\ \/ /\ \E enabled \in BOOLEAN : ImportRow(NewRow(c, 1, enabled))
        /\ Configured
        /\ IF mem[c].row.ref \notin {NoRef, mem[c].ref}
           THEN Goto(c, "removeOld") /\ UNCHANGED mem ELSE Done(c)
     \/ GiveUp(c) /\ UNCHANGED <<row, configs, cooling>>
  /\ UNCHANGED <<Vault, reborn, adopted, commands, faults>>

-----------------------------------------------------------------------------
(***************************************************************************)
(* enable, disable, delete.                                                *)
(***************************************************************************)
\* resetEnabledState: the whole row as it was read, with another state.
Toggle(c) ==
  /\ pc[c] \in {"enable", "disable"}
  /\ IF SameRevision(c) /\ row.rev < MaxRevision
     THEN /\ ReplaceRow(c, [mem[c].row EXCEPT !.rev = @ + 1, !.enabled = (pc[c] = "enable"),
                                              !.health = Health(pc[c] = "enable")])
          /\ cooling' = FALSE
     ELSE UNCHANGED <<row, cooling>>
  /\ Done(c)
  /\ UNCHANGED <<Vault, configs, reborn, adopted, commands, faults>>

\* Whatever revision the row has by now.
Delete(c) ==
  /\ pc[c] = "delete"
  /\ IF Exists
     THEN /\ DeleteRow /\ cooling' = FALSE
          /\ reborn' = (reborn \/ \E d \in Command \ {c} : pc[d] # "idle")
          /\ IF mem[c].row.ref # NoRef THEN Goto(c, "removeOld") /\ UNCHANGED mem ELSE Done(c)
     ELSE Done(c) /\ UNCHANGED <<row, cooling, reborn>>
  /\ UNCHANGED <<Vault, configs, adopted, commands, faults>>

-----------------------------------------------------------------------------
(***************************************************************************)
(* test and eligibility.                                                   *)
(***************************************************************************)
\* withProxyRuntimeConfiguration, and hasSecret of eligibility.
HasCredential(r) == r.ref # NoRef => Referable(r.ref)

\* A disabled or cooling proxy is not tested, nor one whose credential is gone.
BeginTest(c) ==
  /\ pc[c] = "test"
  /\ IF mem[c].row.enabled /\ ~(mem[c].row.health = "cooldown" /\ cooling)
        /\ HasCredential(mem[c].row)
     THEN Goto(c, "network") /\ UNCHANGED mem
     ELSE Done(c)
  /\ UNCHANGED <<row, Vault, cooling, configs, reborn, adopted, commands, faults>>

\* recordProxyHealthCheck.
AfterSuccess(r, slow) ==
  [r EXCEPT !.rev = @ + 1, !.health = IF slow THEN "degraded" ELSE "healthy", !.failures = 0]
AfterFailure(r) ==
  [r EXCEPT !.rev = @ + 1, !.failures = @ + 1,
            !.health = IF r.failures + 1 >= failureThreshold THEN "cooldown" ELSE "degraded"]

\* The result is applied to the row as it was before the test, under its revision.
RecordTest(c) ==
  /\ pc[c] = "network"
  /\ \/ /\ SameRevision(c) /\ row.rev < MaxRevision
        /\ \E r \in {AfterSuccess(mem[c].row, slow) : slow \in BOOLEAN} \cup {AfterFailure(mem[c].row)} :
             ReplaceRow(c, r)
        /\ cooling' = (row'.health = "cooldown")
     \/ ~SameRevision(c) /\ UNCHANGED <<row, cooling>>
  /\ Done(c)
  /\ UNCHANGED <<Vault, configs, reborn, adopted, commands, faults>>

CooldownEnds ==
  /\ cooling /\ cooling' = FALSE
  /\ UNCHANGED <<row, Vault, pc, mem, configs, reborn, adopted, commands, faults>>

\* expireProxyCooldown is saved before the answer; the answer changes nothing.
Eligibility(c) ==
  /\ pc[c] = "eligibility"
  /\ IF /\ mem[c].row.health = "cooldown" /\ ~cooling
        /\ SameRevision(c) /\ row.rev < MaxRevision
     THEN ReplaceRow(c, [mem[c].row EXCEPT !.rev = @ + 1, !.health = "degraded"])
     ELSE UNCHANGED row
  /\ Done(c)
  /\ UNCHANGED <<Vault, cooling, configs, reborn, adopted, commands, faults>>

Eligible == Exists /\ row.enabled /\ row.health = "healthy" /\ HasCredential(row)

Next ==
  \/ CooldownEnds
  \/ \E c \in Command :
       \/ \E kind \in Kinds : Read(c, kind)
       \/ AcquireCredential(c) \/ RemoveSecret(c)
       \/ WriteCreate(c) \/ WriteUpdate(c) \/ WriteImport(c)
       \/ Toggle(c) \/ Delete(c) \/ BeginTest(c) \/ RecordTest(c) \/ Eligibility(c)

Spec == Init /\ [][Next]_vars

-----------------------------------------------------------------------------
(***************************************************************************)
(* Properties.                                                             *)
(***************************************************************************)
\* Revisions keep the commands on one proxy apart although each waits between reading
\* and writing: the result of a test ends up on the configuration that was tested, and
\* nothing puts an older one back.  The revision starts anew when the proxy is deleted
\* and created again, so commands that had read it before are left out.
ResultsStayWithConfiguration ==
  \A c \in Command :
    pc[c] \in {"network", "enable", "disable", "eligibility"} /\ pc'[c] = "idle"
      /\ row' # row /\ ~reborn' => row'.config = row.config

\* Every step that writes a row is such a step.
TestsBelongToTheirConfiguration == [][ResultsStayWithConfiguration]_vars

\* A row's reference leads to a secret: the credential is stored before the row and
\* removed after it, also beside an import that overwrites and an update that fails.
\* A credential that a caller names may be one that another command is about to remove:
\* nothing protects it between the check and the write.
CredentialIsStored == ~reborn /\ ~adopted /\ row.ref # NoRef => row.ref \in store
===============================================================================
