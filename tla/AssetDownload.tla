---------------------------- MODULE AssetDownload ----------------------------
(***************************************************************************)
(* The download of one asset into the content store of a Project           *)
(* (application-service asset-downloader.ts over the repository assets.ts  *)
(* and the file store asset-files.ts), by workers of several page jobs     *)
(* that refer to it, while Leases run out, jobs are claimed again, the     *)
(* process dies and the remote asset changes.                              *)
(*                                                                         *)
(* The bytes of an asset are Length chunks; a chunk is the version of the  *)
(* remote asset it came from, 0 a hole.  A SHA-256 is the content itself.  *)
(* A file is a number that stays with its handles when it is renamed.  All *)
(* versions are Length chunks long, so declared sizes always agree; what   *)
(* fails by size fails here by Fails.  Redirects change only where a       *)
(* request goes and are left out, as is a second download of the asset     *)
(* under one Lease.                                                        *)
(***************************************************************************)
EXTENDS Naturals, Sequences

CONSTANTS Worker, Job, Nobody, Length, MaxGeneration, MaxClaims,
          MaxVersions, MaxFiles, MaxFaults

ASSUME AssetAssumption ==
  /\ Nobody \notin Job
  /\ Length \in Nat /\ MaxGeneration \in Nat /\ MaxVersions \in Nat \ {0}

VARIABLES
  remote,   \* version the server has
  lease,    \* job_leases: generation, holder and whether it runs, by job
  row,      \* the row of asset_sources
  related,  \* page_asset_relations: the jobs whose pages use the asset
  partial,  \* temp/assets/<source>.<generation>.part: its file, 0 when there is none
  file,     \* contents of all files ever made
  objects,  \* assets/objects/sha256: pairs of a hash and the file of that name
  locks,    \* hashes whose content lock file exists
  pc, mem,  \* where each worker is, and what it remembers
  pathJob,  \* history: the first job that used each partial path
  shared,   \* history: two jobs used one partial path
  outdated, \* history: a download began from another partial file than the row named
  claims, faults \* bounds

vars == <<remote, lease, row, related, partial, file, objects, locks, pc, mem, pathJob, shared,
          outdated, claims, faults>>
world == <<remote, lease, related, pathJob, shared, outdated, claims>>

Generation == 1..MaxGeneration
Version == 1..MaxVersions
NoValidator == 0

Blank == [job |-> Nobody, gen |-> 0, path |-> 0, prevPath |-> 0, prevResume |-> 0,
          resume |-> 0, offset |-> 0, validator |-> 0, restarted |-> FALSE, handle |-> 0,
          version |-> 0, sha |-> <<>>]

Stages == {"idle", "ensure", "begin", "prepare", "truncate", "request", "open", "stream",
           "hash", "assert", "lock", "store", "finalize", "release", "failed"}

\* "absent" stands for no row.
RowStates == {"absent", "pending", "downloading", "interrupted", "completed", "failed"}

\* The columns of asset_sources that a download looks at; partial is the generation in
\* its path, sha stands for the bytes.
Row == [state : RowStates, job : Job \cup {Nobody}, owner : Worker \cup {Nobody},
        gen : 0..MaxGeneration, resume : 0..Length, validator : 0..MaxVersions,
        partial : 0..MaxGeneration, sha : Seq(Version)]

\* Types; every content object of the asset store is a file that exists.
TypeOK ==
  /\ remote \in Version
  /\ \A j \in Job : lease[j].gen \in 0..MaxGeneration
  /\ row \in Row
  /\ related \subseteq Job
  /\ partial \in [Generation -> 0..MaxFiles]
  /\ Len(file) <= MaxFiles
  /\ \A o \in objects : o.file \in 1..Len(file)
  /\ pc \in [Worker -> Stages]

Init ==
  /\ remote = 1
  /\ lease = [j \in Job |-> [gen |-> 0, holder |-> Nobody, live |-> FALSE]]
  /\ related = {}
  /\ row = [state |-> "absent", job |-> Nobody, owner |-> Nobody, gen |-> 0, resume |-> 0,
            validator |-> NoValidator, partial |-> 0, sha |-> <<>>]
  /\ partial = [g \in Generation |-> 0] /\ file = <<>> /\ objects = {} /\ locks = {}
  /\ pc = [w \in Worker |-> "idle"] /\ mem = [w \in Worker |-> Blank]
  /\ pathJob = [g \in Generation |-> Nobody] /\ shared = FALSE /\ outdated = FALSE
  /\ claims = 0 /\ faults = 0

-----------------------------------------------------------------------------
Fault == faults < MaxFaults /\ faults' = faults + 1

Goto(w, s) == pc' = [pc EXCEPT ![w] = s]
Remember(w, m) == mem' = [mem EXCEPT ![w] = m]
Done(w) == Goto(w, "idle") /\ Remember(w, Blank)

\* A step that throws: the content lock is released on the way out.
Throw(w) ==
  /\ Goto(w, "failed")
  /\ locks' = IF pc[w] \in {"store", "finalize"} THEN locks \ {mem[w].sha} ELSE locks
  /\ UNCHANGED mem

\* assertLease: the active Lease is this worker's, of this generation, and runs.
HoldsLease(w) ==
  LET l == lease[mem[w].job] IN l.holder = w /\ l.gen = mem[w].gen /\ l.live

HoldsClaim(w) ==
  HoldsLease(w) /\ row.job = mem[w].job /\ row.owner = w /\ row.gen = mem[w].gen

Resized(s, n) == [i \in 1..n |-> IF i <= Len(s) THEN s[i] ELSE 0]
PutChunk(s, i, v) == [Resized(s, IF i > Len(s) THEN i ELSE Len(s)) EXCEPT ![i] = v]

Own(w) == partial[mem[w].path]

-----------------------------------------------------------------------------
(***************************************************************************)
(* What happens around the downloads.                                      *)
(***************************************************************************)
\* No version comes back.  (A server that returned to one under its old validator would
\* let a download go on in a file that a restart of the range had begun to fill with the
\* version between, if that worker broke off before it saved its progress.)
RemoteChanges ==
  /\ remote < MaxVersions /\ remote' = remote + 1
  /\ UNCHANGED <<lease, row, related, partial, file, objects, locks, pc, mem, pathJob, shared,
                 outdated, claims, faults>>

\* A worker claims a page job whose Lease does not run, and begins with the asset.  The
\* generations left out are of claims that ended before they came to it.
Claim(w, j) ==
  /\ pc[w] = "idle" /\ ~lease[j].live
  /\ claims < MaxClaims /\ claims' = claims + 1
  /\ \E g \in (lease[j].gen + 1)..MaxGeneration :
       /\ lease' = [lease EXCEPT ![j] = [gen |-> g, holder |-> w, live |-> TRUE]]
       /\ Remember(w, [Blank EXCEPT !.job = j, !.gen = g])
  /\ Goto(w, "ensure")
  /\ UNCHANGED <<remote, row, related, partial, file, objects, locks, pathJob, shared,
                 outdated, faults>>

Expire(j) ==
  /\ lease[j].live
  /\ lease' = [lease EXCEPT ![j].live = FALSE]
  /\ UNCHANGED <<remote, row, related, partial, file, objects, locks, pc, mem, pathJob, shared,
                 outdated, claims, faults>>

\* Rows, files and lock files stay.
Crash ==
  /\ Fault
  /\ pc' = [w \in Worker |-> "idle"] /\ mem' = [w \in Worker |-> Blank]
  /\ UNCHANGED <<remote, lease, row, related, partial, file, objects, locks, pathJob, shared,
                 outdated, claims>>

-----------------------------------------------------------------------------
(***************************************************************************)
(* ensureAssetSource, beginAssetDownload and preparePartial.               *)
(***************************************************************************)
\* Of the jobs that refer to the asset the first enters its row, each its page.
EnsureAssetSource(w) ==
  /\ row' = IF row.state = "absent" THEN [row EXCEPT !.state = "pending"] ELSE row
  /\ related' = related \cup {mem[w].job}

\* A completed asset is read again and reused, or the call fails: nothing more changes.
Ensure(w) ==
  /\ pc[w] = "ensure" /\ EnsureAssetSource(w)
  /\ IF row.state = "completed"
     THEN Done(w)
     ELSE /\ Remember(w, [mem[w] EXCEPT !.prevPath = row.partial, !.prevResume = row.resume])
          /\ Goto(w, "begin")
  /\ UNCHANGED <<remote, lease, partial, file, objects, locks, pathJob, shared,
                 outdated, claims, faults>>

\* One's own Lease must run, and no Lease of the job that claimed the source may: not even
\* one's own newer Lease, when the job's download of an earlier generation broke off.
MayBegin(w) ==
  /\ HoldsLease(w)
  /\ row.state = "downloading" => row.job = Nobody \/ ~lease[row.job].live

\* The row keeps offset and validator of the owner before.  A source completed since
\* ensureAssetSource is taken as it is, with the path of the generation that completed it.
Begin(w) ==
  /\ pc[w] = "begin"
  /\ LET g == mem[w].gen
         goOn == /\ Goto(w, "prepare") /\ UNCHANGED locks
                 /\ Remember(w, [mem[w] EXCEPT !.path = row'.gen, !.resume = row'.resume,
                                               !.validator = row'.validator])
     IN
     \/ /\ row.state = "completed" /\ UNCHANGED <<row, pathJob, shared, outdated>> /\ goOn
     \/ /\ row.state # "completed" /\ MayBegin(w)
        /\ row' = [row EXCEPT !.state = "downloading", !.job = mem[w].job, !.owner = w,
                              !.gen = g, !.partial = g]
        /\ shared' = (shared \/ pathJob[g] \notin {Nobody, mem[w].job})
        /\ pathJob' = [pathJob EXCEPT ![g] = mem[w].job]
        /\ outdated' = (outdated \/ (mem[w].prevResume > 0 /\ mem[w].prevPath # row.partial))
        /\ goOn
     \/ /\ row.state # "completed" /\ ~MayBegin(w)
        /\ Throw(w) /\ UNCHANGED <<row, pathJob, shared, outdated>>
  /\ UNCHANGED <<remote, lease, related, partial, file, objects, claims, faults>>

\* The file of this generation, else a copy of the one before, else an empty one.  Path and
\* offset of the one before are those ensureAssetSource read, before the claim; the offset
\* and validator to go on from are the claimed row's.
Prepared(w) ==
  LET m == mem[w] IN
  IF Own(w) # 0 THEN file[Own(w)]
  ELSE IF m.prevPath # 0 /\ m.prevResume > 0 /\ partial[m.prevPath] # 0
       THEN file[partial[m.prevPath]] ELSE <<>>

\* decideAssetResume: from the durable offset if the file has that much and the row a
\* validator, else from the beginning.
ResumeOffset(w, local) ==
  IF mem[w].resume <= local /\ mem[w].validator # NoValidator THEN mem[w].resume ELSE 0

Prepare(w) ==
  /\ pc[w] = "prepare"
  /\ LET content == Prepared(w)
         offset == ResumeOffset(w, Len(content)) IN
     /\ IF Own(w) # 0 THEN UNCHANGED <<file, partial>>
        ELSE /\ Len(file) < MaxFiles
             /\ file' = Append(file, content)
             /\ partial' = [partial EXCEPT ![mem[w].path] = Len(file) + 1]
     /\ Remember(w, [mem[w] EXCEPT !.offset = offset])
     /\ Goto(w, IF offset = 0 /\ content # <<>> /\ Len(content) >= mem[w].resume
                THEN "truncate" ELSE "request")
  /\ UNCHANGED <<row, objects, locks, world, faults>>

\* openFile refuses a file that is gone.
Truncate(w) ==
  /\ pc[w] = "truncate"
  /\ IF Own(w) = 0 THEN Throw(w) /\ UNCHANGED file
     ELSE file' = [file EXCEPT ![Own(w)] = <<>>] /\ Goto(w, "request") /\ UNCHANGED <<mem, locks>>
  /\ UNCHANGED <<row, partial, objects, world, faults>>

-----------------------------------------------------------------------------
(***************************************************************************)
(* The request.  The server honours If-Range or shows its validator: a     *)
(* partial answer of another version than the one asked for has one.       *)
(***************************************************************************)
\* The partial file is emptied and the request made again without a range, once.
Restart(w) ==
  IF mem[w].restarted \/ Own(w) = 0
  THEN Throw(w) /\ UNCHANGED file
  ELSE /\ file' = [file EXCEPT ![Own(w)] = <<>>]
       /\ Remember(w, [mem[w] EXCEPT !.restarted = TRUE, !.offset = 0])
       /\ UNCHANGED <<pc, locks>>

\* 416, to a request with a range.
RangeRefused(w) ==
  /\ pc[w] = "request" /\ mem[w].offset > 0
  /\ Restart(w)
  /\ UNCHANGED <<row, partial, objects, world, faults>>

Shown == {NoValidator, remote}
Newer(shown, old) == IF shown # NoValidator THEN shown ELSE old

Streams(w, offset, shown) ==
  /\ Remember(w, [mem[w] EXCEPT !.offset = offset, !.version = remote, !.validator = Newer(shown, @),
                                !.restarted = @ \/ (mem[w].offset > 0 /\ offset = 0)])
  /\ Goto(w, "open") /\ UNCHANGED locks

\* 206 from the offset asked for.
Changed(w, shown) ==
  mem[w].validator # NoValidator /\ shown # NoValidator /\ mem[w].validator # shown

PartialAnswer(w) ==
  /\ pc[w] = "request" /\ mem[w].offset > 0
  /\ \E shown \in Shown :
       /\ mem[w].validator \in {shown, remote} \/ shown # NoValidator
       /\ IF Changed(w, shown) THEN Restart(w)
          ELSE Streams(w, mem[w].offset, shown) /\ UNCHANGED file
  /\ UNCHANGED <<row, partial, objects, world, faults>>

\* 200: a range that was asked for is given up, once.
FullAnswer(w) ==
  /\ pc[w] = "request"
  /\ \E shown \in Shown :
       IF mem[w].offset > 0
       THEN IF mem[w].restarted \/ Own(w) = 0 THEN Throw(w) /\ UNCHANGED file
            ELSE file' = [file EXCEPT ![Own(w)] = <<>>] /\ Streams(w, 0, shown)
       ELSE Streams(w, 0, shown) /\ UNCHANGED file
  /\ UNCHANGED <<row, partial, objects, world, faults>>

Open(w) ==
  /\ pc[w] = "open"
  /\ IF Own(w) = 0 THEN Throw(w) /\ UNCHANGED file
     ELSE /\ file' = [file EXCEPT ![Own(w)] = Resized(@, mem[w].offset)]
          /\ Remember(w, [mem[w] EXCEPT !.handle = Own(w)])
          /\ Goto(w, "stream") /\ UNCHANGED locks
  /\ UNCHANGED <<row, partial, objects, world, faults>>

\* The handle stays with its file, whatever name that has by now.
Chunk(w) ==
  /\ pc[w] = "stream" /\ mem[w].offset < Length
  /\ LET i == mem[w].offset + 1 IN
     /\ file' = [file EXCEPT ![mem[w].handle] = PutChunk(@, i, mem[w].version)]
     /\ Remember(w, [mem[w] EXCEPT !.offset = i])
  /\ UNCHANGED <<row, partial, objects, locks, pc, world, faults>>

\* saveAssetProgress, at the checkpoint interval and at the end of the stream.
Saved(w, next) ==
  IF HoldsClaim(w)
  THEN /\ row' = [row EXCEPT !.resume = mem[w].offset, !.validator = mem[w].validator]
       /\ Goto(w, next) /\ UNCHANGED <<mem, locks>>
  ELSE Throw(w) /\ UNCHANGED row

SaveProgress(w) ==
  /\ pc[w] = "stream" /\ mem[w].offset \in 1..(Length - 1)
  /\ row.resume # mem[w].offset \/ row.validator # mem[w].validator
  /\ Saved(w, "stream")
  /\ UNCHANGED <<partial, file, objects, world, faults>>

\* A bug: a stream that breaks off is taken for the whole asset.
EndAnywhere(w) ==
  /\ pc[w] = "stream"
  /\ Saved(w, "hash")
  /\ UNCHANGED <<partial, file, objects, world, faults>>

EndStream(w) ==
  /\ pc[w] = "stream" /\ mem[w].offset = Length
  /\ Saved(w, "hash")
  /\ UNCHANGED <<partial, file, objects, world, faults>>

\* Cancellation, network, authorization, file system: any wait may throw.
Fails(w) ==
  /\ pc[w] \in Stages \ {"idle", "failed", "release"}
  /\ Fault /\ Throw(w)
  /\ UNCHANGED <<row, partial, file, objects, world>>

-----------------------------------------------------------------------------
(***************************************************************************)
(* Verification, promotion and finalization.                               *)
(***************************************************************************)
Hash(w) ==
  /\ pc[w] = "hash"
  /\ IF Own(w) = 0 THEN Throw(w)
     ELSE Remember(w, [mem[w] EXCEPT !.sha = file[Own(w)]]) /\ Goto(w, "assert") /\ UNCHANGED locks
  /\ UNCHANGED <<row, partial, file, objects, world, faults>>

AssertOwnership(w) ==
  /\ pc[w] = "assert"
  /\ IF HoldsClaim(w) THEN Goto(w, "lock") /\ UNCHANGED <<mem, locks>> ELSE Throw(w)
  /\ UNCHANGED <<row, partial, file, objects, world, faults>>

\* The lock file is made exclusively, then written: one that cannot be written stays
\* behind.  A hundred tries at a lock that is held the worker gives up, which is Fails.
AcquireContentLock(w) ==
  /\ pc[w] = "lock" /\ mem[w].sha \notin locks
  /\ locks' = locks \cup {mem[w].sha}
  /\ \/ Goto(w, "store") /\ UNCHANGED faults
     \/ Goto(w, "failed") /\ Fault
  /\ UNCHANGED <<row, partial, file, objects, mem, world>>

\* An object of that name with those bytes makes the partial file superfluous; with
\* other bytes it is a conflict; otherwise the partial file is renamed.
Store(w) ==
  /\ pc[w] = "store"
  /\ LET named == {o \in objects : o.sha = mem[w].sha}
         dropped == partial' = [partial EXCEPT ![mem[w].path] = 0] IN
     \/ /\ named # {} /\ \A o \in named : file[o.file] = mem[w].sha
        /\ dropped /\ Goto(w, "finalize") /\ UNCHANGED <<objects, mem, locks>>
     \/ /\ named = {} /\ Own(w) # 0
        /\ objects' = objects \cup {[sha |-> mem[w].sha, file |-> Own(w)]}
        /\ dropped /\ Goto(w, "finalize") /\ UNCHANGED <<mem, locks>>
     \/ /\ IF named = {} THEN Own(w) = 0 ELSE \E o \in named : file[o.file] # mem[w].sha
        /\ Throw(w) /\ UNCHANGED <<partial, objects>>
  /\ UNCHANGED <<row, file, world, faults>>

Finalize(w) ==
  /\ pc[w] = "finalize"
  /\ IF HoldsClaim(w)
     THEN /\ row' = [row EXCEPT !.state = "completed", !.sha = mem[w].sha, !.job = Nobody,
                                !.owner = Nobody, !.partial = 0, !.resume = Length]
          /\ Goto(w, "release") /\ UNCHANGED <<mem, locks>>
     ELSE Throw(w) /\ UNCHANGED row
  /\ UNCHANGED <<partial, file, objects, world, faults>>

\* The committed checkpoint and the completed outputs are recorded, or refused; then
\* the lock is released either way.
Release(w) ==
  /\ pc[w] = "release"
  /\ locks' = locks \ {mem[w].sha}
  /\ Done(w)
  /\ UNCHANGED <<row, partial, file, objects, world, faults>>

\* markAssetInterrupted: the next one begins at the saved offset.
MarkInterrupted(w) ==
  row' = [row EXCEPT !.state = "interrupted", !.job = Nobody, !.owner = Nobody]

\* The catch of downloadAsset asks for the row once more and marks it, if the claim is
\* still this worker's.  (A page that uses the asset is recorded by the first call.)
Interrupted(w) ==
  /\ pc[w] = "failed"
  /\ IF row.state = "downloading" /\ HoldsClaim(w)
     THEN MarkInterrupted(w) /\ UNCHANGED related
     ELSE EnsureAssetSource(w)
  /\ Done(w)
  /\ UNCHANGED <<remote, lease, partial, file, objects, locks, pathJob, shared,
                 outdated, claims, faults>>

Next ==
  \/ RemoteChanges \/ Crash
  \/ \E j \in Job : Expire(j) \/ \E w \in Worker : Claim(w, j)
  \/ \E w \in Worker :
       \/ Ensure(w) \/ Begin(w) \/ Prepare(w) \/ Truncate(w)
       \/ RangeRefused(w) \/ PartialAnswer(w) \/ FullAnswer(w)
       \/ Open(w) \/ Chunk(w) \/ SaveProgress(w) \/ EndStream(w) \/ Fails(w)
       \/ Hash(w) \/ AssertOwnership(w) \/ AcquireContentLock(w) \/ Store(w) \/ Finalize(w)
       \/ Release(w) \/ Interrupted(w)

Spec == Init /\ [][Next]_vars

-----------------------------------------------------------------------------
(***************************************************************************)
(* Properties.                                                             *)
(***************************************************************************)
IsWhole(s) == \E v \in Version : s = [i \in 1..Length |-> v]

\* ASSET_DOWNLOADER.md: "SQLite is finalized only after the persisted bytes pass
\* verification."  The object of a completed asset has the bytes its row names.
CompletedAssetIsVerified ==
  row.state = "completed" => \E o \in objects : o.sha = row.sha /\ file[o.file] = row.sha

\* ASSET_DOWNLOADER.md: "An unexpired active owner prevents a second download", and nothing
\* else: a worker with a running Lease is refused only while the Lease under which the
\* source was claimed runs.  assets.ts says so to the worker: "Another active worker owns
\* this Asset source".
RefusedByItsOwner ==
  [][\A w \in Worker :
       pc[w] = "begin" /\ pc'[w] = "failed" /\ HoldsLease(w) /\ faults' = faults
       => row.job \in Job /\ lease[row.job].live /\ lease[row.job].gen = row.gen]_vars

\* ASSET_DOWNLOADER.md: a changed validator or an ignored range "causes a bounded restart
\* rather than combining different byte versions."  Of an asset no two page jobs used one
\* partial path for, the completed bytes are one version, whole.
VersionsAreNotCombined == row.state = "completed" /\ ~shared => IsWhole(row.sha)

\* Expired owners go on writing, generations take over each other's partial files, the
\* process dies and the remote asset changes under a resumed download: as long as no two
\* page jobs use one partial path, and none goes on from another partial file than the one
\* its offset and validator are of, a completed asset is one version of the remote asset,
\* whole, and its object has those bytes; no object has other bytes than its name says.
AssetIsOneVersion ==
  ~shared /\ ~outdated =>
    /\ row.state = "completed" => IsWhole(row.sha)
    /\ CompletedAssetIsVerified
    /\ \A o \in objects : file[o.file] = o.sha
=============================================================================
