----------------------------- MODULE AssetProofs -----------------------------
(***************************************************************************)
(* A completed asset is one version of the remote asset, whole, and its    *)
(* content object has its bytes: for any number of workers, page jobs,     *)
(* generations, versions, chunks and faults, as long as no two page jobs   *)
(* used one partial path and no download began from an outdated partial    *)
(* file.                                                                   *)
(*                                                                         *)
(* Then each claim has a partial path of its own, which its worker alone   *)
(* writes until the asset is completed; and who goes on from the partial   *)
(* file of an earlier claim, while that claim's worker still writes it,    *)
(* finds in it as far as the offset goes either one version that the       *)
(* validator is of, or the validator of a version the server has no more.  *)
(***************************************************************************)
EXTENDS AssetDownload, TLAPS

-----------------------------------------------------------------------------
(***************************************************************************)
(* The invariant.                                                          *)
(***************************************************************************)
\* A worker that has begun and may use its partial file.
Filing == {"truncate", "request", "open", "stream", "hash", "assert", "lock", "store"}
Begun == Filing \cup {"prepare", "finalize", "release"}

Fields == {"job", "gen", "path", "prevPath", "prevResume", "resume", "offset", "validator",
           "restarted", "handle", "version", "sha"}

Remembered(m) ==
  /\ DOMAIN m = Fields
  /\ m.path \in 0..MaxGeneration /\ m.prevPath \in 0..MaxGeneration
  /\ m.prevResume \in Nat /\ m.resume \in Nat /\ m.offset \in Nat
  /\ m.validator \in 0..remote /\ m.version \in 0..remote

Typed ==
  /\ remote \in Version
  /\ DOMAIN lease = Job
  /\ \A j \in Job : DOMAIN lease[j] = {"gen", "holder", "live"} /\ lease[j].gen \in Nat
  /\ DOMAIN row = {"state", "job", "owner", "gen", "resume", "validator", "partial", "sha"}
  /\ row.gen \in 0..MaxGeneration /\ row.partial \in {0, row.gen} /\ row.resume \in Nat
  /\ row.validator \in 0..remote
  /\ file \in Seq(Seq(Nat)) /\ partial \in [Generation -> 0..Len(file)]
  /\ \A o \in objects : o.file \in 1..Len(file)
  /\ pc \in [Worker -> Stages]
  /\ DOMAIN mem = Worker /\ \A w \in Worker : Remembered(mem[w])
  /\ pathJob \in [Generation -> Job \cup {Nobody}]

\* Every claim is one worker's, of a generation of its job, and begins at most once.
Claimed ==
  /\ \A w \in Worker : pc[w] # "idle" =>
       /\ mem[w].job \in Job /\ mem[w].gen \in Generation
       /\ mem[w].gen <= lease[mem[w].job].gen
       /\ pc[w] \in {"ensure", "begin"} => pathJob[mem[w].gen] # mem[w].job
  /\ \A v, w \in Worker : v # w /\ pc[v] # "idle" /\ pc[w] # "idle"
       => mem[v].job # mem[w].job \/ mem[v].gen # mem[w].gen
  /\ \A g \in Generation : pathJob[g] \in Job => g <= lease[pathJob[g]].gen

\* Paths are of claims that began.
Named ==
  /\ row.job # Nobody => row.state = "downloading" /\ row.partial # 0
  /\ row.state = "completed" => row.gen # 0
  /\ row.gen # 0 => pathJob[row.gen] # Nobody
  /\ row.partial # 0 => pathJob[row.partial] # Nobody
  /\ \A g \in Generation : partial[g] # 0 => pathJob[g] # Nobody
  /\ \A w \in Worker : mem[w].prevPath # 0 => pathJob[mem[w].prevPath] # Nobody

\* One that took a completed source as it is, or completed it.
Guest(w) == row.state = "completed" /\ mem[w].path = row.gen

\* Whoever has begun uses the path of its own claim, or is a guest at the completed one's.
Owned ==
  \A w \in Worker : pc[w] \in Begun =>
    /\ mem[w].path # 0
    /\ Guest(w) \/ (mem[w].path = mem[w].gen /\ pathJob[mem[w].path] = mem[w].job)

\* Files have one name, and objects none that a worker writes by.
Apart ==
  /\ \A g, h \in Generation : partial[g] # 0 /\ partial[g] = partial[h] => g = h
  /\ \A o \in objects : /\ \A g \in Generation : partial[g] # o.file
                        /\ file[o.file] = o.sha

\* What a worker has of files, by stage.
Placed(w) ==
  /\ pc[w] \in Filing => Own(w) # 0
  /\ pc[w] = "stream" => mem[w].handle = Own(w)
  /\ pc[w] = "prepare" /\ ~Guest(w) => Own(w) = 0 /\ mem[w].prevPath # mem[w].path
  /\ pc[w] \in {"lock", "store"} => ~Guest(w) /\ file[Own(w)] = mem[w].sha
  /\ pc[w] = "finalize" => ~Guest(w) /\ \E o \in objects : o.sha = mem[w].sha

Uniform(s, n, u) == n <= Len(s) /\ \A i \in 1..n : s[i] = u

\* Resumed under validator v, bytes of version u are not taken for those of another.
Tells(v, u) == v = NoValidator \/ v = u \/ v < remote

Resumable(s, n, v) ==
  n > 0 /\ n <= Len(s) /\ v # NoValidator => \E u \in Nat : Uniform(s, n, u) /\ Tells(v, u)

\* What the bytes of a worker are, by stage.
Sound(w) ==
  /\ pc[w] = "truncate" => mem[w].offset = 0
  /\ pc[w] = "request" /\ mem[w].offset > 0 =>
       /\ mem[w].validator # NoValidator /\ mem[w].offset <= Len(file[Own(w)])
       /\ Resumable(file[Own(w)], mem[w].offset, mem[w].validator)
  /\ pc[w] \in {"open", "stream"} =>
       mem[w].version # 0 /\ Tells(mem[w].validator, mem[w].version)
  /\ pc[w] = "open" => Uniform(file[Own(w)], mem[w].offset, mem[w].version)
  /\ pc[w] = "stream" => file[Own(w)] = [i \in 1..mem[w].offset |-> mem[w].version]
  /\ pc[w] = "hash" => IsWhole(file[Own(w)])
  /\ pc[w] = "assert" => IsWhole(mem[w].sha) /\ mem[w].sha = file[Own(w)]
  /\ pc[w] \in {"lock", "store", "finalize"} => IsWhole(mem[w].sha)

\* Offset n and validator v may be used with the file of path p, whatever its writer does.
Agrees(p, n, v) ==
  /\ partial[p] # 0 => Resumable(file[partial[p]], n, v)
  /\ \A w \in Worker : mem[w].path = p =>
       /\ pc[w] = "prepare" => n = mem[w].resume /\ v = mem[w].validator
       /\ pc[w] \in {"open", "stream"} => Tells(v, mem[w].version)

GoesOn(w) == pc[w] = "prepare" /\ mem[w].prevPath # 0 /\ mem[w].prevResume > 0

Continued ==
  /\ row.partial # 0 => Agrees(row.partial, row.resume, row.validator)
  /\ \A w \in Worker : GoesOn(w) => Agrees(mem[w].prevPath, mem[w].resume, mem[w].validator)

Complete ==
  row.state = "completed" => IsWhole(row.sha) /\ \E o \in objects : o.sha = row.sha

Kept == Claimed /\ Named /\ Owned /\ Apart /\ Complete /\ \A w \in Worker : Placed(w)
SoundlyContinued == row.state # "completed" => Continued /\ \A w \in Worker : Sound(w)

Clean == ~shared /\ ~outdated

AssetInv == Clean => Typed /\ Kept /\ SoundlyContinued

-----------------------------------------------------------------------------
(***************************************************************************)
(* Files.                                                                  *)
(***************************************************************************)
LEMMA FileWritten ==
  ASSUME NEW s \in Seq(Seq(Nat)), NEW f \in 1..Len(s), NEW c \in Seq(Nat)
  PROVE  LET t == [s EXCEPT ![f] = c] IN
         /\ t \in Seq(Seq(Nat)) /\ Len(t) = Len(s) /\ t[f] = c
         /\ \A g \in 1..Len(s) : g # f => t[g] = s[g]
  OBVIOUS

LEMMA FileMade ==
  ASSUME NEW s \in Seq(Seq(Nat)), NEW c \in Seq(Nat)
  PROVE  LET t == Append(s, c) IN
         /\ t \in Seq(Seq(Nat)) /\ Len(t) = Len(s) + 1 /\ t[Len(s) + 1] = c
         /\ \A g \in 1..Len(s) : t[g] = s[g]
  OBVIOUS

LEMMA ResizedKeeps ==
  ASSUME NEW s \in Seq(Nat), NEW n \in Nat
  PROVE  /\ Resized(s, n) \in Seq(Nat) /\ Len(Resized(s, n)) = n
         /\ \A i \in 1..n : i <= Len(s) => Resized(s, n)[i] = s[i]
  BY DEF Resized

\* A file of one version stays one when the next chunk of that version is written.
LEMMA OneMoreChunk ==
  ASSUME NEW n \in Nat, NEW v \in Nat
  PROVE  LET s == [i \in 1..n |-> v] IN
         /\ s \in Seq(Nat)
         /\ PutChunk(s, n + 1, v) = [i \in 1..(n + 1) |-> v]
<1> DEFINE s == [i \in 1..n |-> v]
           r == [i \in 1..(n + 1) |-> IF i <= n THEN s[i] ELSE 0]
<1>1. s \in Seq(Nat) /\ Len(s) = n
  OBVIOUS
<1>2. Resized(s, n + 1) = r
  BY <1>1 DEF Resized
<1>3. PutChunk(s, n + 1, v) = [r EXCEPT ![n + 1] = v]
  <2> HIDE DEF s, r
  <2> QED BY <1>1, <1>2 DEF PutChunk
<1>4. [r EXCEPT ![n + 1] = v] = [i \in 1..(n + 1) |-> v]
  <2>1. \A i \in 1..(n + 1) : i # n + 1 => i \in 1..n /\ r[i] = v
    OBVIOUS
  <2>2. r = [i \in 1..(n + 1) |-> r[i]]
    OBVIOUS
  <2> HIDE DEF r
  <2> QED BY <2>1, <2>2
<1> QED BY <1>1, <1>3, <1>4

LEMMA ChunkTyped ==
  ASSUME NEW s \in Seq(Nat), NEW n \in Nat, NEW v \in Nat
  PROVE  PutChunk(s, n + 1, v) \in Seq(Nat)
<1> DEFINE k == IF n + 1 > Len(s) THEN n + 1 ELSE Len(s)
<1>1. k \in Nat /\ n + 1 \in 1..k
  OBVIOUS
<1>2. Resized(s, k) \in Seq(Nat) /\ Len(Resized(s, k)) = k
  BY <1>1, ResizedKeeps
<1> HIDE DEF k
<1>3. [Resized(s, k) EXCEPT ![n + 1] = v] \in Seq(Nat)
  BY <1>1, <1>2
<1> QED BY <1>3 DEF PutChunk, k

LEMMA Uniformly ==
  ASSUME NEW s \in Seq(Nat), NEW n \in Nat, NEW u \in Nat, Uniform(s, n, u)
  PROVE  Resized(s, n) = [i \in 1..n |-> u]
  BY DEF Resized, Uniform

\* A file of one version may be used by all whose validator tells.
LEMMA OneVersionFits ==
  ASSUME NEW k \in Nat, NEW u \in Nat, NEW n \in Nat, NEW v, Tells(v, u)
  PROVE  Resumable([i \in 1..k |-> u], n, v)
<1> DEFINE s == [i \in 1..k |-> u]
<1>1. s \in Seq(Nat) /\ Len(s) = k /\ \A i \in 1..k : s[i] = u
  OBVIOUS
<1> HIDE DEF s
<1>2. n <= Len(s) => Uniform(s, n, u)
  BY <1>1 DEF Uniform
<1> QED BY <1>2 DEF Resumable, s

\* Whoever has begun has its path for itself, guests apart.
LEMMA Alone ==
  ASSUME Typed, Claimed, Owned
  PROVE  \A v, w \in Worker : pc[v] \in Begun /\ pc[w] \in Begun /\ mem[v].path = mem[w].path
           => v = w \/ (Guest(v) /\ Guest(w))
  BY DEF Claimed, Owned, Guest, Begun, Filing

-----------------------------------------------------------------------------
(***************************************************************************)
(* A step of one worker that leaves names, objects and claims as they are: *)
(* it may rewrite its own file and what the row says of its download.      *)
(***************************************************************************)
Stays(w) ==
  /\ UNCHANGED <<remote, lease, pathJob>>
  /\ pc' \in [Worker -> Stages] /\ DOMAIN mem' = Worker
  /\ \A v \in Worker : v # w => pc'[v] = pc[v] /\ mem'[v] = mem[v]
  /\ Remembered(mem'[w])
  /\ pc'[w] \notin {"ensure", "begin", "prepare"}
  /\ pc'[w] = "idle" => mem'[w].prevPath = 0
  /\ pc'[w] # "idle" =>
       /\ pc[w] # "idle" /\ mem'[w].job = mem[w].job /\ mem'[w].gen = mem[w].gen
       /\ mem'[w].prevPath = mem[w].prevPath
  /\ pc'[w] \in Begun => pc[w] \in Begun /\ mem'[w].path = mem[w].path

Rewrites(w) ==
  /\ UNCHANGED <<partial, objects>>
  /\ \/ file' = file
     \/ pc[w] \in Filing /\ \E c \in Seq(Nat) : file' = [file EXCEPT ![Own(w)] = c]

RowStays ==
  /\ DOMAIN row' = {"state", "job", "owner", "gen", "resume", "validator", "partial", "sha"}
  /\ row'.gen = row.gen /\ row'.partial = row.partial
  /\ row'.resume \in Nat /\ row'.validator \in 0..remote
  /\ row'.state = "completed" <=> row.state = "completed"
  /\ row.state = "completed" => row'.sha = row.sha
  /\ row'.job # Nobody => row'.job = row.job /\ row'.state = row.state

Local(w) == w \in Worker /\ Stays(w) /\ Rewrites(w) /\ RowStays

\* The files of others and of objects stay as they are.
LEMMA OthersFiles ==
  ASSUME Typed, Kept, NEW w, Local(w)
  PROVE  /\ file' \in Seq(Seq(Nat)) /\ Len(file') = Len(file)
         /\ \A f \in 1..Len(file) :
              file'[f] # file[f] => pc[w] \in Filing /\ f = Own(w)
         /\ \A o \in objects : file'[o.file] = file[o.file]
         /\ \A g \in Generation : partial[g] # 0 /\ file'[partial[g]] # file[partial[g]]
              => pc[w] \in Filing /\ g = mem[w].path
         /\ \A v \in Worker : v # w /\ pc[v] \in Filing /\ ~Guest(v)
              => file'[Own(v)] = file[Own(v)]
<1>1. CASE file' = file
  BY <1>1 DEF Typed
<1>2. CASE pc[w] \in Filing /\ \E c \in Seq(Nat) : file' = [file EXCEPT ![Own(w)] = c]
  <2>1. mem[w].path \in Generation /\ Own(w) \in 1..Len(file)
    BY <1>2 DEF Typed, Kept, Owned, Placed, Begun, Remembered, Generation, Own, Local
  <2>2. PICK c \in Seq(Nat) : file' = [file EXCEPT ![Own(w)] = c]
    BY <1>2
  <2>3. /\ file' \in Seq(Seq(Nat)) /\ Len(file') = Len(file)
        /\ \A f \in 1..Len(file) : f # Own(w) => file'[f] = file[f]
    BY <2>1, <2>2, FileWritten DEF Typed
  <2>4. \A o \in objects : o.file \in 1..Len(file) /\ o.file # Own(w)
    BY <2>1 DEF Typed, Kept, Apart, Own
  <2>5. \A g \in Generation : partial[g] # 0 =>
          partial[g] \in 1..Len(file) /\ (partial[g] = Own(w) => g = mem[w].path)
    BY <2>1 DEF Typed, Kept, Apart, Own
  <2>6. \A v \in Worker : v # w /\ pc[v] \in Filing /\ ~Guest(v) =>
          Own(v) \in 1..Len(file) /\ Own(v) # Own(w)
    <3>1. \A v \in Worker : pc[v] \in Filing => mem[v].path \in Generation /\ Own(v) # 0
      BY DEF Typed, Kept, Owned, Placed, Begun, Remembered, Generation, Own
    <3>2. \A v \in Worker : v # w /\ pc[v] \in Filing /\ ~Guest(v) => mem[v].path # mem[w].path
      BY <1>2, Alone DEF Kept, Begun, Local
    <3> QED BY <3>1, <3>2, <2>5 DEF Own
  <2> QED BY <1>2, <2>3, <2>4, <2>5, <2>6
<1> QED BY <1>1, <1>2 DEF Local, Rewrites

LEMMA LocalTyped ==
  ASSUME Typed, Kept, NEW w, Local(w)
  PROVE  Typed'
<1>1. file' \in Seq(Seq(Nat)) /\ Len(file') = Len(file)
  BY OthersFiles
<1>2. \A v \in Worker : Remembered(mem'[v])
  BY DEF Typed, Local, Stays
<1>3. \A v \in Worker : Remembered(mem[v])'
  BY <1>2 DEF Remembered, Local, Stays
<1> QED BY <1>1, <1>3 DEF Typed, Local, Stays, Rewrites, RowStays

LEMMA LocalKept ==
  ASSUME Typed, Kept, NEW w, Local(w)
  PROVE  /\ Claimed' /\ Named' /\ Owned' /\ Apart' /\ Complete'
         /\ \A v \in Worker : v # w => Placed(v)'
<1> USE DEF Local
<1>0. \A v \in Worker : v # w => (Guest(v)' <=> Guest(v))
  BY DEF Guest, Stays, RowStays
<1>1. Claimed'
  <2>1. \A v \in Worker : pc'[v] # "idle" =>
          pc[v] # "idle" /\ mem'[v].job = mem[v].job /\ mem'[v].gen = mem[v].gen
    BY DEF Stays
  <2>2. \A v \in Worker : pc'[v] \in {"ensure", "begin"} => pc'[v] = pc[v]
    BY DEF Stays
  <2>3. lease' = lease /\ pathJob' = pathJob /\ Claimed
    BY DEF Stays, Kept
  <2> QED BY <2>1, <2>2, <2>3 DEF Claimed
<1>2. Named'
  BY DEF Typed, Kept, Named, Stays, Rewrites, RowStays
<1>3. Owned'
  <2>1. \A v \in Worker : pc'[v] \in Begun => pc[v] \in Begun /\ mem'[v].path = mem[v].path
                                              /\ mem'[v].job = mem[v].job /\ mem'[v].gen = mem[v].gen
    BY DEF Stays, Begun, Filing
  <2> QED BY <2>1 DEF Kept, Owned, Guest, Stays, RowStays
<1>4. Apart'
  BY OthersFiles DEF Typed, Kept, Apart, Rewrites
<1>5. Complete'
  BY DEF Kept, Complete, Rewrites, RowStays
<1>6. \A v \in Worker : v # w => Placed(v)'
  <2> SUFFICES ASSUME NEW v \in Worker, v # w PROVE Placed(v)'
    OBVIOUS
  <2>1. pc'[v] = pc[v] /\ mem'[v] = mem[v] /\ Own(v)' = Own(v)
    BY DEF Stays, Rewrites, Own
  <2>2. pc[v] \in Filing /\ ~Guest(v) => file'[Own(v)] = file[Own(v)]
    BY OthersFiles
  <2>3. Placed(v)
    BY DEF Kept
  <2> QED BY <1>0, <2>1, <2>2, <2>3 DEF Placed, Rewrites, Filing
<1> QED BY <1>1, <1>2, <1>3, <1>4, <1>5, <1>6

\* What the file of w holds now may be used wherever what it held might be.
Fits(w) ==
  \A n \in Nat, v \in 0..remote : Agrees(mem[w].path, n, v) =>
    /\ pc[w] \in Filing => Resumable(file'[Own(w)], n, v)
    /\ pc'[w] \in {"open", "stream"} => Tells(v, mem'[w].version)

LEMMA LocalSound ==
  ASSUME Typed, Kept, NEW w, Local(w), SoundlyContinued, row.state # "completed"
  PROVE  \A v \in Worker : v # w => Sound(v)'
<1> SUFFICES ASSUME NEW v \in Worker, v # w PROVE Sound(v)'
  OBVIOUS
<1>1. pc'[v] = pc[v] /\ mem'[v] = mem[v] /\ Own(v)' = Own(v) /\ remote' = remote
  BY DEF Local, Stays, Rewrites, Own
<1>2. pc[v] \in Filing => file'[Own(v)] = file[Own(v)]
  BY OthersFiles DEF Guest
<1>3. Sound(v)
  BY DEF SoundlyContinued
<1>4. pc[v] \in Filing => file'[Own(v)'] = file[Own(v)]
  BY <1>1, <1>2
<1>5. pc[v] \in {"request", "open", "stream", "hash", "assert"} => pc[v] \in Filing
  BY DEF Filing
<1>6. PICK m, f : m = mem[v] /\ f = file[Own(v)]
  OBVIOUS
<1>7. m = mem'[v]
  BY <1>1, <1>6
<1>8. pc[v] \in {"request", "open", "stream", "hash", "assert"} => f = file[Own(v)]'
  BY <1>4, <1>5, <1>6
<1>9. \A n, u : Resumable(f, n, u)' <=> Resumable(f, n, u)
  BY <1>1 DEF Resumable, Tells
<1>10. Tells(m.validator, m.version)' <=> Tells(m.validator, m.version)
  BY <1>1 DEF Tells
<1>11. /\ pc[v] = "truncate" => m.offset = 0
       /\ pc[v] = "request" /\ m.offset > 0 =>
            /\ m.validator # NoValidator /\ m.offset <= Len(f)
            /\ Resumable(f, m.offset, m.validator)
       /\ pc[v] \in {"open", "stream"} => m.version # 0 /\ Tells(m.validator, m.version)
       /\ pc[v] = "open" => Uniform(f, m.offset, m.version)
       /\ pc[v] = "stream" => f = [i \in 1..m.offset |-> m.version]
       /\ pc[v] = "hash" => IsWhole(f)
       /\ pc[v] = "assert" => IsWhole(m.sha) /\ m.sha = f
       /\ pc[v] \in {"lock", "store", "finalize"} => IsWhole(m.sha)
  BY <1>3, <1>6 DEF Sound
<1> QED BY <1>1, <1>7, <1>8, <1>9, <1>10, <1>11 DEF Sound, Resumable, Tells

\* A pair that agreed with a path still does.
LEMMA LocalAgrees ==
  ASSUME Typed, Kept, NEW w, Local(w), row.state # "completed",
         pc[w] \in Begun \/ pc'[w] \notin Begun, Fits(w)
  PROVE  \A p \in Generation, n \in Nat, v \in 0..remote : Agrees(p, n, v) => Agrees(p, n, v)'
<1> SUFFICES ASSUME NEW p \in Generation, NEW n \in Nat, NEW v \in 0..remote, Agrees(p, n, v)
             PROVE  Agrees(p, n, v)'
  OBVIOUS
<1>1. partial' = partial /\ remote' = remote
  BY DEF Local, Stays, Rewrites
<1>2. partial[p] # 0 => Resumable(file'[partial[p]], n, v)
  <2>1. CASE file'[partial[p]] = file[partial[p]]
    BY <2>1 DEF Agrees
  <2>2. CASE partial[p] # 0 /\ file'[partial[p]] # file[partial[p]]
    <3>1. pc[w] \in Filing /\ p = mem[w].path
      BY <2>2, OthersFiles
    <3> QED BY <3>1 DEF Fits, Own
  <2> QED BY <2>1, <2>2
<1>3. \A x \in Worker : mem'[x].path = p =>
        /\ pc'[x] = "prepare" => n = mem'[x].resume /\ v = mem'[x].validator
        /\ pc'[x] \in {"open", "stream"} => Tells(v, mem'[x].version)
  <2> SUFFICES ASSUME NEW x \in Worker, mem'[x].path = p
               PROVE  /\ pc'[x] = "prepare" => n = mem'[x].resume /\ v = mem'[x].validator
                      /\ pc'[x] \in {"open", "stream"} => Tells(v, mem'[x].version)
    OBVIOUS
  <2>1. CASE x # w
    BY <2>1 DEF Local, Stays, Agrees
  <2>2. CASE x = w
    <3>1. pc'[w] \in {"open", "stream"} => mem[w].path = p
      BY <2>2 DEF Local, Stays, Begun, Filing
    <3>2. pc'[w] # "prepare"
      BY DEF Local, Stays
    <3> QED BY <2>2, <3>1, <3>2 DEF Fits
  <2> QED BY <2>1, <2>2
<1>4. \A x, y : Resumable(x, n, v)' <=> Resumable(x, n, v)
  BY <1>1 DEF Resumable, Tells
<1>5. \A y : Tells(v, y)' <=> Tells(v, y)
  BY <1>1 DEF Tells
<1> QED BY <1>1, <1>2, <1>3, <1>1 DEF Agrees, Resumable, Tells, Uniform

LEMMA LocalContinued ==
  ASSUME Typed, Kept, NEW w, Local(w), SoundlyContinued, row.state # "completed", Fits(w),
         (row.partial # 0 => Agrees(row.partial, row.resume, row.validator))'
  PROVE  Continued'
<1>1. \A v \in Worker : GoesOn(v)' => v # w /\ GoesOn(v) /\ mem'[v] = mem[v]
  BY DEF GoesOn, Local, Stays
<1>2. \A v \in Worker : GoesOn(v) =>
        mem[v].prevPath \in Generation /\ mem[v].resume \in Nat /\ mem[v].validator \in 0..remote
  BY DEF GoesOn, Typed, Remembered, Generation
<1>3. \A v \in Worker : GoesOn(v) => Agrees(mem[v].prevPath, mem[v].resume, mem[v].validator)
  BY DEF SoundlyContinued, Continued
<1>4. \A p \in Generation, n \in Nat, u \in 0..remote : Agrees(p, n, u) => Agrees(p, n, u)'
  BY LocalAgrees DEF Local, Stays
<1>5. ASSUME NEW v \in Worker, GoesOn(v)'
      PROVE  Agrees(mem[v].prevPath, mem[v].resume, mem[v].validator)'
  <2>1. PICK p \in Generation, n \in Nat, u \in 0..remote :
          p = mem[v].prevPath /\ n = mem[v].resume /\ u = mem[v].validator
    BY <1>1, <1>2, <1>5
  <2>2. Agrees(p, n, u)'
    BY <1>1, <1>3, <1>4, <1>5, <2>1
  <2> QED BY <1>1, <1>5, <2>1, <2>2 DEF Agrees
<1> QED BY <1>5 DEF Continued

LEMMA LocalStep ==
  ASSUME Typed, Kept, SoundlyContinued, NEW w, Local(w), Placed(w)',
         row.state # "completed" =>
           /\ Sound(w)' /\ Fits(w)
           /\ (row.partial # 0 => Agrees(row.partial, row.resume, row.validator))'
  PROVE  (Typed /\ Kept /\ SoundlyContinued)'
<1>1. Typed'
  BY LocalTyped
<1>2. Kept'
  BY LocalKept DEF Kept
<1>3. ASSUME row'.state # "completed" PROVE Continued' /\ \A v \in Worker : Sound(v)'
  <2>1. row.state # "completed"
    BY <1>3 DEF Local, RowStays
  <2> QED BY <2>1, LocalContinued, LocalSound
<1> QED BY <1>1, <1>2, <1>3 DEF SoundlyContinued

\* Nothing new in the row about where to go on.
LEMMA LocalQuiet ==
  ASSUME Typed, Kept, SoundlyContinued, NEW w, Local(w), Placed(w)',
         row'.resume = row.resume, row'.validator = row.validator,
         row.state # "completed" => Sound(w)' /\ Fits(w)
  PROVE  (Typed /\ Kept /\ SoundlyContinued)'
<1>1. ASSUME row.state # "completed", row.partial # 0
      PROVE  Agrees(row.partial, row.resume, row.validator)'
  <2>1. PICK p \in Generation, n \in Nat, u \in 0..remote :
          p = row.partial /\ n = row.resume /\ u = row.validator
    BY <1>1 DEF Typed, Generation
  <2>2. Agrees(p, n, u)
    BY <1>1, <2>1 DEF SoundlyContinued, Continued
  <2>3. Agrees(p, n, u)'
    BY <1>1, <2>2, LocalAgrees DEF Local, Stays
  <2> QED BY <2>1, <2>3 DEF Agrees, Local, RowStays
<1>2. row'.partial = row.partial
  BY DEF Local, RowStays
<1> QED BY <1>1, <1>2, LocalStep

-----------------------------------------------------------------------------
(***************************************************************************)
(* The steps of a worker, action by action.                                *)
(***************************************************************************)
LEMMA Updated ==
  ASSUME Typed, NEW w \in Worker, NEW m, NEW s, mem' = [mem EXCEPT ![w] = m],
         pc' = [pc EXCEPT ![w] = s], s \in Stages
  PROVE  /\ DOMAIN mem' = Worker /\ mem'[w] = m /\ pc' \in [Worker -> Stages] /\ pc'[w] = s
         /\ \A v \in Worker : v # w => pc'[v] = pc[v] /\ mem'[v] = mem[v]
  BY DEF Typed

LEMMA RowIsTyped ==
  ASSUME Typed, row' = row PROVE RowStays
  BY DEF Typed, RowStays

\* A step that throws.
LEMMA QuitKeeps ==
  ASSUME Typed, Kept, SoundlyContinued, NEW w \in Worker, Goto(w, "failed"), pc[w] # "idle",
         UNCHANGED <<remote, lease, pathJob, partial, objects, file, row, mem>>
  PROVE  (Typed /\ Kept /\ SoundlyContinued)'
<1>1. pc' \in [Worker -> Stages] /\ pc'[w] = "failed" /\ mem' = mem
      /\ \A v \in Worker : v # w => pc'[v] = pc[v]
  BY DEF Goto, Typed, Stages
<1>2. Local(w)
  BY <1>1, RowIsTyped DEF Local, Stays, Rewrites, Typed, Begun, Filing
<1>3. Placed(w)' /\ Sound(w)'
  BY <1>1 DEF Placed, Sound, Filing
<1>4. Fits(w)
  <2>1. pc[w] \in Filing => Own(w) # 0
    BY DEF Kept, Placed
  <2> QED BY <1>1, <2>1 DEF Fits, Agrees, Own
<1> QED BY <1>2, <1>3, <1>4, LocalQuiet

LEMMA ThrowKeeps ==
  ASSUME Typed, Kept, SoundlyContinued, NEW w \in Worker, Throw(w), pc[w] # "idle",
         UNCHANGED <<remote, lease, pathJob, partial, objects, file, row>>
  PROVE  (Typed /\ Kept /\ SoundlyContinued)'
  BY QuitKeeps DEF Throw

LEMMA TruncateKeeps ==
  ASSUME Typed, Kept, SoundlyContinued, NEW w \in Worker, Truncate(w)
  PROVE  (Typed /\ Kept /\ SoundlyContinued)'
<1> USE DEF Truncate, world
<1>1. CASE Throw(w) /\ UNCHANGED file
  BY <1>1, ThrowKeeps
<1>2. CASE /\ Own(w) # 0 /\ file' = [file EXCEPT ![Own(w)] = <<>>]
           /\ Goto(w, "request") /\ UNCHANGED mem
  <2>1. pc' \in [Worker -> Stages] /\ pc'[w] = "request" /\ mem' = mem
        /\ \A v \in Worker : v # w => pc'[v] = pc[v]
    BY <1>2 DEF Goto, Typed, Stages
  <2>2. Local(w)
    <3>1. Stays(w)
      BY <2>1 DEF Stays, Typed, Begun, Filing
    <3>2. <<>> \in Seq(Nat)
      OBVIOUS
    <3> QED BY <1>2, <3>1, <3>2, RowIsTyped DEF Local, Rewrites, Filing
  <2>3. Placed(w)'
    BY <2>1 DEF Placed, Filing, Kept, Own
  <2>4. row.state # "completed" => Sound(w)'
    <3>1. row.state # "completed" => mem[w].offset = 0
      BY DEF SoundlyContinued, Sound
    <3> QED BY <2>1, <3>1 DEF Sound
  <2>5. Fits(w)
    <3>1. Own(w) \in 1..Len(file)
      BY <1>2 DEF Typed, Kept, Owned, Own, Begun, Filing, Remembered, Generation
    <3>2. file'[Own(w)] = <<>>
      BY <1>2, <3>1 DEF Typed
    <3> QED BY <2>1, <3>2 DEF Fits, Resumable
  <2> QED BY <2>2, <2>3, <2>4, <2>5, LocalQuiet
<1> QED BY <1>1, <1>2

\* A file that is there, and what may be written to it.
LEMMA OwnFile ==
  ASSUME Typed, Kept
  PROVE  \A w \in Worker : pc[w] \in Filing =>
           /\ Own(w) \in 1..Len(file) /\ file[Own(w)] \in Seq(Nat)
           /\ mem[w].path \in Generation
           /\ \A c \in Seq(Nat) : file' = [file EXCEPT ![Own(w)] = c] => file'[Own(w)] = c
<1> SUFFICES ASSUME NEW w \in Worker, pc[w] \in Filing
             PROVE  /\ Own(w) \in 1..Len(file) /\ file[Own(w)] \in Seq(Nat)
                    /\ mem[w].path \in Generation
                    /\ \A c \in Seq(Nat) :
                         file' = [file EXCEPT ![Own(w)] = c] => file'[Own(w)] = c
  OBVIOUS
<1>1. mem[w].path \in Generation /\ Own(w) \in 1..Len(file)
  BY DEF Typed, Kept, Owned, Placed, Own, Begun, Remembered, Generation
<1> QED BY <1>1 DEF Typed

LEMMA StreamsKeeps ==
  ASSUME Typed, Kept, SoundlyContinued, NEW w \in Worker, pc[w] = "request",
         NEW offset \in Nat, NEW shown \in Shown, Streams(w, offset, shown),
         UNCHANGED <<remote, lease, pathJob, partial, objects, row>>,
         file' = file \/ file' = [file EXCEPT ![Own(w)] = <<>>],
         row.state # "completed" => Uniform(file'[Own(w)], offset, remote)
  PROVE  (Typed /\ Kept /\ SoundlyContinued)'
<1>1. PICK m : m = [mem[w] EXCEPT !.offset = offset, !.version = remote,
                     !.validator = Newer(shown, @),
                     !.restarted = @ \/ (mem[w].offset > 0 /\ offset = 0)]
  OBVIOUS
<1>2. /\ DOMAIN m = Fields /\ m.offset = offset /\ m.version = remote
      /\ m.validator = Newer(shown, mem[w].validator)
      /\ m.path = mem[w].path /\ m.prevPath = mem[w].prevPath /\ m.resume = mem[w].resume
      /\ m.prevResume = mem[w].prevResume /\ m.job = mem[w].job /\ m.gen = mem[w].gen
  BY <1>1 DEF Typed, Remembered, Fields
<1>3. /\ DOMAIN mem' = Worker /\ mem'[w] = m /\ pc' \in [Worker -> Stages] /\ pc'[w] = "open"
      /\ \A v \in Worker : v # w => pc'[v] = pc[v] /\ mem'[v] = mem[v]
  BY <1>1, Updated DEF Streams, Remember, Goto, Stages
<1>4. remote \in Nat /\ remote # 0 /\ mem[w].validator \in 0..remote
      /\ Newer(shown, mem[w].validator) \in 0..remote
  <2>1. /\ remote \in Nat /\ remote # 0 /\ mem[w].validator \in 0..remote
        /\ shown \in {NoValidator, remote}
    BY DEF Typed, Remembered, Shown, Version
  <2> QED BY <2>1 DEF Newer, NoValidator
<1>5. Remembered(m)
  BY <1>2, <1>4 DEF Typed, Remembered
<1>6. pc[w] \in Filing /\ pc'[w] \in Filing
  BY <1>3 DEF Filing
<1>7. Local(w)
  <2>1. Stays(w)
    BY <1>2, <1>3, <1>5, <1>6 DEF Stays, Begun
  <2>2. <<>> \in Seq(Nat)
    OBVIOUS
  <2> QED BY <1>6, <2>1, <2>2, RowIsTyped DEF Local, Rewrites
<1>8. Own(w)' = Own(w)
  BY <1>2, <1>3 DEF Own
<1>9. Placed(w)'
  BY <1>3, <1>6, <1>8 DEF Placed, Kept
<1>10. Tells(Newer(shown, mem[w].validator), remote) /\ \A v \in 0..remote : Tells(v, remote)
  BY <1>4 DEF Tells, Newer, Shown, NoValidator
<1>11. row.state # "completed" => Sound(w)'
  <2>1. Tells(m.validator, m.version)'
    BY <1>2, <1>10 DEF Tells
  <2> QED BY <1>2, <1>3, <1>4, <1>8, <2>1 DEF Sound
<1>12. Fits(w)
  <2>1. file'[Own(w)] = file[Own(w)] \/ file'[Own(w)] = <<>>
    BY <1>6, OwnFile
  <2>2. \A n \in Nat : \A v : Resumable(<<>>, n, v)
    BY DEF Resumable
  <2>3. Own(w) = partial[mem[w].path] /\ Own(w) # 0
    BY <1>6, OwnFile DEF Own
  <2> QED BY <1>2, <1>3, <1>10, <2>1, <2>2, <2>3 DEF Fits, Agrees
<1> QED BY <1>7, <1>9, <1>11, <1>12, LocalQuiet

LEMMA RestartKeeps ==
  ASSUME Typed, Kept, SoundlyContinued, NEW w \in Worker, pc[w] = "request", Restart(w),
         UNCHANGED <<remote, lease, pathJob, partial, objects, row>>
  PROVE  (Typed /\ Kept /\ SoundlyContinued)'
<1>1. CASE Throw(w) /\ UNCHANGED file
  BY <1>1, ThrowKeeps
<1>2. CASE /\ file' = [file EXCEPT ![Own(w)] = <<>>]
           /\ Remember(w, [mem[w] EXCEPT !.restarted = TRUE, !.offset = 0])
           /\ UNCHANGED <<pc, locks>>
  <2>1. PICK m : m = [mem[w] EXCEPT !.restarted = TRUE, !.offset = 0]
    OBVIOUS
  <2>2. /\ DOMAIN m = Fields /\ m.offset = 0 /\ m.version = mem[w].version
        /\ m.validator = mem[w].validator
        /\ m.path = mem[w].path /\ m.prevPath = mem[w].prevPath /\ m.resume = mem[w].resume
        /\ m.prevResume = mem[w].prevResume /\ m.job = mem[w].job /\ m.gen = mem[w].gen
    BY <2>1 DEF Typed, Remembered, Fields
  <2>3. /\ DOMAIN mem' = Worker /\ mem'[w] = m /\ pc' = pc
        /\ \A v \in Worker : v # w => mem'[v] = mem[v]
    BY <1>2, <2>1 DEF Remember, Typed
  <2>4. Remembered(m)
    BY <2>2 DEF Typed, Remembered
  <2>5. pc[w] \in Filing
    BY DEF Filing
  <2>6. Local(w)
    <3>1. Stays(w)
      BY <2>2, <2>3, <2>4, <2>5 DEF Stays, Begun, Typed
    <3>2. <<>> \in Seq(Nat)
      OBVIOUS
    <3> QED BY <1>2, <2>5, <3>1, <3>2, RowIsTyped DEF Local, Rewrites
  <2>7. Own(w)' = Own(w)
    BY <2>2, <2>3 DEF Own
  <2>8. Placed(w)'
    BY <2>3, <2>5, <2>7 DEF Placed, Kept
  <2>9. Sound(w)'
    BY <2>2, <2>3 DEF Sound
  <2>10. Fits(w)
    <3>1. file'[Own(w)] = <<>>
      BY <1>2, <2>5, OwnFile
    <3> QED BY <2>3, <3>1 DEF Fits, Resumable
  <2> QED BY <2>6, <2>8, <2>9, <2>10, LocalQuiet
<1> QED BY <1>1, <1>2 DEF Restart

LEMMA RangeRefusedKeeps ==
  ASSUME Typed, Kept, SoundlyContinued, NEW w \in Worker, RangeRefused(w)
  PROVE  (Typed /\ Kept /\ SoundlyContinued)'
  BY RestartKeeps DEF RangeRefused, world

\* Under the validator asked for, the server's version is the one the bytes are of.
LEMMA PartialAnswerKeeps ==
  ASSUME Typed, Kept, SoundlyContinued, NEW w \in Worker, PartialAnswer(w)
  PROVE  (Typed /\ Kept /\ SoundlyContinued)'
<1> USE DEF PartialAnswer, world
<1>1. PICK shown \in Shown :
        /\ mem[w].validator \in {shown, remote} \/ shown # NoValidator
        /\ IF Changed(w, shown) THEN Restart(w)
           ELSE Streams(w, mem[w].offset, shown) /\ UNCHANGED file
  OBVIOUS
<1>2. CASE Restart(w)
  BY <1>2, RestartKeeps
<1>3. CASE ~Changed(w, shown) /\ Streams(w, mem[w].offset, shown) /\ UNCHANGED file
  <2>1. mem[w].offset \in Nat /\ mem[w].validator \in 0..remote /\ remote \in Nat /\ remote # 0
    BY DEF Typed, Remembered, Version
  <2>2. row.state # "completed" => Uniform(file[Own(w)], mem[w].offset, remote)
    <3> SUFFICES ASSUME row.state # "completed"
                 PROVE  Uniform(file[Own(w)], mem[w].offset, remote)
      OBVIOUS
    <3>1. /\ mem[w].validator # NoValidator /\ mem[w].offset <= Len(file[Own(w)])
          /\ Resumable(file[Own(w)], mem[w].offset, mem[w].validator)
      BY DEF SoundlyContinued, Sound
    <3>2. PICK u \in Nat : /\ Uniform(file[Own(w)], mem[w].offset, u)
                           /\ Tells(mem[w].validator, u)
      BY <3>1 DEF Resumable
    <3>3. mem[w].validator = remote
      BY <1>1, <1>3, <3>1 DEF Changed, Shown, NoValidator
    <3>4. u = remote
      BY <2>1, <3>1, <3>2, <3>3 DEF Tells
    <3> QED BY <3>2, <3>4
  <2> QED BY <1>3, <2>1, <2>2, StreamsKeeps
<1> QED BY <1>1, <1>2, <1>3

LEMMA FullAnswerKeeps ==
  ASSUME Typed, Kept, SoundlyContinued, NEW w \in Worker, FullAnswer(w)
  PROVE  (Typed /\ Kept /\ SoundlyContinued)'
<1> USE DEF FullAnswer, world
<1>1. PICK shown \in Shown :
        IF mem[w].offset > 0
        THEN IF mem[w].restarted \/ Own(w) = 0 THEN Throw(w) /\ UNCHANGED file
             ELSE file' = [file EXCEPT ![Own(w)] = <<>>] /\ Streams(w, 0, shown)
        ELSE Streams(w, 0, shown) /\ UNCHANGED file
  OBVIOUS
<1>2. CASE Throw(w) /\ UNCHANGED file
  BY <1>2, ThrowKeeps
<1>3. CASE /\ Streams(w, 0, shown)
           /\ file' = file \/ file' = [file EXCEPT ![Own(w)] = <<>>]
  <2>1. pc[w] \in Filing /\ <<>> \in Seq(Nat)
    BY DEF Filing
  <2>2. file'[Own(w)] \in Seq(Nat)
    BY <1>3, <2>1, OwnFile
  <2>3. Uniform(file'[Own(w)], 0, remote)
    BY <2>2 DEF Uniform
  <2> QED BY <1>3, <2>3, StreamsKeeps
<1> QED BY <1>1, <1>2, <1>3

\* From here on the file is as long as the offset, and of one version.
LEMMA OpenKeeps ==
  ASSUME Typed, Kept, SoundlyContinued, NEW w \in Worker, Open(w)
  PROVE  (Typed /\ Kept /\ SoundlyContinued)'
<1> USE DEF Open, world
<1>1. CASE Throw(w) /\ UNCHANGED file
  BY <1>1, ThrowKeeps
<1>2. CASE /\ file' = [file EXCEPT ![Own(w)] = Resized(@, mem[w].offset)]
           /\ Remember(w, [mem[w] EXCEPT !.handle = Own(w)])
           /\ Goto(w, "stream") /\ UNCHANGED locks
  <2>1. PICK m : m = [mem[w] EXCEPT !.handle = Own(w)]
    OBVIOUS
  <2>2. /\ DOMAIN m = Fields /\ m.offset = mem[w].offset /\ m.version = mem[w].version
        /\ m.validator = mem[w].validator /\ m.handle = Own(w)
        /\ m.path = mem[w].path /\ m.prevPath = mem[w].prevPath /\ m.resume = mem[w].resume
        /\ m.prevResume = mem[w].prevResume /\ m.job = mem[w].job /\ m.gen = mem[w].gen
    BY <2>1 DEF Typed, Remembered, Fields
  <2>3. /\ DOMAIN mem' = Worker /\ mem'[w] = m /\ pc' \in [Worker -> Stages] /\ pc'[w] = "stream"
        /\ \A v \in Worker : v # w => pc'[v] = pc[v] /\ mem'[v] = mem[v]
    BY <1>2, <2>1, Updated DEF Remember, Goto, Stages
  <2>4. Remembered(m)
    BY <2>2 DEF Typed, Remembered
  <2>5. pc[w] \in Filing /\ pc'[w] \in Filing
    BY <2>3 DEF Filing
  <2>6. PICK c \in Seq(Nat) : c = Resized(file[Own(w)], mem[w].offset)
    BY <2>5, OwnFile, ResizedKeeps DEF Typed, Remembered
  <2>7. file' = [file EXCEPT ![Own(w)] = c] /\ file'[Own(w)] = c
    BY <1>2, <2>5, <2>6, OwnFile
  <2>8. Local(w)
    <3>1. Stays(w)
      BY <2>2, <2>3, <2>4, <2>5 DEF Stays, Begun
    <3> QED BY <2>5, <2>7, <3>1, RowIsTyped DEF Local, Rewrites
  <2>9. Own(w)' = Own(w) /\ Own(w) # 0 /\ Own(w) = partial[mem[w].path]
    <3>1. mem'[w].path = mem[w].path /\ partial' = partial
      BY <1>2, <2>2, <2>3
    <3>2. mem[w].path \in Generation /\ Own(w) \in 1..Len(file)
      BY <2>5, OwnFile
    <3>3. Own(w) # 0
      BY <3>2
    <3> QED BY <3>1, <3>2, <3>3 DEF Own, Generation
  <2>10. Placed(w)'
    BY <2>2, <2>3, <2>9 DEF Placed
  <2>11. ASSUME row.state # "completed" PROVE Sound(w)' /\ Fits(w)
    <3>1. /\ mem[w].version # 0 /\ Tells(mem[w].validator, mem[w].version)
          /\ Uniform(file[Own(w)], mem[w].offset, mem[w].version)
      BY <2>11 DEF SoundlyContinued, Sound
    <3>2. mem[w].offset \in Nat /\ mem[w].version \in Nat
      BY DEF Typed, Remembered, Version
    <3>3. c = [i \in 1..mem[w].offset |-> mem[w].version]
      <4>1. PICK s \in Seq(Nat) : s = file[Own(w)]
        BY <2>5, OwnFile
      <4>2. PICK n \in Nat, u \in Nat : n = mem[w].offset /\ u = mem[w].version
        BY <3>2
      <4>3. Uniform(s, n, u)
        BY <3>1, <4>1, <4>2
      <4>4. Resized(s, n) = [i \in 1..n |-> u]
        BY ONLY <4>3, s \in Seq(Nat), n \in Nat, u \in Nat, Uniformly
      <4> QED BY <2>6, <4>1, <4>2, <4>4
    <3>4. Sound(w)'
      BY <2>2, <2>3, <2>7, <2>9, <3>1, <3>3 DEF Sound, Tells
    <3>5. Fits(w)
      <4> SUFFICES ASSUME NEW n \in Nat, NEW v \in 0..remote, Agrees(mem[w].path, n, v)
                   PROVE  Resumable(c, n, v) /\ Tells(v, mem[w].version)
        BY <2>2, <2>3, <2>7 DEF Fits
      <4>1. Tells(v, mem[w].version)
        BY DEF Agrees
      <4> QED BY <3>2, <3>3, <4>1, OneVersionFits
    <3> QED BY <3>4, <3>5
  <2> QED BY <2>8, <2>10, <2>11, LocalQuiet
<1> QED BY <1>1, <1>2

LEMMA ChunkKeeps ==
  ASSUME Typed, Kept, SoundlyContinued, NEW w \in Worker, Chunk(w)
  PROVE  (Typed /\ Kept /\ SoundlyContinued)'
<1> USE DEF Chunk, world
<1>1. PICK i : i = mem[w].offset + 1
  OBVIOUS
<1>2. PICK m : m = [mem[w] EXCEPT !.offset = i]
  OBVIOUS
<1>3. mem[w].offset \in Nat /\ mem[w].version \in Nat /\ i \in Nat
  BY <1>1 DEF Typed, Remembered, Version
<1>4. /\ DOMAIN m = Fields /\ m.offset = i /\ m.version = mem[w].version
      /\ m.validator = mem[w].validator /\ m.handle = mem[w].handle
      /\ m.path = mem[w].path /\ m.prevPath = mem[w].prevPath /\ m.resume = mem[w].resume
      /\ m.prevResume = mem[w].prevResume /\ m.job = mem[w].job /\ m.gen = mem[w].gen
  BY <1>2 DEF Typed, Remembered, Fields
<1>5. /\ DOMAIN mem' = Worker /\ mem'[w] = m /\ pc' = pc
      /\ \A v \in Worker : v # w => mem'[v] = mem[v]
  BY <1>1, <1>2 DEF Remember, Typed
<1>6. Remembered(m)
  BY <1>3, <1>4 DEF Typed, Remembered
<1>7. pc[w] \in Filing
  BY DEF Filing
<1>8. mem[w].handle = Own(w)
  BY DEF Kept, Placed
<1>9. PICK c \in Seq(Nat) : c = PutChunk(file[Own(w)], i, mem[w].version)
  BY <1>1, <1>3, <1>7, OwnFile, ChunkTyped
<1>10. file' = [file EXCEPT ![Own(w)] = c] /\ file'[Own(w)] = c
  BY <1>1, <1>7, <1>8, <1>9, OwnFile
<1>11. Local(w)
  <2>1. Stays(w)
    BY <1>4, <1>5, <1>6, <1>7 DEF Stays, Begun, Typed
  <2> QED BY <1>7, <1>10, <2>1, RowIsTyped DEF Local, Rewrites
<1>12. Own(w)' = Own(w) /\ Own(w) # 0
  <2>1. mem'[w].path = mem[w].path /\ partial' = partial
    BY <1>4, <1>5
  <2>2. Own(w) \in 1..Len(file)
    BY <1>7, OwnFile
  <2>3. Own(w) # 0
    BY <2>2
  <2> QED BY <2>1, <2>3 DEF Own
<1>13. Placed(w)'
  BY <1>4, <1>5, <1>8, <1>12 DEF Placed
<1>14. ASSUME row.state # "completed" PROVE Sound(w)' /\ Fits(w)
  <2>1. /\ mem[w].version # 0 /\ Tells(mem[w].validator, mem[w].version)
        /\ file[Own(w)] = [k \in 1..mem[w].offset |-> mem[w].version]
    BY <1>14 DEF SoundlyContinued, Sound
  <2>2. c = [k \in 1..i |-> mem[w].version]
    <3>1. PICK n \in Nat, u \in Nat : n = mem[w].offset /\ u = mem[w].version
      BY <1>3
    <3>2. PutChunk([k \in 1..n |-> u], n + 1, u) = [k \in 1..(n + 1) |-> u]
      BY OneMoreChunk
    <3>3. file[Own(w)] = [k \in 1..n |-> u]
      BY <2>1, <3>1
    <3> QED BY <1>1, <1>9, <3>1, <3>2, <3>3
  <2>3. Sound(w)'
    <3>1. /\ pc'[w] = "stream" /\ file'[Own(w)'] = c
          /\ mem'[w].offset = i /\ mem'[w].version = mem[w].version
          /\ mem'[w].validator = mem[w].validator /\ remote' = remote
      BY <1>4, <1>5, <1>10, <1>12
    <3>2. file'[Own(w)'] = [k \in 1..mem'[w].offset |-> mem'[w].version]
      BY <2>2, <3>1
    <3>3. Tells(mem[w].validator, mem[w].version)'
      BY <2>1, <3>1 DEF Tells
    <3> QED BY <2>1, <3>1, <3>2, <3>3 DEF Sound
  <2>4. Fits(w)
    <3> SUFFICES ASSUME NEW n \in Nat, NEW v \in 0..remote, Agrees(mem[w].path, n, v)
                 PROVE  Resumable(c, n, v) /\ Tells(v, mem[w].version)
      BY <1>4, <1>5, <1>10 DEF Fits
    <3>1. Tells(v, mem[w].version)
      BY DEF Agrees
    <3> QED BY <1>3, <2>2, <3>1, OneVersionFits
  <2> QED BY <2>3, <2>4
<1> QED BY <1>11, <1>13, <1>14, LocalQuiet

LEMMA SameFileFits ==
  ASSUME Typed, Kept, NEW w \in Worker, file' = file,
         pc'[w] \in {"open", "stream"} => pc'[w] = pc[w] /\ mem'[w] = mem[w]
  PROVE  Fits(w)
<1>1. pc[w] \in Filing => Own(w) # 0 /\ Own(w) = partial[mem[w].path]
  BY DEF Kept, Placed, Own
<1> QED BY <1>1 DEF Fits, Agrees

LEMMA HashKeeps ==
  ASSUME Typed, Kept, SoundlyContinued, NEW w \in Worker, Hash(w)
  PROVE  (Typed /\ Kept /\ SoundlyContinued)'
<1> USE DEF Hash, world
<1>1. CASE Throw(w)
  BY <1>1, ThrowKeeps
<1>2. CASE /\ Remember(w, [mem[w] EXCEPT !.sha = file[Own(w)]])
           /\ Goto(w, "assert") /\ UNCHANGED locks
  <2>1. PICK m : m = [mem[w] EXCEPT !.sha = file[Own(w)]]
    OBVIOUS
  <2>2. /\ DOMAIN m = Fields /\ m.offset = mem[w].offset /\ m.version = mem[w].version
        /\ m.validator = mem[w].validator /\ m.sha = file[Own(w)]
        /\ m.path = mem[w].path /\ m.prevPath = mem[w].prevPath /\ m.resume = mem[w].resume
        /\ m.prevResume = mem[w].prevResume /\ m.job = mem[w].job /\ m.gen = mem[w].gen
    BY <2>1 DEF Typed, Remembered, Fields
  <2>3. /\ DOMAIN mem' = Worker /\ mem'[w] = m /\ pc' \in [Worker -> Stages] /\ pc'[w] = "assert"
        /\ \A v \in Worker : v # w => pc'[v] = pc[v] /\ mem'[v] = mem[v]
    BY <1>2, <2>1, Updated DEF Remember, Goto, Stages
  <2>4. Remembered(m)
    BY <2>2 DEF Typed, Remembered
  <2>5. pc[w] \in Filing /\ pc'[w] \in Filing
    BY <2>3 DEF Filing
  <2>6. Local(w)
    <3>1. Stays(w)
      BY <2>2, <2>3, <2>4, <2>5 DEF Stays, Begun
    <3> QED BY <3>1, RowIsTyped DEF Local, Rewrites
  <2>7. Own(w)' = Own(w) /\ Own(w) # 0
    BY <2>2, <2>3, <2>5, OwnFile DEF Own
  <2>8. Placed(w)'
    BY <2>3, <2>7 DEF Placed
  <2>9. row.state # "completed" => Sound(w)'
    <3>1. row.state # "completed" => IsWhole(file[Own(w)])
      BY DEF SoundlyContinued, Sound
    <3> QED BY <2>2, <2>3, <2>7, <3>1 DEF Sound
  <2>10. Fits(w)
    BY <2>3, SameFileFits
  <2> QED BY <2>6, <2>8, <2>9, <2>10, LocalQuiet
<1> QED BY <1>1, <1>2

\* The claim a row names is one path's, and the source is not complete.
LEMMA ClaimFacts ==
  ASSUME Typed, Kept, NEW w \in Worker, pc[w] # "idle", HoldsClaim(w)
  PROVE  /\ row.state = "downloading" /\ row.partial = mem[w].gen /\ row.partial # 0
         /\ pc[w] \in Begun => mem[w].path = row.partial
  BY AssetAssumption DEF HoldsClaim, Typed, Kept, Claimed, Named, Owned, Guest

\* Only the stage of w changes.
LEMMA StageFacts ==
  ASSUME Typed, Kept, NEW w \in Worker, NEW s \in Begun \ {"prepare"}, Goto(w, s), UNCHANGED mem,
         UNCHANGED <<remote, lease, pathJob, partial, objects, file>>, RowStays,
         pc[w] \in Begun
  PROVE  /\ Local(w) /\ pc'[w] = s /\ Own(w)' = Own(w)
         /\ \A v \in Worker : v # w => pc'[v] = pc[v]
<1>1. /\ pc' \in [Worker -> Stages] /\ pc'[w] = s
      /\ \A v \in Worker : v # w => pc'[v] = pc[v]
  BY DEF Goto, Typed, Stages, Begun, Filing
<1>2. Stays(w)
  BY <1>1 DEF Stays, Typed, Begun, Filing
<1> QED BY <1>1, <1>2 DEF Local, Rewrites, Own

LEMMA AssertKeeps ==
  ASSUME Typed, Kept, SoundlyContinued, NEW w \in Worker, AssertOwnership(w)
  PROVE  (Typed /\ Kept /\ SoundlyContinued)'
<1> USE DEF AssertOwnership, world
<1>1. CASE Throw(w)
  BY <1>1, ThrowKeeps
<1>2. CASE HoldsClaim(w) /\ Goto(w, "lock") /\ UNCHANGED <<mem, locks>>
  <2>1. pc[w] \in Begun /\ "lock" \in Begun \ {"prepare"} /\ pc[w] \in Filing
    BY DEF Begun, Filing
  <2>2. Local(w) /\ pc'[w] = "lock" /\ Own(w)' = Own(w)
    BY <1>2, <2>1, RowIsTyped, StageFacts
  <2>3. row.state # "completed"
    BY <1>2, ClaimFacts
  <2>4. IsWhole(mem[w].sha) /\ mem[w].sha = file[Own(w)]
    BY <2>3 DEF SoundlyContinued, Sound
  <2>5. Placed(w)'
    BY <1>2, <2>1, <2>2, <2>3, <2>4, OwnFile DEF Placed, Guest
  <2>6. Sound(w)'
    BY <1>2, <2>2, <2>4 DEF Sound
  <2>7. Fits(w)
    BY <2>2, SameFileFits
  <2> QED BY <2>2, <2>5, <2>6, <2>7, LocalQuiet
<1> QED BY <1>1, <1>2

LEMMA LockKeeps ==
  ASSUME Typed, Kept, SoundlyContinued, NEW w \in Worker, AcquireContentLock(w)
  PROVE  (Typed /\ Kept /\ SoundlyContinued)'
<1> USE DEF AcquireContentLock, world
<1>1. CASE Goto(w, "failed")
  BY <1>1, QuitKeeps
<1>2. CASE Goto(w, "store")
  <2>1. pc[w] \in Begun /\ "store" \in Begun \ {"prepare"} /\ pc[w] \in Filing
    BY DEF Begun, Filing
  <2>2. Local(w) /\ pc'[w] = "store" /\ Own(w)' = Own(w)
    BY <1>2, <2>1, RowIsTyped, StageFacts
  <2>3. Placed(w)'
    BY <2>1, <2>2 DEF Kept, Placed, Guest
  <2>4. row.state # "completed" => Sound(w)'
    <3>1. row.state # "completed" => IsWhole(mem[w].sha)
      BY DEF SoundlyContinued, Sound
    <3> QED BY <2>2, <3>1 DEF Sound
  <2>5. Fits(w)
    BY <2>2, SameFileFits
  <2> QED BY <2>2, <2>3, <2>4, <2>5, LocalQuiet
<1> QED BY <1>1, <1>2

\* A worker that is done, and what the row may say then.
LEMMA LeaveKeeps ==
  ASSUME Typed, Kept, SoundlyContinued, NEW w \in Worker, Done(w), RowStays,
         row'.resume = row.resume, row'.validator = row.validator,
         UNCHANGED <<remote, lease, pathJob, partial, objects, file>>
  PROVE  (Typed /\ Kept /\ SoundlyContinued)'
<1>1. /\ DOMAIN mem' = Worker /\ mem'[w] = Blank /\ pc' \in [Worker -> Stages] /\ pc'[w] = "idle"
      /\ \A v \in Worker : v # w => pc'[v] = pc[v] /\ mem'[v] = mem[v]
  BY Updated DEF Done, Goto, Remember, Stages
<1>2. Remembered(Blank)
  BY AssetAssumption DEF Remembered, Blank, Fields, Typed, Version
<1>3. Local(w)
  <2>1. Stays(w)
    BY <1>1, <1>2 DEF Stays, Blank, Begun, Filing
  <2> QED BY <2>1 DEF Local, Rewrites
<1>4. Placed(w)' /\ Sound(w)'
  BY <1>1 DEF Placed, Sound, Filing
<1>5. Fits(w)
  BY <1>1, SameFileFits
<1> QED BY <1>3, <1>4, <1>5, LocalQuiet

LEMMA ReleaseKeeps ==
  ASSUME Typed, Kept, SoundlyContinued, NEW w \in Worker, Release(w)
  PROVE  (Typed /\ Kept /\ SoundlyContinued)'
  BY RowIsTyped, LeaveKeeps DEF Release, world

LEMMA FailsKeeps ==
  ASSUME Typed, Kept, SoundlyContinued, NEW w \in Worker, Fails(w)
  PROVE  (Typed /\ Kept /\ SoundlyContinued)'
  BY ThrowKeeps DEF Fails, world

LEMMA EnsureRow ==
  ASSUME Typed, Kept, NEW w, EnsureAssetSource(w)
  PROVE  RowStays /\ row'.resume = row.resume /\ row'.validator = row.validator
<1>1. CASE row.state = "absent"
  <2>1. row' = [row EXCEPT !.state = "pending"] /\ row.job = Nobody
    BY <1>1 DEF EnsureAssetSource, Kept, Named
  <2> QED BY <1>1, <2>1 DEF Typed, RowStays
<1>2. CASE row.state # "absent"
  BY <1>2, RowIsTyped DEF EnsureAssetSource
<1> QED BY <1>1, <1>2

LEMMA InterruptedKeeps ==
  ASSUME Typed, Kept, SoundlyContinued, NEW w \in Worker, Interrupted(w)
  PROVE  (Typed /\ Kept /\ SoundlyContinued)'
<1>1. CASE EnsureAssetSource(w)
  BY <1>1, EnsureRow, LeaveKeeps DEF Interrupted
<1>2. CASE row.state = "downloading" /\ MarkInterrupted(w)
  <2>1. row' = [row EXCEPT !.state = "interrupted", !.job = Nobody, !.owner = Nobody]
    BY <1>2 DEF MarkInterrupted
  <2>2. RowStays /\ row'.resume = row.resume /\ row'.validator = row.validator
    BY <1>2, <2>1 DEF Typed, RowStays
  <2> QED BY <2>2, LeaveKeeps DEF Interrupted
<1> QED BY <1>1, <1>2 DEF Interrupted

\* What is saved of a stream is so many chunks of its version, under its validator.
LEMMA SavedKeeps ==
  ASSUME Typed, Kept, SoundlyContinued, NEW w \in Worker, NEW next \in {"stream", "hash"},
         pc[w] = "stream", next = "hash" => mem[w].offset = Length, Saved(w, next),
         UNCHANGED <<partial, file, objects, world>>
  PROVE  (Typed /\ Kept /\ SoundlyContinued)'
<1> USE DEF world
<1>1. CASE Throw(w) /\ UNCHANGED row
  BY <1>1, ThrowKeeps
<1>2. CASE /\ HoldsClaim(w)
           /\ row' = [row EXCEPT !.resume = mem[w].offset, !.validator = mem[w].validator]
           /\ Goto(w, next) /\ UNCHANGED <<mem, locks>>
  <2>1. RowStays /\ row'.resume = mem[w].offset /\ row'.validator = mem[w].validator
        /\ row'.partial = row.partial
    BY <1>2 DEF Typed, RowStays, Remembered
  <2>2. pc[w] \in Begun /\ next \in Begun \ {"prepare"} /\ pc[w] \in Filing /\ next \in Filing
    BY DEF Begun, Filing
  <2>3. /\ Local(w) /\ pc'[w] = next /\ Own(w)' = Own(w)
        /\ \A v \in Worker : v # w => pc'[v] = pc[v]
    BY <1>2, <2>1, <2>2, StageFacts
  <2>4. row.state # "completed" /\ mem[w].path = row.partial /\ row.partial # 0
    BY <1>2, <2>2, ClaimFacts
  <2>5. /\ mem[w].version # 0 /\ Tells(mem[w].validator, mem[w].version)
        /\ file[Own(w)] = [i \in 1..mem[w].offset |-> mem[w].version]
    BY <2>4 DEF SoundlyContinued, Sound
  <2>6. mem[w].offset \in Nat /\ mem[w].version \in Nat
    BY DEF Typed, Remembered, Version
  <2>7. Placed(w)'
    BY <1>2, <2>2, <2>3 DEF Kept, Placed
  <2>8. Sound(w)'
    <3>1. CASE next = "stream"
      BY <1>2, <2>3, <2>5, <3>1 DEF Sound, Tells
    <3>2. CASE next = "hash"
      <4>1. mem[w].version \in Version
        <5>1. remote \in Version /\ Remembered(mem[w])
          BY DEF Typed
        <5>2. mem[w].version \in 0..remote /\ mem[w].version # 0
          BY <2>5, <5>1 DEF Remembered
        <5> QED BY ONLY <5>1, <5>2, AssetAssumption DEF Version
      <4>2. IsWhole(file[Own(w)])
        BY <2>5, <3>2, <4>1 DEF IsWhole
      <4> QED BY <2>3, <3>2, <4>2 DEF Sound
    <3> QED BY <3>1, <3>2
  <2>9. Fits(w)
    BY <1>2, <2>3, SameFileFits
  <2>10. Agrees(row.partial, row.resume, row.validator)'
    <3>1. row'.partial = mem[w].path /\ partial[mem[w].path] = Own(w)
      BY <2>1, <2>4 DEF Own
    <3>2. Resumable(file[Own(w)], mem[w].offset, mem[w].validator)
      BY <2>5, <2>6, OneVersionFits
    <3>3. Resumable(file[partial[row.partial]], row.resume, row.validator)'
      <4>1. /\ file'[partial'[row'.partial]] = file[Own(w)] /\ remote' = remote
            /\ row'.resume = mem[w].offset /\ row'.validator = mem[w].validator
        BY <2>1, <3>1
      <4> QED BY ONLY <3>2, <4>1 DEF Resumable, Tells
    <3>4. ASSUME NEW x \in Worker, mem'[x].path = row'.partial, pc'[x] \in Begun PROVE x = w
      <4>1. pc[x] \in Begun
        BY <2>2, <2>3, <3>4
      <4> QED BY <1>2, <2>2, <2>4, <3>1, <3>4, <4>1, Alone DEF Guest, Kept
    <3>5. ASSUME NEW x \in Worker, mem'[x].path = row'.partial
          PROVE  /\ pc'[x] # "prepare"
                 /\ pc'[x] \in {"open", "stream"} => Tells(row.validator, mem[x].version)'
      <4>1. pc'[x] \in {"prepare", "open", "stream"} => x = w
        BY <3>4, <3>5 DEF Begun, Filing
      <4> QED BY <1>2, <2>1, <2>3, <2>5, <4>1 DEF Tells
    <3> QED BY <3>3, <3>5 DEF Agrees
  <2> QED BY <2>3, <2>7, <2>8, <2>9, <2>10, LocalStep
<1> QED BY <1>1, <1>2 DEF Saved

LEMMA SaveProgressKeeps ==
  ASSUME Typed, Kept, SoundlyContinued, NEW w \in Worker, SaveProgress(w)
  PROVE  (Typed /\ Kept /\ SoundlyContinued)'
  BY SavedKeeps DEF SaveProgress

LEMMA EndStreamKeeps ==
  ASSUME Typed, Kept, SoundlyContinued, NEW w \in Worker, EndStream(w)
  PROVE  (Typed /\ Kept /\ SoundlyContinued)'
  BY SavedKeeps DEF EndStream

\* The file that was hashed gets the name of its hash, or loses its own.
LEMMA StoreKeeps ==
  ASSUME Typed, Kept, SoundlyContinued, NEW w \in Worker, Store(w)
  PROVE  (Typed /\ Kept /\ SoundlyContinued)'
<1>1. /\ pc[w] = "store" /\ UNCHANGED <<remote, lease, row, pathJob, file>>
      /\ \/ /\ Throw(w) /\ UNCHANGED <<partial, objects>>
         \/ /\ partial' = [partial EXCEPT ![mem[w].path] = 0]
            /\ Goto(w, "finalize") /\ UNCHANGED mem
            /\ \/ objects' = objects /\ \E o \in objects : o.sha = mem[w].sha
               \/ objects' = objects \cup {[sha |-> mem[w].sha, file |-> Own(w)]}
  BY DEF Store, world
<1>2. CASE Throw(w) /\ UNCHANGED <<partial, objects>>
  BY <1>1, <1>2, ThrowKeeps
<1>3. CASE /\ partial' = [partial EXCEPT ![mem[w].path] = 0]
           /\ Goto(w, "finalize") /\ UNCHANGED mem
           /\ \/ objects' = objects /\ \E o \in objects : o.sha = mem[w].sha
              \/ objects' = objects \cup {[sha |-> mem[w].sha, file |-> Own(w)]}
  <2>1. pc[w] \in Filing /\ pc[w] \in Begun
    BY <1>1 DEF Filing, Begun
  <2>2. /\ mem[w].path \in Generation /\ Own(w) = partial[mem[w].path] /\ Own(w) \in 1..Len(file)
        /\ ~Guest(w) /\ file[Own(w)] = mem[w].sha
    BY <1>1, <2>1, OwnFile DEF Own, Kept, Placed
  <2>3. /\ pc' \in [Worker -> Stages] /\ pc'[w] = "finalize"
        /\ \A v \in Worker : v # w => pc'[v] = pc[v]
    BY <1>3 DEF Goto, Typed, Stages
  <2>4. /\ partial' \in [Generation -> 0..Len(file)] /\ partial'[mem[w].path] = 0
        /\ \A g \in Generation : g # mem[w].path => partial'[g] = partial[g]
    BY <1>3, <2>2 DEF Typed
  <2>5. \A g \in Generation : partial'[g] # 0 => g # mem[w].path /\ partial'[g] = partial[g]
    BY <2>4
  <2>6. \A o \in objects' : o \in objects \/ (o.file = Own(w) /\ o.sha = mem[w].sha)
    BY <1>3
  <2>7. (\E o \in objects' : o.sha = mem[w].sha) /\ objects \subseteq objects'
    <3>1. CASE objects' = objects /\ \E o \in objects : o.sha = mem[w].sha
      BY <3>1
    <3>2. CASE objects' = objects \cup {[sha |-> mem[w].sha, file |-> Own(w)]}
      <4>1. [sha |-> mem[w].sha, file |-> Own(w)] \in objects'
        BY <3>2
      <4>2. [sha |-> mem[w].sha, file |-> Own(w)].sha = mem[w].sha
        OBVIOUS
      <4> QED BY <3>2, <4>1, <4>2
    <3> QED BY <1>3, <3>1, <3>2
  <2>8. \A v \in Worker : v # w /\ pc[v] \in Begun => mem[v].path # mem[w].path
    BY <2>1, <2>2, Alone DEF Kept
  <2>9. \A v \in Worker : v # w /\ pc[v] \in Begun => Own(v)' = Own(v)
    <3>1. \A v \in Worker : pc[v] \in Begun => mem[v].path \in Generation
      BY DEF Kept, Owned, Typed, Remembered, Generation
    <3> QED BY <1>3, <2>4, <2>8, <3>1 DEF Own
  <2>10. Typed'
    <3>1. \A o \in objects' : o.file \in 1..Len(file)
      BY <2>2, <2>6 DEF Typed
    <3> QED BY <1>1, <1>3, <2>3, <2>4, <3>1 DEF Typed, Remembered
  <2>11. Claimed' /\ Named' /\ Owned'
    <3>1. Claimed'
      BY <1>1, <1>3, <2>3 DEF Kept, Claimed
    <3>2. Named'
      BY <1>1, <1>3, <2>5 DEF Kept, Named
    <3>3. Owned'
      BY <1>1, <1>3, <2>1, <2>3 DEF Kept, Owned, Guest
    <3> QED BY <3>1, <3>2, <3>3
  <2>12. Apart'
    <3>1. \A g, h \in Generation : partial'[g] # 0 /\ partial'[g] = partial'[h] => g = h
      BY <2>5 DEF Kept, Apart
    <3>2. \A o \in objects' : \A g \in Generation : partial'[g] # o.file
      <4> SUFFICES ASSUME NEW o \in objects', NEW g \in Generation, partial'[g] = o.file
                   PROVE  FALSE
        OBVIOUS
      <4>1. o.file \in 1..Len(file)
        BY <2>2, <2>6 DEF Typed
      <4>2. partial'[g] # 0 /\ g # mem[w].path /\ partial[g] = o.file
        BY <2>5, <4>1
      <4> QED BY <2>2, <2>6, <4>2 DEF Kept, Apart
    <3>3. \A o \in objects' : file[o.file] = o.sha
      BY <2>2, <2>6 DEF Kept, Apart
    <3> QED BY <1>1, <3>1, <3>2, <3>3 DEF Apart
  <2>13. Complete'
    BY <1>1, <2>7 DEF Kept, Complete
  <2>14. ASSUME NEW v \in Worker PROVE Placed(v)'
    <3>1. CASE v = w
      BY <1>1, <1>3, <2>2, <2>3, <2>7, <3>1 DEF Placed, Guest, Filing
    <3>2. CASE v # w
      <4>1. Placed(v) /\ (Guest(v)' <=> Guest(v)) /\ pc'[v] = pc[v] /\ mem'[v] = mem[v]
        BY <1>1, <1>3, <2>3, <3>2 DEF Kept, Guest
      <4>2. pc[v] \in Begun => Own(v)' = Own(v)
        BY <2>9, <3>2
      <4> QED BY <1>1, <2>7, <4>1, <4>2 DEF Placed, Filing, Begun
    <3> QED BY <3>1, <3>2
  <2>15. ASSUME row.state # "completed", NEW v \in Worker PROVE Sound(v)'
    <3>1. Sound(v)
      BY <2>15 DEF SoundlyContinued
    <3>2. CASE v = w
      BY <1>1, <1>3, <2>3, <3>1, <3>2 DEF Sound
    <3>3. CASE v # w
      <4>1. /\ pc'[v] = pc[v] /\ mem'[v] = mem[v] /\ file' = file /\ remote' = remote
            /\ pc[v] \in Filing => Own(v)' = Own(v)
        BY <1>1, <1>3, <2>3, <2>9, <3>3 DEF Begun
      <4> QED BY <3>1, <4>1 DEF Sound, Filing, Resumable, Tells
    <3> QED BY <3>2, <3>3
  <2>16. ASSUME row.state # "completed" PROVE Continued'
    <3>1. Continued
      BY <2>16 DEF SoundlyContinued
    <3>2. \A p \in Generation : \A n, u : Agrees(p, n, u) => Agrees(p, n, u)'
      <4>1. \A x \in Worker : pc'[x] \in {"prepare", "open", "stream"} => pc'[x] = pc[x]
        BY <2>3
      <4> QED BY <1>1, <1>3, <2>5, <4>1 DEF Agrees, Resumable, Tells
    <3>3. \A v \in Worker : GoesOn(v)' <=> GoesOn(v)
      BY <1>1, <1>3, <2>3 DEF GoesOn
    <3>4. \A v \in Worker : mem[v].prevPath # 0 => mem[v].prevPath \in Generation
      BY DEF Typed, Remembered, Generation
    <3>5. row.partial # 0 => row.partial \in Generation
      BY DEF Typed, Generation
    <3> QED BY <1>1, <1>3, <3>1, <3>2, <3>3, <3>4, <3>5 DEF Continued, GoesOn
  <2> QED BY <1>1, <2>10, <2>11, <2>12, <2>13, <2>14, <2>15, <2>16 DEF Kept, SoundlyContinued
<1> QED BY <1>1, <1>2, <1>3

LEMMA FinalizeKeeps ==
  ASSUME Typed, Kept, SoundlyContinued, NEW w \in Worker, Finalize(w)
  PROVE  (Typed /\ Kept /\ SoundlyContinued)'
<1> USE DEF Finalize, world
<1>1. CASE Throw(w) /\ UNCHANGED row
  BY <1>1, ThrowKeeps
<1>2. CASE /\ HoldsClaim(w)
           /\ row' = [row EXCEPT !.state = "completed", !.sha = mem[w].sha, !.job = Nobody,
                                 !.owner = Nobody, !.partial = 0, !.resume = Length]
           /\ Goto(w, "release") /\ UNCHANGED <<mem, locks>>
  <2>1. pc[w] \in Begun
    BY DEF Begun
  <2>2. /\ row.state # "completed" /\ row.partial # 0 /\ row.partial = mem[w].path
    BY <1>2, <2>1, ClaimFacts
  <2>3. row.gen = mem[w].path
    BY <2>2 DEF Typed
  <2>4. /\ row'.state = "completed" /\ row'.sha = mem[w].sha /\ row'.job = Nobody
        /\ row'.partial = 0 /\ row'.resume = Length /\ row'.gen = row.gen
        /\ row'.validator = row.validator /\ DOMAIN row' = DOMAIN row
    BY <1>2 DEF Typed
  <2>5. /\ pc' \in [Worker -> Stages] /\ pc'[w] = "release"
        /\ \A v \in Worker : v # w => pc'[v] = pc[v]
    BY <1>2 DEF Goto, Typed, Stages
  <2>6. Typed'
    BY <1>2, <2>4, <2>5, AssetAssumption DEF Typed, Remembered
  <2>7. Claimed'
    BY <1>2, <2>5 DEF Kept, Claimed
  <2>8. Named'
    BY <1>2, <2>2, <2>3, <2>4 DEF Kept, Named
  <2>9. Owned'
    BY <1>2, <2>1, <2>2, <2>5 DEF Kept, Owned, Guest
  <2>10. Apart'
    BY <1>2 DEF Kept, Apart
  <2>11. Complete'
    <3>1. IsWhole(mem[w].sha)
      BY <2>2 DEF SoundlyContinued, Sound
    <3>2. \E o \in objects : o.sha = mem[w].sha
      BY DEF Kept, Placed
    <3> QED BY <1>2, <2>4, <3>1, <3>2 DEF Complete
  <2>12. ASSUME NEW v \in Worker PROVE Placed(v)'
    <3>1. CASE v = w
      BY <2>5, <3>1 DEF Placed, Filing
    <3>2. CASE v # w
      <4>1. pc[v] \in Begun => mem[v].path # mem[w].path
        BY <2>1, <2>2, <3>2, Alone DEF Kept, Guest
      <4>2. Placed(v) /\ ~Guest(v) /\ pc'[v] = pc[v] /\ mem'[v] = mem[v] /\ Own(v)' = Own(v)
        BY <1>2, <2>2, <2>5, <3>2 DEF Kept, Guest, Own
      <4>3. pc[v] \in Begun => ~Guest(v)'
        BY <2>3, <2>4, <4>1, <4>2 DEF Guest
      <4> QED BY <1>2, <4>2, <4>3 DEF Placed, Begun, Filing
    <3> QED BY <3>1, <3>2
  <2> QED BY <2>4, <2>6, <2>7, <2>8, <2>9, <2>10, <2>11, <2>12 DEF Kept, SoundlyContinued
<1> QED BY <1>1, <1>2

-----------------------------------------------------------------------------
(***************************************************************************)
(* The steps around: claims, the server, a crash, and the way to the file. *)
(***************************************************************************)
\* Whoever is at a file afterwards was there before, and nothing there has changed.
Outer ==
  /\ UNCHANGED <<partial, objects, file, pathJob>>
  /\ remote \in Nat /\ remote' \in Nat /\ remote <= remote'
  /\ RowStays /\ row'.resume = row.resume /\ row'.validator = row.validator
  /\ \A v \in Worker : pc'[v] \in Begun => pc'[v] = pc[v] /\ mem'[v] = mem[v]

LEMMA OuterKeeps ==
  ASSUME Typed, Kept, SoundlyContinued, Outer, Typed', Claimed',
         \A v \in Worker : mem'[v].prevPath # 0 => pathJob[mem'[v].prevPath] # Nobody
  PROVE  (Kept /\ SoundlyContinued)'
<1>1. Named'
  BY DEF Kept, Named, Outer, RowStays
<1>2. \A v \in Worker : pc'[v] \in Begun => (Guest(v)' <=> Guest(v)) /\ Own(v)' = Own(v)
  BY DEF Outer, RowStays, Guest, Own
<1>3. Owned'
  BY <1>2 DEF Kept, Owned, Outer
<1>4. Apart' /\ Complete'
  BY DEF Kept, Apart, Complete, Outer, RowStays
<1>5. \A v \in Worker : Placed(v)'
  <2> SUFFICES ASSUME NEW v \in Worker PROVE Placed(v)'
    OBVIOUS
  <2>1. Placed(v)
    BY DEF Kept
  <2> QED BY <1>2, <2>1 DEF Placed, Outer, Begun, Filing
<1>6. ASSUME row.state # "completed", NEW v \in Worker PROVE Sound(v)'
  <2>1. Sound(v) /\ mem[v].validator \in Nat
    BY <1>6 DEF SoundlyContinued, Typed, Remembered, Version
  <2>2. CASE pc'[v] \notin Begun
    BY <2>2 DEF Sound, Begun, Filing
  <2>3. CASE pc'[v] \in Begun
    <3>1. pc'[v] = pc[v] /\ mem'[v] = mem[v] /\ Own(v)' = Own(v) /\ file' = file
      BY <1>2, <2>3 DEF Outer
    <3>2. Tells(mem[v].validator, mem[v].version) => Tells(mem[v].validator, mem[v].version)'
      BY <2>1, <3>1 DEF Tells, Outer
    <3>3. Resumable(file[Own(v)], mem[v].offset, mem[v].validator)
            => Resumable(file[Own(v)], mem[v].offset, mem[v].validator)'
      BY <2>1, <3>1 DEF Resumable, Tells, Outer
    <3> QED BY <2>1, <3>1, <3>2, <3>3 DEF Sound
  <2> QED BY <2>2, <2>3
<1>7. \A p \in Generation, n \in Nat, u \in Nat : Agrees(p, n, u) => Agrees(p, n, u)'
  <2> SUFFICES ASSUME NEW p \in Generation, NEW n \in Nat, NEW u \in Nat, Agrees(p, n, u)
               PROVE  Agrees(p, n, u)'
    OBVIOUS
  <2>1. partial[p] # 0 => Resumable(file[partial[p]], n, u)'
    BY DEF Agrees, Resumable, Tells, Outer
  <2>2. ASSUME NEW x \in Worker, mem'[x].path = p
        PROVE  /\ pc'[x] = "prepare" => n = mem'[x].resume /\ u = mem'[x].validator
               /\ pc'[x] \in {"open", "stream"} => Tells(u, mem[x].version)'
    BY <2>2 DEF Agrees, Tells, Outer, Begun, Filing
  <2> QED BY <2>1, <2>2 DEF Agrees, Outer
<1>8. ASSUME row.state # "completed" PROVE Continued'
  <2>1. \A v \in Worker : GoesOn(v)' => GoesOn(v) /\ mem'[v] = mem[v]
    BY DEF GoesOn, Outer, Begun
  <2>2. ASSUME NEW v \in Worker, GoesOn(v)'
        PROVE  Agrees(mem[v].prevPath, mem[v].resume, mem[v].validator)'
    <3>1. PICK p \in Generation, n \in Nat, u \in Nat :
            p = mem[v].prevPath /\ n = mem[v].resume /\ u = mem[v].validator
      <4>1. GoesOn(v) /\ Remembered(mem[v])
        BY <2>1, <2>2 DEF Typed
      <4>2. mem[v].validator \in Nat
        BY <4>1 DEF Remembered, Outer
      <4> QED BY <4>1, <4>2 DEF GoesOn, Remembered, Generation
    <3>2. Agrees(p, n, u)
      BY <1>8, <2>1, <2>2, <3>1 DEF SoundlyContinued, Continued
    <3>3. Agrees(p, n, u)'
      BY <1>7, <3>2
    <3> QED BY <2>1, <2>2, <3>1, <3>3 DEF Agrees
  <2>3. ASSUME row.partial # 0 PROVE Agrees(row.partial, row.resume, row.validator)'
    <3>1. PICK p \in Generation, n \in Nat, u \in Nat :
            p = row.partial /\ n = row.resume /\ u = row.validator
      BY <2>3 DEF Typed, Generation, Version
    <3>2. Agrees(p, n, u)
      BY <1>8, <2>3, <3>1 DEF SoundlyContinued, Continued
    <3>3. Agrees(p, n, u)'
      BY <1>7, <3>2
    <3> QED BY <3>1, <3>3 DEF Agrees, Outer, RowStays
  <2>4. row'.partial = row.partial
    BY DEF Outer, RowStays
  <2> QED BY <2>2, <2>3, <2>4 DEF Continued
<1>9. row'.state # "completed" => row.state # "completed"
  BY DEF Outer, RowStays
<1> QED BY <1>1, <1>3, <1>4, <1>5, <1>6, <1>8, <1>9 DEF Kept, SoundlyContinued

LEMMA RemoteChangesKeeps ==
  ASSUME Typed, Kept, SoundlyContinued, RemoteChanges
  PROVE  (Typed /\ Kept /\ SoundlyContinued)'
<1> USE DEF RemoteChanges
<1>1. remote \in Nat /\ remote' = remote + 1 /\ remote' \in Version
  BY AssetAssumption DEF Typed, Version
<1>2. \A w \in Worker : Remembered(mem[w])'
  BY <1>1 DEF Typed, Remembered
<1>3. Typed'
  BY <1>1, <1>2 DEF Typed
<1>4. Claimed'
  BY DEF Kept, Claimed
<1>5. Outer
  BY <1>1, RowIsTyped DEF Outer
<1> QED BY <1>3, <1>4, <1>5, OuterKeeps DEF Kept, Named

LEMMA ExpireKeeps ==
  ASSUME Typed, Kept, SoundlyContinued, NEW j \in Job, Expire(j)
  PROVE  (Typed /\ Kept /\ SoundlyContinued)'
<1> USE DEF Expire
<1>1. /\ DOMAIN lease' = Job
      /\ \A k \in Job : DOMAIN lease'[k] = DOMAIN lease[k] /\ lease'[k].gen = lease[k].gen
  BY DEF Typed
<1>2. Typed'
  BY <1>1 DEF Typed, Remembered
<1>3. Claimed'
  BY <1>1 DEF Kept, Claimed
<1>4. Outer
  BY RowIsTyped DEF Outer, Typed, Version
<1> QED BY <1>2, <1>3, <1>4, OuterKeeps DEF Kept, Named

LEMMA CrashKeeps ==
  ASSUME Typed, Kept, SoundlyContinued, Crash
  PROVE  (Typed /\ Kept /\ SoundlyContinued)'
<1> USE DEF Crash
<1>1. \A w \in Worker : pc'[w] = "idle" /\ mem'[w] = Blank
  OBVIOUS
<1>2. Remembered(Blank) /\ Blank.prevPath = 0
  BY AssetAssumption DEF Remembered, Blank, Fields, Typed, Version
<1>3. Typed'
  BY <1>1, <1>2 DEF Typed, Remembered, Stages
<1>4. Claimed'
  BY <1>1 DEF Kept, Claimed
<1>5. Outer
  BY <1>1, RowIsTyped DEF Outer, Typed, Version, Begun, Filing
<1> QED BY <1>1, <1>2, <1>3, <1>4, <1>5, OuterKeeps

LEMMA ClaimKeeps ==
  ASSUME Typed, Kept, SoundlyContinued, NEW w \in Worker, NEW j \in Job, Claim(w, j)
  PROVE  (Typed /\ Kept /\ SoundlyContinued)'
<1>1. PICK g \in (lease[j].gen + 1)..MaxGeneration :
        /\ lease' = [lease EXCEPT ![j] = [gen |-> g, holder |-> w, live |-> TRUE]]
        /\ Remember(w, [Blank EXCEPT !.job = j, !.gen = g])
  BY Zenon DEF Claim
<1>2. PICK m : m = [Blank EXCEPT !.job = j, !.gen = g]
  OBVIOUS
<1>3. /\ DOMAIN m = Fields /\ m.job = j /\ m.gen = g /\ m.prevPath = 0 /\ m.path = 0
      /\ m.prevResume = 0 /\ m.resume = 0 /\ m.offset = 0 /\ m.validator = 0 /\ m.version = 0
  BY <1>2 DEF Blank, Fields
<1>4. /\ DOMAIN mem' = Worker /\ mem'[w] = m /\ pc' \in [Worker -> Stages] /\ pc'[w] = "ensure"
      /\ \A v \in Worker : v # w => pc'[v] = pc[v] /\ mem'[v] = mem[v]
  BY <1>1, <1>2, Updated DEF Claim, Remember, Goto, Stages
<1>5. lease[j].gen \in Nat /\ g \in Generation /\ g > lease[j].gen /\ g \in Nat
  BY AssetAssumption DEF Typed, Generation
<1>6. /\ DOMAIN lease' = Job /\ lease'[j].gen = g
      /\ DOMAIN lease'[j] = {"gen", "holder", "live"}
      /\ \A k \in Job : k # j => lease'[k] = lease[k]
  BY <1>1 DEF Typed
<1>7. UNCHANGED <<remote, row, partial, file, objects, pathJob>>
  BY DEF Claim
<1>8. Remembered(m)
  BY <1>3, AssetAssumption DEF Remembered, Typed, Version
<1>9. Typed'
  <2>1. \A v \in Worker : Remembered(mem[v])'
    BY <1>4, <1>7, <1>8 DEF Typed, Remembered
  <2>2. \A k \in Job : DOMAIN lease'[k] = {"gen", "holder", "live"} /\ lease'[k].gen \in Nat
    BY <1>5, <1>6 DEF Typed
  <2> QED BY <1>4, <1>6, <1>7, <2>1, <2>2 DEF Typed
<1>10. Claimed'
  <2>1. pathJob[g] # j
    BY <1>5 DEF Kept, Claimed
  <2>2. \A k \in Job : lease[k].gen <= lease'[k].gen
    BY <1>5, <1>6 DEF Typed
  <2>3. ASSUME NEW v \in Worker, v # w, pc[v] # "idle"
        PROVE  /\ mem[v].job \in Job /\ mem[v].gen \in Generation
               /\ mem[v].gen <= lease'[mem[v].job].gen
               /\ pc[v] \in {"ensure", "begin"} => pathJob[mem[v].gen] # mem[v].job
               /\ mem[v].job # j \/ mem[v].gen # g
    <3>1. /\ mem[v].job \in Job /\ mem[v].gen \in Generation
          /\ mem[v].gen <= lease[mem[v].job].gen
          /\ pc[v] \in {"ensure", "begin"} => pathJob[mem[v].gen] # mem[v].job
      BY <2>3 DEF Kept, Claimed
    <3>2. mem[v].gen \in Nat /\ lease[mem[v].job].gen \in Nat
      BY <3>1 DEF Typed, Generation
    <3>3. lease'[mem[v].job].gen \in Nat
      BY <1>5, <1>6, <3>1, <3>2
    <3> QED BY <1>5, <2>2, <3>1, <3>2, <3>3
  <2>4. \A k \in Generation : pathJob[k] \in Job => k <= lease'[pathJob[k]].gen
    <3> SUFFICES ASSUME NEW k \in Generation, pathJob[k] \in Job PROVE k <= lease'[pathJob[k]].gen
      OBVIOUS
    <3>1. k <= lease[pathJob[k]].gen /\ lease[pathJob[k]].gen \in Nat /\ k \in Nat
      BY DEF Kept, Claimed, Typed, Generation
    <3> QED BY <1>5, <1>6, <3>1
  <2>5. \A u, v \in Worker : u # v /\ pc'[u] # "idle" /\ pc'[v] # "idle"
          => mem'[u].job # mem'[v].job \/ mem'[u].gen # mem'[v].gen
    BY <1>3, <1>4, <2>3 DEF Kept, Claimed
  <2>6. \A v \in Worker : pc'[v] # "idle" =>
          /\ mem'[v].job \in Job /\ mem'[v].gen \in Generation
          /\ mem'[v].gen <= lease'[mem'[v].job].gen
          /\ pc'[v] \in {"ensure", "begin"} => pathJob[mem'[v].gen] # mem'[v].job
    BY <1>3, <1>4, <1>5, <1>6, <2>1, <2>3
  <2> QED BY <1>7, <2>4, <2>5, <2>6 DEF Claimed
<1>11. Outer
  BY <1>4, <1>7, RowIsTyped DEF Outer, Typed, Version, Begun, Filing
<1>12. \A v \in Worker : mem'[v].prevPath # 0 => pathJob[mem'[v].prevPath] # Nobody
  BY <1>3, <1>4 DEF Kept, Named
<1> QED BY <1>7, <1>9, <1>10, <1>11, <1>12, OuterKeeps

\* ensureAssetSource: what to go on from is read here, and claimed later.
LEMMA EnsureKeeps ==
  ASSUME Typed, Kept, SoundlyContinued, NEW w \in Worker, Ensure(w)
  PROVE  (Typed /\ Kept /\ SoundlyContinued)'
<1>1. /\ RowStays /\ row'.resume = row.resume /\ row'.validator = row.validator
      /\ pc[w] = "ensure"
      /\ UNCHANGED <<remote, lease, partial, file, objects, pathJob>>
  BY EnsureRow DEF Ensure
<1>2. CASE Done(w)
  BY <1>1, <1>2, LeaveKeeps
<1>3. CASE /\ Remember(w, [mem[w] EXCEPT !.prevPath = row.partial, !.prevResume = row.resume])
           /\ Goto(w, "begin")
  <2>1. PICK m : m = [mem[w] EXCEPT !.prevPath = row.partial, !.prevResume = row.resume]
    OBVIOUS
  <2>2. /\ DOMAIN m = Fields /\ m.offset = mem[w].offset /\ m.version = mem[w].version
        /\ m.validator = mem[w].validator
        /\ m.path = mem[w].path /\ m.prevPath = row.partial /\ m.resume = mem[w].resume
        /\ m.prevResume = row.resume /\ m.job = mem[w].job /\ m.gen = mem[w].gen
    BY <2>1 DEF Typed, Remembered, Fields
  <2>3. /\ DOMAIN mem' = Worker /\ mem'[w] = m /\ pc' \in [Worker -> Stages] /\ pc'[w] = "begin"
        /\ \A v \in Worker : v # w => pc'[v] = pc[v] /\ mem'[v] = mem[v]
    BY <1>3, <2>1, Updated DEF Remember, Goto, Stages
  <2>4. Remembered(m)
    <3>1. row.partial \in 0..MaxGeneration /\ row.resume \in Nat /\ Remembered(mem[w])
      BY AssetAssumption DEF Typed
    <3> QED BY <2>2, <3>1 DEF Remembered
  <2>5. Typed'
    <3>1. \A v \in Worker : Remembered(mem[v])'
      BY <1>1, <2>3, <2>4 DEF Typed, Remembered
    <3> QED BY <1>1, <2>3, <3>1 DEF Typed, RowStays
  <2>6. Claimed'
    BY <1>1, <2>2, <2>3 DEF Kept, Claimed
  <2>7. Outer
    BY <1>1, <2>3 DEF Outer, Typed, Version, Begun, Filing
  <2>8. \A v \in Worker : mem'[v].prevPath # 0 => pathJob[mem'[v].prevPath] # Nobody
    BY <2>2, <2>3 DEF Kept, Named
  <2> QED BY <1>1, <2>5, <2>6, <2>7, <2>8, OuterKeeps
<1> QED BY <1>2, <1>3 DEF Ensure

\* What beginAssetDownload leaves the worker with.
TakesRow(w) ==
  /\ Goto(w, "prepare")
  /\ Remember(w, [mem[w] EXCEPT !.path = row'.gen, !.resume = row'.resume,
                                !.validator = row'.validator])

ClaimsRow(w) ==
  row' = [row EXCEPT !.state = "downloading", !.job = mem[w].job, !.owner = w,
                     !.gen = mem[w].gen, !.partial = mem[w].gen]

LEMMA BegunMemory ==
  ASSUME Typed, NEW w \in Worker, TakesRow(w), row'.gen \in 0..MaxGeneration,
         row'.resume \in Nat, row'.validator \in 0..remote
  PROVE  /\ DOMAIN mem' = Worker /\ pc' \in [Worker -> Stages] /\ pc'[w] = "prepare"
         /\ \A v \in Worker : v # w => pc'[v] = pc[v] /\ mem'[v] = mem[v]
         /\ Remembered(mem'[w]) /\ mem'[w].path = row'.gen /\ mem'[w].resume = row'.resume
         /\ mem'[w].validator = row'.validator
         /\ mem'[w].prevPath = mem[w].prevPath /\ mem'[w].prevResume = mem[w].prevResume
         /\ mem'[w].job = mem[w].job /\ mem'[w].gen = mem[w].gen
<1>1. PICK m : m = [mem[w] EXCEPT !.path = row'.gen, !.resume = row'.resume,
                                  !.validator = row'.validator]
  OBVIOUS
<1>2. /\ DOMAIN m = Fields /\ m.offset = mem[w].offset /\ m.version = mem[w].version
      /\ m.validator = row'.validator
      /\ m.path = row'.gen /\ m.prevPath = mem[w].prevPath /\ m.resume = row'.resume
      /\ m.prevResume = mem[w].prevResume /\ m.job = mem[w].job /\ m.gen = mem[w].gen
  BY <1>1 DEF Typed, Remembered, Fields
<1>3. /\ DOMAIN mem' = Worker /\ mem'[w] = m /\ pc' \in [Worker -> Stages] /\ pc'[w] = "prepare"
      /\ \A v \in Worker : v # w => pc'[v] = pc[v] /\ mem'[v] = mem[v]
  BY <1>1, Updated DEF TakesRow, Remember, Goto, Stages
<1>4. Remembered(m)
  BY <1>2 DEF Typed, Remembered
<1> QED BY <1>2, <1>3, <1>4

\* A completed source is handed out with the path that completed it.
LEMMA GuestBegins ==
  ASSUME Typed, Kept, NEW w \in Worker, pc[w] = "begin", row.state = "completed",
         TakesRow(w), UNCHANGED <<row, remote, lease, partial, file, objects, pathJob>>
  PROVE  (Typed /\ Kept /\ SoundlyContinued)'
<1>0. row'.gen \in 0..MaxGeneration /\ row'.resume \in Nat /\ row'.validator \in 0..remote
  BY DEF Typed
<1>1. /\ DOMAIN mem' = Worker /\ pc' \in [Worker -> Stages] /\ pc'[w] = "prepare"
      /\ \A v \in Worker : v # w => pc'[v] = pc[v] /\ mem'[v] = mem[v]
      /\ Remembered(mem'[w]) /\ mem'[w].path = row'.gen
      /\ mem'[w].prevPath = mem[w].prevPath
      /\ mem'[w].job = mem[w].job /\ mem'[w].gen = mem[w].gen
  BY <1>0, BegunMemory
<1>2. Typed'
  BY <1>1 DEF Typed, Remembered
<1>3. Claimed'
  BY <1>1 DEF Kept, Claimed
<1>4. Named'
  BY <1>1 DEF Kept, Named
<1>5. Owned'
  BY <1>1 DEF Kept, Owned, Named, Guest
<1>6. Apart' /\ Complete'
  BY DEF Kept, Apart, Complete
<1>7. \A v \in Worker : Placed(v)'
  BY <1>1 DEF Kept, Placed, Guest, Filing, Own
<1> QED BY <1>2, <1>3, <1>4, <1>5, <1>6, <1>7 DEF Kept, SoundlyContinued

\* The claim's path is new: nobody uses it, has it to go on from, or made its file.
LEMMA OwnerBegins ==
  ASSUME Typed, Kept, SoundlyContinued, NEW w \in Worker, pc[w] = "begin",
         row.state # "completed", TakesRow(w), ClaimsRow(w),
         pathJob[mem[w].gen] \in {Nobody, mem[w].job},
         pathJob' = [pathJob EXCEPT ![mem[w].gen] = mem[w].job],
         mem[w].prevResume = 0 \/ mem[w].prevPath = row.partial,
         UNCHANGED <<remote, lease, partial, file, objects>>
  PROVE  (Typed /\ Kept /\ SoundlyContinued)'
<1>1. PICK g \in Generation, j \in Job : g = mem[w].gen /\ j = mem[w].job
  BY DEF Kept, Claimed
<1>2. g \in Nat /\ g # 0 /\ g \in 0..MaxGeneration
  BY AssetAssumption DEF Generation
<1>3. /\ row'.state = "downloading" /\ row'.job = j /\ row'.gen = g /\ row'.partial = g
      /\ row'.resume = row.resume /\ row'.validator = row.validator /\ DOMAIN row' = DOMAIN row
  BY <1>1 DEF ClaimsRow, Typed
<1>4. /\ DOMAIN mem' = Worker /\ pc' \in [Worker -> Stages] /\ pc'[w] = "prepare"
      /\ \A v \in Worker : v # w => pc'[v] = pc[v] /\ mem'[v] = mem[v]
      /\ Remembered(mem'[w]) /\ mem'[w].path = g /\ mem'[w].resume = row.resume
      /\ mem'[w].validator = row.validator
      /\ mem'[w].prevPath = mem[w].prevPath /\ mem'[w].prevResume = mem[w].prevResume
      /\ mem'[w].job = j /\ mem'[w].gen = g
  <2>1. row'.gen \in 0..MaxGeneration /\ row'.resume \in Nat /\ row'.validator \in 0..remote
    BY <1>2, <1>3 DEF Typed
  <2>2. /\ DOMAIN mem' = Worker /\ pc' \in [Worker -> Stages] /\ pc'[w] = "prepare"
        /\ \A v \in Worker : v # w => pc'[v] = pc[v] /\ mem'[v] = mem[v]
        /\ Remembered(mem'[w]) /\ mem'[w].path = row'.gen /\ mem'[w].resume = row'.resume
        /\ mem'[w].validator = row'.validator
        /\ mem'[w].prevPath = mem[w].prevPath /\ mem'[w].prevResume = mem[w].prevResume
        /\ mem'[w].job = mem[w].job /\ mem'[w].gen = mem[w].gen
    BY <2>1, BegunMemory
  <2> QED BY <1>1, <1>3, <2>2
<1>5. pathJob[g] = Nobody /\ partial[g] = 0
  <2>1. pathJob[g] # j
    BY <1>1 DEF Kept, Claimed
  <2> QED BY <1>1, <2>1 DEF Kept, Named
<1>6. /\ pathJob' \in [Generation -> Job \cup {Nobody}] /\ pathJob'[g] = j
      /\ \A h \in Generation : h # g => pathJob'[h] = pathJob[h]
  BY <1>1 DEF Typed
<1>7. /\ row.partial # g
      /\ \A v \in Worker : mem[v].prevPath # g /\ (pc[v] \in Begun => mem[v].path # g)
  BY <1>1, <1>2, <1>5, AssetAssumption DEF Kept, Named, Owned, Claimed, Begun, Filing, Guest
<1>8. Typed'
  <2>1. \A v \in Worker : Remembered(mem'[v])
    BY <1>4 DEF Typed
  <2>2. \A v \in Worker : Remembered(mem[v])'
    BY <2>1 DEF Remembered
  <2> QED BY <1>2, <1>3, <1>4, <1>6, <2>2 DEF Typed
<1>9. Claimed'
  <2>1. \A v \in Worker : pc'[v] # "idle" =>
          /\ pc[v] # "idle" /\ mem'[v].job = mem[v].job /\ mem'[v].gen = mem[v].gen
          /\ pc'[v] \in {"ensure", "begin"} => v # w /\ pc'[v] = pc[v]
    BY <1>1, <1>4
  <2>2. \A v \in Worker : v # w /\ pc[v] # "idle" /\ mem[v].gen = g => mem[v].job # j
    BY <1>1 DEF Kept, Claimed
  <2>3. g <= lease[j].gen
    BY <1>1 DEF Kept, Claimed
  <2>4. \A v \in Worker : pc'[v] \in {"ensure", "begin"} => pathJob'[mem'[v].gen] # mem'[v].job
    <3> SUFFICES ASSUME NEW v \in Worker, pc'[v] \in {"ensure", "begin"}
                 PROVE  pathJob'[mem'[v].gen] # mem'[v].job
      OBVIOUS
    <3>1. /\ v # w /\ pc'[v] = pc[v] /\ mem'[v] = mem[v]
          /\ mem[v].gen \in Generation /\ pathJob[mem[v].gen] # mem[v].job
      BY <1>4, <2>1 DEF Kept, Claimed
    <3> QED BY <1>6, <2>2, <3>1
  <2>5. \A h \in Generation : pathJob'[h] \in Job => h <= lease[pathJob'[h]].gen
    BY <1>6, <2>3 DEF Kept, Claimed
  <2> QED BY <2>1, <2>4, <2>5 DEF Kept, Claimed
<1>10. Named'
  <2>1. \A h \in Generation : pathJob[h] # Nobody => pathJob'[h] # Nobody
    BY <1>5, <1>6
  <2>2. \A v \in Worker : mem'[v].prevPath # 0 => pathJob'[mem'[v].prevPath] # Nobody
    <3> SUFFICES ASSUME NEW v \in Worker, mem'[v].prevPath # 0
                 PROVE  pathJob'[mem'[v].prevPath] # Nobody
      OBVIOUS
    <3>1. mem'[v].prevPath = mem[v].prevPath
      BY <1>4
    <3>2. mem[v].prevPath \in Generation /\ pathJob[mem[v].prevPath] # Nobody
      BY <3>1 DEF Typed, Remembered, Generation, Kept, Named
    <3> QED BY <2>1, <3>1, <3>2
  <2>3. \A h \in Generation : partial[h] # 0 => pathJob'[h] # Nobody
    BY <2>1 DEF Kept, Named
  <2> QED BY <1>2, <1>3, <1>6, <2>2, <2>3, AssetAssumption DEF Named
<1>11. Owned'
  <2> SUFFICES ASSUME NEW v \in Worker, pc'[v] \in Begun
               PROVE  /\ mem'[v].path # 0 /\ mem'[v].path = mem'[v].gen
                      /\ pathJob'[mem'[v].path] = mem'[v].job
    BY DEF Owned
  <2>1. CASE v = w
    BY <1>2, <1>4, <1>6, <2>1
  <2>2. CASE v # w
    <3>1. mem'[v] = mem[v] /\ pc[v] \in Begun
      BY <1>4, <2>2
    <3>2. /\ mem[v].path # 0 /\ mem[v].path = mem[v].gen /\ pathJob[mem[v].path] = mem[v].job
          /\ mem[v].path \in Generation /\ mem[v].path # g
      BY <1>7, <3>1 DEF Kept, Owned, Guest, Typed, Remembered, Generation
    <3> QED BY <1>6, <3>1, <3>2
  <2> QED BY <2>1, <2>2
<1>12. Apart' /\ Complete'
  BY <1>3 DEF Kept, Apart, Complete
<1>13. ASSUME NEW v \in Worker PROVE Placed(v)' /\ Sound(v)'
  <2>1. CASE v = w
    BY <1>4, <1>5, <1>7, <2>1 DEF Placed, Sound, Filing, Own
  <2>2. CASE v # w
    <3>1. pc'[v] = pc[v] /\ mem'[v] = mem[v] /\ Own(v)' = Own(v) /\ ~Guest(v) /\ ~Guest(v)'
      BY <1>3, <1>4, <2>2 DEF Own, Guest
    <3>2. Placed(v) /\ Sound(v)
      BY DEF Kept, SoundlyContinued
    <3>3. Placed(v)'
      BY <3>1, <3>2 DEF Placed
    <3>4. Sound(v)'
      BY <3>1, <3>2 DEF Sound, Resumable, Tells
    <3> QED BY <3>3, <3>4
  <2> QED BY <2>1, <2>2
<1>14. Continued'
  <2>1. Continued
    BY DEF SoundlyContinued
  <2>2. ASSUME NEW p \in Generation, NEW n, NEW u, p # g, Agrees(p, n, u)
        PROVE  Agrees(p, n, u)'
    <3>1. \A x \in Worker : mem'[x].path = p => x # w
      BY <1>4, <2>2
    <3> QED BY <1>4, <2>2, <3>1 DEF Agrees, Resumable, Tells
  <2>3. ASSUME NEW v \in Worker, GoesOn(v)'
        PROVE  Agrees(mem[v].prevPath, mem[v].resume, mem[v].validator)'
    <3>1. PICK p, n, u : p = mem'[v].prevPath /\ n = mem'[v].resume /\ u = mem'[v].validator
      OBVIOUS
    <3>2. p \in Generation /\ p # g
      <4>1. mem'[v].prevPath = mem[v].prevPath /\ mem'[v].prevPath # 0
        BY <1>4, <2>3 DEF GoesOn
      <4> QED BY <1>7, <3>1, <4>1 DEF Typed, Remembered, Generation
    <3>3. Agrees(p, n, u)
      <4>1. CASE v = w
        <5>1. p = row.partial /\ n = row.resume /\ u = row.validator /\ row.partial # 0
          BY <1>4, <2>3, <3>1, <4>1 DEF GoesOn
        <5> QED BY <2>1, <5>1 DEF Continued
      <4>2. CASE v # w
        BY <1>4, <2>1, <2>3, <3>1, <4>2 DEF Continued, GoesOn
      <4> QED BY <4>1, <4>2
    <3>4. Agrees(p, n, u)'
      BY <2>2, <3>2, <3>3
    <3> QED BY <3>1, <3>4 DEF Agrees
  <2>4. Agrees(row.partial, row.resume, row.validator)'
    <3>1. \A x \in Worker : mem'[x].path = g /\ pc'[x] \in Begun => x = w
      BY <1>4, <1>7
    <3>2. ASSUME NEW x \in Worker, mem'[x].path = g
          PROVE  /\ pc'[x] = "prepare" => row'.resume = mem'[x].resume
                                          /\ row'.validator = mem'[x].validator
                 /\ pc'[x] \notin {"open", "stream"}
      BY <1>3, <1>4, <3>1, <3>2 DEF Begun, Filing
    <3> QED BY <1>3, <1>5, <3>2 DEF Agrees
  <2> QED BY <2>3, <2>4 DEF Continued
<1> QED BY <1>8, <1>9, <1>10, <1>11, <1>12, <1>13, <1>14 DEF Kept, SoundlyContinued

LEMMA BeginKeeps ==
  ASSUME Typed, Kept, SoundlyContinued, NEW w \in Worker, Begin(w), Clean'
  PROVE  (Typed /\ Kept /\ SoundlyContinued)'
<1>1. /\ pc[w] = "begin" /\ UNCHANGED <<remote, lease, partial, file, objects>>
      /\ \/ row.state = "completed" /\ TakesRow(w) /\ UNCHANGED <<row, pathJob>>
         \/ /\ row.state # "completed" /\ TakesRow(w) /\ ClaimsRow(w)
            /\ shared' = (shared \/ pathJob[mem[w].gen] \notin {Nobody, mem[w].job})
            /\ pathJob' = [pathJob EXCEPT ![mem[w].gen] = mem[w].job]
            /\ outdated' = (outdated \/ (/\ mem[w].prevResume > 0
                                        /\ mem[w].prevPath # row.partial))
         \/ Throw(w) /\ UNCHANGED <<row, pathJob>>
  BY Zenon DEF Begin, TakesRow, ClaimsRow
<1>2. CASE row.state = "completed" /\ TakesRow(w) /\ UNCHANGED <<row, pathJob>>
  BY <1>1, <1>2, GuestBegins
<1>3. CASE /\ row.state # "completed" /\ TakesRow(w) /\ ClaimsRow(w)
           /\ shared' = (shared \/ pathJob[mem[w].gen] \notin {Nobody, mem[w].job})
           /\ pathJob' = [pathJob EXCEPT ![mem[w].gen] = mem[w].job]
           /\ outdated' = (outdated \/ (/\ mem[w].prevResume > 0
                                       /\ mem[w].prevPath # row.partial))
  <2>1. pathJob[mem[w].gen] \in {Nobody, mem[w].job}
    BY <1>3, Zenon DEF Clean
  <2>2. ~(mem[w].prevResume > 0 /\ mem[w].prevPath # row.partial)
    BY <1>3, Zenon DEF Clean
  <2>3. mem[w].prevResume \in Nat
    BY DEF Typed, Remembered
  <2>4. mem[w].prevResume = 0 \/ mem[w].prevPath = row.partial
    BY <2>2, <2>3
  <2> QED BY <1>1, <1>3, <2>1, <2>4, OwnerBegins
<1>4. CASE Throw(w) /\ UNCHANGED <<row, pathJob>>
  BY <1>1, <1>4, ThrowKeeps
<1> QED BY <1>1, <1>2, <1>3, <1>4

\* What preparePartial puts into a new file may be used by who asks for it.
LEMMA PreparedFits ==
  ASSUME Typed, SoundlyContinued, row.state # "completed", NEW w \in Worker,
         pc[w] = "prepare", Own(w) = 0
  PROVE  Resumable(Prepared(w), mem[w].resume, mem[w].validator)
<1>1. CASE mem[w].prevPath # 0 /\ mem[w].prevResume > 0 /\ partial[mem[w].prevPath] # 0
  <2>1. Agrees(mem[w].prevPath, mem[w].resume, mem[w].validator)
    BY <1>1 DEF SoundlyContinued, Continued, GoesOn
  <2> QED BY <1>1, <2>1 DEF Agrees, Prepared
<1>2. CASE Prepared(w) = <<>>
  <2>1. mem[w].resume \in Nat /\ Len(<<>>) = 0
    BY DEF Typed, Remembered
  <2> QED BY <1>2, <2>1 DEF Resumable
<1> QED BY <1>1, <1>2 DEF Prepared

LEMMA PreparedTyped ==
  ASSUME Typed, NEW w \in Worker, mem[w].path \in Generation
  PROVE  Prepared(w) \in Seq(Nat)
<1>1. Own(w) # 0 => file[Own(w)] \in Seq(Nat)
  BY DEF Typed, Own
<1>2. mem[w].prevPath # 0 /\ partial[mem[w].prevPath] # 0
        => file[partial[mem[w].prevPath]] \in Seq(Nat)
  BY DEF Typed, Remembered, Generation
<1> QED BY <1>1, <1>2 DEF Prepared

\* A file there already is a completed source's, whose guest this is.
LEMMA PrepareGuest ==
  ASSUME Typed, Kept, SoundlyContinued, NEW w \in Worker, pc[w] = "prepare", Own(w) # 0,
         NEW k \in Nat, Remember(w, [mem[w] EXCEPT !.offset = k]),
         NEW s \in {"truncate", "request"}, Goto(w, s),
         UNCHANGED <<row, remote, lease, pathJob, partial, objects, file>>
  PROVE  (Typed /\ Kept /\ SoundlyContinued)'
<1>1. row.state = "completed"
  BY DEF Kept, Placed, Guest
<1>2. PICK m : m = [mem[w] EXCEPT !.offset = k]
  OBVIOUS
<1>3. /\ DOMAIN m = Fields /\ m.offset = k /\ m.version = mem[w].version
      /\ m.validator = mem[w].validator
      /\ m.path = mem[w].path /\ m.prevPath = mem[w].prevPath /\ m.resume = mem[w].resume
      /\ m.prevResume = mem[w].prevResume /\ m.job = mem[w].job /\ m.gen = mem[w].gen
  BY <1>2 DEF Typed, Remembered, Fields
<1>4. /\ DOMAIN mem' = Worker /\ mem'[w] = m /\ pc' \in [Worker -> Stages] /\ pc'[w] = s
      /\ \A v \in Worker : v # w => pc'[v] = pc[v] /\ mem'[v] = mem[v]
  BY <1>2, Updated DEF Remember, Goto, Stages
<1>5. Remembered(m)
  BY <1>3 DEF Typed, Remembered
<1>6. Local(w)
  BY <1>3, <1>4, <1>5, RowIsTyped DEF Local, Stays, Rewrites, Typed, Begun, Filing
<1>7. Placed(w)'
  BY <1>3, <1>4 DEF Placed, Filing, Own
<1> QED BY <1>1, <1>6, <1>7, LocalStep

\* The new file is nobody else's, and has what the one before had.
LEMMA PrepareMakes ==
  ASSUME Typed, Kept, SoundlyContinued, NEW w \in Worker, pc[w] = "prepare", Own(w) = 0,
         NEW c \in Seq(Nat), c = Prepared(w), file' = Append(file, c),
         partial' = [partial EXCEPT ![mem[w].path] = Len(file) + 1],
         NEW k \in Nat, k = ResumeOffset(w, Len(c)),
         Remember(w, [mem[w] EXCEPT !.offset = k]),
         NEW s \in {"truncate", "request"}, Goto(w, s), s = "truncate" => k = 0,
         UNCHANGED <<row, remote, lease, pathJob, objects>>
  PROVE  (Typed /\ Kept /\ SoundlyContinued)'
<1>1. PICK m : m = [mem[w] EXCEPT !.offset = k]
  OBVIOUS
<1>2. /\ DOMAIN m = Fields /\ m.offset = k /\ m.version = mem[w].version
      /\ m.validator = mem[w].validator
      /\ m.path = mem[w].path /\ m.prevPath = mem[w].prevPath /\ m.resume = mem[w].resume
      /\ m.prevResume = mem[w].prevResume /\ m.job = mem[w].job /\ m.gen = mem[w].gen
  BY <1>1 DEF Typed, Remembered, Fields
<1>3. /\ DOMAIN mem' = Worker /\ mem'[w] = m /\ pc' \in [Worker -> Stages] /\ pc'[w] = s
      /\ \A v \in Worker : v # w => pc'[v] = pc[v] /\ mem'[v] = mem[v]
  BY <1>1, Updated DEF Remember, Goto, Stages
<1>4. PICK p \in Generation : p = mem[w].path /\ pathJob[p] # Nobody
  <2>1. mem[w].path \in Generation
    BY DEF Kept, Owned, Begun, Typed, Remembered, Generation
  <2> QED BY <2>1, AssetAssumption DEF Kept, Owned, Begun, Guest, Named, Claimed
<1>5. PICK f \in Nat : f = Len(file) + 1 /\ f # 0
  BY DEF Typed
<1>6. /\ file' \in Seq(Seq(Nat)) /\ Len(file') = f /\ file'[f] = c
      /\ \A g \in 1..Len(file) : file'[g] = file[g]
  BY <1>5, FileMade DEF Typed
<1>7. /\ partial[p] = 0 /\ partial' \in [Generation -> 0..f] /\ partial'[p] = f
      /\ \A g \in Generation : g # p => partial'[g] = partial[g]
      /\ \A g \in Generation : partial[g] # 0 => partial[g] \in 1..Len(file) /\ partial[g] # f
  BY <1>4, <1>5 DEF Typed, Own
<1>8. \A o \in objects : o.file \in 1..Len(file) /\ o.file # f /\ file'[o.file] = file[o.file]
  BY <1>5, <1>6 DEF Typed
<1>9. Typed'
  <2>1. ASSUME NEW v \in Worker PROVE Remembered(mem[v])'
    <3>1. Remembered(mem[v]) /\ Remembered(mem[w]) /\ remote' = remote
      BY DEF Typed
    <3>2. CASE v = w
      BY <1>2, <1>3, <3>1, <3>2 DEF Remembered
    <3>3. CASE v # w
      BY <1>3, <3>1, <3>3 DEF Remembered
    <3> QED BY <3>2, <3>3
  <2>2. \A o \in objects : o.file \in 1..f
    BY <1>5, <1>8 DEF Typed
  <2> QED BY <1>3, <1>6, <1>7, <2>1, <2>2 DEF Typed
<1>10. Claimed'
  <2>1. \A v \in Worker : pc'[v] # "idle" =>
          /\ pc[v] # "idle" /\ mem'[v].job = mem[v].job /\ mem'[v].gen = mem[v].gen
          /\ pc'[v] \in {"ensure", "begin"} => pc[v] \in {"ensure", "begin"}
    BY <1>2, <1>3
  <2> QED BY <2>1 DEF Kept, Claimed
<1>11. Named'
  <2>1. \A g \in Generation : partial'[g] # 0 => partial[g] # 0 \/ pathJob[g] # Nobody
    BY <1>4, <1>7
  <2>2. \A v \in Worker : mem'[v].prevPath = mem[v].prevPath
    BY <1>2, <1>3
  <2>3. Named /\ row' = row /\ pathJob' = pathJob
    BY DEF Kept
  <2> QED BY ONLY <2>1, <2>2, <2>3 DEF Named
<1>12. Owned'
  BY <1>2, <1>3 DEF Kept, Owned, Guest, Begun
<1>13. Apart' /\ Complete'
  BY <1>7, <1>8 DEF Kept, Apart, Complete
<1>14. \A v \in Worker : v # w /\ pc[v] \in Filing =>
         mem[v].path # p /\ mem[v].path \in Generation /\ Own(v) # 0
  <2> SUFFICES ASSUME NEW v \in Worker, v # w, pc[v] \in Filing
               PROVE  mem[v].path # p /\ mem[v].path \in Generation /\ Own(v) # 0
    OBVIOUS
  <2>1. Own(v) # 0 /\ mem[v].path \in Generation
    BY DEF Kept, Placed, Owned, Begun, Typed, Remembered, Generation
  <2> QED BY <1>7, <2>1 DEF Own
<1>15. \A v \in Worker : v # w /\ pc[v] \in Filing =>
         Own(v)' = Own(v) /\ file'[Own(v)] = file[Own(v)]
  BY <1>3, <1>6, <1>7, <1>14 DEF Own
<1>16. \A v \in Worker : v # w /\ pc[v] = "prepare" /\ ~Guest(v) => Own(v)' = Own(v)
  <2> SUFFICES ASSUME NEW v \in Worker, v # w, pc[v] = "prepare", ~Guest(v)
               PROVE  Own(v)' = Own(v)
    OBVIOUS
  <2>1. mem[v].path # p
    BY <1>4, Alone DEF Kept, Begun
  <2>2. mem[v].path \in Generation
    BY DEF Kept, Owned, Begun, Typed, Remembered, Generation
  <2> QED BY <1>3, <1>7, <2>1, <2>2 DEF Own
<1>17. ASSUME NEW v \in Worker PROVE Placed(v)'
  <2>1. CASE v = w
    BY <1>2, <1>3, <1>4, <1>5, <1>7, <2>1 DEF Placed, Own
  <2>2. CASE v # w
    <3>1. Placed(v) /\ pc'[v] = pc[v] /\ mem'[v] = mem[v] /\ (Guest(v)' <=> Guest(v))
      BY <1>3, <2>2 DEF Kept, Guest
    <3>2. pc[v] \in Filing => Own(v)' = Own(v) /\ file'[Own(v)'] = file[Own(v)]
      BY <1>15, <2>2
    <3>3. pc[v] = "prepare" /\ ~Guest(v) => Own(v)' = Own(v)
      BY <1>16, <2>2
    <3>4. objects' = objects
      OBVIOUS
    <3> HIDE DEF Guest, Own
    <3> QED BY <3>1, <3>2, <3>3, <3>4 DEF Placed, Filing
  <2> QED BY <2>1, <2>2
<1>18. ASSUME row.state # "completed" PROVE Continued' /\ \A v \in Worker : Sound(v)'
  <2>1. Resumable(c, mem[w].resume, mem[w].validator)
    BY <1>18, PreparedFits
  <2>2. ASSUME NEW v \in Worker PROVE Sound(v)'
    <3>1. CASE v = w
      <4>1. k > 0 => /\ k = m.resume /\ k <= Len(c) /\ m.validator # NoValidator
                     /\ Resumable(c, k, m.validator)
        BY <1>2, <2>1 DEF ResumeOffset
      <4>2. Own(w)' = f
        BY <1>2, <1>3, <1>4, <1>7 DEF Own
      <4>3. k > 0 => Resumable(c, k, m.validator)'
        BY <4>1 DEF Resumable, Tells
      <4> QED BY <1>2, <1>3, <1>6, <3>1, <4>1, <4>2, <4>3 DEF Sound
    <3>2. CASE v # w
      <4>1. Sound(v) /\ pc'[v] = pc[v] /\ mem'[v] = mem[v]
        BY <1>3, <1>18, <3>2 DEF SoundlyContinued
      <4>2. pc[v] \in Filing => Own(v)' = Own(v) /\ file'[Own(v)'] = file[Own(v)]
        BY <1>15, <3>2
      <4>3. Tells(mem[v].validator, mem[v].version)
              => Tells(mem[v].validator, mem[v].version)'
        BY <4>1 DEF Tells
      <4>4. pc[v] \in Filing /\ Resumable(file[Own(v)], mem[v].offset, mem[v].validator)
              => Resumable(file[Own(v)], mem[v].offset, mem[v].validator)'
        BY <4>1, <4>2 DEF Resumable, Tells
      <4> QED BY <4>1, <4>2, <4>3, <4>4 DEF Sound, Filing
    <3> QED BY <3>1, <3>2
  <2>3. ASSUME NEW q \in Generation, NEW n, NEW u, Agrees(q, n, u)
        PROVE  Agrees(q, n, u)'
    <3>1. partial'[q] # 0 => Resumable(file'[partial'[q]], n, u)
      <4>1. CASE q = p
        BY <1>4, <1>6, <1>7, <2>1, <2>3, <4>1 DEF Agrees
      <4>2. CASE q # p
        BY <1>6, <1>7, <2>3, <4>2 DEF Agrees
      <4> QED BY <4>1, <4>2
    <3>2. \A x \in Worker : mem'[x].path = q =>
            /\ pc'[x] = "prepare" => n = mem'[x].resume /\ u = mem'[x].validator
            /\ pc'[x] \in {"open", "stream"} => Tells(u, mem'[x].version)
      BY <1>3, <2>3 DEF Agrees
    <3> QED BY <3>1, <3>2 DEF Agrees, Resumable, Tells, Uniform
  <2>4. \A v \in Worker : GoesOn(v)' => v # w /\ GoesOn(v) /\ mem'[v] = mem[v]
    BY <1>3 DEF GoesOn
  <2>5. ASSUME NEW v \in Worker, GoesOn(v)'
        PROVE  Agrees(mem[v].prevPath, mem[v].resume, mem[v].validator)'
    <3>1. PICK q, n, u : q = mem[v].prevPath /\ n = mem[v].resume /\ u = mem[v].validator
      OBVIOUS
    <3>2. q \in Generation /\ Agrees(q, n, u)
      <4>1. GoesOn(v) /\ Remembered(mem[v])
        BY <2>4, <2>5 DEF Typed
      <4>2. q \in Generation
        BY <3>1, <4>1 DEF GoesOn, Remembered, Generation
      <4>3. Continued
        BY <1>18 DEF SoundlyContinued
      <4> QED BY <3>1, <4>1, <4>2, <4>3 DEF Continued
    <3>3. Agrees(q, n, u)'
      BY <2>3, <3>2
    <3> QED BY <2>4, <2>5, <3>1, <3>3 DEF Agrees
  <2>6. ASSUME row.partial # 0 PROVE Agrees(row.partial, row.resume, row.validator)'
    <3>1. PICK q, n, u : q = row.partial /\ n = row.resume /\ u = row.validator
      OBVIOUS
    <3>2. q \in Generation /\ Agrees(q, n, u)
      BY <1>18, <2>6, <3>1 DEF Typed, Generation, SoundlyContinued, Continued
    <3>3. Agrees(q, n, u)'
      BY <2>3, <3>2
    <3> QED BY <3>1, <3>3 DEF Agrees
  <2> QED BY <2>2, <2>5, <2>6 DEF Continued
<1> QED BY <1>9, <1>10, <1>11, <1>12, <1>13, <1>17, <1>18 DEF Kept, SoundlyContinued

LEMMA PrepareKeeps ==
  ASSUME Typed, Kept, SoundlyContinued, NEW w \in Worker, Prepare(w)
  PROVE  (Typed /\ Kept /\ SoundlyContinued)'
<1> USE DEF Prepare, world
<1>1. mem[w].path \in Generation
  BY DEF Kept, Owned, Begun, Typed, Remembered, Generation
<1>2. PICK c \in Seq(Nat) : c = Prepared(w)
  BY <1>1, PreparedTyped
<1>3. PICK k \in Nat : k = ResumeOffset(w, Len(c))
  BY DEF ResumeOffset, Typed, Remembered
<1>4. PICK s \in {"truncate", "request"} :
        s = IF k = 0 /\ c # <<>> /\ Len(c) >= mem[w].resume THEN "truncate" ELSE "request"
  OBVIOUS
<1>5. /\ pc[w] = "prepare" /\ Goto(w, s) /\ Remember(w, [mem[w] EXCEPT !.offset = k])
      /\ IF Own(w) # 0 THEN UNCHANGED <<file, partial>>
         ELSE /\ file' = Append(file, c)
              /\ partial' = [partial EXCEPT ![mem[w].path] = Len(file) + 1]
      /\ UNCHANGED <<row, remote, lease, pathJob, objects>>
  BY <1>2, <1>3, <1>4, Zenon
<1>6. s = "truncate" => k = 0
  BY <1>4
<1> QED BY <1>2, <1>3, <1>5, <1>6, PrepareGuest, PrepareMakes

-----------------------------------------------------------------------------
(***************************************************************************)
(* The theorem.                                                            *)
(***************************************************************************)
LEMMA InitAsset == Init => AssetInv
<1> SUFFICES ASSUME Init PROVE Typed /\ Kept /\ SoundlyContinued
  BY DEF AssetInv
<1>1. Remembered(Blank) /\ Blank.prevPath = 0
  BY AssetAssumption DEF Init, Remembered, Blank, Fields
<1>2. Typed
  <2>1. \A w \in Worker : Remembered(mem[w])
    <3>1. mem = [w \in Worker |-> Blank]
      BY Zenon DEF Init
    <3> QED BY <1>1, <3>1
  <2>2. remote \in Version /\ row.gen = 0 /\ row.partial = 0 /\ row.resume = 0 /\ row.validator = 0
    BY AssetAssumption DEF Init, Version, NoValidator
  <2>3. /\ file \in Seq(Seq(Nat)) /\ partial \in [Generation -> 0..Len(file)]
        /\ pc \in [Worker -> Stages] /\ objects = {} /\ DOMAIN mem = Worker
        /\ pathJob \in [Generation -> Job \cup {Nobody}]
    BY DEF Init, Stages
  <2>4. /\ DOMAIN lease = Job
        /\ \A j \in Job : DOMAIN lease[j] = {"gen", "holder", "live"} /\ lease[j].gen = 0
        /\ DOMAIN row = {"state", "job", "owner", "gen", "resume", "validator", "partial", "sha"}
    BY DEF Init
  <2> QED BY <2>1, <2>2, <2>3, <2>4, AssetAssumption DEF Typed, Version
<1>3. Kept
  BY <1>1, AssetAssumption DEF Init, Kept, Claimed, Named, Owned, Apart, Complete, Placed,
                               Begun, Filing, Generation
<1>4. SoundlyContinued
  BY DEF Init, SoundlyContinued, Continued, GoesOn, Sound
<1> QED BY <1>2, <1>3, <1>4

\* The histories only grow.
LEMMA StaysClean == [Next]_vars /\ Clean' => Clean
<1> SUFFICES ASSUME [Next]_vars, Clean' PROVE Clean
  OBVIOUS
<1>1. CASE UNCHANGED <<shared, outdated>>
  BY <1>1 DEF Clean
<1>2. ASSUME NEW w \in Worker, Begin(w), ~UNCHANGED <<shared, outdated>> PROVE Clean
  <2>1. \E a, b : shared' = (shared \/ a) /\ outdated' = (outdated \/ b)
    BY <1>2, Zenon DEF Begin
  <2> QED BY <2>1, Zenon DEF Clean
<1>3. CASE \E w \in Worker : Begin(w)
  BY <1>1, <1>2, <1>3
<1>4. CASE UNCHANGED vars
  BY <1>1, <1>4, Zenon DEF vars
<1>5. CASE RemoteChanges \/ Crash
  BY <1>1, <1>5, Zenon DEF RemoteChanges, Crash
<1>6. CASE \E j \in Job : Expire(j) \/ \E w \in Worker : Claim(w, j)
  BY <1>1, <1>6, Zenon DEF Expire, Claim
<1>7. ASSUME NEW w \in Worker, Ensure(w) \/ Prepare(w) \/ Truncate(w) PROVE Clean
  BY <1>1, <1>7, Zenon DEF Ensure, Prepare, Truncate, world
<1>8. ASSUME NEW w \in Worker, RangeRefused(w) \/ PartialAnswer(w) \/ FullAnswer(w)
      PROVE  Clean
  BY <1>1, <1>8, Zenon DEF RangeRefused, PartialAnswer, FullAnswer, world
<1>9. ASSUME NEW w \in Worker,
             Open(w) \/ Chunk(w) \/ SaveProgress(w) \/ EndStream(w) \/ Fails(w)
      PROVE  Clean
  BY <1>1, <1>9, Zenon DEF Open, Chunk, SaveProgress, EndStream, Fails, world
<1>10. ASSUME NEW w \in Worker,
              Hash(w) \/ AssertOwnership(w) \/ AcquireContentLock(w) \/ Store(w)
       PROVE  Clean
  BY <1>1, <1>10, Zenon DEF Hash, AssertOwnership, AcquireContentLock, Store, world
<1>11. ASSUME NEW w \in Worker, Finalize(w) \/ Release(w) \/ Interrupted(w) PROVE Clean
  BY <1>1, <1>11, Zenon DEF Finalize, Release, Interrupted, world
<1> QED BY <1>3, <1>4, <1>5, <1>6, <1>7, <1>8, <1>9, <1>10, <1>11 DEF Next

LEMMA StepAsset == AssetInv /\ [Next]_vars => AssetInv'
<1> SUFFICES ASSUME AssetInv, [Next]_vars, Clean' PROVE (Typed /\ Kept /\ SoundlyContinued)'
  BY DEF AssetInv
<1>1. Typed /\ Kept /\ SoundlyContinued
  BY StaysClean DEF AssetInv
<1>2. CASE UNCHANGED vars
  <2> USE <1>2 DEF vars
  <2>1. Typed'
    BY <1>1 DEF Typed, Remembered
  <2>2. Kept'
    BY <1>1 DEF Kept, Claimed, Named, Owned, Guest, Apart, Complete, Placed, Own
  <2>3. SoundlyContinued'
    <3>1. Continued => Continued'
      BY DEF Continued, GoesOn, Agrees, Resumable, Tells
    <3>2. \A w \in Worker : Sound(w) => Sound(w)'
      BY DEF Sound, Own, Resumable, Tells
    <3> QED BY <1>1, <3>1, <3>2 DEF SoundlyContinued
  <2> QED BY <2>1, <2>2, <2>3
<1>3. CASE RemoteChanges \/ Crash
  BY <1>1, <1>3, RemoteChangesKeeps, CrashKeeps
<1>4. CASE \E j \in Job : Expire(j) \/ \E w \in Worker : Claim(w, j)
  BY <1>1, <1>4, ExpireKeeps, ClaimKeeps
<1>5. CASE \E w \in Worker : Ensure(w) \/ Begin(w) \/ Prepare(w) \/ Truncate(w)
  BY <1>1, <1>5, EnsureKeeps, BeginKeeps, PrepareKeeps, TruncateKeeps
<1>6. CASE \E w \in Worker : RangeRefused(w) \/ PartialAnswer(w) \/ FullAnswer(w)
  BY <1>1, <1>6, RangeRefusedKeeps, PartialAnswerKeeps, FullAnswerKeeps
<1>7. CASE \E w \in Worker : Open(w) \/ Chunk(w) \/ SaveProgress(w) \/ EndStream(w) \/ Fails(w)
  BY <1>1, <1>7, OpenKeeps, ChunkKeeps, SaveProgressKeeps, EndStreamKeeps, FailsKeeps
<1>8. CASE \E w \in Worker : Hash(w) \/ AssertOwnership(w) \/ AcquireContentLock(w) \/ Store(w)
  BY <1>1, <1>8, HashKeeps, AssertKeeps, LockKeeps, StoreKeeps
<1>9. CASE \E w \in Worker : Finalize(w) \/ Release(w) \/ Interrupted(w)
  BY <1>1, <1>9, FinalizeKeeps, ReleaseKeeps, InterruptedKeeps
<1> QED BY <1>2, <1>3, <1>4, <1>5, <1>6, <1>7, <1>8, <1>9 DEF Next

\* Each claim has a partial path of its own, no two paths share a file and no content
\* object shares one with a path, for downloads that expire, break off, take over from
\* each other and are resumed, and offset and validator of the row fit its partial file.
THEOREM PathsKeepTheirClaim == Spec => []AssetInv
  BY InitAsset, StepAsset, PTL DEF Spec

\* Whatever expires, crashes, restarts a range or changes on the server: what finalization
\* completes is one version of the remote asset, whole, and its object has those bytes,
\* when no two page jobs used one partial path and no download began from an outdated file.
THEOREM AssetsAreOneVersion == Spec => []AssetIsOneVersion
<1>1. AssetInv => AssetIsOneVersion
  <2> SUFFICES ASSUME Typed, Kept, SoundlyContinued
               PROVE  /\ row.state = "completed" => IsWhole(row.sha)
                      /\ CompletedAssetIsVerified
                      /\ \A o \in objects : file[o.file] = o.sha
    BY DEF AssetInv, AssetIsOneVersion, Clean
  <2> QED BY DEF Kept, Apart, Complete, CompletedAssetIsVerified
<1> QED BY <1>1, PathsKeepTheirClaim, PTL
=============================================================================
