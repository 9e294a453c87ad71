----------------------------- MODULE ScopeQueue -----------------------------
(***************************************************************************)
(* From an address to a Page Job: what evaluateScope (scope-engine) makes  *)
(* of an address under a Profile revision, what queue.enqueue and          *)
(* queue.enqueueBatch read of the queue before they decide                 *)
(* (prepareEnqueue in application-service), and the transaction that then  *)
(* inserts a job, finds the one there is, or replays an earlier answer     *)
(* (enqueue in persistence-sqlite/src/queue.ts).  Commands of one process  *)
(* run side by side and interleave at every await.                         *)
(*                                                                         *)
(* An address is parsed: [scheme, credentials, host, port, path, query,    *)
(* fragment], its port 0 when it is the default one; a raw one may have a  *)
(* flaw instead, the reason code validateRawUrl or the parser gives it.  A *)
(* host is labels, four bytes or eight words; a query is a sequence of     *)
(* <<key, value>>, numbers in the order of their text.  A decision stands  *)
(* for its decisionId, which is a digest of nearly all its fields.         *)
(***************************************************************************)
EXTENDS Naturals, Sequences, SequencesExt, TLC

CONSTANTS
  Task,                  \* commands under way
  Key,                   \* idempotency keys
  Profile,               \* contents a Profile may have
  Batch,                 \* what a command may enter: sequences of items [raw, depth]
  Lower,                 \* Lower[k]: query key k in lower case
  SensitiveFragment, HashRoute,   \* the fragments that hold a secret, that begin with #/
  NoUrl,                 \* null
  MaxCommands, MaxRevisions   \* bounds: commands, revisions

VARIABLES
  profiles,    \* site_profile_revisions, in order; the last one is current
  jobs,        \* page_jobs, in the order of queue_sequence
  discoveries, \* job_discoveries
  operations,  \* queue_operations: [key, request, result]
  pc, mem,     \* each command: where it is; its items, and how many are prepared or entered
  issued,      \* what clients asked under each key: a retry asks the same
  answers,     \* what they were answered
  commands

vars == <<profiles, jobs, discoveries, operations, pc, mem, issued, answers, commands>>

-----------------------------------------------------------------------------
(* Hosts and rules *)

\* ipv4Bytes and classifyHost for an IPv4 address.
ClassOfBytes(b) ==
  CASE b[1] = 0 -> "unspecified"
    [] b[1] = 127 -> "loopback"
    [] b[1] = 10 \/ (b[1] = 172 /\ b[2] \in 16..31) \/ (b[1] = 192 /\ b[2] = 168) -> "private"
    [] b[1] = 169 /\ b[2] = 254 -> "link-local"
    [] b[1] \in 224..239 -> "multicast"
    [] b[1] >= 240 \/ SubSeq(b, 1, 3) \in {<<192, 0, 2>>, <<198, 51, 100>>, <<203, 0, 113>>}
         -> "reserved"
    [] OTHER -> "public"

\* ipv6Words and classifyHost for an IPv6 address: fc00::/7, fe80::/10, ff00::/8, the
\* documentation prefix, and IPv4 addresses mapped into it.
ClassOfWords(w) ==
  LET zeros(n) == \A i \in 1..n : w[i] = 0
  IN CASE zeros(8) -> "unspecified"
       [] zeros(7) /\ w[8] = 1 -> "loopback"
       [] w[1] \div 512 = 126 -> "private"
       [] w[1] \div 64 = 1018 -> "link-local"
       [] w[1] \div 256 = 255 -> "multicast"
       [] w[1] = 8193 /\ w[2] = 3512 -> "reserved"
       [] zeros(5) /\ w[6] = 65535
            -> ClassOfBytes(<<w[7] \div 256, w[7] % 256, w[8] \div 256, w[8] % 256>>)
       [] OTHER -> "public"

classifyHost(host) ==
  IF host.bytes # <<>> THEN ClassOfBytes(host.bytes)
  ELSE IF host.words # <<>> THEN ClassOfWords(host.words) ELSE "unknown-hostname"

\* canonicalHostname and uppercaseEscapes: no dot at the end, %2f becomes %2F.
Canonical(url) ==
  [url EXCEPT
     !.host.labels = IF @ # <<>> /\ Last(@) = "" THEN Front(@) ELSE @,
     !.path = [i \in DOMAIN @ |-> IF @[i] = "%2f" THEN "%2F" ELSE @[i]]]

Port(url) == IF url.port # 0 THEN url.port ELSE IF url.scheme = "https" THEN 443 ELSE 80

domainMatches(rule, url) ==
  /\ \/ url.host = rule.host
     \/ rule.match = "subdomains" /\ url.host.labels # <<>> /\ rule.host.labels # <<>>
        /\ IsStrictSuffix(rule.host.labels, url.host.labels)
  /\ url.scheme \in rule.schemes
  /\ rule.ports = {} \/ Port(url) \in rule.ports

\* A path is its segments, the last one "" when it ends in a slash; a prefix holds whole
\* segments and the slash at its end counts for nothing.
WithoutSlash(path) == IF Last(path) = "" THEN Front(path) ELSE path
pathMatches(rule, path) ==
  IF rule.match = "exact" THEN path = rule.path ELSE IsPrefix(WithoutSlash(rule.path), path)

Effect(rules, effect) == {rule \in rules : rule.effect = effect}
DomainDenied(p, url) == \E rule \in Effect(p.domainRules, "deny") : domainMatches(rule, url)
DomainAllowed(p, url) == \E rule \in Effect(p.domainRules, "allow") : domainMatches(rule, url)
PathDenied(p, url) == \E rule \in Effect(p.pathRules, "deny") : pathMatches(rule, url.path)
PathAllowed(p, url) ==
  LET allows == Effect(p.pathRules, "allow")
  IN allows = {} \/ \E rule \in allows : pathMatches(rule, url.path)

\* normalizeSiteProfileDraft: two rules must differ in what they match, not in the effect alone,
\* and the seeds must be in scope.
normalizeSiteProfileDraft(p) ==
  /\ \A r, s \in p.domainRules :
       r # s => <<r.match, r.host, r.schemes, r.ports>> # <<s.match, s.host, s.schemes, s.ports>>
  /\ \A r, s \in p.pathRules :
       r # s => \/ r.match # s.match
                \/ r.path # s.path
                   /\ (r.match = "prefix" => WithoutSlash(r.path) # WithoutSlash(s.path))
  /\ \A url \in p.seeds :
       /\ ~DomainDenied(p, url) /\ DomainAllowed(p, url)
       /\ ~PathDenied(p, url) /\ PathAllowed(p, url)

-----------------------------------------------------------------------------
(* evaluateScope *)

HasRule(p, key) == Lower[key] \in DOMAIN p.query
Classification(p, key) == IF HasRule(p, key) THEN p.query[Lower[key]].classification ELSE p.unknown
Sensitive(p, key) == HasRule(p, key) /\ p.query[Lower[key]].sensitive

\* sortPairs, with the pairs as they are when they are equal.
Before(a, b) == a[1] < b[1] \/ (a[1] = b[1] /\ a[2] < b[2])
Unsorted(pairs) == pairs
sortPairs(pairs) == SortSeq(pairs, Before)

normalizedPairs(p, url) ==
  sortPairs(SelectSeq(url.query, LAMBDA pair : ~Sensitive(p, pair[1])))
SensitiveIdentity(p, url) ==
  sortPairs(SelectSeq(url.query, LAMBDA pair :
    Classification(p, pair[1]) \notin {"denied", "tracking", "ignored"}))

identityPairs(p, url) ==
  sortPairs(SelectSeq(url.query, LAMBDA pair :
    /\ ~Sensitive(p, pair[1])
    /\ Classification(p, pair[1]) \notin {"denied", "tracking", "ignored"}))

preserveFragment(p, url) ==
  /\ url.fragment \notin SensitiveFragment
  /\ \/ p.fragmentPolicy = "preserve-all"
     \/ p.fragmentPolicy = "preserve-hash-routes" /\ url.fragment \in HashRoute

Normalized(p, url, pairs) ==
  [url EXCEPT !.query = pairs, !.fragment = IF preserveFragment(p, url) THEN @ ELSE ""]

Denied(p, url) == \E i \in DOMAIN url.query : Classification(p, url.query[i][1]) = "denied"
ipAuthorized(p, host) ==
  classifyHost(host) \in {"unknown-hostname", "public"} \cup p.allowedIpClasses

If(condition, code) == IF condition THEN {code} ELSE {}

\* Reasons that make an address ineligible.
Obstacles(p, url, depth, count, known) ==
  If(DomainDenied(p, url), "DOMAIN_DENIED")
    \cup If(~DomainDenied(p, url) /\ ~DomainAllowed(p, url), "DOMAIN_NOT_ALLOWED")
    \cup If(PathDenied(p, url), "PATH_DENIED")
    \cup If(~PathDenied(p, url) /\ ~PathAllowed(p, url), "PATH_NOT_ALLOWED")
    \cup If(Denied(p, url), "QUERY_DENIED")
    \cup If(~ipAuthorized(p, url.host), "PRIVATE_NETWORK_NOT_ALLOWED")
    \cup If(depth > p.maxDepth, "DEPTH_LIMIT_REACHED")
    \cup If(~known /\ count >= p.maxPages, "PAGE_LIMIT_REACHED")

\* Reasons that only say what was done.
Remarks(p, url, known) ==
  If(\E i \in DOMAIN url.query : Sensitive(p, url.query[i][1]), "SENSITIVE_QUERY_REMOVED")
    \cup If(url.fragment \in SensitiveFragment, "SENSITIVE_FRAGMENT_REMOVED")
    \cup If(known, "KNOWN_IDENTITY")
    \cup If(~p.approved, "PROFILE_AUTHORIZATION_INCOMPLETE")

Failure(raw) ==
  IF raw.flaw # "" THEN raw.flaw
  ELSE IF raw.url.scheme \notin {"http", "https"} THEN "SCHEME_NOT_ALLOWED"
  ELSE IF raw.url.credentials THEN "URL_CREDENTIALS_FORBIDDEN" ELSE ""

safeFailure(depth, code) ==
  [eligible |-> FALSE, shouldQueue |-> FALSE, reasons |-> {code}, normalized |-> NoUrl,
   identity |-> NoUrl, depth |-> depth, count |-> 0, known |-> FALSE]

evaluateScope(p, raw, depth, count, known) ==
  IF Failure(raw) # "" THEN safeFailure(depth, Failure(raw))
  ELSE LET url == Canonical(raw.url)
           obstacles == Obstacles(p, url, depth, count, known)
       IN [eligible |-> obstacles = {}, shouldQueue |-> obstacles = {} /\ p.approved,
           reasons |-> obstacles \cup Remarks(p, url, known),
           normalized |-> Normalized(p, url, normalizedPairs(p, url)),
           identity |-> Normalized(p, url, identityPairs(p, url)),
           depth |-> depth, count |-> count, known |-> known]

-----------------------------------------------------------------------------
(* The commands *)

NoMem == [revision |-> 0, items |-> <<>>, next |-> 1, known |-> FALSE]
Goto(t, where, what) == pc' = [pc EXCEPT ![t] = where] /\ mem' = [mem EXCEPT ![t] = what]
Item(t) == mem[t].items[mem[t].next]
ProfileOf(t) == profiles[mem[t].revision]
OfRevision(r) == {j \in DOMAIN jobs : jobs[j].revision = r}
OfIdentity(r, identity) == {j \in OfRevision(r) : jobs[j].identity = identity}

\* countIdentities
PageCount(r) == Len(SelectSeq(jobs, LAMBDA j : j.revision = r))

\* queue.enqueue or queue.enqueueBatch: the Profile is read and its revision compared; the items
\* of a batch get keys of their own.  A client that repeats a key repeats its request.
Start(t, key, requests, revision) ==
  /\ pc[t] = "idle" /\ commands < MaxCommands
  /\ issued[key] \in {<<>>, <<requests, revision>>}
  /\ revision = Len(profiles)
  /\ issued' = [issued EXCEPT ![key] = <<requests, revision>>]
  /\ commands' = commands + 1
  /\ Goto(t, "identity",
          [NoMem EXCEPT !.revision = revision,
             !.items = [i \in DOMAIN requests |->
                [key |-> <<key, i>>, raw |-> requests[i].raw, depth |-> requests[i].depth,
                 decision |-> safeFailure(0, "")]]])
  /\ UNCHANGED <<profiles, jobs, discoveries, operations, answers>>

\* prepareEnqueue, first half: is the identity of the address there?
HasIdentity(t) ==
  LET initial == evaluateScope(ProfileOf(t), Item(t).raw, Item(t).depth, 0, FALSE)
  IN /\ pc[t] = "identity"
     /\ Goto(t, "count", [mem[t] EXCEPT
          !.known = initial.identity # NoUrl /\ OfIdentity(mem[t].revision, initial.identity) # {}])
     /\ UNCHANGED <<profiles, jobs, discoveries, operations, issued, answers, commands>>

\* prepareEnqueue, second half: how many are there?  The decision is made of the two readings;
\* a batch prepares every item before it enters the first.
CountIdentities(t) ==
  LET decision == evaluateScope(ProfileOf(t), Item(t).raw, Item(t).depth,
                                PageCount(mem[t].revision), mem[t].known)
      prepared == [mem[t] EXCEPT !.items[mem[t].next].decision = decision]
  IN /\ pc[t] = "count"
     /\ IF mem[t].next = Len(mem[t].items)
        THEN Goto(t, "enqueue", [prepared EXCEPT !.next = 1])
        ELSE Goto(t, "identity", [prepared EXCEPT !.next = @ + 1])
     /\ UNCHANGED <<profiles, jobs, discoveries, operations, issued, answers, commands>>

Then(t) ==
  IF mem[t].next = Len(mem[t].items) THEN Goto(t, "idle", NoMem)
  ELSE Goto(t, "enqueue", [mem[t] EXCEPT !.next = @ + 1])

Answer(t, result) ==
  answers' = answers \cup {[key |-> Item(t).key, outcome |-> result.outcome, job |-> result.job]}

Result(outcome, j) == [outcome |-> outcome, job |-> j]

blockedReasons(reasons) ==
  reasons \cap {"PROFILE_AUTHORIZATION_INCOMPLETE", "PRIVATE_NETWORK_NOT_ALLOWED",
                "DOMAIN_DENIED", "PATH_DENIED", "QUERY_DENIED"} # {}

\* idempotent: the request is all that is sent, the decision included.
RequestOf(item) == [raw |-> item.raw, depth |-> item.depth, decision |-> item.decision]
Recorded(item) == {o \in operations : o.key = item.key}
Record(item, result) ==
  operations' = operations \cup {[key |-> item.key, request |-> RequestOf(item), result |-> result]}

\* insertDiscovery: INSERT OR IGNORE.
insertDiscovery(j, decision) ==
  discoveries' = discoveries \cup {[job |-> j, depth |-> decision.depth, decision |-> decision]}

\* The key is known: its first answer again, or a conflict.
Replay(t) ==
  /\ pc[t] = "enqueue"
  /\ \E o \in Recorded(Item(t)) :
       Answer(t, IF o.request = RequestOf(Item(t)) THEN o.result ELSE Result("conflict", 0))
  /\ Then(t)
  /\ UNCHANGED <<profiles, jobs, discoveries, operations, issued, commands>>

Enters(t, result) ==
  /\ Record(Item(t), result) /\ Answer(t, result) /\ Then(t)
  /\ UNCHANGED <<profiles, issued, commands>>

New(t) == pc[t] = "enqueue" /\ Recorded(Item(t)) = {}

\* enqueueInTransaction, with a decision that does not queue.
Reject(t) ==
  LET decision == Item(t).decision
  IN /\ New(t) /\ ~decision.shouldQueue
     /\ Enters(t, Result(IF blockedReasons(decision.reasons) THEN "blocked" ELSE "rejected", 0))
     /\ UNCHANGED <<jobs, discoveries>>

minimumDepth(a, b) == IF b < a THEN b ELSE a

\* The identity has a job: only its depth may change.
FindExisting(t) ==
  LET decision == Item(t).decision
  IN /\ New(t) /\ decision.shouldQueue
     /\ \E j \in OfIdentity(mem[t].revision, decision.identity) :
          /\ jobs' = [jobs EXCEPT ![j].depth = minimumDepth(@, decision.depth)]
          /\ insertDiscovery(j, decision)
          /\ Enters(t, Result("existing", j))

Room(t) == PageCount(mem[t].revision) < ProfileOf(t).maxPages

Create(t) ==
  LET decision == Item(t).decision
      j == Len(jobs) + 1
  IN /\ New(t) /\ decision.shouldQueue
     /\ OfIdentity(mem[t].revision, decision.identity) = {}
     /\ IF Room(t)
        THEN /\ jobs' = Append(jobs, [revision |-> mem[t].revision, identity |-> decision.identity,
                                      normalized |-> decision.normalized, raw |-> Item(t).raw.url,
                                      depth |-> decision.depth])
             /\ insertDiscovery(j, decision)
             /\ Enters(t, Result("created", j))
        ELSE /\ Enters(t, Result("rejected", 0))
             /\ UNCHANGED <<jobs, discoveries>>

\* profile.update: a further revision; commands that read the one before go on with it.
UpdateProfile(p) ==
  /\ Len(profiles) < MaxRevisions /\ normalizeSiteProfileDraft(p) /\ p # Last(profiles)
  /\ profiles' = Append(profiles, p)
  /\ UNCHANGED <<jobs, discoveries, operations, pc, mem, issued, answers, commands>>

-----------------------------------------------------------------------------
Init ==
  /\ profiles \in {<<p>> : p \in {q \in Profile : normalizeSiteProfileDraft(q)}}
  /\ jobs = <<>> /\ discoveries = {} /\ operations = {} /\ answers = {} /\ commands = 0
  /\ pc = [t \in Task |-> "idle"] /\ mem = [t \in Task |-> NoMem]
  /\ issued = [k \in Key |-> <<>>]

Step(t) ==
  \/ HasIdentity(t) \/ CountIdentities(t) \/ Replay(t) \/ Reject(t) \/ FindExisting(t) \/ Create(t)

Next ==
  \/ \E t \in Task, key \in Key, items \in Batch, r \in 1..MaxRevisions : Start(t, key, items, r)
  \/ \E t \in Task : Step(t)
  \/ \E p \in Profile : UpdateProfile(p)

Spec == Init /\ [][Next]_vars

-----------------------------------------------------------------------------
(* What evaluateScope is for, said without its way of doing it: two addresses are one page of a
   Profile when they differ in the order of the query, in what the Profile does not count, in a
   dot, an escape, or a fragment that is not kept. *)
Counted(p, url) ==
  {pair \in {url.query[i] : i \in DOMAIN url.query} :
     ~Sensitive(p, pair[1])
     /\ Classification(p, pair[1]) \in {"identity", "functional"}}
Times(p, url, pair) == Len(SelectSeq(url.query, LAMBDA other : other = pair))
SamePage(p, a, b) ==
  LET u == Canonical(a)
      v == Canonical(b)
  IN /\ <<u.scheme, u.host, u.port, u.path>> = <<v.scheme, v.host, v.port, v.path>>
     /\ Counted(p, u) = Counted(p, v)
     /\ \A pair \in Counted(p, u) : Times(p, u, pair) = Times(p, v, pair)
     /\ preserveFragment(p, u) \/ preserveFragment(p, v) => u.fragment = v.fragment

\* No two jobs of a Profile revision are one page, and an address that is not the page of a job
\* is never taken for it, whatever commands read before they entered their items
\* (JOB_IDENTITY_AND_DEDUPLICATION.md).
OneJobPerPage ==
  /\ \A i, j \in DOMAIN jobs :
       i # j /\ jobs[i].revision = jobs[j].revision
         => ~SamePage(profiles[jobs[i].revision], jobs[i].raw, jobs[j].raw)
  /\ \A d \in discoveries :
       LET job == jobs[d.job]
       IN d.decision.identity = job.identity /\ d.depth >= job.depth

\* A job is rendered at its normalized address, which is evaluated again for every navigation:
\* it must then be in scope under the revision it came in by, and be its own normal form.
JobsStayInScope ==
  \A j \in DOMAIN jobs :
    LET again == evaluateScope(profiles[jobs[j].revision], [flaw |-> "", url |-> jobs[j].normalized],
                               0, 0, FALSE)
    IN again.eligible /\ again.normalized = jobs[j].normalized /\ again.identity = jobs[j].identity

\* Commands that decide side by side never bring more jobs in than the Profile's maxPages.
PageLimitHolds == \A r \in DOMAIN profiles : PageCount(r) <= profiles[r].maxPages

\* A retry under the same key is answered what the first one was (QUEUE_IDEMPOTENCY.md).
RetriesAreReplayed ==
  \A a, b \in answers : a.key = b.key => a = b
=============================================================================
