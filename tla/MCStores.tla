------------------------------ MODULE MCStores ------------------------------
(***************************************************************************)
(* What a Project keeps and the pages that go into it, for TLC: the        *)
(* Project lock, the Project store, the vault, the render of a page, the   *)
(* captured responses, the pages read offline and the protected key.  They *)
(* share no state, so one run checks all seven: `part` says which of them  *)
(* this behaviour is of, and the variables of the others are 0 throughout, *)
(* or, those of the vault, as they are at first.                           *)
(***************************************************************************)
EXTENDS Vault, Naturals, Sequences, FiniteSets, TLC

CONSTANTS c1, c2, c3,     \* processes, tasks or commands; c3 is on a host of its own
          s1, s2,        \* secrets or bodies
          v1, v2,        \* stores of the vault
          None

VARIABLES
  part,
  projectLock, written, lockPc, count,
  promoted, applied, metaSchema, ledger, revisions, manifest, profileFile, backups,
  archives, current, conn, tx, lock, storePc, storeMem, storeCommands, opens,
  storeFaults, crashes, storeOverlapped, session, died,
  policy, rows, bodies, replayPc, replayMem, heard, damaged, requests, replayFaults,
  pages, document, phase, derived, overrides, answer,
  renderPc, result, got, failure, polls, doc, address, asked, navigationBlocked,
  navigationAuthorizationPending, blockedRequests, netQuiet, refused, sent, signals,
  provider, keyFile, stale, keyVault, master, keyPc, keyMem, madeKeys, keyCommands,
  keyFaults, keyCrashes, keyOverlapped, late

ofLock == <<projectLock, written, lockPc, count>>
ofProject == <<promoted, applied, metaSchema, ledger, revisions, manifest, profileFile, backups,
               archives, current, conn, tx, lock, storePc, storeMem, storeCommands, opens,
               storeFaults, crashes, storeOverlapped, session, died>>
ofVault == vars
ofReplay == <<policy, rows, bodies, replayPc, replayMem, heard, damaged, requests, replayFaults>>
ofRoutes == <<pages, document, phase, derived, overrides, answer>>
ofRender == <<renderPc, result, got, failure, polls, doc, address, asked, navigationBlocked,
              navigationAuthorizationPending, blockedRequests, netQuiet, refused, sent, signals>>
ofKey == <<provider, keyFile, stale, keyVault, master, keyPc, keyMem, madeKeys, keyCommands,
           keyFaults, keyCrashes, keyOverlapped, late>>

LockFile == INSTANCE ProjectLock WITH
  Process <- {c1, c2, c3}, NoFile <- None, HostOf <- (c1 :> "A" @@ c2 :> "A" @@ c3 :> "B"),
  MaxInstances <- 2, lockFile <- projectLock, pc <- lockPc

Project == INSTANCE ProjectStore WITH
  Task <- {c1, c2}, NoTask <- None, CurrentSchema <- 3, LegacySchema <- 1,
  MaxCommands <- 5, MaxOpens <- 2, MaxSeq <- 2, MaxFaults <- 1, MaxCrashes <- 1,
  pc <- storePc, mem <- storeMem, commands <- storeCommands, faults <- storeFaults,
  overlapped <- storeOverlapped

\* The vault itself, with two commands in one process and one in another.
StoreOfCommand == c1 :> v1 @@ c2 :> v1 @@ c3 :> v2

\* Requests to an API, one that would change it, one with a secret in it, one to the runtime.
ApiRequest(method, to, tracked, sensitive) ==
  [method |-> method, to |-> to, key |-> tracked, sensitive |-> sensitive]

Replay == INSTANCE NetworkReplay WITH
  Task <- {c1, c2}, Body <- {s1, s2}, NoBody <- None, MaxRequests <- 3, MaxFaults <- 1,
  Request <- {ApiRequest("GET", "api", FALSE, FALSE), ApiRequest("GET", "api", TRUE, FALSE),
              ApiRequest("HEAD", "api", FALSE, FALSE), ApiRequest("POST", "api", FALSE, FALSE),
              ApiRequest("GET", "runtime", FALSE, FALSE), ApiRequest("GET", "api", FALSE, TRUE)},
  file <- bodies, pc <- replayPc, mem <- replayMem, faults <- replayFaults

\* Pages, references and documents: one archived asset and one that failed; the URLs, routes
\* and documents of two pages may coincide, differ in case, or need what a route has not.
Url(origin, path, search, hash) == [origin |-> origin, path |-> path, search |-> search, hash |-> hash]
Ref(kind, origin, path, search) == [kind |-> kind, url |-> Url(origin, path, search, "")]
Fragment(ref) == [ref EXCEPT !.url.hash = "#h"]
Tag(tag, refs) == [tag |-> tag, refs |-> refs, described |-> TRUE]
Rooted(path) == Ref("rooted", "", path, "")
PageFile(p) == <<"pages", p, "rendered">>
Mapping(url, identity, route, resource, entry, runId) ==
  [url |-> url, identity |-> identity, route |-> route, resource |-> resource, entry |-> entry,
   runId |-> runId]
BaseChoices ==
  {<<>>, <<Tag("base", <<Rooted(<<"d", "">>)>>)>>,
   <<Tag("base", <<>>), Tag("base", <<Ref("absolute", "cdn", <<"">>, "")>>)>>}
Refs ==
  {Ref("absolute", "cdn", <<"b">>, ""), Ref("absolute", "cdn", <<"i">>, "?x"), Rooted(<<"b">>),
   Fragment(Ref("relative", "", <<"b">>, "")), Ref("rooted", "", <<"a">>, "?x"),
   Rooted(<<"none">>), Ref("scheme", "", <<>>, ""), Ref("broken", "", <<>>, ""), Ref("empty", "", <<>>, "")}
Candidates == <<Ref("relative", "", <<"b">>, ""), Rooted(<<"a">>)>>
Tags == {Tag("a", <<r>>) : r \in Refs}
        \cup {Tag("canonical", <<Rooted(<<"b">>)>>), Tag("srcset", Candidates),
              Tag("css", <<Ref("relative", "", <<"b">>, "")>>),
              [Tag("srcset", Candidates) EXCEPT !.described = FALSE]}

Routes == INSTANCE OfflineRoutes WITH
  Page <- {"p1", "p2"}, source <- "p1", scopeRun <- 1, stylesheet <- Url("cdn", <<"s">>, "", ""),
  Lower <- ("A" :> "a"), Decoded <- ("%62" :> "b"),
  assets <- {[url |-> Url("cdn", <<"i">>, "?x", ""), resource |-> <<"objects", "i">>, state |-> "completed"],
             [url |-> Url("site", <<"none">>, "", ""), resource |-> <<"objects", "n">>, state |-> "failed"]},
  Documents <- {b \o <<t>> : b \in BaseChoices, t \in Tags},
  PageMappings <-
    ("p1" :> {Mapping(Url("site", <<"a">>, "", ""), 1, r, PageFile("p1"), <<>>, 1) :
                r \in {<<"a">>, <<"A">>, <<"a", "">>}})
    @@ ("p2" :> UNION {{Mapping(u, i, r, PageFile("p2"), <<>>, 1),
                        Mapping(u, i, r, PageFile("p1"), <<>>, 1),
                        Mapping(u, i, r, PageFile("p2"), PageFile("p1"), i)} :
                  u \in {Url("site", <<"b">>, "", ""), Url("cdn", <<"b">>, "", ""),
                         Url("site", <<"a">>, "?x", ""), Url("site", <<"a">>, "", "")},
                  i \in 1..2, r \in {<<"b">>, <<"a">>, <<"">>, <<"b", "">>, <<"%62">>}})

\* The page may go to an address the policy does not let through.
Render == INSTANCE PageRender WITH
  Urls <- {"home", "out"}, Allowed <- {"home"}, requestedUrl <- "home",
  Image <- "image", Frame <- "frame", MayHang <- TRUE,
  MaxDocuments <- 2, MaxRequests <- 2, MaxPolls <- 1, MaxSignals <- 1,
  pc <- renderPc, requests <- asked

KeyFile == INSTANCE ProtectedKey WITH
  Task <- {c1, c2}, MaxKeys <- 3, MaxCommands <- 5, MaxFaults <- 2, MaxCrashes <- 1,
  vault <- keyVault, pc <- keyPc, mem <- keyMem, keys <- madeKeys, commands <- keyCommands,
  faults <- keyFaults, crashes <- keyCrashes, overlapped <- keyOverlapped

Symmetry == Permutations({c1, c2}) \cup Permutations({s1, s2})

NoLock == projectLock = 0 /\ written = 0 /\ lockPc = 0 /\ count = 0
NoProject ==
  /\ promoted = 0 /\ applied = 0 /\ metaSchema = 0 /\ ledger = 0 /\ revisions = 0 /\ manifest = 0
  /\ profileFile = 0 /\ backups = 0 /\ archives = 0 /\ current = 0 /\ conn = 0 /\ tx = 0
  /\ lock = 0 /\ storePc = 0 /\ storeMem = 0 /\ storeCommands = 0 /\ opens = 0
  /\ storeFaults = 0 /\ crashes = 0 /\ storeOverlapped = 0 /\ session = 0 /\ died = 0
NoSecrets == Init
NoReplay ==
  /\ policy = 0 /\ rows = 0 /\ bodies = 0 /\ replayPc = 0 /\ replayMem = 0 /\ heard = 0
  /\ damaged = 0 /\ requests = 0 /\ replayFaults = 0
NoRoutes ==
  /\ pages = 0 /\ document = 0 /\ phase = 0 /\ derived = 0 /\ overrides = 0 /\ answer = 0

NoRender ==
  /\ renderPc = 0 /\ result = 0 /\ got = 0 /\ failure = 0 /\ polls = 0 /\ doc = 0 /\ address = 0
  /\ asked = 0 /\ navigationBlocked = 0 /\ navigationAuthorizationPending = 0
  /\ blockedRequests = 0 /\ netQuiet = 0 /\ refused = 0 /\ sent = 0 /\ signals = 0
NoKey ==
  /\ provider = 0 /\ keyFile = 0 /\ stale = 0 /\ keyVault = 0 /\ master = 0 /\ keyPc = 0
  /\ keyMem = 0 /\ madeKeys = 0 /\ keyCommands = 0 /\ keyFaults = 0 /\ keyCrashes = 0
  /\ keyOverlapped = 0 /\ late = 0

InitStores ==
  \/ /\ part = "lock" /\ LockFile!Init
     /\ NoProject /\ NoSecrets /\ NoReplay /\ NoRoutes /\ NoRender /\ NoKey
  \/ /\ part = "project" /\ Project!Init
     /\ NoLock /\ NoSecrets /\ NoReplay /\ NoRoutes /\ NoRender /\ NoKey
  \/ /\ part = "vault" /\ Init
     /\ NoLock /\ NoProject /\ NoReplay /\ NoRoutes /\ NoRender /\ NoKey
  \/ /\ part = "replay" /\ Replay!Init
     /\ NoLock /\ NoProject /\ NoSecrets /\ NoRoutes /\ NoRender /\ NoKey
  \/ /\ part = "routes" /\ Routes!Init
     /\ NoLock /\ NoProject /\ NoSecrets /\ NoReplay /\ NoRender /\ NoKey
  \/ /\ part = "render" /\ Render!Init
     /\ NoLock /\ NoProject /\ NoSecrets /\ NoReplay /\ NoRoutes /\ NoKey
  \/ /\ part = "key" /\ KeyFile!Init
     /\ NoLock /\ NoProject /\ NoSecrets /\ NoReplay /\ NoRoutes /\ NoRender

NextStores ==
  /\ UNCHANGED part
  /\ \/ /\ part = "lock" /\ LockFile!Next
        /\ UNCHANGED <<ofProject, ofVault, ofReplay, ofRoutes, ofRender, ofKey>>
     \/ /\ part = "project" /\ Project!Next
        /\ UNCHANGED <<ofLock, ofVault, ofReplay, ofRoutes, ofRender, ofKey>>
     \/ /\ part = "vault" /\ Next
        /\ UNCHANGED <<ofLock, ofProject, ofReplay, ofRoutes, ofRender, ofKey>>
     \/ /\ part = "replay" /\ Replay!Next
        /\ UNCHANGED <<ofLock, ofProject, ofVault, ofRoutes, ofRender, ofKey>>
     \/ /\ part = "routes" /\ Routes!Next
        /\ UNCHANGED <<ofLock, ofProject, ofVault, ofReplay, ofRender, ofKey>>
     \/ /\ part = "render" /\ Render!Next
        /\ UNCHANGED <<ofLock, ofProject, ofVault, ofReplay, ofRoutes, ofKey>>
     \/ /\ part = "key" /\ KeyFile!Next
        /\ UNCHANGED <<ofLock, ofProject, ofVault, ofReplay, ofRoutes, ofRender>>

SpecStores ==
  /\ InitStores
  /\ [][NextStores]_<<part, ofLock, ofProject, ofVault, ofReplay, ofRoutes, ofRender, ofKey>>

-----------------------------------------------------------------------------
\* acquireProjectLock: a process that has the lock finds its own file in place, unless two
\* have judged the same dead owner stale.
OwnersKeepTheirLock == part = "lock" => LockFile!OwnersKeepTheirLock

\* persistProfileRevision, open and close: row, profile file, manifest, archives and
\* execution sessions say the same of the Project, whatever failed or was undone before.
StoreIsSound == part = "project" => Project!StoreIsSound

\* capture, lookup and readBody: a replayed answer is one that a server gave to that request,
\* and nothing a strict policy cannot answer leaves the machine.
ReplayIsFaithful == part = "replay" => Replay!ReplayIsFaithful

\* rewriteHtml, generateRouteMap and the local runtime: a reference that was made local leads
\* to the page or asset it named, or to an error.
LinksReachTheirPage == part = "routes" => Routes!LinksReachTheirPage

\* installRouting and readStabilitySnapshot: the HTML of a completed render is of a document
\* the policy let through or an error page, and a document under observation was stable.
CompletedRenderIsSound == part = "render" => Render!CompletedRenderIsSound

\* navigate: the failure is not one to try again after the policy has refused the page, nor as
\* long as it is still being asked.
RefusalIsFinal == part = "render" => Render!RefusalIsFinal

\* The desktop's initialize, unlock and renewal: a vault keeps the key it was made with.
KeyOpensVault == part = "key" => KeyFile!KeyOpensVault
=============================================================================
