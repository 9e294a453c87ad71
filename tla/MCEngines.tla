----------------------------- MODULE MCEngines -----------------------------
(***************************************************************************)
(* What is under way, for TLC: the commands of the service on its          *)
(* Projects, the archives they make and take in, the addresses that enter  *)
(* the queue, the login flow, the browser runtime, the network budget, the *)
(* proxy manager and an interaction plan.  They share no state, so one run *)
(* checks all eight: `part` says which of them this behaviour is of, and   *)
(* the variables of the others are 0 throughout, or, those of the service, *)
(* as they are at first.                                                   *)
(***************************************************************************)
EXTENDS ServiceCommands, Naturals, Sequences, FiniteSets, TLC

CONSTANTS c1, c2,          \* commands or jobs
          s1, s2,          \* sessions
          user, tester,  \* callers of restart and testProxy
          d1, d2, p1,      \* dialogs and a popup
          None

VARIABLES
  part,
  session, stored, runState, active, window, slot, flow, engine, loginPc, loginMem,
  loginCommands, refs, windows, engines, loginFaults, removed, sessionsSaved,
  browser, alive, state, activeJobIds, pagesRendered, restarts, authentication, browserPc,
  own, rotating, launches, calls, browserFaults, killed, raced,
  now, inflight, tokens, cooldown, req, permits, saved, queue, granted, before, announced, unsaved,
  withdrawn, budgetFaults,
  row, vaultOf, drawn, cooling, proxyPc, proxyMem, configs, reborn, adopted, proxyCommands,
  proxyFaults,
  enabled, plan, planPc, index, attempt, keys, lastError, budget, trace, external,
  completedStepCount, status, result, installed, handler, world, pressed, tries,
  profiles, jobs, discoveries, operations, scopePc, scopeMem, issued, answers, scopeCommands,
  copied, archive, destination, staging, archivePc, archiveMem, archiveAnswers, exported,
  archiveCommands, archiveFaults, archiveCrashes

ofLogin == <<session, stored, runState, active, window, slot, flow, engine, loginPc, loginMem,
             loginCommands, refs, windows, engines, loginFaults, removed, sessionsSaved>>
ofBrowser == <<browser, alive, state, activeJobIds, pagesRendered, restarts, authentication,
               browserPc, own, rotating, launches, calls, browserFaults, killed, raced>>
ofBudget == <<now, inflight, tokens, cooldown, req, permits, saved, queue, granted, before, announced,
              unsaved, withdrawn, budgetFaults>>
ofProxy == <<row, vaultOf, drawn, cooling, proxyPc, proxyMem, configs, reborn, adopted,
             proxyCommands, proxyFaults>>
ofPlan == <<enabled, plan, planPc, index, attempt, keys, lastError, budget, trace, external,
            completedStepCount, status, result, installed, handler, world, pressed, tries>>
ofScope == <<profiles, jobs, discoveries, operations, scopePc, scopeMem, issued, answers,
             scopeCommands>>
ofService == vars
ofArchive == <<copied, archive, destination, staging, archivePc, archiveMem, archiveAnswers,
               exported, archiveCommands, archiveFaults, archiveCrashes>>

Login == INSTANCE LoginFlow WITH
  Session <- {s1, s2}, Command <- {c1, c2}, NoSession <- None,
  MaxCommands <- 5, MaxRefs <- 2, MaxBrowsers <- 2, MaxEngines <- 1, MaxFaults <- 1,
  row <- session, run <- runState, browser <- window, pc <- loginPc, mem <- loginMem,
  commands <- loginCommands, browsers <- windows, faults <- loginFaults,
  saved <- sessionsSaved

Browser == INSTANCE BrowserRuntime WITH
  Job <- {c1, c2}, User <- user, Tester <- tester, maximumPages <- 1, MAX_RESTARTS <- 2,
  MaxLaunches <- 4, MaxCalls <- 4, MaxFaults <- 1, pc <- browserPc, faults <- browserFaults

\* The third request has a URL of its own.
Budget == INSTANCE OriginBudget WITH
  Request <- 1..3, Key <- {"shared", "own"},
  KeyOf <- [r \in 1..3 |-> IF r = 3 THEN "own" ELSE "shared"],
  MaxInflight <- 1, Rate <- 1, burstLimit <- 2, MaxDelay <- 1, MaxTime <- 2, MaxQueue <- 2,
  MaxFaults <- 1, faults <- budgetFaults

Proxy == INSTANCE ProxyManager WITH
  Command <- {c1, c2}, NoRef <- 0, failureThreshold <- 2, MaxRefs <- 3, MaxRevision <- 3,
  MaxCommands <- 4, MaxFaults <- 1,
  store <- vaultOf, pc <- proxyPc, mem <- proxyMem, commands <- proxyCommands, faults <- proxyFaults

\* A click that is retried before a step that may be skipped; two steps that press keys and
\* are tried again after an unknown failure; a plan that presses too many keys.
PlanStep(type, keyCount, policy, maxAttempts, retryable) ==
  [type |-> type, keys |-> keyCount, failurePolicy |-> policy, maxAttempts |-> maxAttempts,
   retryable |-> retryable]
Tabs == PlanStep("tab", 2, "stop", 2, {"unknown", "cancellation"})
Plan == INSTANCE Interaction WITH
  Plans <- {<<PlanStep("click", 0, "retry", 2, {}), PlanStep("tab", 1, "skip", 1, {})>>,
            <<Tabs, Tabs>>, <<PlanStep("tab", 3, "skip", 1, {})>>},
  Dialog <- {d1, d2}, Popup <- {p1}, maxActionsPerPage <- 2, maxTabSteps <- 2, maxDialogsPerPage <- 1,
  maxPopupsPerPage <- 1, maxTraceEvents <- 6, MaxHappenings <- 1, pc <- planPc

\* Hosts, addresses and rules of a small site.  Query keys: 1 is the upper case of 2, 3 is a
\* secret, 4 a tracking key, 5 has no rule.
Host(labels, bytes, words) == [labels |-> labels, bytes |-> bytes, words |-> words]
Site == Host(<<"site">>, <<>>, <<>>)
Inside == Host(<<>>, <<10, 0, 0, 1>>, <<>>)
InsideMapped == Host(<<>>, <<>>, <<0, 0, 0, 0, 0, 65535, 2560, 1>>)
Address(host, path, query, fragment) ==
  [scheme |-> "https", credentials |-> FALSE, host |-> host, port |-> 0, path |-> path,
   query |-> query, fragment |-> fragment]
Home == Address(Site, <<"a">>, <<>>, "")
Item(url, depth) == [raw |-> [flaw |-> "", url |-> url], depth |-> depth]
Rule(effect, match, what) == [effect |-> effect, match |-> match] @@ what
ForHost(host) == [host |-> host, schemes |-> {"http", "https"}, ports |-> {}]
ForPath(path) == [path |-> path]
ForKey(classification, sensitive) == [classification |-> classification, sensitive |-> sensitive]

Archived ==
  [seeds |-> {Home}, approved |-> TRUE, unknown |-> "identity",
   query |-> (3 :> ForKey("ignored", TRUE) @@ 4 :> ForKey("tracking", FALSE)),
   domainRules |-> {Rule("allow", "subdomains", ForHost(Site)),
                    Rule("allow", "exact", ForHost(Inside)),
                    Rule("allow", "exact", ForHost(InsideMapped)),
                    Rule("deny", "exact", ForHost(Host(<<"old", "site">>, <<>>, <<>>)))},
   pathRules |-> {Rule("allow", "prefix", ForPath(<<"a", "">>)),
                  Rule("deny", "exact", ForPath(<<"a", "x">>))},
   fragmentPolicy |-> "preserve-hash-routes", allowedIpClasses |-> {}, maxDepth |-> 1,
   maxPages |-> 2]
\* One page only, known keys only, one of them functional but secret.
Narrow == [Archived EXCEPT !.unknown = "denied", !.maxPages = 1, !.fragmentPolicy = "preserve-all",
                           !.query = @ @@ (2 :> ForKey("functional", TRUE))]
Unapproved == [Archived EXCEPT !.approved = FALSE, !.fragmentPolicy = "ignore-all"]
\* Refused: the same prefix is allowed and denied.
Contradictory == [Archived EXCEPT !.pathRules = @ \cup {Rule("deny", "prefix", ForPath(<<"a">>))}]

Found == [Home EXCEPT !.query = <<<<2, 1>>, <<3, 7>>, <<2, 0>>, <<5, 0>>>>, !.fragment = "#/r"]
FoundAgain == [Home EXCEPT !.host.labels = <<"site", "">>, !.fragment = "#/r",
                           !.query = <<<<5, 0>>, <<4, 1>>, <<2, 1>>, <<2, 0>>>>]
Escaped == Address(Host(<<"www", "site">>, <<>>, <<>>), <<"a", "%2f">>, <<<<1, 0>>>>, "#s")
Scope == INSTANCE ScopeQueue WITH
  Task <- {c1, c2}, Key <- {1, 2}, Profile <- {Archived, Narrow, Unapproved, Contradictory},
  Batch <- {<<Item(Found, 1)>>, <<Item(Home, 0)>>,
            <<Item(FoundAgain, 0), Item([Home EXCEPT !.fragment = "#/token=1"], 1)>>,
            <<Item(Escaped, 1), Item(Home, 2)>>,
            <<Item(Address(Inside, <<"a">>, <<>>, ""), 0),
              Item(Address(InsideMapped, <<"a">>, <<>>, ""), 0)>>,
            <<Item([Home EXCEPT !.host.labels = <<"old", "site">>], 0),
              Item([Home EXCEPT !.path = <<"a", "x">>], 0)>>,
            <<Item([Home EXCEPT !.scheme = "ftp"], 0), Item([Home EXCEPT !.path = <<"b">>], 0)>>,
            <<Item([Home EXCEPT !.credentials = TRUE], 0),
              [Item(Home, 0) EXCEPT !.raw.flaw = "URL_INVALID"]>>},
  Lower <- (1 :> 2 @@ [k \in 2..5 |-> k]),
  SensitiveFragment <- {"#/token=1"}, HashRoute <- {"#/r", "#/token=1"}, NoUrl <- None,
  MaxCommands <- 2, MaxRevisions <- 2, pc <- scopePc, mem <- scopeMem, commands <- scopeCommands

\* Archives that are whole, and others with one thing wrong each.
Described(id, files, inventory) ==
  [sound |-> TRUE, files |-> files, metadata |-> [id |-> id, listed |-> inventory]]
Complete(id, files) == Described(id, files, files)
Core == {<<"project.json", "q">>, <<"database/crawl.db", "q">>}
PageB == <<"pages/b", "text">>
GivenArchives ==
  {Complete("q", Core \cup {f}) :
     f \in {PageB, <<"pages/b", "blanks">>, <<"secrets/vault.json", "text">>, <<"../out", "text">>}}
  \cup {Complete("q", Core \cup {PageB, <<"pages/B", "text">>}), Complete("p", Core),
        Complete("q", {<<"project.json", "q">>, <<"database/crawl.db", "p">>}),
        Complete("q", {<<"project.json", "q">>}),
        Described("q", Core \cup {PageB}, Core),
        Described("q", Core \cup {PageB}, Core \cup {<<"pages/b", "html">>}),
        [Complete("q", Core) EXCEPT !.metadata = [id |-> "none", listed |-> {}]]}
SafeNames ==
  {"project.json", "database/crawl.db", "pages/b", "pages/B", "secrets/vault.json"}

Archives == INSTANCE ProjectArchive WITH
  Task <- {c1, c2}, NoTask <- None, Portable <- SafeNames, Given <- GivenArchives,
  Key <- ("pages/B" :> "pages/b" @@ [n \in SafeNames \cup {"../out"} |-> n]),
  Pages <- {"pages/b"} \X {"text", "blanks", "huge"},
  MaxEntries <- 5, MaxCommands <- 3, MaxFaults <- 1, MaxCrashes <- 1,
  source <- copied, answers <- archiveAnswers, pc <- archivePc, mem <- archiveMem,
  commands <- archiveCommands, faults <- archiveFaults, crashes <- archiveCrashes

Symmetry == Permutations({c1, c2}) \cup Permutations({s1, s2}) \cup Permutations({d1, d2})

NoLogin ==
  /\ session = 0 /\ stored = 0 /\ runState = 0 /\ active = 0 /\ window = 0 /\ slot = 0 /\ flow = 0
  /\ engine = 0 /\ loginPc = 0 /\ loginMem = 0 /\ loginCommands = 0 /\ refs = 0 /\ windows = 0
  /\ engines = 0 /\ loginFaults = 0 /\ removed = 0 /\ sessionsSaved = 0
NoBrowser ==
  /\ browser = 0 /\ alive = 0 /\ state = 0 /\ activeJobIds = 0 /\ pagesRendered = 0
  /\ restarts = 0 /\ authentication = 0 /\ browserPc = 0 /\ own = 0 /\ rotating = 0 /\ launches = 0
  /\ calls = 0 /\ browserFaults = 0 /\ killed = 0 /\ raced = 0
NoBudget ==
  /\ now = 0 /\ inflight = 0 /\ tokens = 0 /\ cooldown = 0 /\ req = 0 /\ permits = 0 /\ saved = 0
  /\ queue = 0 /\ granted = 0 /\ before = 0 /\ announced = 0 /\ unsaved = 0 /\ withdrawn = 0
  /\ budgetFaults = 0
NoProxy ==
  /\ row = 0 /\ vaultOf = 0 /\ drawn = 0 /\ cooling = 0 /\ proxyPc = 0 /\ proxyMem = 0
  /\ configs = 0 /\ reborn = 0 /\ adopted = 0 /\ proxyCommands = 0 /\ proxyFaults = 0
NoPlan ==
  /\ enabled = 0 /\ plan = 0 /\ planPc = 0 /\ index = 0 /\ attempt = 0 /\ keys = 0
  /\ lastError = 0 /\ budget = 0 /\ trace = 0 /\ external = 0 /\ completedStepCount = 0
  /\ status = 0 /\ result = 0 /\ installed = 0 /\ handler = 0 /\ world = 0 /\ pressed = 0
  /\ tries = 0
NoScope ==
  /\ profiles = 0 /\ jobs = 0 /\ discoveries = 0 /\ operations = 0 /\ scopePc = 0 /\ scopeMem = 0
  /\ issued = 0 /\ answers = 0 /\ scopeCommands = 0
NoService == Init
NoArchives ==
  /\ copied = 0 /\ archive = 0 /\ destination = 0 /\ staging = 0 /\ archivePc = 0
  /\ archiveMem = 0 /\ archiveAnswers = 0 /\ exported = 0 /\ archiveCommands = 0
  /\ archiveFaults = 0 /\ archiveCrashes = 0

InitEngines ==
  \/ /\ part = "login" /\ Login!Init
     /\ NoBrowser /\ NoBudget /\ NoProxy /\ NoPlan /\ NoScope /\ NoService /\ NoArchives
  \/ /\ part = "browser" /\ Browser!Init
     /\ NoLogin /\ NoBudget /\ NoProxy /\ NoPlan /\ NoScope /\ NoService /\ NoArchives
  \/ /\ part = "budget" /\ Budget!Init
     /\ NoLogin /\ NoBrowser /\ NoProxy /\ NoPlan /\ NoScope /\ NoService /\ NoArchives
  \/ /\ part = "proxy" /\ Proxy!Init
     /\ NoLogin /\ NoBrowser /\ NoBudget /\ NoPlan /\ NoScope /\ NoService /\ NoArchives
  \/ /\ part = "plan" /\ Plan!Init
     /\ NoLogin /\ NoBrowser /\ NoBudget /\ NoProxy /\ NoScope /\ NoService /\ NoArchives
  \/ /\ part = "scope" /\ Scope!Init
     /\ NoLogin /\ NoBrowser /\ NoBudget /\ NoProxy /\ NoPlan /\ NoService /\ NoArchives
  \/ /\ part = "service" /\ Init
     /\ NoLogin /\ NoBrowser /\ NoBudget /\ NoProxy /\ NoPlan /\ NoScope /\ NoArchives
  \/ /\ part = "archive" /\ Archives!Init
     /\ NoLogin /\ NoBrowser /\ NoBudget /\ NoProxy /\ NoPlan /\ NoScope /\ NoService

NextEngines ==
  /\ UNCHANGED part
  /\ \/ /\ part = "login" /\ Login!Next
        /\ UNCHANGED <<ofBrowser, ofBudget, ofProxy, ofPlan, ofScope, ofService, ofArchive>>
     \/ /\ part = "browser" /\ Browser!Next
        /\ UNCHANGED <<ofLogin, ofBudget, ofProxy, ofPlan, ofScope, ofService, ofArchive>>
     \/ /\ part = "budget" /\ Budget!Next
        /\ UNCHANGED <<ofLogin, ofBrowser, ofProxy, ofPlan, ofScope, ofService, ofArchive>>
     \/ /\ part = "proxy" /\ Proxy!Next
        /\ UNCHANGED <<ofLogin, ofBrowser, ofBudget, ofPlan, ofScope, ofService, ofArchive>>
     \/ /\ part = "plan" /\ Plan!Next
        /\ UNCHANGED <<ofLogin, ofBrowser, ofBudget, ofProxy, ofScope, ofService, ofArchive>>
     \/ /\ part = "scope" /\ Scope!Next
        /\ UNCHANGED <<ofLogin, ofBrowser, ofBudget, ofProxy, ofPlan, ofService, ofArchive>>
     \/ /\ part = "service" /\ Next
        /\ UNCHANGED <<ofLogin, ofBrowser, ofBudget, ofProxy, ofPlan, ofScope, ofArchive>>
     \/ /\ part = "archive" /\ Archives!Next
        /\ UNCHANGED <<ofLogin, ofBrowser, ofBudget, ofProxy, ofPlan, ofScope, ofService>>

ofEngines ==
  <<part, ofLogin, ofBrowser, ofBudget, ofProxy, ofPlan, ofScope, ofService, ofArchive>>
SpecEngines == InitEngines /\ [][NextEngines]_ofEngines

-----------------------------------------------------------------------------
\* onAuthenticated: a first login resumes the Run only after its session was saved.
FirstLoginResumesAfterSave == [][part = "login" => Login!ResumesFirstLogin]_ofEngines

\* createPageSession and restart: no page loses its browser to a rotation or a restart, as
\* long as no call met a launch or a close under way.
PagesKeepTheirBrowser == part = "browser" => Browser!PagesKeepTheirBrowser

\* InMemoryOriginNetworkBudget: an origin sees neither more requests at once nor more in a
\* stretch of time than its limits say.
TrafficWithinBudget == part = "budget" => Budget!TrafficWithinBudget

\* recordResponse, queuePersistedRateLimit and restore: no request goes out in a cooldown,
\* in this process or the next.
CooldownOutlivesTheProcess == [][part = "budget" => Budget!GrantsAfterCooldown]_ofEngines

\* executeProxyCommand: the result of a test ends up on the configuration that was tested.
TestsBelongToTheirConfiguration == [][part = "proxy" => Proxy!ResultsStayWithConfiguration]_ofEngines


\* executePlaywrightInteractionPlan: the answer tells what the steps and the handlers of
\* dialogs and popups did, and nothing of the plan goes on after it.
AnswerTellsThePlan == part = "plan" => Plan!AnswerTellsThePlan

\* enqueue and enqueueBatch: one job for each page, at its least depth, whatever commands read
\* side by side before they entered their items.
OneJobPerPage == part = "scope" => Scope!OneJobPerPage

\* evaluateScope: a job's address is in scope again, and its own normal form, when the job is
\* rendered.
JobsStayInScope == part = "scope" => Scope!JobsStayInScope

\* enqueueInTransaction: commands side by side keep within maxPages.
PageLimitHolds == part = "scope" => Scope!PageLimitHolds

\* importProject and create: a destination that exists is a whole Project and made by one
\* command; exportProject: what it wrote is imported again, with every page it had to have.
ArchivesAreWhole ==
  part = "archive" => Archives!ImportIsAllOrNothing /\ Archives!ExportsComeBack
=============================================================================
