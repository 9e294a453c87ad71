----------------------------- MODULE PageRender -----------------------------
(***************************************************************************)
(* One render of one page: the render engine (packages/rendering) and the  *)
(* page session it drives (packages/browser-runtime/src/index.ts).         *)
(*                                                                         *)
(* The page is an actor of its own: it sends requests, navigates, moves    *)
(* its address and changes its document while the engine waits.  Every     *)
(* request is paused and authorised by a handler that runs beside the      *)
(* engine and talks to it through three flags.  Times are abstracted: a    *)
(* quiet window, a timeout or a deadline ends when a step says so.         *)
(***************************************************************************)
EXTENDS Naturals, FiniteSets

CONSTANTS
  Urls, Allowed,     \* what a page may ask for, and what authorizeUrl may let through
  requestedUrl,
  Image, Frame,      \* requests of a document beside the main one; a frame is a document too
  MayHang,           \* a document's script may run for ever
  MaxDocuments, MaxRequests, MaxPolls, MaxSignals

VARIABLES
  pc, result,        \* of render
  got,               \* what render has in hand: goto's document, the last snapshot, the HTML
  failure,           \* how page.goto failed
  doc, address,      \* the document of the main frame, and page.url()
  requests,          \* of the main frame and of the document
  navigationBlocked, navigationAuthorizationPending, blockedRequests, \* the last: any since navigate
  netQuiet,          \* no finite request was seen for the quiet window
  signals,           \* what happened around the render
  refused,           \* the main frame's request was refused
  sent, polls        \* bounds

flags == <<navigationBlocked, navigationAuthorizationPending, blockedRequests>>
page == <<doc, address, requests, flags, netQuiet, refused, sent>>
engine == <<pc, result, got, failure, polls>>
vars == <<engine, page, signals>>

ErrorPage == "error page"
Main == "main"
Request == {Main, Image, Frame}
Place == {"start", "authorize", "goto", "settle", "revalidate", "observe", "observing",
          "poll", "reading", "network", "extract", "extracting", "inspecting", "finish", "over"}
Signal == {"abort", "deadline", "pause", "fenced", "crash", "disconnect"}

\* Errors that say so themselves, and the one classifyRenderFailure makes of any other.
Retryable == {"RENDER_TIMEOUT", "BROWSER_CRASHED", "PAGE_CRASHED", "NAVIGATION_TIMEOUT",
              "NAVIGATION_FAILED", "RENDER_STABILITY_TIMEOUT", "RENDER_EXTRACTION_FAILED"}

Document == [id : 0..MaxDocuments, url : Urls \cup {"", ErrorPage}, watched : BOOLEAN,
             quiet : BOOLEAN, hung : BOOLEAN]
Blank == [id |-> 0, url |-> "", watched |-> FALSE, quiet |-> FALSE, hung |-> FALSE]

\* Types.
TypeOK ==
  /\ pc \in Place /\ result \in {"", "completed"} \cup Retryable
       \cup {"RENDER_CANCELLED", "RUNTIME_NETWORK_BLOCKED", "REDIRECT_BLOCKED",
             "RENDER_HTML_TOO_LARGE", "RENDER_BLANK_PAGE"}
  /\ got \in [response : 0..MaxDocuments, html : Urls \cup {"", ErrorPage},
              domQuiet : BOOLEAN, watched : BOOLEAN]
  /\ failure \in {"", "timeout", "blocked", "failed"}
  /\ doc \in Document /\ address \in Urls \cup {"", ErrorPage}
  /\ requests \in [Request -> [url : Urls \cup {""}, of : 0..MaxDocuments,
                              phase : {"none", "authorizing", "waiting", "loading"}]]
  /\ \A b \in {navigationBlocked, navigationAuthorizationPending, blockedRequests, netQuiet, refused} :
       b \in BOOLEAN
  /\ signals \subseteq Signal /\ sent \in 0..MaxRequests /\ polls \in 0..MaxPolls

NoRequest == [url |-> "", of |-> 0, phase |-> "none"]

Init ==
  /\ pc = "start" /\ result = "" /\ failure = "" /\ polls = 0 /\ sent = 0
  /\ got = [response |-> 0, html |-> "", domQuiet |-> FALSE, watched |-> FALSE]
  /\ doc = Blank /\ address = "" /\ requests = [r \in Request |-> NoRequest]
  /\ navigationBlocked = FALSE /\ navigationAuthorizationPending = FALSE
  /\ blockedRequests = FALSE /\ netQuiet = FALSE /\ refused = FALSE /\ signals = {}

-----------------------------------------------------------------------------
(***************************************************************************)
(* The engine's helpers.                                                   *)
(***************************************************************************)
At(place) == pc = place /\ result = ""
Goto(place) == pc' = place /\ UNCHANGED result
Fails(code) == result' = code /\ pc' = "over"

\* guard: the first of its checks that fails; "" when all pass.
guard ==
  CASE "abort" \in signals                                  -> "RENDER_CANCELLED"
    [] "abort" \notin signals /\ "deadline" \in signals     -> "RENDER_TIMEOUT"
    [] {"abort", "deadline"} \cap signals = {} /\ "pause" \in signals -> "RENDER_CANCELLED"
    [] {"abort", "deadline", "pause"} \cap signals = {} /\ "fenced" \in signals
                                                            -> "RENDER_EXTRACTION_FAILED"
    [] OTHER                                                -> ""

\* pageOperation and navigate: what has become of the process and the page.
lost == IF "disconnect" \in signals THEN "BROWSER_CRASHED"
        ELSE IF "crash" \in signals THEN "PAGE_CRASHED" ELSE ""

\* A stage is recorded, or the loop goes round: a guard, and then the step.  Recording a stage
\* meets a lost Lease always, a guard only when a heartbeat is due.
Passes(place) ==
  /\ At(place)
  /\ \/ guard = ""
     \/ place \in {"poll", "finish"} /\ guard = "RENDER_EXTRACTION_FAILED"

GuardFails ==
  /\ result = "" /\ pc \in {"start", "observe", "poll", "extract", "finish"} /\ guard # ""
  /\ Fails(guard)
  /\ UNCHANGED <<got, failure, polls, page, signals>>

\* From a guard into the document.
Enter ==
  /\ \/ Passes("observe") /\ Goto("observing")
     \/ Passes("poll") /\ polls < MaxPolls /\ Goto("reading")
     \/ Passes("extract") /\ Goto("extracting")
  /\ UNCHANGED <<got, failure, polls, page, signals>>

\* A step inside the document waits for as long as a script there runs; it fails when the
\* document goes away under it.
InPage(place) == At(place) /\ lost = "" /\ ~doc.hung
PageOperationFails ==
  /\ pc \in {"observing", "reading", "extracting", "inspecting"} /\ result = ""
  /\ \/ lost # "" /\ Fails(lost)
     \/ lost = "" /\ requests[Main].phase # "none" /\ Fails("RENDER_EXTRACTION_FAILED")
  /\ UNCHANGED <<got, failure, polls, page, signals>>

-----------------------------------------------------------------------------
(***************************************************************************)
(* navigate.                                                               *)
(***************************************************************************)
\* authorizeRuntimeUrl: an address out of scope is refused; the host of one in scope is
\* looked up anew each time, which may fail or find an address that is not public.
Decisions(url) == {url \in Allowed} \cup {FALSE}

Navigate ==
  /\ Passes("start") /\ Goto("authorize")
  /\ navigationBlocked' = FALSE /\ navigationAuthorizationPending' = FALSE
  /\ blockedRequests' = FALSE
  /\ UNCHANGED <<got, failure, polls, doc, address, requests, netQuiet, refused, sent, signals>>

\* A document request turns the pending flag on when its handler starts.
Opens(r) == navigationAuthorizationPending' = (navigationAuthorizationPending \/ r # Image)
Sends(r, url) ==
  /\ requests' = [requests EXCEPT ![r] = [url |-> url, of |-> doc.id, phase |-> "authorizing"]]
  /\ netQuiet' = FALSE /\ Opens(r)

AuthorizeInitial ==
  /\ At("authorize")
  /\ \E allowed \in Decisions(requestedUrl) :
     IF allowed
     THEN Goto("goto") /\ Sends(Main, requestedUrl)
     ELSE /\ Fails("RUNTIME_NETWORK_BLOCKED")
          /\ UNCHANGED <<requests, netQuiet, navigationAuthorizationPending>>
  /\ UNCHANGED <<got, failure, polls, doc, address, navigationBlocked, blockedRequests, refused,
                 sent, signals>>

\* page.goto: answers with its own document, or fails: in time, with the request, or because
\* the page went on to another one.
GotoReturns ==
  /\ At("goto") /\ failure = ""
  /\ got.response # 0 /\ doc.id = got.response
  /\ Goto("revalidate") /\ UNCHANGED <<got, failure, polls, page, signals>>

GotoFails ==
  /\ At("goto")
  /\ failure' = IF failure # "" THEN failure
                ELSE IF got.response \notin {0, doc.id} THEN "failed" ELSE "timeout"
  /\ Goto("settle")
  /\ UNCHANGED <<got, polls, page, signals>>

\* A bug: a request that is still being asked about counts as a slow one.
ClassifyAsSlow ==
  Fails(IF lost # "" THEN lost
        ELSE IF navigationBlocked \/ blockedRequests THEN "RUNTIME_NETWORK_BLOCKED"
        ELSE IF failure = "timeout" THEN "NAVIGATION_TIMEOUT"
        ELSE IF failure = "blocked" THEN "RUNTIME_NETWORK_BLOCKED" ELSE "NAVIGATION_FAILED")

\* The order in which navigate looks at what happened, once it has settled.
ClassifyFailure ==
  Fails(IF lost # "" THEN lost
        ELSE IF navigationBlocked \/ navigationAuthorizationPending \/ blockedRequests
          THEN "RUNTIME_NETWORK_BLOCKED"
        ELSE IF failure = "timeout" THEN "NAVIGATION_TIMEOUT"
        ELSE IF failure = "blocked" THEN "RUNTIME_NETWORK_BLOCKED" ELSE "NAVIGATION_FAILED")

Settle ==
  /\ At("settle") /\ ClassifyFailure
  /\ UNCHANGED <<got, failure, polls, page, signals>>

\* A crash ends goto at once.
CrashDuringGoto ==
  /\ At("goto") /\ lost # "" /\ Fails(lost)
  /\ UNCHANGED <<got, failure, polls, page, signals>>

\* The final address is authorised.
Revalidate ==
  /\ At("revalidate")
  /\ \E allowed \in Decisions(address) :
     IF allowed THEN Goto("observe") ELSE Fails("REDIRECT_BLOCKED")
  /\ UNCHANGED <<got, failure, polls, page, signals>>

-----------------------------------------------------------------------------
(***************************************************************************)
(* Stability and extraction.                                               *)
(***************************************************************************)
InitializeStabilityObserver ==
  /\ InPage("observing")
  /\ doc' = [doc EXCEPT !.watched = TRUE, !.quiet = FALSE]
  /\ Goto("poll")
  /\ UNCHANGED <<got, failure, polls, address, requests, flags, netQuiet, refused, sent, signals>>

\* A bug: a document without an observer counts as one without mutations.
QuietWithoutObserver == doc.quiet

\* What the document says of its mutations: without an observer, that one happened just now.
DomQuiet == doc.watched /\ doc.quiet

\* readStabilitySnapshot: first the document is asked, then the requests are counted.
ReadDom ==
  /\ InPage("reading")
  /\ got' = [got EXCEPT !.domQuiet = DomQuiet, !.watched = doc.watched]
  /\ Goto("network") /\ UNCHANGED <<failure, polls, page, signals>>

\* A new document ends what the old one asked for; its handlers go on.
activeRequests == {r \in Request : requests[r].phase # "none" /\ requests[r].of = doc.id}

ReadNetwork ==
  /\ At("network")
  /\ IF got.domQuiet /\ activeRequests = {} /\ netQuiet
     THEN Goto("extract") /\ UNCHANGED polls
     ELSE IF "abort" \in signals THEN Fails("RENDER_CANCELLED") /\ UNCHANGED polls
     ELSE Goto("poll") /\ polls' = polls + 1
  /\ UNCHANGED <<got, failure, page, signals>>

StabilityTimeout ==
  /\ At("poll") /\ Fails("RENDER_STABILITY_TIMEOUT")
  /\ UNCHANGED <<got, failure, polls, page, signals>>

ExtractHtml ==
  /\ InPage("extracting")
  /\ \/ got' = [got EXCEPT !.html = doc.url] /\ Goto("inspecting")
     \/ Fails("RENDER_HTML_TOO_LARGE") /\ UNCHANGED got
  /\ UNCHANGED <<failure, polls, page, signals>>

InspectBody ==
  /\ InPage("inspecting")
  /\ Goto("finish") \/ Fails("RENDER_BLANK_PAGE")
  /\ UNCHANGED <<got, failure, polls, page, signals>>

Finish ==
  /\ Passes("finish") /\ result' = "completed" /\ pc' = "over"
  /\ UNCHANGED <<got, failure, polls, page, signals>>

-----------------------------------------------------------------------------
(***************************************************************************)
(* The handler of paused requests.                                         *)
(***************************************************************************)
Running == pc \notin {"start", "over"}

\* A request that is over: its end is network activity.
Ended(r) == [requests EXCEPT ![r] = NoRequest]

\* Fetch.failRequest: goto fails with it; a page's own navigation may leave an error page.
FailRequest(r) ==
  /\ requests' = Ended(r) /\ netQuiet' = FALSE
  /\ IF r = Main /\ got.response = 0
     THEN /\ failure' = IF At("goto") /\ failure = "" THEN "blocked" ELSE failure
          /\ UNCHANGED <<doc, address>>
     ELSE /\ UNCHANGED failure
          /\ \/ UNCHANGED <<doc, address>>
             \/ /\ r = Main /\ doc.id < MaxDocuments
                /\ doc' = [Blank EXCEPT !.id = doc.id + 1, !.url = ErrorPage]
                /\ address' = ErrorPage

Authorize(r) ==
  /\ Running /\ requests[r].phase = "authorizing"
  /\ \E allowed \in Decisions(requests[r].url) :
     IF allowed
     THEN /\ requests' = [requests EXCEPT ![r].phase = "waiting"]
          /\ UNCHANGED <<flags, refused, netQuiet, doc, address, failure>>
     ELSE /\ blockedRequests' = TRUE
          /\ navigationBlocked' = (navigationBlocked \/ r # Image)
          /\ navigationAuthorizationPending' = (navigationAuthorizationPending /\ r = Image)
          /\ refused' = (refused \/ r = Main)
          /\ FailRequest(r)
  /\ UNCHANGED <<pc, result, got, polls, sent, signals>>

\* The network budget grants the request, or refuses it and leaves the pending flag as it is.
Grant(r) ==
  /\ Running /\ requests[r].phase = "waiting"
  /\ navigationAuthorizationPending' = (navigationAuthorizationPending /\ r = Image)
  /\ \/ /\ r \in activeRequests
        /\ requests' = [requests EXCEPT ![r].phase = "loading"]
        /\ UNCHANGED <<netQuiet, doc, address, failure>>
     \/ FailRequest(r)               \* Fetch.continueRequest fails
  /\ UNCHANGED <<pc, result, got, polls, navigationBlocked, blockedRequests, refused, sent, signals>>

BudgetRefuses(r) ==
  /\ Running /\ requests[r].phase = "waiting"
  /\ blockedRequests' = TRUE /\ navigationBlocked' = (navigationBlocked \/ r # Image)
  /\ refused' = (refused \/ r = Main)
  /\ FailRequest(r)
  /\ UNCHANGED <<pc, result, got, polls, navigationAuthorizationPending, sent, signals>>

-----------------------------------------------------------------------------
(***************************************************************************)
(* The page and the server.                                                *)
(***************************************************************************)
Live == Running /\ lost = ""

\* The document asks for something, or navigates; a navigation replaces the one under way.
PageSends(r) ==
  /\ Live /\ doc.id # 0 /\ doc.url # ErrorPage /\ sent < MaxRequests /\ requests[r].phase = "none"
  /\ sent' = sent + 1
  /\ \E url \in Urls : Sends(r, url)
  /\ UNCHANGED <<engine, doc, address, navigationBlocked, blockedRequests, refused, signals>>

\* A navigation by any other method is refused at once.
PagePosts ==
  /\ Live /\ doc.id # 0 /\ doc.url # ErrorPage /\ sent < MaxRequests
  /\ requests[Main].phase = "none"
  /\ sent' = sent + 1 /\ blockedRequests' = TRUE /\ navigationBlocked' = TRUE
  /\ refused' = (refused \/ At("goto"))
  /\ FailRequest(Main)
  /\ UNCHANGED <<pc, result, got, polls, navigationAuthorizationPending, signals>>

\* The History API: a new address of the same document.
PageMoves ==
  /\ Live /\ doc.id # 0 /\ doc.url # ErrorPage
  /\ address' \in Urls \ {address}
  /\ UNCHANGED <<engine, doc, requests, flags, netQuiet, refused, sent, signals>>

Redirect(r) ==
  /\ Live /\ requests[r].phase = "loading" /\ sent < MaxRequests
  /\ sent' = sent + 1
  /\ \E url \in Urls \ {requests[r].url} : Sends(r, url)
  /\ UNCHANGED <<engine, doc, address, navigationBlocked, blockedRequests, refused, signals>>

\* The main frame's request is answered: a new document, and the requests of the old one end.
Commit ==
  /\ Live /\ requests[Main].phase = "loading" /\ doc.id < MaxDocuments
  /\ doc' = [Blank EXCEPT !.id = doc.id + 1, !.url = requests[Main].url]
  /\ address' = doc'.url
  /\ requests' = [r \in Request |-> IF r = Main \/ requests[r].phase = "loading" THEN NoRequest
                                   ELSE requests[r]]
  /\ netQuiet' = FALSE
  /\ got' = IF got.response = 0 THEN [got EXCEPT !.response = doc'.id] ELSE got
  /\ UNCHANGED <<pc, result, failure, polls, flags, refused, sent, signals>>

RequestEnds(r) ==
  /\ Live /\ requests[r].phase = "loading"
  /\ requests' = Ended(r) /\ netQuiet' = FALSE
  /\ failure' = IF r = Main /\ got.response = 0 /\ At("goto") /\ failure = "" THEN "failed"
                ELSE failure
  /\ UNCHANGED <<pc, result, got, polls, doc, address, flags, refused, sent, signals>>

Mutates ==
  /\ Live /\ doc.id # 0 /\ ~doc.hung /\ doc' = [doc EXCEPT !.quiet = ~doc.quiet]
  /\ UNCHANGED <<engine, address, requests, flags, netQuiet, refused, sent, signals>>

Hangs ==
  /\ MayHang /\ Live /\ doc.id # 0 /\ ~doc.hung /\ doc' = [doc EXCEPT !.hung = TRUE]
  /\ UNCHANGED <<engine, address, requests, flags, netQuiet, refused, sent, signals>>

NetworkSettles ==
  /\ Live /\ activeRequests = {} /\ ~netQuiet /\ netQuiet' = TRUE
  /\ UNCHANGED <<engine, doc, address, requests, flags, refused, sent, signals>>

\* Cancel, pause, a lost Lease, a crash.
Happens ==
  /\ result = "" /\ Cardinality(signals \ {"deadline"}) < MaxSignals
  /\ \E s \in Signal \ (signals \cup {"deadline"}) : signals' = signals \cup {s}
  /\ UNCHANGED <<engine, page>>

DeadlinePasses ==
  /\ result = "" /\ "deadline" \notin signals /\ signals' = signals \cup {"deadline"}
  /\ UNCHANGED <<engine, page>>

Engine ==
  \/ GuardFails \/ Enter \/ PageOperationFails \/ Navigate \/ AuthorizeInitial \/ GotoReturns \/ GotoFails
  \/ Settle \/ CrashDuringGoto \/ Revalidate \/ InitializeStabilityObserver \/ ReadDom
  \/ ReadNetwork \/ StabilityTimeout \/ ExtractHtml \/ InspectBody \/ Finish
Handler == \E r \in Request : Authorize(r) \/ Grant(r) \/ BudgetRefuses(r)
Page ==
  \/ \E r \in Request : PageSends(r) \/ Redirect(r) \/ RequestEnds(r)
  \/ PagePosts \/ PageMoves \/ Commit \/ Mutates \/ Hangs \/ NetworkSettles
Next == Engine \/ Handler \/ Page \/ Happens \/ DeadlinePasses

Spec == Init /\ [][Next]_vars

\* The engine's own steps and timers are taken: a step that can go on does, and the render's
\* deadline passes.
FairSpec == Spec /\ WF_vars(Engine) /\ WF_vars(Handler) /\ WF_vars(DeadlinePasses)

-----------------------------------------------------------------------------
\* installRouting and readStabilitySnapshot: the HTML of a completed render is of a document
\* whose request the policy let through, or of the browser's own error page; and what was
\* stable was a document under observation, never one a script had navigated to since.
CompletedRenderIsSound ==
  result = "completed" =>
    /\ got.html \in Allowed \cup {ErrorPage}
    /\ got.watched

\* navigate: the failure is not one to try again after the policy has refused the page, nor as
\* long as policy or budget still hold the request the render began with.
RefusalIsFinal ==
  result \in {"NAVIGATION_TIMEOUT", "NAVIGATION_FAILED"} =>
    /\ ~refused
    /\ got.response = 0 => requests[Main].phase \notin {"authorizing", "waiting"}

\* RENDERING_ENGINE.md: the entire render is bounded.
RenderIsBounded == <>(result # "")
=============================================================================
