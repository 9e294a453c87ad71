---------------------------- MODULE RenderProofs ----------------------------
(***************************************************************************)
(* What a page render keeps, for any addresses, policy, number of          *)
(* documents, requests and signals: whatever the page does meanwhile, a    *)
(* completed render has the HTML of a document the policy let through, and *)
(* a refusal by the policy is not taken for a failure to try again. The    *)
(* second part is about the browser those pages are in, BrowserRuntime,    *)
(* the third about the captured responses they are given, NetworkReplay,   *)
(* the fourth about the interaction plans at work in them, Interaction.    *)
(***************************************************************************)
EXTENDS PageRender, Sequences, FiniteSetTheorems, TLAPS

\* The main frame is not an image, and what is rendered is an address.
Constants == Image # Main /\ requestedUrl \in Urls

-----------------------------------------------------------------------------
(***************************************************************************)
(* The inductive invariant: types; which requests and documents the policy *)
(* let through; what the engine has in hand at each of its places; and     *)
(* that a refusal leaves its mark.                                         *)
(***************************************************************************)
Sources == Urls \cup {"", ErrorPage}

Typed ==
  /\ pc \in Place
  /\ doc \in [id : Nat, url : Sources, watched : BOOLEAN, quiet : BOOLEAN, hung : BOOLEAN]
  /\ got \in [response : Nat, html : Sources, domQuiet : BOOLEAN, watched : BOOLEAN]
  /\ requests \in [Request -> [url : Urls \cup {""}, of : Nat,
                               phase : {"none", "authorizing", "waiting", "loading"}]]

LetThrough == Allowed \cup {ErrorPage}

\* The request of the main frame goes on, and becomes a document, only after the policy's yes.
Authorized ==
  /\ requests[Main].phase \in {"waiting", "loading"} => requests[Main].url \in Allowed
  /\ doc.id # 0 => doc.url \in LetThrough
  /\ got.response # 0 => doc.id # 0

\* The engine's places after page.goto, after stability, and after the extraction.
Arrived == {"revalidate", "observe", "observing", "poll", "reading", "network", "extract",
            "extracting", "inspecting", "finish"}
Stable == {"extract", "extracting", "inspecting", "finish"}
Extracted == {"inspecting", "finish"}

InHand ==
  /\ pc = "over" <=> result # ""
  /\ pc \in Arrived => got.response # 0
  /\ got.domQuiet => got.watched
  /\ pc \in Stable \/ result = "completed" => got.watched
  /\ pc \in Extracted \/ result = "completed" => got.html \in LetThrough

Marked ==
  /\ refused => navigationBlocked
  /\ pc = "start" => ~refused
  /\ result \in {"NAVIGATION_TIMEOUT", "NAVIGATION_FAILED"} => ~refused

RenderInv == Typed /\ Authorized /\ InHand /\ Marked

-----------------------------------------------------------------------------
(***************************************************************************)
(* The engine.                                                             *)
(***************************************************************************)
LEMMA GuardCodes ==
  guard \in {"", "RENDER_CANCELLED", "RENDER_TIMEOUT", "RENDER_EXTRACTION_FAILED"}
BY DEF guard

LEMMA LostCodes == lost \in {"", "BROWSER_CRASHED", "PAGE_CRASHED"}
BY DEF lost

\* A failure that is not one of navigate's own.
LEMMA FailsSafely ==
  ASSUME RenderInv, NEW code, Fails(code), UNCHANGED <<got, page>>,
         code \notin {"", "completed", "NAVIGATION_TIMEOUT", "NAVIGATION_FAILED"}
  PROVE  RenderInv'
<1>1. UNCHANGED <<doc, address, requests, navigationBlocked, refused>> BY DEF page, flags
<1>2. pc' = "over" /\ result' = code BY DEF Fails
<1>3. Typed' BY <1>1, <1>2 DEF RenderInv, Typed, Place
<1>4. Authorized' BY <1>1 DEF RenderInv, Authorized
<1>5. InHand' BY <1>2 DEF RenderInv, InHand, Arrived, Stable, Extracted
<1>6. Marked' BY <1>1, <1>2 DEF RenderInv, Marked
<1>7. QED BY <1>3, <1>4, <1>5, <1>6 DEF RenderInv

\* From one place of the engine to another, with what it had in hand.
LEMMA GoesOn ==
  ASSUME RenderInv, NEW place \in Place \ {"start", "over"}, result = "", Goto(place),
         UNCHANGED <<got, page>>,
         place \in Arrived => got.response # 0,
         place \in Stable => got.watched,
         place \in Extracted => got.html \in LetThrough
  PROVE  RenderInv'
<1>1. UNCHANGED <<doc, address, requests, navigationBlocked, refused>> BY DEF page, flags
<1>2. pc' = place /\ result' = result BY DEF Goto
<1>3. Typed' BY <1>1, <1>2 DEF RenderInv, Typed
<1>4. Authorized' BY <1>1 DEF RenderInv, Authorized
<1>5. InHand' BY <1>2 DEF RenderInv, InHand
<1>6. Marked' BY <1>1, <1>2 DEF RenderInv, Marked
<1>7. QED BY <1>3, <1>4, <1>5, <1>6 DEF RenderInv

LEMMA SettleKeeps == ASSUME RenderInv, Settle PROVE RenderInv'
<1>1. UNCHANGED <<doc, address, requests, navigationBlocked, refused, got>>
  BY DEF Settle, page, flags
<1>2. result' \notin {"", "completed"}
      /\ (result' \in {"NAVIGATION_TIMEOUT", "NAVIGATION_FAILED"} => ~navigationBlocked)
  BY LostCodes DEF Settle, ClassifyFailure, Fails
<1>3. pc' = "over" BY DEF Settle, ClassifyFailure, Fails
<1>4. Typed' BY <1>1, <1>3 DEF RenderInv, Typed, Place
<1>5. Authorized' BY <1>1 DEF RenderInv, Authorized
<1>6. InHand' BY <1>1, <1>2, <1>3 DEF RenderInv, InHand, Arrived, Stable, Extracted
<1>7. Marked' BY <1>1, <1>2, <1>3 DEF RenderInv, Marked
<1>8. QED BY <1>4, <1>5, <1>6, <1>7 DEF RenderInv

\* Steps of the engine that leave the page as it is.
Observes ==
  \/ GuardFails \/ Enter \/ PageOperationFails \/ GotoReturns \/ GotoFails \/ CrashDuringGoto
  \/ Revalidate \/ StabilityTimeout \/ InspectBody \/ Finish

LEMMA ObservesKeeps == ASSUME RenderInv, Observes PROVE RenderInv'
<1>1. CASE GuardFails BY <1>1, GuardCodes, FailsSafely DEF GuardFails
<1>2. CASE Enter
  <2>1. /\ pc \in {"observe", "poll", "extract"} /\ result = "" /\ UNCHANGED <<got, page>>
        /\ \/ Goto("observing") \/ Goto("reading")
           \/ pc = "extract" /\ Goto("extracting")
    BY <1>2 DEF Enter, Passes, At
  <2>2. /\ got.response # 0
        /\ pc = "extract" => got.watched
    BY <2>1 DEF RenderInv, InHand, Arrived, Stable
  <2>3. QED BY <2>1, <2>2, GoesOn DEF Place, Stable, Extracted
<1>3. CASE PageOperationFails BY <1>3, LostCodes, FailsSafely DEF PageOperationFails
<1>4. CASE GotoReturns BY <1>4, GoesOn DEF GotoReturns, At, Place, Stable, Extracted
<1>5. CASE GotoFails BY <1>5, GoesOn DEF GotoFails, At, Place, Arrived, Stable, Extracted
<1>6. CASE CrashDuringGoto BY <1>6, LostCodes, FailsSafely DEF CrashDuringGoto
<1>7. CASE Revalidate
  <2>1. At("revalidate") /\ UNCHANGED <<got, page>>
        /\ (Goto("observe") \/ Fails("REDIRECT_BLOCKED"))
    BY <1>7 DEF Revalidate
  <2>2. got.response # 0 BY <2>1 DEF At, RenderInv, InHand, Arrived
  <2>3. QED BY <2>1, <2>2, GoesOn, FailsSafely DEF At, Place, Stable, Extracted
<1>8. CASE StabilityTimeout BY <1>8, FailsSafely DEF StabilityTimeout
<1>9. CASE InspectBody
  <2>1. got.response # 0 /\ got.watched /\ got.html \in LetThrough
    BY <1>9 DEF InspectBody, InPage, At, RenderInv, InHand, Arrived, Stable, Extracted
  <2>2. QED BY <1>9, <2>1, GoesOn, FailsSafely DEF InspectBody, InPage, At, Place
<1>10. CASE Finish
  <2>1. pc = "finish" /\ result' = "completed" /\ pc' = "over" /\ UNCHANGED <<got, page>>
    BY <1>10 DEF Finish, Passes, At
  <2>2. UNCHANGED <<doc, requests, navigationBlocked, refused>> BY <2>1 DEF page, flags
  <2>3. Typed' BY <2>1, <2>2 DEF RenderInv, Typed, Place
  <2>4. Authorized' BY <2>1, <2>2 DEF RenderInv, Authorized
  <2>5. InHand' BY <2>1 DEF RenderInv, InHand, Arrived, Stable, Extracted
  <2>6. Marked' BY <2>1, <2>2 DEF RenderInv, Marked
  <2>7. QED BY <2>3, <2>4, <2>5, <2>6 DEF RenderInv
<1>11. QED
  BY <1>1, <1>2, <1>3, <1>4, <1>5, <1>6, <1>7, <1>8, <1>9, <1>10 DEF Observes

LEMMA ReadsKeep ==
  ASSUME RenderInv, ReadDom \/ ReadNetwork \/ ExtractHtml PROVE RenderInv'
<1>1. UNCHANGED <<doc, requests, navigationBlocked, refused>>
  BY DEF ReadDom, ReadNetwork, ExtractHtml, page, flags
<1>2. CASE ReadDom
  <2>1. pc = "reading" /\ pc' = "network" /\ result' = result /\ result = ""
        /\ got' = [got EXCEPT !.domQuiet = DomQuiet, !.watched = doc.watched]
    BY <1>2 DEF ReadDom, InPage, At, Goto
  <2>2. DomQuiet \in BOOLEAN /\ doc.watched \in BOOLEAN /\ (DomQuiet => doc.watched)
    BY DEF RenderInv, Typed, DomQuiet
  <2>3. /\ got' \in [response : Nat, html : Sources, domQuiet : BOOLEAN, watched : BOOLEAN]
        /\ got'.response = got.response /\ (got'.domQuiet => got'.watched)
    BY <2>1, <2>2 DEF RenderInv, Typed
  <2>4. Typed' BY <1>1, <2>1, <2>3 DEF RenderInv, Typed, Place
  <2>5. Authorized' BY <1>1, <2>3 DEF RenderInv, Authorized
  <2>6. InHand' BY <2>1, <2>3 DEF RenderInv, InHand, Arrived, Stable, Extracted
  <2>7. Marked' BY <1>1, <2>1 DEF RenderInv, Marked
  <2>8. QED BY <2>4, <2>5, <2>6, <2>7 DEF RenderInv
<1>3. CASE ReadNetwork
  <2>1. /\ pc = "network" /\ result = "" /\ UNCHANGED <<got, page>>
        /\ \/ got.domQuiet /\ Goto("extract")
           \/ Fails("RENDER_CANCELLED")
           \/ Goto("poll")
    BY <1>3 DEF ReadNetwork, At
  <2>2. got.response # 0 /\ (got.domQuiet => got.watched)
    BY <2>1 DEF RenderInv, InHand, Arrived
  <2>3. QED BY <2>1, <2>2, GoesOn, FailsSafely DEF Place, Stable, Extracted
<1>4. CASE ExtractHtml
  <2>1. pc = "extracting" /\ result = "" /\ UNCHANGED page BY <1>4 DEF ExtractHtml, InPage, At
  <2>2. CASE Fails("RENDER_HTML_TOO_LARGE") /\ UNCHANGED got BY <2>1, <2>2, FailsSafely
  <2>3. CASE got' = [got EXCEPT !.html = doc.url] /\ Goto("inspecting")
    <3>1. doc.url \in LetThrough /\ doc.url \in Sources
      BY <2>1 DEF RenderInv, InHand, Arrived, Authorized, Typed
    <3>2. /\ got' \in [response : Nat, html : Sources, domQuiet : BOOLEAN, watched : BOOLEAN]
          /\ got'.response = got.response /\ got'.domQuiet = got.domQuiet
          /\ got'.watched = got.watched /\ got'.html = doc.url
      BY <2>3, <3>1 DEF RenderInv, Typed
    <3>3. pc' = "inspecting" /\ result' = result BY <2>3 DEF Goto
    <3>4. Typed' BY <1>1, <3>2, <3>3 DEF RenderInv, Typed, Place
    <3>5. Authorized' BY <1>1, <3>2 DEF RenderInv, Authorized
    <3>6. InHand' BY <2>1, <3>1, <3>2, <3>3 DEF RenderInv, InHand, Arrived, Stable, Extracted
    <3>7. Marked' BY <1>1, <2>1, <3>3 DEF RenderInv, Marked
    <3>8. QED BY <3>4, <3>5, <3>6, <3>7 DEF RenderInv
  <2>4. QED BY <1>4, <2>2, <2>3 DEF ExtractHtml
<1>5. QED BY <1>2, <1>3, <1>4

\* Steps that leave what the engine has in hand as it is, and may only mark a refusal.
LEMMA InHandStays ==
  ASSUME RenderInv, UNCHANGED <<pc, result, got>> PROVE InHand'
BY DEF RenderInv, InHand

\* The next document is the browser's own error page, one that the policy let through, or the
\* old one.
LEMMA NextDocument ==
  ASSUME NEW n \in Nat, NEW url \in Sources
  PROVE  LET next == [Blank EXCEPT !.id = n + 1, !.url = url] IN
         /\ next \in [id : Nat, url : Sources, watched : BOOLEAN, quiet : BOOLEAN, hung : BOOLEAN]
         /\ next.id # 0 /\ next.url = url
<1> DEFINE m == n + 1
           numbered == [Blank EXCEPT !.id = m]
           next == [numbered EXCEPT !.url = url]
<1>1. m \in Nat /\ m # 0 OBVIOUS
<1> HIDE DEF m
<1>2. Blank \in [id : Nat, url : Sources, watched : BOOLEAN, quiet : BOOLEAN, hung : BOOLEAN]
  BY DEF Blank, Sources
<1>3. /\ numbered \in [id : Nat, url : Sources, watched : BOOLEAN, quiet : BOOLEAN, hung : BOOLEAN]
      /\ numbered.id = m
  BY <1>1, <1>2
<1> HIDE DEF numbered
<1>4. /\ next \in [id : Nat, url : Sources, watched : BOOLEAN, quiet : BOOLEAN, hung : BOOLEAN]
      /\ next.id = m /\ next.url = url
  BY <1>3
<1> HIDE DEF next
<1>5. QED BY <1>1, <1>4 DEF next, numbered, m

LEMMA SendsKeeps ==
  ASSUME Constants, RenderInv, NEW r \in Request, NEW url \in Urls, Sends(r, url)
  PROVE  /\ requests' \in [Request -> [url : Urls \cup {""}, of : Nat,
                                       phase : {"none", "authorizing", "waiting", "loading"}]]
         /\ requests'[Main].phase \in {"waiting", "loading"} =>
              requests'[Main].url = requests[Main].url /\ requests'[Main].phase = requests[Main].phase
<1> DEFINE x == [url |-> url, of |-> doc.id, phase |-> "authorizing"]
<1>1. x \in [url : Urls \cup {""}, of : Nat,
             phase : {"none", "authorizing", "waiting", "loading"}]
  BY DEF RenderInv, Typed
<1>2. requests' = [requests EXCEPT ![r] = x] /\ x.phase = "authorizing" BY DEF Sends
<1>3. Main \in Request BY DEF Request
<1> HIDE DEF x
<1>4. requests \in [Request -> [url : Urls \cup {""}, of : Nat,
                               phase : {"none", "authorizing", "waiting", "loading"}]]
  BY DEF RenderInv, Typed
<1>5. requests'[r] = x /\ \A q \in Request : q # r => requests'[q] = requests[q]
  BY <1>2, <1>4
<1>6. requests' \in [Request -> [url : Urls \cup {""}, of : Nat,
                                phase : {"none", "authorizing", "waiting", "loading"}]]
  BY <1>1, <1>2, <1>4
<1>7. requests'[Main].phase \in {"waiting", "loading"} => requests'[Main] = requests[Main]
  <2>1. CASE r = Main BY <1>2, <1>5, <2>1
  <2>2. CASE r # Main BY <1>3, <1>5, <2>2
  <2>3. QED BY <2>1, <2>2
<1>8. QED BY <1>6, <1>7

LEMMA EndedKeeps ==
  ASSUME RenderInv, NEW r \in Request, requests' = Ended(r)
  PROVE  /\ requests' \in [Request -> [url : Urls \cup {""}, of : Nat,
                                       phase : {"none", "authorizing", "waiting", "loading"}]]
         /\ requests'[Main].phase \in {"waiting", "loading"} =>
              requests'[Main].url = requests[Main].url /\ requests'[Main].phase = requests[Main].phase
<1>1. NoRequest \in [url : Urls \cup {""}, of : Nat,
                     phase : {"none", "authorizing", "waiting", "loading"}]
      /\ NoRequest.phase = "none"
  BY DEF NoRequest
<1>2. requests' = [requests EXCEPT ![r] = NoRequest] BY DEF Ended
<1>3. Main \in Request BY DEF Request
<1>4. requests \in [Request -> [url : Urls \cup {""}, of : Nat,
                               phase : {"none", "authorizing", "waiting", "loading"}]]
  BY DEF RenderInv, Typed
<1>5. requests'[r] = NoRequest /\ \A q \in Request : q # r => requests'[q] = requests[q]
  BY <1>2, <1>4
<1>6. requests' \in [Request -> [url : Urls \cup {""}, of : Nat,
                                phase : {"none", "authorizing", "waiting", "loading"}]]
  BY <1>1, <1>2, <1>4
<1>7. requests'[Main].phase \in {"waiting", "loading"} => requests'[Main] = requests[Main]
  <2>1. CASE r = Main BY <1>1, <1>5, <2>1
  <2>2. CASE r # Main BY <1>3, <1>5, <2>2
  <2>3. QED BY <2>1, <2>2
<1>8. QED BY <1>6, <1>7

\* A request that fails: the error page at most.
LEMMA FailRequestKeeps ==
  ASSUME RenderInv, NEW r \in Request, FailRequest(r), UNCHANGED <<pc, got>>
  PROVE  Typed' /\ Authorized'
<1>1. requests' = Ended(r) BY DEF FailRequest
<1>2. \/ UNCHANGED doc
      \/ doc' = [Blank EXCEPT !.id = doc.id + 1, !.url = ErrorPage]
  BY DEF FailRequest
<1>3. /\ doc' \in [id : Nat, url : Sources, watched : BOOLEAN, quiet : BOOLEAN, hung : BOOLEAN]
      /\ doc'.id # 0 => doc'.url \in LetThrough
      /\ doc.id # 0 => doc'.id # 0
  <2>1. CASE UNCHANGED doc BY <2>1 DEF RenderInv, Typed, Authorized
  <2>2. CASE doc' = [Blank EXCEPT !.id = doc.id + 1, !.url = ErrorPage]
    <3>1. ErrorPage \in Sources /\ ErrorPage \in LetThrough BY DEF Sources, LetThrough
    <3>2. doc.id \in Nat BY DEF RenderInv, Typed
    <3>3. QED BY <2>2, <3>1, <3>2, NextDocument
  <2>3. QED BY <1>2, <2>1, <2>2
<1>4. Typed' BY <1>1, <1>3, EndedKeeps DEF RenderInv, Typed
<1>5. Authorized' BY <1>1, <1>3, EndedKeeps DEF RenderInv, Authorized
<1>6. QED BY <1>4, <1>5

LEMMA NavigateKeeps == ASSUME RenderInv, Navigate PROVE RenderInv'
<1>1. pc = "start" /\ pc' = "authorize" /\ result' = result /\ result = ""
      /\ UNCHANGED <<got, doc, requests, refused>>
  BY DEF Navigate, Passes, At, Goto
<1>2. Typed' BY <1>1 DEF RenderInv, Typed, Place
<1>3. Authorized' BY <1>1 DEF RenderInv, Authorized
<1>4. InHand' BY <1>1 DEF RenderInv, InHand, Arrived, Stable, Extracted
<1>5. Marked' BY <1>1 DEF RenderInv, Marked
<1>6. QED BY <1>2, <1>3, <1>4, <1>5 DEF RenderInv

LEMMA AuthorizeInitialKeeps ==
  ASSUME Constants, RenderInv, AuthorizeInitial PROVE RenderInv'
<1>1. pc = "authorize" /\ result = "" /\ UNCHANGED <<got, doc, navigationBlocked, refused>>
  BY DEF AuthorizeInitial, At
<1>2. CASE Fails("RUNTIME_NETWORK_BLOCKED") /\ UNCHANGED requests
  <2>1. pc' = "over" /\ result' = "RUNTIME_NETWORK_BLOCKED" BY <1>2 DEF Fails
  <2>2. Typed' BY <1>1, <1>2, <2>1 DEF RenderInv, Typed, Place
  <2>3. Authorized' BY <1>1, <1>2 DEF RenderInv, Authorized
  <2>4. InHand' BY <1>1, <2>1 DEF RenderInv, InHand, Arrived, Stable, Extracted
  <2>5. Marked' BY <1>1, <2>1 DEF RenderInv, Marked
  <2>6. QED BY <2>2, <2>3, <2>4, <2>5 DEF RenderInv
<1>3. CASE Goto("goto") /\ Sends(Main, requestedUrl)
  <2>1. pc' = "goto" /\ result' = result BY <1>3 DEF Goto
  <2>2. Main \in Request /\ requestedUrl \in Urls BY DEF Constants, Request
  <2>3. Typed' BY <1>1, <1>3, <2>1, <2>2, SendsKeeps DEF RenderInv, Typed, Place
  <2>4. Authorized' BY <1>1, <1>3, <2>2, SendsKeeps DEF RenderInv, Authorized
  <2>5. InHand' BY <1>1, <2>1 DEF RenderInv, InHand, Arrived, Stable, Extracted
  <2>6. Marked' BY <1>1, <2>1 DEF RenderInv, Marked
  <2>7. QED BY <2>3, <2>4, <2>5, <2>6 DEF RenderInv
<1>4. QED BY <1>2, <1>3 DEF AuthorizeInitial

LEMMA ObserverKeeps == ASSUME RenderInv, InitializeStabilityObserver PROVE RenderInv'
<1>1. /\ pc = "observing" /\ pc' = "poll" /\ result' = result /\ result = ""
      /\ UNCHANGED <<got, requests, navigationBlocked, refused>>
      /\ doc' = [doc EXCEPT !.watched = TRUE, !.quiet = FALSE]
  BY DEF InitializeStabilityObserver, InPage, At, Goto, flags
<1>2. /\ doc' \in [id : Nat, url : Sources, watched : BOOLEAN, quiet : BOOLEAN, hung : BOOLEAN]
      /\ doc'.id = doc.id /\ doc'.url = doc.url
  BY <1>1 DEF RenderInv, Typed
<1>3. Typed' BY <1>1, <1>2 DEF RenderInv, Typed, Place
<1>4. Authorized' BY <1>1, <1>2 DEF RenderInv, Authorized
<1>5. InHand' BY <1>1 DEF RenderInv, InHand, Arrived, Stable, Extracted
<1>6. Marked' BY <1>1 DEF RenderInv, Marked
<1>7. QED BY <1>3, <1>4, <1>5, <1>6 DEF RenderInv

LEMMA EngineKeeps == ASSUME Constants, RenderInv, Engine PROVE RenderInv'
BY SettleKeeps, ObservesKeeps, ReadsKeep, NavigateKeeps, AuthorizeInitialKeeps, ObserverKeeps
   DEF Engine, Observes

-----------------------------------------------------------------------------
(***************************************************************************)
(* The handler of requests and the page, which run while the engine does.  *)
(***************************************************************************)
\* Beside the engine a refusal is recorded only together with its mark.
LEMMA BesideEngine ==
  ASSUME RenderInv, Running, UNCHANGED <<pc, result, got>>, Typed', Authorized',
         navigationBlocked => navigationBlocked',
         refused' => refused \/ navigationBlocked'
  PROVE  RenderInv'
<1>1. pc \notin {"start", "over"} /\ result = "" BY DEF Running, RenderInv, InHand
<1>2. Marked' BY <1>1 DEF RenderInv, Marked
<1>3. QED BY <1>2, InHandStays DEF RenderInv

LEMMA AuthorizeKeeps ==
  ASSUME Constants, RenderInv, NEW r \in Request, Authorize(r) PROVE RenderInv'
<1>1. Running /\ UNCHANGED <<pc, result, got>> BY DEF Authorize
<1>2. CASE /\ requests[r].url \in Allowed
           /\ requests' = [requests EXCEPT ![r].phase = "waiting"]
           /\ UNCHANGED <<flags, refused, doc>>
  <2>1. [requests[r] EXCEPT !.phase = "waiting"] \in
          [url : Urls \cup {""}, of : Nat, phase : {"none", "authorizing", "waiting", "loading"}]
    <3>1. requests[r] \in
            [url : Urls \cup {""}, of : Nat, phase : {"none", "authorizing", "waiting", "loading"}]
      BY DEF RenderInv, Typed
    <3>2. QED BY ONLY <3>1
  <2>2. requests'[r].url = requests[r].url /\ requests'[r].phase = "waiting"
        /\ \A q \in Request : q # r => requests'[q] = requests[q]
    BY <1>2, <2>1 DEF RenderInv, Typed
  <2>3. requests' \in [Request -> [url : Urls \cup {""}, of : Nat,
                                   phase : {"none", "authorizing", "waiting", "loading"}]]
    BY <1>2, <2>1 DEF RenderInv, Typed
  <2>4. Main \in Request BY DEF Request
  <2>5. Typed' BY <1>1, <1>2, <2>3 DEF RenderInv, Typed
  <2>6. Authorized' BY <1>1, <1>2, <2>2, <2>4 DEF RenderInv, Authorized
  <2>7. QED BY <1>1, <1>2, <2>5, <2>6, BesideEngine DEF flags
<1>3. CASE /\ navigationBlocked' = (navigationBlocked \/ r # Image)
           /\ refused' = (refused \/ r = Main) /\ FailRequest(r)
  <2>1. Typed' /\ Authorized' BY <1>1, <1>3, FailRequestKeeps
  <2>2. navigationBlocked => navigationBlocked' BY <1>3
  <2>3. refused' => refused \/ navigationBlocked' BY <1>3 DEF Constants
  <2>4. QED BY <1>1, <2>1, <2>2, <2>3, BesideEngine
<1>4. QED BY <1>2, <1>3 DEF Authorize, Decisions

LEMMA BudgetKeeps ==
  ASSUME Constants, RenderInv, NEW r \in Request, Grant(r) \/ BudgetRefuses(r) PROVE RenderInv'
<1>1. Running /\ requests[r].phase = "waiting" /\ UNCHANGED <<pc, result, got>>
  BY DEF Grant, BudgetRefuses
<1>2. CASE BudgetRefuses(r)
  <2>1. /\ navigationBlocked' = (navigationBlocked \/ r # Image)
        /\ refused' = (refused \/ r = Main) /\ FailRequest(r)
    BY <1>2 DEF BudgetRefuses
  <2>2. Typed' /\ Authorized' BY <1>1, <2>1, FailRequestKeeps
  <2>3. navigationBlocked => navigationBlocked' BY <2>1
  <2>4. refused' => refused \/ navigationBlocked' BY <2>1 DEF Constants
  <2>5. QED BY <1>1, <2>2, <2>3, <2>4, BesideEngine
<1>3. CASE UNCHANGED <<navigationBlocked, refused>> /\ FailRequest(r)
  BY <1>1, <1>3, FailRequestKeeps, BesideEngine
<1>4. CASE /\ requests' = [requests EXCEPT ![r].phase = "loading"]
           /\ UNCHANGED <<doc, navigationBlocked, refused>>
  <2>1. [requests[r] EXCEPT !.phase = "loading"] \in
          [url : Urls \cup {""}, of : Nat, phase : {"none", "authorizing", "waiting", "loading"}]
    <3>1. requests[r] \in
            [url : Urls \cup {""}, of : Nat, phase : {"none", "authorizing", "waiting", "loading"}]
      BY DEF RenderInv, Typed
    <3>2. QED BY ONLY <3>1
  <2>2. requests'[r].url = requests[r].url
        /\ \A q \in Request : q # r => requests'[q] = requests[q]
    BY <1>4, <2>1 DEF RenderInv, Typed
  <2>3. requests' \in [Request -> [url : Urls \cup {""}, of : Nat,
                                   phase : {"none", "authorizing", "waiting", "loading"}]]
    BY <1>4, <2>1 DEF RenderInv, Typed
  <2>4. Main \in Request BY DEF Request
  <2>5. Typed' BY <1>1, <1>4, <2>3 DEF RenderInv, Typed
  <2>6. Authorized' BY <1>1, <1>4, <2>2, <2>4 DEF RenderInv, Authorized
  <2>7. QED BY <1>1, <1>4, <2>5, <2>6, BesideEngine
<1>5. QED BY <1>2, <1>3, <1>4 DEF Grant

LEMMA RequestsKeep ==
  ASSUME Constants, RenderInv, NEW r \in Request, PageSends(r) \/ Redirect(r) \/ RequestEnds(r)
  PROVE  RenderInv'
<1>1. Running /\ UNCHANGED <<pc, result, got, doc, navigationBlocked, refused>>
  BY DEF PageSends, Redirect, RequestEnds, Live, engine, flags
<1>2. \/ \E url \in Urls : Sends(r, url)
      \/ requests' = Ended(r)
  BY DEF PageSends, Redirect, RequestEnds
<1>3. /\ requests' \in [Request -> [url : Urls \cup {""}, of : Nat,
                                    phase : {"none", "authorizing", "waiting", "loading"}]]
      /\ requests'[Main].phase \in {"waiting", "loading"} =>
           requests'[Main].url = requests[Main].url /\ requests'[Main].phase = requests[Main].phase
  BY <1>2, SendsKeeps, EndedKeeps
<1>4. Typed' BY <1>1, <1>3 DEF RenderInv, Typed
<1>5. Authorized' BY <1>1, <1>3 DEF RenderInv, Authorized
<1>6. QED BY <1>1, <1>4, <1>5, BesideEngine

LEMMA PostsKeep == ASSUME RenderInv, PagePosts PROVE RenderInv'
<1>1. /\ Running /\ UNCHANGED <<pc, result, got>> /\ navigationBlocked'
      /\ Main \in Request /\ FailRequest(Main)
  BY DEF PagePosts, Live, Request
<1>2. Typed' /\ Authorized' BY <1>1, FailRequestKeeps
<1>3. QED BY <1>1, <1>2, BesideEngine

LEMMA CommitKeeps == ASSUME RenderInv, Commit PROVE RenderInv'
<1>1. /\ Running /\ UNCHANGED <<pc, result, navigationBlocked, refused>>
      /\ requests[Main].phase = "loading"
      /\ doc' = [Blank EXCEPT !.id = doc.id + 1, !.url = requests[Main].url]
      /\ got' = IF got.response = 0 THEN [got EXCEPT !.response = doc'.id] ELSE got
      /\ requests' = [r \in Request |-> IF r = Main \/ requests[r].phase = "loading" THEN NoRequest
                                        ELSE requests[r]]
  BY DEF Commit, Live, flags
<1>2. requests[Main].url \in Allowed /\ requests[Main].url \in Sources /\ Main \in Request
  BY <1>1 DEF RenderInv, Authorized, Typed, Request, Sources
<1>3. /\ doc' \in [id : Nat, url : Sources, watched : BOOLEAN, quiet : BOOLEAN, hung : BOOLEAN]
      /\ doc'.id # 0 /\ doc'.url = requests[Main].url
  <2>1. doc.id \in Nat BY DEF RenderInv, Typed
  <2>2. QED BY <1>1, <1>2, <2>1, NextDocument
<1>4. /\ got' \in [response : Nat, html : Sources, domQuiet : BOOLEAN, watched : BOOLEAN]
      /\ got'.response # 0 /\ got'.domQuiet = got.domQuiet /\ got'.watched = got.watched
      /\ got'.html = got.html
  <2>1. CASE got.response = 0 BY <1>1, <1>3, <2>1 DEF RenderInv, Typed
  <2>2. CASE got.response # 0 BY <1>1, <2>2 DEF RenderInv, Typed
  <2>3. QED BY <2>1, <2>2
<1>5. NoRequest \in [url : Urls \cup {""}, of : Nat,
                     phase : {"none", "authorizing", "waiting", "loading"}]
      /\ NoRequest.phase = "none"
  BY DEF NoRequest
<1>6. requests' \in [Request -> [url : Urls \cup {""}, of : Nat,
                                 phase : {"none", "authorizing", "waiting", "loading"}]]
      /\ requests'[Main].phase = "none"
  BY <1>1, <1>2, <1>5 DEF RenderInv, Typed
<1>7. Typed' BY <1>1, <1>3, <1>4, <1>6 DEF RenderInv, Typed
<1>8. Authorized' BY <1>2, <1>3, <1>6 DEF Authorized, LetThrough
<1>9. InHand' BY <1>1, <1>4 DEF RenderInv, InHand
<1>10. Marked' BY <1>1 DEF RenderInv, Marked
<1>11. QED BY <1>7, <1>8, <1>9, <1>10 DEF RenderInv

LEMMA DocumentChanges ==
  ASSUME RenderInv, PageMoves \/ Mutates \/ Hangs \/ NetworkSettles PROVE RenderInv'
<1>1. Running /\ UNCHANGED <<pc, result, got, requests, navigationBlocked, refused>>
  BY DEF PageMoves, Mutates, Hangs, NetworkSettles, Live, engine, flags
<1>2. /\ doc' \in [id : Nat, url : Sources, watched : BOOLEAN, quiet : BOOLEAN, hung : BOOLEAN]
      /\ doc'.id = doc.id /\ doc'.url = doc.url
  <2>1. CASE UNCHANGED doc BY <2>1 DEF RenderInv, Typed
  <2>2. CASE doc' = [doc EXCEPT !.quiet = ~doc.quiet] BY <2>2 DEF RenderInv, Typed
  <2>3. CASE doc' = [doc EXCEPT !.hung = TRUE] BY <2>3 DEF RenderInv, Typed
  <2>4. QED BY <2>1, <2>2, <2>3 DEF PageMoves, Mutates, Hangs, NetworkSettles
<1>3. Typed' BY <1>1, <1>2 DEF RenderInv, Typed
<1>4. Authorized' BY <1>1, <1>2 DEF RenderInv, Authorized
<1>5. QED BY <1>1, <1>3, <1>4, BesideEngine

LEMMA UnchangedKeeps == ASSUME RenderInv, UNCHANGED <<engine, page>> PROVE RenderInv'
<1>1. UNCHANGED <<pc, result, got, doc, requests, navigationBlocked, refused>>
  BY DEF engine, page, flags
<1>2. Typed' BY <1>1 DEF RenderInv, Typed
<1>3. Authorized' BY <1>1 DEF RenderInv, Authorized
<1>4. InHand' /\ Marked' BY <1>1 DEF RenderInv, InHand, Marked
<1>5. QED BY <1>2, <1>3, <1>4 DEF RenderInv

-----------------------------------------------------------------------------
(***************************************************************************)
(* The theorems.                                                           *)
(***************************************************************************)
LEMMA RenderInit == ASSUME Init PROVE RenderInv
<1>1. Typed BY DEF Init, Typed, Place, Sources, Blank, NoRequest
<1>2. Authorized BY DEF Init, Authorized, Request, Blank, NoRequest
<1>3. InHand BY DEF Init, InHand, Arrived, Stable, Extracted
<1>4. Marked BY DEF Init, Marked
<1>5. QED BY <1>1, <1>2, <1>3, <1>4 DEF RenderInv

LEMMA RenderStep == ASSUME Constants, RenderInv, [Next]_vars PROVE RenderInv'
<1>1. CASE Engine BY <1>1, EngineKeeps
<1>2. CASE Handler BY <1>2, AuthorizeKeeps, BudgetKeeps DEF Handler
<1>3. CASE Page BY <1>3, RequestsKeep, PostsKeep, CommitKeeps, DocumentChanges DEF Page
<1>4. CASE Happens \/ DeadlinePasses BY <1>4, UnchangedKeeps DEF Happens, DeadlinePasses
<1>5. CASE UNCHANGED vars BY <1>5, UnchangedKeeps DEF vars
<1>6. QED BY <1>1, <1>2, <1>3, <1>4, <1>5 DEF Next

\* What the engine has in hand, which requests and documents the policy let through, and the
\* mark a refusal leaves: inductive, whatever the page and the handler of its requests do.
THEOREM RenderIsInvariant == ASSUME Constants PROVE Spec => []RenderInv
<1>1. Init => RenderInv BY RenderInit
<1>2. RenderInv /\ [Next]_vars => RenderInv' BY RenderStep
<1>3. QED BY <1>1, <1>2, PTL DEF Spec

\* The HTML of a completed render is of a document whose request the policy let through, or of
\* the browser's error page, and what was stable was a document under observation.
THEOREM RendersAreSound == ASSUME Constants PROVE Spec => []CompletedRenderIsSound
<1>1. RenderInv => CompletedRenderIsSound
  BY DEF RenderInv, InHand, LetThrough, CompletedRenderIsSound
<1>2. QED BY <1>1, RenderIsInvariant, PTL

-----------------------------------------------------------------------------
(***************************************************************************)
(* Until the first document has come no frame and no image is asked for,   *)
(* so nobody but the handler of the main frame's request turns the pending *)
(* flag off, and it does so when policy and budget let that request go.    *)
(***************************************************************************)
Held == requests[Main].phase \in {"authorizing", "waiting"}

Asked ==
  /\ doc.id # 0 => got.response # 0
  /\ pc = "start" => requests[Main].phase = "none"
  /\ got.response = 0 =>
       /\ \A r \in Request \ {Main} : requests[r].phase = "none"
       /\ Held => navigationAuthorizationPending
       /\ result \in {"NAVIGATION_TIMEOUT", "NAVIGATION_FAILED"} => ~Held

\* Steps of the engine that leave the page as it is.
LEMMA LooksAsks ==
  ASSUME RenderInv, Asked, UNCHANGED page, got'.response = got.response, pc' # "start",
         result' \in {"NAVIGATION_TIMEOUT", "NAVIGATION_FAILED"} =>
           ~navigationAuthorizationPending
  PROVE  Asked'
BY DEF Asked, Held, page, flags

LEMMA EngineAsks == ASSUME Constants, RenderInv, Asked, Engine PROVE Asked'
<1>1. CASE Settle
  <2>1. /\ UNCHANGED <<got, page>> /\ pc' = "over"
        /\ result' \in {"NAVIGATION_TIMEOUT", "NAVIGATION_FAILED"} =>
             ~navigationAuthorizationPending
    BY <1>1, LostCodes DEF Settle, ClassifyFailure, Fails
  <2>2. QED BY <2>1, LooksAsks
<1>2. CASE Observes
  <2>1. UNCHANGED <<got, page>> /\ pc' # "start"
        /\ result' \notin {"NAVIGATION_TIMEOUT", "NAVIGATION_FAILED"}
    BY <1>2, GuardCodes, LostCodes
    DEF Observes, GuardFails, Enter, PageOperationFails, GotoReturns, GotoFails, CrashDuringGoto,
        Revalidate, StabilityTimeout, InspectBody, Finish, Passes, InPage, At, Goto, Fails
  <2>2. QED BY <2>1, LooksAsks
<1>3. CASE ReadDom \/ ReadNetwork \/ ExtractHtml
  <2>1. UNCHANGED page /\ pc' # "start"
        /\ result' \notin {"NAVIGATION_TIMEOUT", "NAVIGATION_FAILED"}
    BY <1>3 DEF ReadDom, ReadNetwork, ExtractHtml, InPage, At, Goto, Fails
  <2>2. got'.response = got.response
    BY <1>3 DEF ReadDom, ReadNetwork, ExtractHtml, RenderInv, Typed
  <2>3. QED BY <2>1, <2>2, LooksAsks
<1>4. CASE Navigate
  BY <1>4 DEF Navigate, Passes, At, Goto, Asked, Held
<1>5. CASE AuthorizeInitial
  <2>1. CASE Fails("RUNTIME_NETWORK_BLOCKED") /\ UNCHANGED <<requests, navigationAuthorizationPending>>
    BY <1>5, <2>1 DEF AuthorizeInitial, Fails, Asked, Held
  <2>2. CASE Goto("goto") /\ Sends(Main, requestedUrl)
    <3>1. /\ pc' = "goto" /\ result' = "" /\ UNCHANGED <<got, doc>>
          /\ \A r \in Request \ {Main} : requests'[r] = requests[r]
      BY <1>5, <2>2 DEF AuthorizeInitial, At, Goto, Sends, RenderInv, Typed
    <3>2. navigationAuthorizationPending' BY <2>2 DEF Sends, Opens, Constants
    <3>3. QED BY <3>1, <3>2 DEF Asked
  <2>3. QED BY <1>5, <2>1, <2>2 DEF AuthorizeInitial
<1>6. CASE InitializeStabilityObserver
  <2>1. /\ pc' = "poll" /\ got.response # 0 /\ UNCHANGED got
    BY <1>6 DEF InitializeStabilityObserver, InPage, At, Goto, RenderInv, InHand, Arrived
  <2>2. QED BY <2>1 DEF Asked
<1>7. QED BY <1>1, <1>2, <1>3, <1>4, <1>5, <1>6 DEF Engine, Observes

\* Beside the engine, once a document has come.
LEMMA LaterAsks ==
  ASSUME RenderInv, Running, UNCHANGED pc, got'.response # 0
  PROVE  Asked'
BY DEF Asked, Running

\* A request that fails before: the document stays, and the request is over.
LEMMA FailRequestAsks ==
  ASSUME RenderInv, Asked, Running, got.response = 0, FailRequest(Main),
         UNCHANGED <<pc, result, got>>
  PROVE  Asked'
<1>1. UNCHANGED doc /\ requests' = [requests EXCEPT ![Main] = NoRequest]
  BY DEF FailRequest, Ended
<1>2. requests'[Main].phase = "none" /\ \A r \in Request \ {Main} : requests'[r] = requests[r]
  BY <1>1 DEF RenderInv, Typed, Request, NoRequest
<1>3. QED BY <1>1, <1>2 DEF Asked, Held

LEMMA HandlerAsks == ASSUME Constants, RenderInv, Asked, Handler PROVE Asked'
<1>1. PICK r \in Request : Authorize(r) \/ Grant(r) \/ BudgetRefuses(r) BY DEF Handler
<1>2. Running /\ UNCHANGED <<pc, result, got>> /\ requests[r].phase # "none"
  BY <1>1 DEF Authorize, Grant, BudgetRefuses
<1>3. CASE got.response # 0 BY <1>2, <1>3, LaterAsks
<1>4. CASE got.response = 0
  <2>1. r = Main BY <1>2, <1>4 DEF Asked
  <2>2. CASE FailRequest(Main) BY <1>2, <1>4, <2>2, FailRequestAsks
  <2>3. CASE /\ requests' = [requests EXCEPT ![Main].phase = "waiting"]
             /\ UNCHANGED <<flags, doc>> /\ requests[Main].phase = "authorizing"
    <3>1. \A q \in Request \ {Main} : requests'[q] = requests[q]
      BY <2>3 DEF RenderInv, Typed
    <3>2. Held /\ navigationAuthorizationPending' BY <1>4, <2>3 DEF Asked, Held, flags
    <3>3. result \notin {"NAVIGATION_TIMEOUT", "NAVIGATION_FAILED"}
      BY <1>4, <3>2 DEF Asked
    <3>4. QED BY <1>2, <2>3, <3>1, <3>2, <3>3 DEF Asked, Running
  <2>4. CASE requests' = [requests EXCEPT ![Main].phase = "loading"] /\ UNCHANGED doc
    <3>1. requests'[Main].phase = "loading"
          /\ \A q \in Request \ {Main} : requests'[q] = requests[q]
      BY <2>4 DEF RenderInv, Typed, Request
    <3>2. QED BY <1>2, <2>4, <3>1 DEF Asked, Held, Running
  <2>5. QED BY <1>1, <2>1, <2>2, <2>3, <2>4 DEF Authorize, Grant, BudgetRefuses
<1>5. QED BY <1>3, <1>4

LEMMA PageAsks == ASSUME Constants, RenderInv, Asked, Page PROVE Asked'
<1>1. Running /\ UNCHANGED <<pc, result>>
  BY DEF Page, PageSends, Redirect, RequestEnds, PagePosts, PageMoves, Commit, Mutates, Hangs,
         NetworkSettles, Live, engine
<1>2. CASE Commit
  <2>1. /\ doc'= [Blank EXCEPT !.id = doc.id + 1, !.url = requests[Main].url]
        /\ got' = IF got.response = 0 THEN [got EXCEPT !.response = doc'.id] ELSE got
    BY <1>2 DEF Commit
  <2>2. doc'.id = doc.id + 1 /\ doc.id \in Nat BY <2>1 DEF Blank, RenderInv, Typed
  <2>3. got'.response # 0
    <3>1. CASE got.response = 0
      <4>1. doc'.id # 0 BY <2>2
      <4>2. got' = [got EXCEPT !.response = doc'.id] BY <2>1, <3>1
      <4>3. got'.response = doc'.id BY <4>2 DEF RenderInv, Typed
      <4>4. QED BY <4>1, <4>3
    <3>2. CASE got.response # 0 BY <2>1, <3>2
    <3>3. QED BY <3>1, <3>2
  <2>4. QED BY <1>1, <2>3, LaterAsks
<1>3. CASE ~Commit /\ got.response # 0
  <2>1. UNCHANGED got
    BY <1>3 DEF Page, PageSends, Redirect, RequestEnds, PagePosts, PageMoves, Mutates, Hangs,
                NetworkSettles, engine
  <2>2. QED BY <1>1, <1>3, <2>1, LaterAsks
<1>4. CASE ~Commit /\ got.response = 0
  <2>1. doc.id = 0 BY <1>4 DEF Asked
  <2>2. \/ \E r \in Request : Redirect(r) \/ RequestEnds(r)
        \/ NetworkSettles
    BY <1>4, <2>1 DEF Page, PageSends, PagePosts, PageMoves, Mutates, Hangs
  <2>3. CASE NetworkSettles
    BY <1>1, <2>3 DEF NetworkSettles, engine, flags, Asked, Held
  <2>4. ASSUME NEW r \in Request, Redirect(r) \/ RequestEnds(r) PROVE Asked'
    <3>1. requests[r].phase = "loading" /\ UNCHANGED <<got, doc>>
      BY <2>4 DEF Redirect, RequestEnds, engine
    <3>2. r = Main BY <1>4, <3>1 DEF Asked
    <3>3. \A q \in Request \ {Main} : requests'[q] = requests[q]
      BY <2>4, <3>2 DEF Redirect, RequestEnds, Sends, Ended, RenderInv, Typed
    <3>4. result = "" BY <1>1 DEF Running, RenderInv, InHand
    <3>5. CASE Redirect(r)
      <4>1. navigationAuthorizationPending' BY <3>2, <3>5 DEF Redirect, Sends, Opens, Constants
      <4>2. QED BY <1>1, <3>1, <3>3, <3>4, <4>1 DEF Asked, Running
    <3>6. CASE RequestEnds(r)
      <4>1. requests'[Main].phase = "none"
        BY <3>2, <3>6 DEF RequestEnds, Ended, RenderInv, Typed, NoRequest
      <4>2. QED BY <1>1, <3>1, <3>3, <4>1 DEF Asked, Held
    <3>7. QED BY <2>4, <3>5, <3>6
  <2>5. QED BY <2>2, <2>3, <2>4
<1>5. QED BY <1>2, <1>3, <1>4

LEMMA StepAsks == ASSUME Constants, RenderInv, Asked, [Next]_vars PROVE Asked'
<1>1. CASE UNCHANGED <<engine, page>>
  BY <1>1 DEF engine, page, flags, Asked, Held
<1>2. QED
  BY <1>1, EngineAsks, HandlerAsks, PageAsks DEF Next, Happens, DeadlinePasses, vars

\* navigate: the failure is not one to try again after the policy has refused the page, nor as
\* long as policy or budget still hold the request the render began with.
THEOREM RefusalsAreFinal == ASSUME Constants PROVE Spec => []RefusalIsFinal
<1>1. ASSUME Init PROVE Asked
  <2>1. pc = "start" /\ result = "" /\ doc.id = 0 BY <1>1 DEF Init, Blank
  <2>2. \A r \in Request : requests[r].phase = "none" BY <1>1 DEF Init, NoRequest
  <2>3. requests[Main].phase = "none" BY <2>2 DEF Request
  <2>4. QED BY <2>1, <2>2, <2>3 DEF Asked, Held
<1>2. RenderInv /\ RenderInv' /\ Asked /\ [Next]_vars => Asked' BY StepAsks
<1>3. RenderInv /\ Asked => RefusalIsFinal
  BY DEF RenderInv, Marked, Asked, Held, RefusalIsFinal
<1>4. QED BY <1>1, <1>2, <1>3, RenderIsInvariant, PTL DEF Spec

-----------------------------------------------------------------------------
(***************************************************************************)
(* The browser under the renders (BrowserRuntime), for any number of jobs, *)
(* limits and faults: as long as no call meets a launch or a close that is *)
(* under way, no page loses its browser to a restart.                      *)
(***************************************************************************)
CONSTANTS PageJob, User, Tester, maximumPages, MAX_RESTARTS, MaxLaunches, MaxCalls, MaxFaults
VARIABLES browser, alive, state, activeJobIds, pagesRendered, restarts, authentication,
          callerPc, own, rotating, launches, calls, faults, killed, raced

Browser == INSTANCE BrowserRuntime WITH Job <- PageJob, pc <- callerPc

\* The user who restarts and the proxy test are callers of their own.
Callers == User # Tester /\ User \notin PageJob /\ Tester \notin PageJob

CallerPlace == {"idle", "launching", "ready", "closing", "opening", "open"}

BrowserTyped ==
  /\ launches \in Nat /\ browser \in 0..launches /\ alive \subseteq 1..launches
  /\ callerPc \in [Browser!Caller -> CallerPlace]
  /\ own \in [Browser!Caller -> 0..launches]
  /\ raced \in BOOLEAN
  /\ callerPc[User] \notin {"opening", "open"}

\* Only a proxy test, which takes no place among the active jobs, loses its browser.
NoPageKilled == killed \subseteq {Tester}

\* An active page is counted, and its browser is the current one while it lives.
PageCounted ==
  \A j \in PageJob : callerPc[j] \in {"opening", "open"} =>
    j \in activeJobIds /\ (own[j] \in alive => own[j] = browser)

\* Who launches or closes does so alone, with no browser connected; who closes has found
\* no active job.
AloneAtIt ==
  \A c \in Browser!Caller : callerPc[c] \in {"launching", "closing"} =>
    browser \notin alive /\ ~Browser!UnderWay(c)
NoneActive ==
  \A c \in Browser!Caller : callerPc[c] = "closing" => browser = 0 /\ activeJobIds = {}

Orderly == NoPageKilled /\ PageCounted /\ AloneAtIt /\ NoneActive
BrowserInv == BrowserTyped /\ (~raced => Orderly)

\* A launch: the new process is the only one that anybody may have.
LEMMA LaunchKeeps ==
  ASSUME Callers, BrowserInv, NEW c \in Browser!Caller, Browser!Launched(c)
  PROVE  BrowserInv'
<1> USE DEF Browser!Launched, Browser!Goto, Browser!Ends, BrowserInv
<1>1. BrowserTyped'
  <2>1. launches' \in Nat /\ launches <= launches' /\ browser' \in 0..launches'
        /\ alive' \subseteq 1..launches'
    <3>1. CASE launches' = launches + 1 /\ browser' = launches' /\ alive' = alive \cup {launches'}
      <4>1. launches \in Nat /\ alive \subseteq 1..launches BY DEF BrowserTyped, CallerPlace
      <4>2. 1..launches \subseteq 1..launches' /\ launches' \in 1..launches' BY <3>1, <4>1
      <4>3. QED BY <3>1, <4>1, <4>2
    <3>2. CASE UNCHANGED <<launches, browser, alive>>
      BY <3>2 DEF BrowserTyped, CallerPlace
    <3>3. QED BY <3>1, <3>2
  <2>2. callerPc' \in [Browser!Caller -> CallerPlace]
        /\ callerPc'[User] \notin {"opening", "open"}
    BY DEF BrowserTyped, CallerPlace, Browser!Caller
  <2>3. own' \in [Browser!Caller -> 0..launches] BY DEF BrowserTyped, CallerPlace
  <2>4. 0..launches \subseteq 0..launches' BY <2>1 DEF BrowserTyped, CallerPlace
  <2>5. QED BY <2>1, <2>2, <2>3, <2>4 DEF BrowserTyped, CallerPlace
<1>2. ASSUME ~raced' PROVE Orderly'
  <2>1. Orderly /\ ~raced BY <1>2
  <2>2. browser \notin alive /\ ~Browser!UnderWay(c) BY <2>1 DEF Orderly, AloneAtIt
  <2>3. NoPageKilled' BY <2>1 DEF Orderly, NoPageKilled
  <2>4. PageCounted'
    BY <2>1, <2>2 DEF Orderly, PageCounted, BrowserTyped, CallerPlace, Browser!Caller
  <2>5. AloneAtIt' /\ NoneActive'
    BY <2>1, <2>2 DEF Orderly, AloneAtIt, NoneActive, Browser!UnderWay, BrowserTyped,
        CallerPlace
  <2>6. QED BY <2>3, <2>4, <2>5 DEF Orderly
<1>3. QED BY <1>1, <1>2

\* The end of a close.
LEMMA CloseKeeps ==
  ASSUME Callers, BrowserInv, NEW c \in Browser!Caller, Browser!Closed(c)
  PROVE  BrowserInv'
<1> USE DEF Browser!Closed, Browser!Goto, Browser!bounds, BrowserInv
<1>1. BrowserTyped'
  <2>1. own' = [own EXCEPT ![c] = 0] /\ 0 \in 0..launches BY DEF BrowserTyped, CallerPlace
  <2>2. own' \in [Browser!Caller -> 0..launches] BY <2>1 DEF BrowserTyped, CallerPlace
  <2>3. callerPc' \in [Browser!Caller -> CallerPlace]
        /\ callerPc'[User] \notin {"opening", "open"}
    BY DEF BrowserTyped, CallerPlace, Browser!Caller
  <2>4. raced' \in BOOLEAN BY DEF BrowserTyped, CallerPlace, Browser!UnderWay
  <2>5. QED BY <2>2, <2>3, <2>4 DEF BrowserTyped, CallerPlace
<1>2. ASSUME ~raced' PROVE Orderly'
  <2>1. Orderly /\ ~raced BY <1>2
  <2>2. browser = 0 /\ activeJobIds = {} /\ ~Browser!UnderWay(c)
    BY <2>1 DEF Orderly, AloneAtIt, NoneActive
  <2>3. browser \notin alive' BY <2>2 DEF BrowserTyped, CallerPlace
  <2>4. \A j \in PageJob : callerPc[j] \notin {"opening", "open"}
    BY <2>1, <2>2 DEF Orderly, PageCounted
  <2>5. NoPageKilled'
    BY <2>1, <2>4 DEF Orderly, NoPageKilled, BrowserTyped, CallerPlace, Browser!Caller
  <2>6. PageCounted' BY <2>3, <2>4 DEF PageCounted, BrowserTyped, CallerPlace, Browser!Caller
  <2>7. AloneAtIt' /\ NoneActive'
    BY <2>1, <2>2, <2>3 DEF Orderly, AloneAtIt, NoneActive, Browser!UnderWay, BrowserTyped,
        CallerPlace
  <2>8. QED BY <2>5, <2>6, <2>7 DEF Orderly
<1>3. QED BY <1>1, <1>2

\* start, of a page session or a proxy test.
LEMMA StartKeeps ==
  ASSUME Callers, BrowserInv, NEW c \in Browser!Caller, callerPc[c] = "idle",
         Browser!Start(c),
         UNCHANGED <<browser, alive, activeJobIds, own, launches, killed>>
  PROVE  BrowserInv'
<1> USE DEF Browser!Start, Browser!Goto, BrowserInv
<1>1. BrowserTyped'
  BY DEF BrowserTyped, CallerPlace, Callers, Browser!Caller
<1>2. ASSUME ~raced' PROVE Orderly'
  <2>1. Orderly /\ ~raced BY <1>2 DEF BrowserTyped, CallerPlace
  <2>2. NoPageKilled' BY <2>1 DEF Orderly, NoPageKilled
  <2>3. PageCounted' BY <2>1 DEF Orderly, PageCounted, BrowserTyped, CallerPlace, Browser!Caller
  <2>4. AloneAtIt' /\ NoneActive'
    <3>1. CASE Browser!Connected
      BY <1>2, <2>1, <3>1
      DEF Orderly, AloneAtIt, NoneActive, Browser!UnderWay, BrowserTyped, CallerPlace,
          Browser!Connected
    <3>2. CASE ~Browser!Connected
      <4>1. ~Browser!UnderWay(c) BY <1>2, <3>2
      <4>2. QED
        BY <2>1, <3>2, <4>1
        DEF Orderly, AloneAtIt, NoneActive, Browser!UnderWay, BrowserTyped, CallerPlace,
            Browser!Connected
    <3>3. QED BY <3>1, <3>2
  <2>5. QED BY <2>2, <2>3, <2>4 DEF Orderly
<1>3. QED BY <1>1, <1>2

\* restart, of the user or before a page.
LEMMA RestartKeeps ==
  ASSUME Callers, BrowserInv, NEW c \in Browser!Caller, c # Tester,
         callerPc[c] \in {"idle", "ready"}, Browser!CanRestart, Browser!Restart(c),
         UNCHANGED <<alive, activeJobIds, launches, killed>>
  PROVE  BrowserInv'
<1> USE DEF Browser!Restart, Browser!BeginClose, Browser!Goto, BrowserInv
<1>1. BrowserTyped'
  BY DEF BrowserTyped, CallerPlace, Callers, Browser!Caller
<1>2. ASSUME ~raced' PROVE Orderly'
  <2>1. Orderly /\ ~raced /\ ~Browser!UnderWay(c) BY <1>2 DEF BrowserTyped, CallerPlace
  <2>2. activeJobIds = {} BY DEF Browser!CanRestart
  <2>3. browser' = 0 /\ browser' \notin alive'
    BY DEF BrowserTyped, CallerPlace
  <2>4. \A j \in PageJob : callerPc[j] \notin {"opening", "open"}
    BY <2>1, <2>2 DEF Orderly, PageCounted
  <2>5. NoPageKilled' BY <2>1 DEF Orderly, NoPageKilled
  <2>6. PageCounted' BY <2>4 DEF PageCounted, BrowserTyped, CallerPlace, Browser!Caller
  <2>7. AloneAtIt' /\ NoneActive'
    BY <2>1, <2>2, <2>3 DEF AloneAtIt, NoneActive, Browser!UnderWay, BrowserTyped, CallerPlace
  <2>8. QED BY <2>5, <2>6, <2>7 DEF Orderly
<1>3. QED BY <1>1, <1>2

\* A session opens in the browser that is connected, or the call ends.
LEMMA RotateKeeps ==
  ASSUME Callers, BrowserInv, NEW j \in PageJob, Browser!RotateOrOpen(j)
  PROVE  BrowserInv'
<1> USE DEF Browser!RotateOrOpen, Browser!bounds, BrowserInv
<1>0. j \in Browser!Caller /\ j # Tester /\ j # User BY DEF Callers, Browser!Caller
<1>1. CASE Browser!CanRestart /\ Browser!Rotate(j)
  BY <1>0, <1>1, RestartKeeps DEF Browser!Rotate
<1>2. CASE Browser!Open(j) \/ Browser!Refuse(j)
  <2> USE DEF Browser!Open, Browser!Refuse, Browser!Ends, Browser!Goto
  <2>1. UNCHANGED <<browser, alive, launches, killed, raced>> /\ callerPc[j] = "ready"
    BY <1>2
  <2>2. \/ callerPc' = [callerPc EXCEPT ![j] = "idle"] /\ own' = [own EXCEPT ![j] = 0]
           /\ UNCHANGED activeJobIds
        \/ callerPc' = [callerPc EXCEPT ![j] = "opening"] /\ own' = [own EXCEPT ![j] = browser]
           /\ activeJobIds' = activeJobIds \cup {j}
    BY <1>2
  <2>3. BrowserTyped'
    <3>1. own' \in [Browser!Caller -> 0..launches]
      <4>1. 0 \in 0..launches /\ browser \in 0..launches BY DEF BrowserTyped, CallerPlace
      <4>2. QED BY <2>2, <4>1 DEF BrowserTyped, CallerPlace
    <3>2. callerPc' \in [Browser!Caller -> CallerPlace]
          /\ callerPc'[User] \notin {"opening", "open"}
      BY <1>0, <2>2 DEF BrowserTyped, CallerPlace, Browser!Caller
    <3>3. QED BY <2>1, <3>1, <3>2 DEF BrowserTyped, CallerPlace
  <2>4. ASSUME ~raced' PROVE Orderly'
    <3>1. Orderly BY <2>1, <2>4
    <3>2. NoPageKilled' BY <2>1, <3>1 DEF Orderly, NoPageKilled
    <3>3. PageCounted'
      BY <1>0, <2>1, <2>2, <3>1 DEF Orderly, PageCounted, BrowserTyped, CallerPlace,
          Browser!Caller
    <3>4. \A c \in Browser!Caller : callerPc[c] \notin {"launching", "closing"}
      BY <1>0, <2>1, <3>1 DEF Orderly, AloneAtIt, Browser!UnderWay, BrowserTyped, CallerPlace
    <3>5. \A c \in Browser!Caller : callerPc'[c] \notin {"launching", "closing"}
      BY <1>0, <2>2, <3>4 DEF BrowserTyped, CallerPlace
    <3>6. QED BY <3>2, <3>3, <3>5 DEF Orderly, AloneAtIt, NoneActive
  <2>5. QED BY <2>3, <2>4
<1>3. QED BY <1>1, <1>2

LEMMA EndsKeep ==
  ASSUME Callers, BrowserInv, NEW c \in Browser!Caller,
         callerPc[c] \notin {"launching", "closing"},
         NEW place \in {"idle", "open"}, callerPc' = [callerPc EXCEPT ![c] = place],
         place = "open" => c = Tester \/ (c \in PageJob /\ callerPc[c] = "opening"),
         own' = own \/ own' = [own EXCEPT ![c] = 0]
           \/ (c = Tester /\ own' = [own EXCEPT ![c] = browser]),
         place = "open" /\ c \in PageJob => UNCHANGED <<own, activeJobIds>>,
         UNCHANGED activeJobIds \/ (c \in PageJob /\ activeJobIds' = activeJobIds \ {c}),
         UNCHANGED <<browser, alive, launches, raced>>, killed' \subseteq killed
  PROVE  BrowserInv'
<1> USE DEF BrowserInv
<1>1. BrowserTyped' BY DEF BrowserTyped, CallerPlace, Callers
<1>2. ASSUME ~raced' PROVE Orderly'
  <2>1. Orderly BY <1>2
  <2>2. NoPageKilled' BY <2>1 DEF Orderly, NoPageKilled
  <2>3. PageCounted'
    BY <2>1 DEF Orderly, PageCounted, BrowserTyped, CallerPlace, Browser!Caller, Callers
  <2>4. AloneAtIt' /\ NoneActive'
    BY <2>1 DEF Orderly, AloneAtIt, NoneActive, Browser!UnderWay, BrowserTyped, CallerPlace
  <2>5. QED BY <2>2, <2>3, <2>4 DEF Orderly
<1>3. QED BY <1>1, <1>2

LEMMA SessionsKeep ==
  ASSUME Callers, BrowserInv, NEW j \in PageJob, Browser!Opened(j) \/ Browser!ClosePage(j)
  PROVE  BrowserInv'
<1>0. j \in Browser!Caller BY DEF Browser!Caller
<1>1. CASE callerPc' = [callerPc EXCEPT ![j] = "open"]
  <2>1. callerPc[j] = "opening" /\ UNCHANGED <<own, activeJobIds>>
        /\ UNCHANGED <<browser, alive, launches, raced, killed>>
    BY <1>0, <1>1 DEF Browser!Opened, Browser!ClosePage, Browser!Goto, Browser!Ends,
       BrowserInv, BrowserTyped, CallerPlace
  <2>2. QED BY <1>0, <1>1, <2>1, EndsKeep
<1>2. CASE callerPc' # [callerPc EXCEPT ![j] = "open"]
  <2>1. /\ callerPc[j] \in {"opening", "open"}
        /\ callerPc' = [callerPc EXCEPT ![j] = "idle"] /\ own' = [own EXCEPT ![j] = 0]
        /\ activeJobIds' = activeJobIds \ {j}
        /\ UNCHANGED <<browser, alive, launches, raced>> /\ killed' \subseteq killed
    BY <1>2 DEF Browser!Opened, Browser!ClosePage, Browser!Goto, Browser!Ends, Browser!bounds
  <2>2. QED BY <1>0, <2>1, EndsKeep
<1>3. QED BY <1>1, <1>2

LEMMA ProxyKeeps ==
  ASSUME Callers, BrowserInv,
         Browser!RestartDone \/ Browser!ProxyContext \/ Browser!ProxyTested
  PROVE  BrowserInv'
<1>0. User \in Browser!Caller /\ Tester \in Browser!Caller BY DEF Browser!Caller
<1>1. CASE Browser!RestartDone
  BY <1>0, <1>1, EndsKeep DEF Browser!RestartDone, Browser!bounds, Browser!Ends, Browser!Goto
<1>2. CASE Browser!ProxyContext
  BY <1>0, <1>2, EndsKeep DEF Browser!ProxyContext, Browser!bounds, Browser!Ends, Browser!Goto,
      Callers
<1>3. CASE Browser!ProxyTested
  BY <1>0, <1>3, EndsKeep DEF Browser!ProxyTested, Browser!bounds, Browser!Ends, Browser!Goto
<1>4. QED BY <1>1, <1>2, <1>3

LEMMA CrashKeeps ==
  ASSUME BrowserInv, NEW b, Browser!Crash(b) PROVE BrowserInv'
BY DEF Browser!Crash, BrowserInv, BrowserTyped, CallerPlace, Orderly, NoPageKilled, PageCounted,
       AloneAtIt, NoneActive, Browser!UnderWay

LEMMA OthersKeep ==
  ASSUME BrowserInv, Browser!Authenticate \/ UNCHANGED Browser!vars PROVE BrowserInv'
BY DEF Browser!Authenticate, Browser!vars, Browser!bounds, BrowserInv, BrowserTyped, CallerPlace,
       Orderly,
       NoPageKilled, PageCounted, AloneAtIt, NoneActive, Browser!UnderWay

\* What the runtime keeps while calls do not meet: an active page is counted and in the
\* current browser, and a launch or a close is one caller's alone.
THEOREM BrowserIsInvariant == ASSUME Callers PROVE Browser!Spec => []BrowserInv
<1>1. Browser!Init => BrowserInv
  <2> SUFFICES ASSUME Browser!Init PROVE BrowserInv OBVIOUS
  <2>1. BrowserTyped
    <3>1. launches = 0 /\ browser = 0 /\ alive = {} /\ raced = FALSE BY DEF Browser!Init
    <3>2. callerPc = [c \in Browser!Caller |-> "idle"] /\ own = [c \in Browser!Caller |-> 0]
      BY DEF Browser!Init
    <3>3. User \in Browser!Caller /\ 0 \in 0..0 BY DEF Browser!Caller
    <3>4. QED BY <3>1, <3>2, <3>3 DEF BrowserTyped, CallerPlace
  <2>2. \A c \in Browser!Caller : callerPc[c] = "idle" BY DEF Browser!Init
  <2>3. Orderly
    BY <2>2 DEF Browser!Init, Browser!Caller, Orderly, NoPageKilled, PageCounted, AloneAtIt,
                NoneActive
  <2>4. QED BY <2>1, <2>3 DEF BrowserInv
<1>2. BrowserInv /\ [Browser!Next]_(Browser!vars) => BrowserInv'
  <2> SUFFICES ASSUME BrowserInv, [Browser!Next]_(Browser!vars) PROVE BrowserInv' OBVIOUS
  <2>1. CASE Browser!RestartCommand
    BY <2>1, RestartKeeps DEF Browser!RestartCommand, Browser!Calls, Browser!Caller, Callers
  <2>2. CASE Browser!TestProxy
    BY <2>2, StartKeeps DEF Browser!TestProxy, Browser!Calls, Browser!Caller
  <2>3. ASSUME NEW j \in PageJob, Browser!CreatePageSession(j) PROVE BrowserInv'
    BY <2>3, StartKeeps DEF Browser!CreatePageSession, Browser!Calls, Browser!Caller
  <2>4. QED
    BY <2>1, <2>2, <2>3, LaunchKeeps, CloseKeeps, RotateKeeps, SessionsKeep, ProxyKeeps,
       CrashKeeps, OthersKeep DEF Browser!Next
<1>3. QED BY <1>1, <1>2, PTL DEF Browser!Spec

\* "The Browser Runtime cannot restart while an active Browser Context is open": no page
\* loses its browser to a restart or a rotation, and none is left in a process that the
\* runtime no longer knows, unless a call met a launch or a close that was under way.
THEOREM PagesKeepTheirs == ASSUME Callers PROVE Browser!Spec => []Browser!PagesKeepTheirBrowser
<1>1. BrowserInv => Browser!PagesKeepTheirBrowser
  BY DEF BrowserInv, Orderly, NoPageKilled, PageCounted, Callers, Browser!PagesKeepTheirBrowser
<1>2. QED BY <1>1, BrowserIsInvariant, PTL

-----------------------------------------------------------------------------
(***************************************************************************)
(* The responses that pages are given without a server (NetworkReplay),    *)
(* for any requests, bodies and number of pages at a time: what a snapshot *)
(* answers was once heard, and a strict policy is kept.                    *)
(***************************************************************************)
CONSTANTS PageRequest, ApiRequest, Body, NoBody, MaxReplays, MaxDamages
VARIABLES policy, rows, bodies, replayPc, replayMem, heard, damaged, asked, replayFaults

Replay == INSTANCE NetworkReplay WITH
  Task <- PageRequest, Request <- ApiRequest, file <- bodies, pc <- replayPc, mem <- replayMem,
  requests <- asked, faults <- replayFaults, MaxRequests <- MaxReplays, MaxFaults <- MaxDamages

\* There are requests, and each has the query key or not.
ReplayConstants == ApiRequest # {} /\ \A r \in ApiRequest : r.key \in BOOLEAN

ReplayPlace ==
  {"idle", "handle", "aborted", "network", "read", "fulfilled", "response", "exists", "verify",
   "write", "rename", "insert"}

ReplayTyped ==
  /\ replayPc \in [PageRequest -> ReplayPlace]
  /\ replayMem \in [PageRequest -> [request : ApiRequest, layer : Nat, body : Body \cup {NoBody},
                                    status : Nat]]
  /\ bodies \in [Body -> {"absent", "whole", "damaged"}]

\* A server gave this answer to that address: with the key, or under a policy that ignores it.
Heard(to, key, body, status) ==
  \E h \in heard : /\ h.to = to /\ h.body = body /\ h.status = status
                   /\ h.key = key \/ policy.ignoring

\* From a snapshot or from a server.
Answered(t) ==
  /\ replayMem[t].body \in Body
  /\ Heard(replayMem[t].request.to, replayMem[t].request.key, replayMem[t].body,
           replayMem[t].status)
AnswersWereHeard ==
  \A t \in PageRequest : replayPc[t] \notin {"idle", "handle", "aborted", "network"} => Answered(t)

SnapshotsWereHeard ==
  \A r \in rows : /\ r.body \in Body /\ r.status \in Nat
                  /\ Heard(r.identity.to, r.identity.key, r.body, r.status)

\* A body that a row names, or is about to.
InPlace(body) == bodies[body] = "whole" \/ body \in damaged
BodiesAreThere ==
  /\ \A r \in rows : InPlace(r.body)
  /\ \A t \in PageRequest : replayPc[t] = "insert" => InPlace(replayMem[t].body)

StrictIsKept ==
  \A t \in PageRequest :
    replayPc[t] = "network" /\ policy.strict => Replay!Local(replayMem[t].request)

ReplayInv ==
  /\ ReplayTyped /\ AnswersWereHeard /\ SnapshotsWereHeard /\ BodiesAreThere /\ StrictIsKept

-----------------------------------------------------------------------------
(***************************************************************************)
(* Steps of one request.                                                   *)
(***************************************************************************)
ReplayMemory ==
  [request : ApiRequest, layer : Nat, body : Body \cup {NoBody}, status : Nat]

LEMMA GoesTo ==
  ASSUME ReplayTyped, NEW t \in PageRequest, NEW where \in ReplayPlace, NEW m \in ReplayMemory,
         Replay!Goto(t, where, m)
  PROVE  /\ replayPc'[t] = where /\ replayMem'[t] = m
         /\ \A u \in PageRequest \ {t} :
              replayPc'[u] = replayPc[u] /\ replayMem'[u] = replayMem[u]
         /\ replayPc' \in [PageRequest -> ReplayPlace]
         /\ replayMem' \in [PageRequest -> ReplayMemory]
BY DEF Replay!Goto, ReplayTyped, ReplayMemory

LEMMA NoMemIs ==
  ASSUME ReplayConstants PROVE Replay!NoMem \in ReplayMemory
<1>1. (CHOOSE r \in ApiRequest : TRUE) \in ApiRequest BY DEF ReplayConstants
<1>2. QED BY <1>1 DEF Replay!NoMem, ReplayMemory

\* A step after which t is at a place with nothing to show for it, or has the answer it had.
LEMMA StepKeeps ==
  ASSUME ReplayInv, NEW t \in PageRequest, NEW where \in ReplayPlace, NEW m \in ReplayMemory,
         Replay!Goto(t, where, m), UNCHANGED <<policy, rows, bodies, heard, damaged>>,
         \/ where \in {"idle", "handle", "aborted"}
         \/ where = "network" /\ (policy.strict => Replay!Local(m.request))
         \/ /\ where \in {"read", "fulfilled", "response", "exists", "verify", "write", "rename"}
            /\ m.body \in Body /\ Heard(m.request.to, m.request.key, m.body, m.status)
  PROVE  ReplayInv'
<1>1. /\ replayPc'[t] = where /\ replayMem'[t] = m
      /\ \A u \in PageRequest \ {t} : replayPc'[u] = replayPc[u] /\ replayMem'[u] = replayMem[u]
      /\ replayPc' \in [PageRequest -> ReplayPlace]
      /\ replayMem' \in [PageRequest -> ReplayMemory]
  BY GoesTo DEF ReplayInv
<1>2. ReplayTyped' BY <1>1 DEF ReplayInv, ReplayTyped, ReplayMemory
<1>3. \A to, key, body, status : Heard(to, key, body, status)' = Heard(to, key, body, status)
  BY DEF Heard
<1>4. AnswersWereHeard' BY <1>1, <1>3 DEF ReplayInv, AnswersWereHeard, Answered
<1>5. SnapshotsWereHeard' BY <1>3 DEF ReplayInv, SnapshotsWereHeard
<1>6. BodiesAreThere' BY <1>1 DEF ReplayInv, BodiesAreThere, InPlace
<1>7. StrictIsKept' BY <1>1 DEF ReplayInv, StrictIsKept, Replay!Local
<1>8. QED BY <1>2, <1>4, <1>5, <1>6, <1>7 DEF ReplayInv

LEMMA AtKeeps ==
  ASSUME ReplayInv, NEW t \in PageRequest, NEW where \in ReplayPlace, Replay!At(t, where),
         UNCHANGED <<policy, rows, bodies, heard, damaged>>,
         \/ where \in {"idle", "handle", "aborted"}
         \/ where = "network" /\ (policy.strict => Replay!Local(replayMem[t].request))
         \/ /\ where \in {"read", "fulfilled", "response", "exists", "verify", "write", "rename"}
            /\ replayPc[t] \notin {"idle", "handle", "aborted", "network"}
  PROVE  ReplayInv'
<1>1. replayMem[t] \in ReplayMemory BY DEF ReplayInv, ReplayTyped, ReplayMemory
<1>2. Replay!Goto(t, where, replayMem[t]) BY DEF Replay!At
<1>3. replayPc[t] \notin {"idle", "handle", "aborted", "network"} =>
        /\ replayMem[t].body \in Body
        /\ Heard(replayMem[t].request.to, replayMem[t].request.key, replayMem[t].body,
                 replayMem[t].status)
  BY DEF ReplayInv, AnswersWereHeard, Answered
<1>4. QED BY <1>1, <1>2, <1>3, StepKeeps

\* A request ends, with a row added or not.
LEMMA EndKeeps ==
  ASSUME ReplayConstants, ReplayInv, NEW t \in PageRequest,
         Replay!Goto(t, "idle", Replay!NoMem), UNCHANGED <<policy, bodies, heard, damaged>>,
         \/ UNCHANGED rows
         \/ /\ rows' = Replay!Inserted(t) /\ InPlace(replayMem[t].body)
            /\ replayPc[t] \in {"verify", "insert"}
  PROVE  ReplayInv'
<1>1. Replay!NoMem \in ReplayMemory /\ "idle" \in ReplayPlace BY NoMemIs DEF ReplayPlace
<1>2. CASE UNCHANGED rows BY <1>1, <1>2, StepKeeps
<1>3. CASE /\ rows' = Replay!Inserted(t) /\ InPlace(replayMem[t].body)
           /\ replayPc[t] \in {"verify", "insert"}
  <2> DEFINE m == replayMem[t]
             identity == Replay!Identity(m.request, policy.ignoring)
             row == [identity |-> identity, body |-> m.body, status |-> m.status]
  <2>1. /\ replayPc'[t] = "idle" /\ replayMem'[t] = Replay!NoMem
        /\ \A u \in PageRequest \ {t} : replayPc'[u] = replayPc[u] /\ replayMem'[u] = replayMem[u]
        /\ replayPc' \in [PageRequest -> ReplayPlace]
        /\ replayMem' \in [PageRequest -> ReplayMemory]
    BY <1>1, GoesTo DEF ReplayInv
  <2>2. rows' \subseteq rows \cup {row} BY <1>3 DEF Replay!Inserted
  <2>3. /\ m.request \in ApiRequest /\ m.body \in Body /\ m.status \in Nat
        /\ Heard(m.request.to, m.request.key, m.body, m.status)
    BY <1>3 DEF ReplayInv, ReplayTyped, AnswersWereHeard, Answered
  <2>4. identity.to = m.request.to /\ (identity.key = m.request.key \/ policy.ignoring)
    BY <2>3 DEF Replay!Identity, ReplayConstants
  <2>5. Heard(identity.to, identity.key, m.body, m.status) BY <2>3, <2>4 DEF Heard
  <2>6. row.body = m.body /\ row.status = m.status /\ row.identity = identity OBVIOUS
  <2> HIDE DEF row, identity, m
  <2>7. \A to, key, body, status : Heard(to, key, body, status)' = Heard(to, key, body, status)
    BY DEF Heard
  <2>8. ReplayTyped' BY <2>1 DEF ReplayInv, ReplayTyped, ReplayMemory
  <2>9. AnswersWereHeard' BY <2>1, <2>7 DEF ReplayInv, AnswersWereHeard, Answered
  <2>10. SnapshotsWereHeard'
    BY <2>2, <2>3, <2>5, <2>6, <2>7 DEF ReplayInv, SnapshotsWereHeard
  <2>11. BodiesAreThere' BY <1>3, <2>1, <2>2, <2>6 DEF ReplayInv, BodiesAreThere, InPlace, m
  <2>12. StrictIsKept' BY <2>1 DEF ReplayInv, StrictIsKept
  <2>13. QED BY <2>8, <2>9, <2>10, <2>11, <2>12 DEF ReplayInv
<1>4. QED BY <1>2, <1>3

LEMMA HandleKeeps ==
  ASSUME ReplayConstants, ReplayInv, NEW t \in PageRequest, Replay!Handle(t) PROVE ReplayInv'
<1> DEFINE m == replayMem[t]
           found == Replay!Snapshots(m.request)
           row == CHOOSE r \in found : TRUE
           answer == [m EXCEPT !.body = row.body, !.status = row.status]
<1>1. UNCHANGED <<policy, rows, bodies, heard, damaged>> BY DEF Replay!Handle
<1>2. m \in ReplayMemory /\ {"aborted", "handle", "network", "read"} \subseteq ReplayPlace
  BY DEF ReplayInv, ReplayTyped, ReplayMemory, ReplayPlace
<1>3. CASE Replay!At(t, "aborted") BY <1>1, <1>2, <1>3, AtKeeps
<1>4. CASE Replay!Pass(t) /\ (policy.strict => Replay!Local(m.request))
  <2>1. CASE Replay!Goto(t, "handle", [m EXCEPT !.layer = 2])
    <3>1. [m EXCEPT !.layer = 2] \in ReplayMemory BY <1>2 DEF ReplayMemory
    <3>2. QED BY <1>1, <1>2, <2>1, <3>1, StepKeeps
  <2>2. CASE Replay!At(t, "network") BY <1>1, <1>2, <1>4, <2>2, AtKeeps
  <2>3. QED BY <1>3, <1>4, <2>1, <2>2 DEF Replay!Pass
<1>5. CASE Replay!Cardinality(Replay!Bodies(found)) = 1 /\ Replay!Goto(t, "read", answer)
  <2>1. found # {}
    <3>1. SUFFICES ASSUME found = {} PROVE FALSE OBVIOUS
    <3>2. Replay!Bodies(found) = {} BY <3>1 DEF Replay!Bodies
    <3>3. Cardinality({}) = 0 BY FS_EmptySet
    <3>4. Replay!Cardinality({}) = Cardinality({}) BY DEF Replay!Cardinality, Cardinality
    <3>5. QED BY <1>5, <3>2, <3>3, <3>4
  <2>2. row \in found BY <2>1
  <2>3. row \in rows /\ row.identity = Replay!Identity(m.request, FALSE)
    BY <2>2 DEF Replay!Snapshots
  <2>4. row.identity.to = m.request.to /\ row.identity.key = m.request.key
    <3>1. m.request.key \in BOOLEAN BY <1>2 DEF ReplayConstants, ReplayMemory
    <3>2. QED BY <2>3, <3>1 DEF Replay!Identity
  <2>5. /\ row.body \in Body /\ row.status \in Nat
        /\ Heard(m.request.to, m.request.key, row.body, row.status)
    BY <2>3, <2>4 DEF ReplayInv, SnapshotsWereHeard
  <2> HIDE DEF row, found, m
  <2>6. /\ answer \in ReplayMemory /\ answer.request = m.request
        /\ answer.body = row.body /\ answer.status = row.status
    BY <1>2, <2>5 DEF ReplayMemory
  <2> HIDE DEF answer
  <2>7. QED BY <1>1, <1>2, <1>5, <2>5, <2>6, StepKeeps
<1>6. QED BY <1>3, <1>4, <1>5 DEF Replay!Handle

LEMMA RespondKeeps ==
  ASSUME ReplayInv, NEW t \in PageRequest, Replay!Respond(t) PROVE ReplayInv'
<1> DEFINE m == replayMem[t]
<1>1. PICK body \in Body, status \in {200, 302} :
        /\ heard' = heard \cup {[to |-> m.request.to, key |-> m.request.key,
                                 body |-> body, status |-> status]}
        /\ Replay!Goto(t, "response", [m EXCEPT !.body = body, !.status = status])
  BY DEF Replay!Respond
<1> DEFINE answer == [m EXCEPT !.body = body, !.status = status]
           h == [to |-> m.request.to, key |-> m.request.key, body |-> body, status |-> status]
<1>2. UNCHANGED <<policy, rows, bodies, damaged>> BY DEF Replay!Respond
<1>3. m \in ReplayMemory BY DEF ReplayInv, ReplayTyped, ReplayMemory
<1>4. h.to = m.request.to /\ h.key = m.request.key /\ h.body = body /\ h.status = status
      /\ h \in heard' /\ heard \subseteq heard'
  BY <1>1
<1> HIDE DEF h, m
<1>5. answer \in ReplayMemory /\ answer.request = m.request /\ answer.body = body
      /\ answer.status = status /\ "response" \in ReplayPlace
  <2>1. body \in Body \cup {NoBody} /\ status \in Nat OBVIOUS
  <2> HIDE <1>1
  <2>2. QED BY <1>3, <2>1 DEF ReplayMemory, ReplayPlace
<1>6. Replay!Goto(t, "response", answer) BY <1>1 DEF m
<1> HIDE DEF answer
<1>7. /\ replayPc'[t] = "response" /\ replayMem'[t] = answer
      /\ \A u \in PageRequest \ {t} : replayPc'[u] = replayPc[u] /\ replayMem'[u] = replayMem[u]
      /\ replayPc' \in [PageRequest -> ReplayPlace]
      /\ replayMem' \in [PageRequest -> ReplayMemory]
  BY <1>5, <1>6, GoesTo DEF ReplayInv
<1>8. \A to, key, of, code : Heard(to, key, of, code) => Heard(to, key, of, code)'
  BY <1>2, <1>4 DEF Heard
<1>9. ReplayTyped' BY <1>2, <1>7 DEF ReplayInv, ReplayTyped, ReplayMemory
<1>10. Answered(t)' BY <1>4, <1>5, <1>7 DEF Answered, Heard
<1>11. \A u \in PageRequest \ {t} : Answered(u) => Answered(u)' BY <1>7, <1>8 DEF Answered
<1>12. AnswersWereHeard' BY <1>7, <1>10, <1>11 DEF ReplayInv, AnswersWereHeard
<1>13. SnapshotsWereHeard' BY <1>2, <1>8 DEF ReplayInv, SnapshotsWereHeard
<1>14. BodiesAreThere' BY <1>2, <1>7 DEF ReplayInv, BodiesAreThere, InPlace
<1>15. StrictIsKept' BY <1>2, <1>7 DEF ReplayInv, StrictIsKept, Replay!Local
<1>16. QED BY <1>9, <1>12, <1>13, <1>14, <1>15 DEF ReplayInv

LEMMA RenameKeeps ==
  ASSUME ReplayInv, NEW t \in PageRequest, Replay!Rename(t) PROVE ReplayInv'
<1> DEFINE m == replayMem[t]
<1>1. /\ replayPc[t] = "rename" /\ Replay!Goto(t, "insert", m)
      /\ bodies' = [bodies EXCEPT ![m.body] = "whole"]
      /\ UNCHANGED <<policy, rows, heard, damaged>>
  BY DEF Replay!Rename, Replay!At
<1>2. m \in ReplayMemory /\ m.body \in Body /\ Answered(t) /\ "insert" \in ReplayPlace
  BY <1>1 DEF ReplayInv, ReplayTyped, ReplayMemory, AnswersWereHeard, Answered, ReplayPlace
<1>3. /\ replayPc'[t] = "insert" /\ replayMem'[t] = m
      /\ \A u \in PageRequest \ {t} : replayPc'[u] = replayPc[u] /\ replayMem'[u] = replayMem[u]
      /\ replayPc' \in [PageRequest -> ReplayPlace]
      /\ replayMem' \in [PageRequest -> ReplayMemory]
  BY <1>1, <1>2, GoesTo DEF ReplayInv
<1>4. bodies' \in [Body -> {"absent", "whole", "damaged"}] /\ bodies'[m.body] = "whole"
      /\ \A b \in Body \ {m.body} : bodies'[b] = bodies[b]
  BY <1>1, <1>2 DEF ReplayInv, ReplayTyped
<1>5. \A to, key, body, status : Heard(to, key, body, status)' = Heard(to, key, body, status)
  BY <1>1 DEF Heard
<1>6. \A b \in Body : InPlace(b) => InPlace(b)' BY <1>1, <1>4 DEF InPlace
<1>7. InPlace(m.body)' BY <1>3, <1>4 DEF InPlace
<1>8. ReplayTyped' BY <1>3, <1>4 DEF ReplayTyped, ReplayMemory
<1>9. AnswersWereHeard' BY <1>2, <1>3, <1>5 DEF ReplayInv, AnswersWereHeard, Answered
<1>10. SnapshotsWereHeard' BY <1>1, <1>5 DEF ReplayInv, SnapshotsWereHeard
<1>11. BodiesAreThere'
  <2>1. \A r \in rows' : InPlace(r.body)'
    BY <1>1, <1>6 DEF ReplayInv, BodiesAreThere, SnapshotsWereHeard
  <2>2. \A u \in PageRequest : replayPc'[u] = "insert" => InPlace(replayMem[u].body)'
    BY <1>3, <1>6, <1>7 DEF ReplayInv, BodiesAreThere, AnswersWereHeard, Answered
  <2>3. QED BY <2>1, <2>2 DEF BodiesAreThere
<1>12. StrictIsKept' BY <1>1, <1>3 DEF ReplayInv, StrictIsKept
<1>13. QED BY <1>8, <1>9, <1>10, <1>11, <1>12 DEF ReplayInv

LEMMA RequestKeeps ==
  ASSUME ReplayConstants, ReplayInv, NEW t \in PageRequest,
         \/ Replay!Ask(t) \/ Replay!Handle(t) \/ Replay!ReadBody(t) \/ Replay!Respond(t)
         \/ Replay!End(t) \/ Replay!CaptureResponse(t) \/ Replay!PathExists(t)
         \/ Replay!VerifyExisting(t) \/ Replay!WriteStarts(t) \/ Replay!Rename(t)
         \/ Replay!WriteFails(t) \/ Replay!Insert(t)
  PROVE  ReplayInv'
<1>0. {"handle", "aborted", "fulfilled", "exists", "verify", "write", "rename"}
        \subseteq ReplayPlace
  BY DEF ReplayPlace
<1>1. CASE Replay!Ask(t)
  <2>1. PICK r \in ApiRequest :
          Replay!Goto(t, "handle", [Replay!NoMem EXCEPT !.request = r, !.layer = 1])
    BY <1>1 DEF Replay!Ask
  <2>2. [Replay!NoMem EXCEPT !.request = r, !.layer = 1] \in ReplayMemory
    <3>1. Replay!NoMem \in ReplayMemory BY NoMemIs
    <3>2. QED BY <3>1 DEF ReplayMemory
  <2>3. QED BY <1>0, <1>1, <2>1, <2>2, StepKeeps DEF Replay!Ask
<1>2. CASE Replay!Handle(t) BY <1>2, HandleKeeps
<1>3. CASE Replay!ReadBody(t) BY <1>0, <1>3, AtKeeps DEF Replay!ReadBody
<1>4. CASE Replay!Respond(t) BY <1>4, RespondKeeps
<1>5. CASE Replay!End(t) BY <1>5, EndKeeps DEF Replay!End
<1>6. CASE Replay!CaptureResponse(t) BY <1>0, <1>6, AtKeeps DEF Replay!CaptureResponse
<1>7. CASE Replay!PathExists(t) BY <1>0, <1>7, AtKeeps DEF Replay!PathExists
<1>8. CASE Replay!VerifyExisting(t) BY <1>8, EndKeeps DEF Replay!VerifyExisting, InPlace
<1>9. CASE Replay!WriteStarts(t)
  BY <1>0, <1>9, AtKeeps, EndKeeps DEF Replay!WriteStarts
<1>10. CASE Replay!Rename(t) BY <1>10, RenameKeeps
<1>11. CASE Replay!WriteFails(t) BY <1>11, EndKeeps DEF Replay!WriteFails
<1>12. CASE Replay!Insert(t)
  <2>1. InPlace(replayMem[t].body) BY <1>12 DEF Replay!Insert, ReplayInv, BodiesAreThere
  <2>2. QED BY <1>12, <2>1, EndKeeps DEF Replay!Insert
<1>13. QED BY <1>1, <1>2, <1>3, <1>4, <1>5, <1>6, <1>7, <1>8, <1>9, <1>10, <1>11, <1>12

LEMMA RestartsKeep ==
  ASSUME ReplayConstants, ReplayInv, Replay!Restart PROVE ReplayInv'
<1>1. /\ replayPc' = [t \in PageRequest |-> "idle"]
      /\ replayMem' = [t \in PageRequest |-> Replay!NoMem]
      /\ policy'.ignoring = policy.ignoring /\ UNCHANGED <<rows, bodies, heard, damaged>>
  BY DEF Replay!Restart
<1>2. \A to, key, body, status : Heard(to, key, body, status)' = Heard(to, key, body, status)
  BY <1>1 DEF Heard
<1>3. ReplayTyped'
  BY <1>1, NoMemIs DEF ReplayInv, ReplayTyped, ReplayMemory, ReplayPlace
<1>4. AnswersWereHeard' BY <1>1 DEF AnswersWereHeard
<1>5. SnapshotsWereHeard' BY <1>1, <1>2 DEF ReplayInv, SnapshotsWereHeard
<1>6. BodiesAreThere' BY <1>1 DEF ReplayInv, BodiesAreThere, InPlace
<1>7. StrictIsKept' BY <1>1 DEF StrictIsKept
<1>8. QED BY <1>3, <1>4, <1>5, <1>6, <1>7 DEF ReplayInv

LEMMA DamageKeeps ==
  ASSUME ReplayInv, NEW b \in Body, Replay!Damage(b) PROVE ReplayInv'
<1>1. /\ \E f \in {"absent", "damaged"} : bodies' = [bodies EXCEPT ![b] = f]
      /\ damaged' = damaged \cup {b} /\ UNCHANGED <<policy, rows, replayPc, replayMem, heard>>
  BY DEF Replay!Damage
<1>2. \A to, key, body, status : Heard(to, key, body, status)' = Heard(to, key, body, status)
  BY <1>1 DEF Heard
<1>3. \A c \in Body : InPlace(c) => InPlace(c)' BY <1>1 DEF InPlace, ReplayInv, ReplayTyped
<1>4. ReplayTyped' BY <1>1 DEF ReplayInv, ReplayTyped
<1>5. AnswersWereHeard' BY <1>1, <1>2 DEF ReplayInv, AnswersWereHeard, Answered
<1>6. SnapshotsWereHeard' BY <1>1, <1>2 DEF ReplayInv, SnapshotsWereHeard
<1>7. BodiesAreThere'
  BY <1>1, <1>3 DEF ReplayInv, BodiesAreThere, SnapshotsWereHeard, AnswersWereHeard, Answered
<1>8. StrictIsKept' BY <1>1 DEF ReplayInv, StrictIsKept
<1>9. QED BY <1>4, <1>5, <1>6, <1>7, <1>8 DEF ReplayInv

LEMMA ReplayStarts == ASSUME ReplayConstants, Replay!Init PROVE ReplayInv
<1> USE DEF Replay!Init
<1>1. ReplayTyped BY NoMemIs DEF ReplayTyped, ReplayMemory, ReplayPlace
<1>2. QED
  BY <1>1 DEF ReplayInv, AnswersWereHeard, SnapshotsWereHeard, BodiesAreThere, StrictIsKept

LEMMA ReplaySteps ==
  ASSUME ReplayConstants, ReplayInv, [Replay!Next]_(Replay!vars) PROVE ReplayInv'
<1>1. CASE UNCHANGED Replay!vars
  BY <1>1 DEF Replay!vars, ReplayInv, ReplayTyped, AnswersWereHeard, Answered,
     SnapshotsWereHeard, Heard, BodiesAreThere, InPlace, StrictIsKept, Replay!Local
<1>2. CASE Replay!Next BY <1>2, RequestKeeps, RestartsKeep, DamageKeeps DEF Replay!Next
<1>3. QED BY <1>1, <1>2

\* Whatever captures and replays run side by side or break off, snapshots and the answers in
\* hand were heard from a server, and a body that a row names is there.
THEOREM ReplayIsInvariant == ASSUME ReplayConstants PROVE Replay!Spec => []ReplayInv
<1>1. Replay!Init => ReplayInv BY ReplayStarts
<1>2. ReplayInv /\ [Replay!Next]_(Replay!vars) => ReplayInv' BY ReplaySteps
<1>3. QED BY <1>1, <1>2, PTL DEF Replay!Spec

\* A replayed answer is one that a server gave to that request, body and status together; a
\* snapshot keeps its body unless somebody else took it; a strict policy lets nothing out but
\* requests to the runtime.
THEOREM ReplaysAreFaithful ==
  ASSUME ReplayConstants PROVE Replay!Spec => []Replay!ReplayIsFaithful
<1>1. ReplayInv => Replay!ReplayIsFaithful
  BY DEF ReplayInv, AnswersWereHeard, Answered, Heard, BodiesAreThere, InPlace, StrictIsKept,
     Replay!ReplayIsFaithful
<1>2. QED BY <1>1, ReplayIsInvariant, PTL
-----------------------------------------------------------------------------
(***************************************************************************)
(* An interaction plan at work in a page (Interaction), for any plans,     *)
(* dialogs, popups and limits: its budgets, and the steps it tells of.     *)
(* What its events count up to is left to TLC: a count over a sequence     *)
(* needs an induction.                                                     *)
(***************************************************************************)
CONSTANTS Plans, Dialog, Popup, maxActionsPerPage, maxTabSteps, maxDialogsPerPage,
          maxPopupsPerPage, maxTraceEvents, MaxHappenings
VARIABLES enabled, plan, planPc, index, attempt, keys, lastError, budget, trace, external,
          completedStepCount, status, planAnswer, installed, handler, world, pressed, tries

Plan == INSTANCE Interaction WITH pc <- planPc, result <- planAnswer

PlanStep == [type : {"click", "tab"}, keys : Nat, failurePolicy : {"stop", "skip", "retry"},
             maxAttempts : Nat, retryable : SUBSET Plan!Categories]

\* Plans are sequences of steps; dialogs and popups are told apart, and a page opens finitely
\* many; the limits are numbers.
PlanConstants ==
  /\ Plans \subseteq Seq(PlanStep)
  /\ IsFiniteSet(Dialog) /\ IsFiniteSet(Popup) /\ Dialog \cap Popup = {}
  /\ maxTabSteps \in Nat /\ maxDialogsPerPage \in Nat /\ maxPopupsPerPage \in Nat
  /\ maxActionsPerPage \in Nat /\ maxTraceEvents \in Nat

EventKind == {"context", "plan", "step", "dialog", "popup"}
EventOutcome ==
  {"completed", "skipped", "failed", "cancelled", "paused", "outcome-uncertain", "blocked"}
PlanEvent == [kind : EventKind, at : Nat, outcome : EventOutcome]
Traces == [events : Seq(PlanEvent), truncated : BOOLEAN]

BeforeAttempts == {"asking", "pacing", "checking"}
InAttempts ==
  {"trying", "pressing", "resting", "handlers", "backoff", "recording", "completing"}
InStep == BeforeAttempts \cup InAttempts
Over == {"settling", "returned"}
HandlerPlace == Plan!Pending \cup {"unborn", "ignored", "accepted", "blocked"}

PlanTyped ==
  /\ plan \in Seq(PlanStep) /\ \A i \in DOMAIN plan : plan[i].maxAttempts \in 1..3
  /\ enabled \in BOOLEAN /\ installed \in BOOLEAN
  /\ planPc \in {"start", "next"} \cup InStep \cup Over
  /\ index \in 1..(Len(plan) + 1) /\ (planPc \in InStep => index \in DOMAIN plan)
  /\ attempt \in Nat /\ keys \in Int /\ lastError \in Plan!Categories \cup {"none"}
  /\ external \in Plan!Categories \cup {"none"}
  /\ budget \in [tabSteps : Nat, dialogs : Nat, popups : Nat]
  /\ trace \in Traces /\ status \in EventOutcome
  /\ handler \in [Plan!Window -> HandlerPlace]
  /\ pressed \in Nat /\ tries \in [DOMAIN plan -> Nat]

\* A step is tried until its attempts are used up, and then never again.
Attempts ==
  /\ \A i \in DOMAIN plan : tries[i] <= plan[i].maxAttempts /\ (i > index => tries[i] = 0)
  /\ planPc \notin InAttempts \cup Over /\ index \in DOMAIN plan => tries[index] = 0
  /\ planPc \in InAttempts => tries[index] = attempt
  /\ planPc \in {"trying", "backoff"} => attempt < plan[index].maxAttempts

\* Every key, and every window whose handler was let go on, was counted before.
LetGo(windows) == {o \in windows : handler[o] \in {"acting", "accepted"}}
Spent ==
  /\ pressed <= budget.tabSteps /\ pressed <= maxTabSteps
  /\ Cardinality(LetGo(Dialog)) <= budget.dialogs /\ Cardinality(LetGo(Dialog)) <= maxDialogsPerPage
  /\ Cardinality(LetGo(Popup)) <= budget.popups /\ Cardinality(LetGo(Popup)) <= maxPopupsPerPage

\* The events tell of the first n steps, each once and in order.
StepEvents(events) == {i \in DOMAIN events : events[i].kind = "step"}
Told(events, n) ==
  /\ \A i, j \in StepEvents(events) : i < j => events[i].at < events[j].at
  /\ \A i \in StepEvents(events) :
       events[i].at \in 1..n
         /\ (events[i].outcome = "skipped" => plan[events[i].at].failurePolicy = "skip")
  /\ \A k \in 1..n : \E i \in StepEvents(events) : events[i].at = k
PlanEvents(events) == {i \in DOMAIN events : events[i].kind = "plan"}

Story ==
  ~trace.truncated =>
    IF planPc \notin Over
    THEN status = "completed" /\ PlanEvents(trace.events) = {} /\ Told(trace.events, index - 1)
    ELSE enabled =>
      /\ \E n \in 0..Len(plan) : Told(trace.events, n) /\ (status = "completed" => n = Len(plan))
      /\ status = "completed" <=> PlanEvents(trace.events) = {}
      /\ \A i \in PlanEvents(trace.events) : trace.events[i].outcome = status

\* What was returned is what is known in the end, and nothing comes after it.
Final ==
  /\ planPc \notin {"start"} \cup Over => enabled
  /\ planPc = "returned" =>
       /\ ~installed /\ Plan!HandlersDone
       /\ enabled => planAnswer = [events |-> trace.events, truncated |-> trace.truncated,
                                   done |-> completedStepCount, status |-> status]

PlanInv == PlanTyped /\ Attempts /\ Spent /\ Story /\ Final

-----------------------------------------------------------------------------
(***************************************************************************)
(* Traces.                                                                 *)
(***************************************************************************)
LEMMA AddDoes ==
  ASSUME PlanConstants, NEW t \in Traces, NEW e \in PlanEvent
  PROVE  /\ Plan!Add(t, e) \in Traces
         /\ ~Plan!Add(t, e).truncated =>
              ~t.truncated /\ Plan!Add(t, e).events = Append(t.events, e)
<1>1. t.events \in Seq(PlanEvent) /\ t.truncated \in BOOLEAN BY DEF Traces
<1>2. Append(t.events, e) \in Seq(PlanEvent) BY <1>1
<1>3. CASE t.truncated \/ Len(t.events) >= maxTraceEvents
  BY <1>1, <1>3 DEF Plan!Add, Traces
<1>4. CASE ~(t.truncated \/ Len(t.events) >= maxTraceEvents)
  BY <1>1, <1>2, <1>4 DEF Plan!Add, Traces
<1>5. QED BY <1>3, <1>4

LEMMA AppendDoes ==
  ASSUME NEW events \in Seq(PlanEvent), NEW e \in PlanEvent
  PROVE  /\ DOMAIN Append(events, e) = DOMAIN events \cup {Len(events) + 1}
         /\ \A i \in DOMAIN events : Append(events, e)[i] = events[i] /\ i < Len(events) + 1
         /\ Append(events, e)[Len(events) + 1] = e /\ Len(events) + 1 \notin DOMAIN events
         /\ DOMAIN events \subseteq Nat
OBVIOUS

\* An event of another kind changes nothing of what is told of the steps.
LEMMA OtherEvents ==
  ASSUME NEW events \in Seq(PlanEvent), NEW e \in PlanEvent, e.kind # "step", NEW n,
         Told(events, n)
  PROVE  Told(Append(events, e), n)
<1>1. StepEvents(Append(events, e)) = StepEvents(events) BY AppendDoes DEF StepEvents
<1>2. \A i \in StepEvents(events) : Append(events, e)[i] = events[i]
  BY AppendDoes DEF StepEvents
<1>3. QED BY <1>1, <1>2 DEF Told

LEMMA StepEvent ==
  ASSUME NEW events \in Seq(PlanEvent), NEW e \in PlanEvent, e.kind = "step", NEW n \in Nat,
         Told(events, n), e.at = n + 1,
         e.outcome = "skipped" => plan[n + 1].failurePolicy = "skip"
  PROVE  Told(Append(events, e), n + 1)
<1> DEFINE more == Append(events, e)
           new == Len(events) + 1
<1>1. /\ StepEvents(more) = StepEvents(events) \cup {new} /\ new \notin StepEvents(events)
      /\ \A i \in StepEvents(events) : more[i] = events[i] /\ i < new /\ i \in Nat
      /\ more[new] = e /\ new \in Nat
  BY AppendDoes DEF StepEvents
<1> HIDE DEF more, new
<1>2. \A i \in StepEvents(events) : events[i].at \in 1..n BY DEF Told
<1>3. \A i, j \in StepEvents(more) : i < j => more[i].at < more[j].at
  <2>1. SUFFICES ASSUME NEW i \in StepEvents(more), NEW j \in StepEvents(more), i < j
                 PROVE  more[i].at < more[j].at
    OBVIOUS
  <2>2. i # new BY <1>1, <2>1
  <2>3. CASE j = new
    <3>1. more[i].at \in 1..n /\ more[j].at = n + 1 BY <1>1, <1>2, <2>1, <2>2, <2>3
    <3>2. QED BY <3>1
  <2>4. CASE j # new BY <1>1, <2>1, <2>2, <2>4 DEF Told
  <2>5. QED BY <2>3, <2>4
<1>4. \A i \in StepEvents(more) :
        more[i].at \in 1..(n + 1)
          /\ (more[i].outcome = "skipped" => plan[more[i].at].failurePolicy = "skip")
  <2>1. \A i \in StepEvents(events) :
          events[i].at \in 1..(n + 1)
            /\ (events[i].outcome = "skipped" => plan[events[i].at].failurePolicy = "skip")
    BY <1>2 DEF Told
  <2>2. QED BY <1>1, <2>1
<1>5. \A k \in 1..(n + 1) : \E i \in StepEvents(more) : more[i].at = k
  <2>1. SUFFICES ASSUME NEW k \in 1..(n + 1) PROVE \E i \in StepEvents(more) : more[i].at = k
    OBVIOUS
  <2>2. CASE k = n + 1 BY <1>1, <2>2
  <2>3. CASE k # n + 1
    <3>1. k \in 1..n BY <2>3
    <3>2. QED BY <1>1, <3>1 DEF Told
  <2>4. QED BY <2>2, <2>3
<1>6. QED BY <1>3, <1>4, <1>5 DEF Told, more

LEMMA EventIs ==
  ASSUME NEW kind \in EventKind, NEW at \in Nat, NEW outcome \in EventOutcome
  PROVE  /\ Plan!Event(kind, at, outcome) \in PlanEvent
         /\ Plan!Event(kind, at, outcome).kind = kind /\ Plan!Event(kind, at, outcome).at = at
         /\ Plan!Event(kind, at, outcome).outcome = outcome
BY DEF Plan!Event, PlanEvent

LEMMA FailDoes ==
  ASSUME PlanConstants, NEW t \in Traces, NEW category \in Plan!Categories \cup {"none"},
         Plan!Fail(t, category)
  PROVE  /\ planPc' = "settling" /\ trace' \in Traces
         /\ status' \in EventOutcome /\ status' # "completed"
         /\ ~trace'.truncated =>
              ~t.truncated /\ trace'.events = Append(t.events, Plan!Event("plan", 0, status'))
<1>1. status' \in {"paused", "cancelled", "outcome-uncertain", "failed"}
  BY DEF Plan!Fail, Plan!StatusOf
<1>2. status' \in EventOutcome /\ status' # "completed" BY <1>1 DEF EventOutcome
<1>3. Plan!Event("plan", 0, status') \in PlanEvent BY <1>2, EventIs DEF EventKind
<1>4. trace' = Plan!Add(t, Plan!Event("plan", 0, status')) /\ planPc' = "settling"
  BY DEF Plan!Fail
<1>5. QED BY <1>2, <1>3, <1>4, AddDoes

-----------------------------------------------------------------------------
(***************************************************************************)
(* The steps of the plan that end it or tell nothing.                      *)
(***************************************************************************)
Untouched == UNCHANGED <<enabled, plan, handler, world, planAnswer, installed>>

\* The plan fails with the trace t: the one there is, or with the step's event behind it.
LEMMA FailKeeps ==
  ASSUME PlanConstants, PlanInv, planPc \notin {"start"} \cup Over, Untouched,
         UNCHANGED <<index, budget, external, pressed, tries>>,
         attempt' \in Nat, keys' \in Int, lastError' \in Plan!Categories \cup {"none"},
         NEW t \in Traces, NEW category \in Plan!Categories \cup {"none"}, Plan!Fail(t, category),
         NEW n \in 0..Len(plan),
         ~t.truncated => Told(t.events, n) /\ PlanEvents(t.events) = {}
  PROVE  PlanInv'
<1>1. /\ planPc' = "settling" /\ trace' \in Traces
      /\ status' \in EventOutcome /\ status' # "completed"
      /\ ~trace'.truncated =>
           ~t.truncated /\ trace'.events = Append(t.events, Plan!Event("plan", 0, status'))
  BY FailDoes
<1>2. PlanTyped'
  BY <1>1 DEF PlanInv, PlanTyped, Untouched, InStep, BeforeAttempts, InAttempts, Over
<1>3. Attempts'
  BY <1>1 DEF PlanInv, Attempts, Untouched, InAttempts, Over
<1>4. Spent' BY DEF PlanInv, Spent, LetGo, Untouched
<1>5. Final' BY <1>1 DEF PlanInv, Final, Untouched, Over
<1>6. Story'
  <2>1. SUFFICES ASSUME ~trace'.truncated
                 PROVE  /\ Told(trace'.events, n) /\ PlanEvents(trace'.events) # {}
                        /\ \A i \in PlanEvents(trace'.events) : trace'.events[i].outcome = status'
    BY <1>1 DEF Story, Over, Told, Untouched, PlanEvents, StepEvents
  <2> DEFINE e == Plan!Event("plan", 0, status')
  <2>2. e \in PlanEvent /\ e.kind = "plan" /\ e.outcome = status'
    BY <1>1, EventIs DEF EventKind
  <2>3. t.events \in Seq(PlanEvent) BY DEF Traces
  <2>4. trace'.events = Append(t.events, e) /\ Told(t.events, n) /\ PlanEvents(t.events) = {}
    BY <1>1, <2>1
  <2> HIDE DEF e
  <2>5. Told(Append(t.events, e), n) BY <2>2, <2>3, <2>4, OtherEvents
  <2>6. PlanEvents(Append(t.events, e)) = {Len(t.events) + 1}
    BY <2>2, <2>3, <2>4, AppendDoes DEF PlanEvents
  <2>7. Append(t.events, e)[Len(t.events) + 1] = e BY <2>2, <2>3, AppendDoes
  <2>8. QED BY <2>2, <2>4, <2>5, <2>6, <2>7
<1>7. QED BY <1>2, <1>3, <1>4, <1>5, <1>6 DEF PlanInv

\* A step that tells nothing and stays at the same step of the plan.
LEMMA QuietKeeps ==
  ASSUME PlanInv, planPc \notin {"start"} \cup Over, Untouched,
         UNCHANGED <<index, trace, status, external, completedStepCount>>,
         planPc' \in {"next"} \cup InStep, planPc' \in InStep => index \in DOMAIN plan,
         attempt' \in Nat, keys' \in Int, lastError' \in Plan!Categories \cup {"none"},
         budget' \in [tabSteps : Nat, dialogs : Nat, popups : Nat], pressed' \in Nat,
         tries' \in [DOMAIN plan -> Nat], Attempts', Spent'
  PROVE  PlanInv'
<1>1. PlanTyped' BY DEF PlanInv, PlanTyped, Untouched
<1>2. planPc' \notin {"start"} \cup Over BY DEF InStep, BeforeAttempts, InAttempts, Over
<1>3. Story'
  <2>1. ~trace.truncated =>
          status = "completed" /\ PlanEvents(trace.events) = {} /\ Told(trace.events, index - 1)
    BY DEF PlanInv, Story
  <2>2. Told(trace.events, index - 1) => Told(trace.events, index - 1)'
    BY DEF Told, StepEvents, Untouched
  <2>3. QED BY <1>2, <2>1, <2>2 DEF Story, PlanEvents
<1>4. Final' BY <1>2 DEF PlanInv, Final, Untouched, Over
<1>5. QED BY <1>1, <1>3, <1>4 DEF PlanInv

\* The checks and waits around the attempts.
LEMMA ChecksKeep ==
  ASSUME PlanConstants, PlanInv,
         \/ Plan!TakeStep \/ Plan!AskPause \/ Plan!Pace \/ Plan!CheckPreconditions
         \/ Plan!BackOff
  PROVE  PlanInv'
<1>1. /\ planPc \in {"next", "asking", "pacing", "checking", "backoff"} /\ Untouched
      /\ UNCHANGED <<index, budget, external, completedStepCount, pressed, tries>>
  BY DEF Plan!TakeStep, Plan!AskPause, Plan!Pace, Plan!CheckPreconditions, Plan!BackOff,
         Plan!theWorld, Plan!theHistory, Untouched
<1>2. planPc \notin {"start"} \cup Over BY <1>1 DEF Over
<1>3. PlanTyped /\ Attempts /\ Spent /\ trace \in Traces BY DEF PlanInv, PlanTyped
<1>4. index \in Nat /\ Len(plan) \in Nat /\ DOMAIN plan = 1..Len(plan)
      /\ index \in 1..(Len(plan) + 1)
  BY <1>3 DEF PlanTyped
<1>5. Spent' BY <1>1, <1>3 DEF Spent, LetGo, Untouched
<1>6. ASSUME NEW c \in {"cancellation", "browser", "timeout", "pause", "unknown", "target"},
             Plan!Fail(trace, c), attempt' \in Nat, keys' \in Int,
             lastError' \in Plan!Categories \cup {"none"}
      PROVE  PlanInv'
  <2>1. c \in Plan!Categories \cup {"none"} BY <1>6 DEF Plan!Categories
  <2>2. index - 1 \in 0..Len(plan) BY <1>4
  <2>3. ~trace.truncated => Told(trace.events, index - 1) /\ PlanEvents(trace.events) = {}
    BY <1>2 DEF PlanInv, Story
  <2>4. QED BY <1>1, <1>2, <1>3, <1>6, <2>1, <2>2, <2>3, FailKeeps
<1>7. CASE Plan!TakeStep /\ index > Len(plan) /\ Plan!Go("settling")
  <2>1. /\ planPc = "next" /\ planPc' = "settling"
        /\ UNCHANGED <<trace, status, attempt, keys, lastError>>
    BY <1>7 DEF Plan!TakeStep, Plan!Go, Plan!theStep
  <2>2. index - 1 = Len(plan) BY <1>4, <1>7
  <2>3. PlanTyped'
    BY <1>1, <1>3, <2>1 DEF PlanTyped, Untouched, InStep, BeforeAttempts, InAttempts, Over
  <2>4. Attempts' BY <1>1, <1>3, <2>1 DEF Attempts, Untouched, InAttempts, Over
  <2>5. Story'
    <3>1. ~trace.truncated =>
            /\ status = "completed" /\ PlanEvents(trace.events) = {}
            /\ Told(trace.events, Len(plan))
      BY <1>2, <2>2 DEF PlanInv, Story
    <3>2. Len(plan) \in 0..Len(plan) BY <1>4
    <3>3. QED
      BY <1>1, <2>1, <3>1, <3>2 DEF Story, Told, PlanEvents, StepEvents, Over, Untouched
  <2>6. Final' BY <1>1, <2>1 DEF PlanInv, Final, Untouched, Over
  <2>7. QED BY <1>5, <2>3, <2>4, <2>5, <2>6 DEF PlanInv
<1>8. CASE Plan!CheckPreconditions /\ Plan!Go("trying")
  <2>1. /\ planPc = "checking" /\ planPc' = "trying" /\ attempt' = 0 /\ keys' = 0
        /\ lastError' = "none" /\ UNCHANGED <<trace, status>>
    BY <1>8 DEF Plan!CheckPreconditions, Plan!Go
  <2>2. index \in DOMAIN plan /\ tries[index] = 0 /\ plan[index].maxAttempts \in 1..3
    BY <1>3, <2>1 DEF PlanTyped, Attempts, InStep, BeforeAttempts, InAttempts, Over
  <2>3. Attempts'
    BY <1>1, <1>3, <2>1, <2>2 DEF Attempts, Untouched, InAttempts, Over
  <2>4. QED
    BY <1>1, <1>2, <1>3, <1>5, <2>1, <2>2, <2>3, QuietKeeps
       DEF PlanTyped, Plan!Categories, InStep, InAttempts
<1>9. CASE Plan!CheckPreconditions /\ (Plan!Fail(trace, "target") \/ Plan!Fail(trace, "unknown"))
  <2>1. attempt' = 0 /\ keys' = 0 /\ lastError' = "none"
    BY <1>9 DEF Plan!CheckPreconditions
  <2>2. QED BY <1>6, <1>9, <2>1
<1>10. ASSUME UNCHANGED <<attempt, keys, lastError>>,
              \E c \in {"cancellation", "browser", "timeout", "pause", "unknown"} :
                Plan!Fail(trace, c)
       PROVE  PlanInv'
  BY <1>3, <1>6, <1>10 DEF PlanTyped
<1>11. ASSUME UNCHANGED <<attempt, keys, lastError>>, NEW place \in BeforeAttempts,
              planPc \in {"next", "asking", "pacing"}, Plan!Go(place), index \in DOMAIN plan
       PROVE  PlanInv'
  <2>1. planPc' = place /\ UNCHANGED <<trace, status>> BY <1>11 DEF Plan!Go
  <2>2. Attempts'
    BY <1>1, <1>3, <1>11, <2>1
       DEF Attempts, Untouched, InAttempts, Over, BeforeAttempts
  <2>3. QED
    BY <1>1, <1>2, <1>3, <1>5, <1>11, <2>1, <2>2, QuietKeeps DEF PlanTyped, InStep
<1>12. CASE Plan!TakeStep
  <2>1. UNCHANGED <<attempt, keys, lastError>> /\ planPc = "next"
    BY <1>12 DEF Plan!TakeStep, Plan!theStep
  <2>2. CASE Plan!Go("asking") /\ index <= Len(plan)
    BY <1>4, <1>11, <2>1, <2>2 DEF BeforeAttempts
  <2>3. QED BY <1>7, <1>10, <1>12, <2>1, <2>2 DEF Plan!TakeStep
<1>13. CASE Plan!AskPause
  <2>1. UNCHANGED <<attempt, keys, lastError>> /\ planPc = "asking"
    BY <1>13 DEF Plan!AskPause, Plan!theStep
  <2>2. index \in DOMAIN plan BY <1>3, <2>1 DEF PlanTyped, InStep, BeforeAttempts
  <2>3. CASE Plan!Go("pacing") BY <1>11, <2>1, <2>2, <2>3 DEF BeforeAttempts
  <2>4. QED BY <1>10, <1>13, <2>1, <2>3 DEF Plan!AskPause
<1>14. CASE Plan!Pace
  <2>1. UNCHANGED <<attempt, keys, lastError>> /\ planPc = "pacing"
    BY <1>14 DEF Plan!Pace, Plan!theStep
  <2>2. index \in DOMAIN plan BY <1>3, <2>1 DEF PlanTyped, InStep, BeforeAttempts
  <2>3. CASE Plan!Go("checking") BY <1>11, <2>1, <2>2, <2>3 DEF BeforeAttempts
  <2>4. QED BY <1>10, <1>14, <2>1, <2>3 DEF Plan!Pace
<1>15. CASE Plan!BackOff
  <2>1. UNCHANGED <<attempt, keys, lastError>> /\ planPc = "backoff"
    BY <1>15 DEF Plan!BackOff, Plan!theStep
  <2>2. CASE Plan!Go("trying")
    <3>1. planPc' = "trying" /\ UNCHANGED <<trace, status>> BY <2>2 DEF Plan!Go
    <3>2. index \in DOMAIN plan BY <1>3, <2>1 DEF PlanTyped, InStep, InAttempts
    <3>3. Attempts'
      BY <1>1, <1>3, <2>1, <3>1 DEF Attempts, Untouched, InAttempts, Over
    <3>4. QED
      BY <1>1, <1>2, <1>3, <1>5, <2>1, <3>1, <3>2, <3>3, QuietKeeps
         DEF PlanTyped, InStep, InAttempts
  <2>3. QED BY <1>10, <1>15, <2>1, <2>2 DEF Plan!BackOff
<1>16. QED BY <1>8, <1>9, <1>12, <1>13, <1>14, <1>15 DEF Plan!CheckPreconditions

-----------------------------------------------------------------------------
(***************************************************************************)
(* The attempts at a step of the plan.                                     *)
(***************************************************************************)
LEMMA MissDoes ==
  ASSUME PlanTyped, index \in DOMAIN plan, NEW tried \in Nat, NEW c \in Plan!Categories,
         Plan!Miss(c, tried)
  PROVE  /\ lastError' = c /\ UNCHANGED <<trace, status>> /\ planPc' \in {"backoff", "recording"}
         /\ planPc' = "backoff" => tried < plan[index].maxAttempts
BY DEF Plan!Miss, Plan!CanRetry, Plan!Go, Plan!Step

\* One step of an attempt, which keeps the count of the attempts and what was spent.
LEMMA AttemptKeeps ==
  ASSUME PlanInv, planPc \in {"pressing", "resting", "handlers"}, Untouched,
         UNCHANGED <<index, trace, status, external, completedStepCount, attempt, tries>>,
         planPc' \in {"pressing", "resting", "handlers", "backoff", "recording", "completing"},
         planPc' = "backoff" => attempt < plan[index].maxAttempts,
         keys' \in Int, lastError' \in Plan!Categories \cup {"none"},
         budget' \in [tabSteps : Nat, dialogs : Nat, popups : Nat], pressed' \in Nat, Spent'
  PROVE  PlanInv'
<1>1. planPc \in InAttempts /\ planPc \in InStep /\ planPc \notin {"start"} \cup Over
  BY DEF InStep, InAttempts, Over
<1>2. planPc' \in InAttempts /\ planPc' \in InStep BY DEF InStep, InAttempts
<1>3. Attempts' BY <1>1, <1>2 DEF PlanInv, Attempts, Untouched
<1>4. QED BY <1>1, <1>2, <1>3, QuietKeeps DEF PlanInv, PlanTyped

LEMMA TriesKeep ==
  ASSUME PlanConstants, PlanInv, Plan!TryStep PROVE PlanInv'
<1>1. /\ planPc = "trying" /\ Untouched /\ attempt' = attempt + 1
      /\ tries' = [tries EXCEPT ![index] = tries[index] + 1]
      /\ UNCHANGED <<index, budget, external, completedStepCount, pressed>>
  BY DEF Plan!TryStep, Plan!theWorld, Untouched, PlanInv, PlanTyped
<1>2. PlanTyped /\ Attempts /\ Spent BY DEF PlanInv
<1>3. /\ index \in DOMAIN plan /\ attempt \in Nat /\ tries[index] = attempt
      /\ attempt < plan[index].maxAttempts /\ plan[index].maxAttempts \in 1..3
      /\ index \in Nat /\ DOMAIN plan = 1..Len(plan) /\ Len(plan) \in Nat
  BY <1>1, <1>2 DEF PlanTyped, Attempts, InStep, InAttempts
<1>4. /\ tries' \in [DOMAIN plan -> Nat] /\ tries'[index] = attempt + 1
      /\ \A i \in DOMAIN plan \ {index} : tries'[i] = tries[i]
  BY <1>1, <1>2, <1>3 DEF PlanTyped
<1>5. /\ UNCHANGED <<trace, status>> /\ lastError' \in Plan!Categories \cup {"none"}
      /\ planPc' \in {"handlers", "pressing", "backoff", "recording"} /\ keys' \in Int
      /\ planPc' = "backoff" => attempt + 1 < plan[index].maxAttempts
  <2>1. CASE \E c \in {"cancellation", "target", "security", "unknown"} :
               Plan!Miss(c, attempt + 1) /\ UNCHANGED keys
    <3>1. PICK c \in {"cancellation", "target", "security", "unknown"} :
            Plan!Miss(c, attempt + 1) /\ UNCHANGED keys
      BY <2>1
    <3>2. c \in Plan!Categories /\ attempt + 1 \in Nat BY <1>3, <3>1 DEF Plan!Categories
    <3>3. QED BY <1>2, <1>3, <3>1, <3>2, MissDoes DEF PlanTyped
  <2>2. CASE Plan!Go("handlers") /\ UNCHANGED <<keys, lastError>>
    BY <1>2, <2>2 DEF Plan!Go, PlanTyped
  <2>3. CASE keys' = Plan!Step.keys /\ Plan!Go("pressing") /\ UNCHANGED lastError
    <3>1. plan[index] \in PlanStep BY <1>2, <1>3 DEF PlanTyped
    <3>2. QED BY <1>2, <2>3, <3>1 DEF Plan!Go, Plan!Step, PlanTyped, PlanStep
  <2>4. QED BY <2>1, <2>2, <2>3 DEF Plan!TryStep
<1>6. Attempts'
  <2>1. \A i \in DOMAIN plan :
          tries'[i] <= plan[i].maxAttempts /\ (i > index => tries'[i] = 0)
    <3>1. attempt + 1 <= plan[index].maxAttempts BY <1>3
    <3>2. QED BY <1>2, <1>3, <1>4, <3>1 DEF Attempts
  <2>2. planPc' \in InAttempts BY <1>5 DEF InAttempts
  <2>3. QED BY <1>1, <1>4, <1>5, <2>1, <2>2 DEF Attempts, Untouched
<1>7. Spent' BY <1>1, <1>2 DEF Spent, LetGo, Untouched
<1>8. planPc \notin {"start"} \cup Over /\ planPc' \in {"next"} \cup InStep
  BY <1>1, <1>5 DEF Over, InStep, InAttempts
<1>9. QED BY <1>1, <1>2, <1>3, <1>4, <1>5, <1>6, <1>7, <1>8, QuietKeeps DEF PlanTyped

LEMMA KeysKeep ==
  ASSUME PlanConstants, PlanInv, Plan!PressKey PROVE PlanInv'
<1>1. /\ planPc = "pressing" /\ Untouched
      /\ budget' = [budget EXCEPT !.tabSteps = budget.tabSteps + 1]
      /\ UNCHANGED <<index, external, completedStepCount, attempt, tries>>
  BY DEF Plan!PressKey, Plan!theWorld, Untouched, PlanInv, PlanTyped
<1>2. PlanTyped /\ Attempts /\ Spent BY DEF PlanInv
<1>3. /\ budget' \in [tabSteps : Nat, dialogs : Nat, popups : Nat]
      /\ budget'.tabSteps = budget.tabSteps + 1 /\ budget.tabSteps \in Nat
      /\ budget'.dialogs = budget.dialogs /\ budget'.popups = budget.popups
  <2>1. budget \in [tabSteps : Nat, dialogs : Nat, popups : Nat] BY <1>2 DEF PlanTyped
  <2>2. budget.tabSteps \in Nat /\ budget.tabSteps + 1 \in Nat BY <2>1
  <2>3. QED BY <1>1, <2>1, <2>2
<1>4. index \in DOMAIN plan /\ attempt \in Nat
  BY <1>1, <1>2 DEF PlanTyped, InStep, InAttempts
<1>5. ASSUME NEW c \in {"budget", "unknown"}, Plan!Miss(c, attempt), UNCHANGED <<keys, pressed>>
      PROVE  PlanInv'
  <2>1. c \in Plan!Categories BY DEF Plan!Categories
  <2>2. /\ lastError' = c /\ UNCHANGED <<trace, status>> /\ planPc' \in {"backoff", "recording"}
        /\ planPc' = "backoff" => attempt < plan[index].maxAttempts
    BY <1>2, <1>4, <1>5, <2>1, MissDoes
  <2>3. Spent'
    BY <1>1, <1>2, <1>3, <1>5 DEF Spent, LetGo, Untouched, PlanTyped
  <2>4. QED
    BY <1>1, <1>2, <1>3, <1>5, <2>1, <2>2, <2>3, AttemptKeeps DEF PlanTyped
<1>6. ASSUME budget'.tabSteps <= maxTabSteps, pressed' = pressed + 1, keys' = keys - 1,
             Plan!Go("resting"), UNCHANGED lastError
      PROVE  PlanInv'
  <2>1. planPc' = "resting" /\ UNCHANGED <<trace, status>> BY <1>6 DEF Plan!Go
  <2>2. pressed' <= budget'.tabSteps /\ pressed' <= maxTabSteps /\ pressed' \in Nat
        /\ keys' \in Int
    BY <1>2, <1>3, <1>6 DEF Spent, PlanTyped, PlanConstants
  <2>3. Spent' BY <1>1, <1>2, <1>3, <2>2 DEF Spent, LetGo, Untouched
  <2>4. QED BY <1>1, <1>2, <1>3, <1>6, <2>1, <2>2, <2>3, AttemptKeeps DEF PlanTyped
<1>7. QED BY <1>5, <1>6 DEF Plan!PressKey

LEMMA RestsKeep ==
  ASSUME PlanConstants, PlanInv, Plan!Rest \/ Plan!AwaitHandlers PROVE PlanInv'
<1>1. /\ planPc \in {"resting", "handlers"} /\ Untouched
      /\ UNCHANGED <<index, external, completedStepCount, attempt, tries, keys, budget, pressed>>
  BY DEF Plan!Rest, Plan!AwaitHandlers, Plan!theWorld, Plan!theHistory, Untouched
<1>2. PlanTyped /\ Attempts /\ Spent BY DEF PlanInv
<1>3. index \in DOMAIN plan /\ attempt \in Nat
  BY <1>1, <1>2 DEF PlanTyped, InStep, InAttempts
<1>4. Spent' BY <1>1, <1>2 DEF Spent, LetGo, Untouched
<1>5. ASSUME NEW c \in {"cancellation", "unknown", "target"}, Plan!Miss(c, attempt)
      PROVE  PlanInv'
  <2>1. c \in Plan!Categories BY DEF Plan!Categories
  <2>2. /\ lastError' = c /\ UNCHANGED <<trace, status>> /\ planPc' \in {"backoff", "recording"}
        /\ planPc' = "backoff" => attempt < plan[index].maxAttempts
    BY <1>2, <1>3, <1>5, <2>1, MissDoes
  <2>3. QED BY <1>1, <1>2, <1>4, <2>1, <2>2, AttemptKeeps DEF PlanTyped
<1>6. ASSUME NEW place \in {"handlers", "pressing", "completing"}, Plan!Go(place),
             UNCHANGED lastError
      PROVE  PlanInv'
  BY <1>1, <1>2, <1>4, <1>6, AttemptKeeps DEF PlanTyped, Plan!Go
<1>7. CASE Plan!Rest BY <1>5, <1>6, <1>7 DEF Plan!Rest
<1>8. CASE Plan!AwaitHandlers BY <1>5, <1>6, <1>8 DEF Plan!AwaitHandlers
<1>9. QED BY <1>7, <1>8

-----------------------------------------------------------------------------
(***************************************************************************)
(* The ends of a step and of the plan.                                     *)
(***************************************************************************)
LEMMA StepTold ==
  ASSUME PlanConstants, PlanInv, planPc \in InAttempts,
         NEW o \in {"skipped", "completed", "failed", "cancelled"},
         o = "skipped" => plan[index].failurePolicy = "skip",
         NEW t, t = Plan!Add(trace, Plan!Event("step", index, o))
  PROVE  /\ t \in Traces /\ index \in DOMAIN plan /\ index \in 0..Len(plan) /\ index \in Nat
         /\ ~t.truncated => Told(t.events, index) /\ PlanEvents(t.events) = {}
<1> DEFINE e == Plan!Event("step", index, o)
<1>1. /\ trace \in Traces /\ index \in DOMAIN plan /\ index \in Nat /\ index - 1 \in Nat
      /\ index \in 0..Len(plan) /\ index = (index - 1) + 1
  BY DEF PlanInv, PlanTyped, InStep
<1>2. /\ e \in PlanEvent /\ e.kind = "step" /\ e.at = index /\ e.outcome = o
  BY <1>1, EventIs DEF EventKind, EventOutcome
<1>3. planPc \notin Over BY DEF InAttempts, Over
<1> HIDE DEF e
<1>4. t = Plan!Add(trace, e) BY DEF e
<1>5. t \in Traces /\ (~t.truncated => ~trace.truncated /\ t.events = Append(trace.events, e))
  BY <1>1, <1>2, <1>4, AddDoes
<1>6. ASSUME ~t.truncated PROVE Told(t.events, index) /\ PlanEvents(t.events) = {}
  <2>1. Told(trace.events, index - 1) /\ PlanEvents(trace.events) = {}
    BY <1>3, <1>5, <1>6 DEF PlanInv, Story
  <2>2. trace.events \in Seq(PlanEvent) BY <1>1 DEF Traces
  <2>3. Told(Append(trace.events, e), (index - 1) + 1)
    BY <1>1, <1>2, <2>1, <2>2, StepEvent
  <2>4. PlanEvents(Append(trace.events, e)) = {}
    BY <1>2, <2>1, <2>2, AppendDoes DEF PlanEvents
  <2>5. QED BY <1>1, <1>5, <1>6, <2>3, <2>4
<1>7. QED BY <1>1, <1>5, <1>6

\* On to the next step of the plan.
LEMMA NextKeeps ==
  ASSUME PlanConstants, PlanInv, planPc \in InAttempts, Untouched,
         UNCHANGED <<attempt, keys, lastError, budget, external, pressed, tries, status>>,
         NEW t \in Traces, trace' = t, index' = index + 1, planPc' = "next",
         index \in DOMAIN plan, index \in Nat,
         ~t.truncated => Told(t.events, index) /\ PlanEvents(t.events) = {} /\ ~trace.truncated
  PROVE  PlanInv'
<1>1. planPc \notin {"start"} \cup Over /\ planPc' \notin {"start"} \cup InStep \cup Over
  BY DEF InAttempts, InStep, BeforeAttempts, Over
<1>2. PlanTyped' BY <1>1 DEF PlanInv, PlanTyped, Untouched
<1>3. Attempts'
  <2>1. DOMAIN plan = 1..Len(plan) /\ Len(plan) \in Nat BY DEF PlanInv, PlanTyped
  <2>2. planPc' \notin InAttempts BY <1>1 DEF InStep
  <2>3. \A i \in DOMAIN plan : i > index + 1 => i > index BY <2>1
  <2>4. index + 1 > index OBVIOUS
  <2>5. QED BY <1>1, <2>2, <2>3, <2>4 DEF PlanInv, Attempts, Untouched
<1>4. Spent' BY DEF PlanInv, Spent, LetGo, Untouched
<1>5. Story'
  <2>1. index' - 1 = index OBVIOUS
  <2>2. ~t.truncated => status = "completed" BY <1>1 DEF PlanInv, Story
  <2>3. QED BY <1>1, <2>1, <2>2 DEF Story, Told, PlanEvents, StepEvents, Untouched
<1>6. Final' BY <1>1 DEF PlanInv, Final, Untouched, Over
<1>7. QED BY <1>2, <1>3, <1>4, <1>5, <1>6 DEF PlanInv

LEMMA UncutBefore ==
  ASSUME PlanConstants, trace \in Traces, NEW o \in EventOutcome, index \in Nat,
         ~Plan!Add(trace, Plan!Event("step", index, o)).truncated
  PROVE  ~trace.truncated
BY AddDoes, EventIs DEF EventKind

LEMMA RecordKeeps ==
  ASSUME PlanConstants, PlanInv, Plan!RecordFailure PROVE PlanInv'
<1>1. /\ planPc = "recording" /\ Untouched
      /\ UNCHANGED <<attempt, keys, lastError, budget, external, pressed, tries>>
  BY DEF Plan!RecordFailure, Plan!theWorld, Plan!theHistory, Plan!theStep, Untouched
<1>2. planPc \in InAttempts /\ planPc \notin {"start"} \cup Over BY <1>1 DEF InAttempts, Over
<1>3. PlanTyped /\ trace \in Traces BY DEF PlanInv, PlanTyped
<1>4. CASE plan[index].failurePolicy = "skip"
  <2> DEFINE t == Plan!Add(trace, Plan!Event("step", index, "skipped"))
  <2>1. trace' = t /\ index' = index + 1 /\ planPc' = "next" /\ UNCHANGED status
    BY <1>4 DEF Plan!RecordFailure, Plan!Step
  <2>2. /\ t \in Traces /\ index \in DOMAIN plan /\ index \in Nat
        /\ ~t.truncated => Told(t.events, index) /\ PlanEvents(t.events) = {}
    BY <1>2, <1>4, StepTold
  <2>3. ~t.truncated => ~trace.truncated BY <1>3, <2>2, UncutBefore DEF EventOutcome
  <2> HIDE DEF t
  <2>4. QED BY <1>1, <1>2, <2>1, <2>2, <2>3, NextKeeps
<1>5. CASE plan[index].failurePolicy # "skip"
  <2> DEFINE o == IF lastError = "cancellation" THEN "cancelled" ELSE "failed"
             t == Plan!Add(trace, Plan!Event("step", index, o))
  <2>1. Plan!Fail(t, lastError) /\ UNCHANGED index
    BY <1>5 DEF Plan!RecordFailure, Plan!Step
  <2>2. o \in {"cancelled", "failed"} OBVIOUS
  <2> HIDE DEF o
  <2>3. /\ t \in Traces /\ index \in 0..Len(plan)
        /\ ~t.truncated => Told(t.events, index) /\ PlanEvents(t.events) = {}
    BY <1>2, <2>2, StepTold
  <2> HIDE DEF t
  <2>4. QED BY <1>1, <1>2, <1>3, <2>1, <2>3, FailKeeps DEF PlanTyped
<1>6. QED BY <1>4, <1>5

LEMMA CompleteKeeps ==
  ASSUME PlanConstants, PlanInv, Plan!CompleteStep PROVE PlanInv'
<1>1. /\ planPc = "completing" /\ Untouched
      /\ UNCHANGED <<attempt, keys, lastError, budget, external, pressed, tries>>
  BY DEF Plan!CompleteStep, Plan!theWorld, Plan!theHistory, Plan!theStep, Untouched
<1>2. planPc \in InAttempts /\ planPc \notin {"start"} \cup Over BY <1>1 DEF InAttempts, Over
<1>3. PlanTyped /\ trace \in Traces BY DEF PlanInv, PlanTyped
<1> DEFINE t == Plan!Add(trace, Plan!Event("step", index, "completed"))
<1>4. /\ t \in Traces /\ index \in DOMAIN plan /\ index \in 0..Len(plan) /\ index \in Nat
      /\ ~t.truncated => Told(t.events, index) /\ PlanEvents(t.events) = {}
  BY <1>2, StepTold
<1>5. ~t.truncated => ~trace.truncated BY <1>3, <1>4, UncutBefore DEF EventOutcome
<1>6. CASE UNCHANGED index /\ \E c \in {"unknown", "security"} : Plan!Fail(trace, c)
  <2>1. PICK c \in {"unknown", "security"} : Plan!Fail(trace, c) BY <1>6
  <2>2. c \in Plan!Categories \cup {"none"} BY DEF Plan!Categories
  <2>3. index - 1 \in 0..Len(plan) BY <1>3 DEF PlanTyped
  <2>4. ~trace.truncated => Told(trace.events, index - 1) /\ PlanEvents(trace.events) = {}
    BY <1>2 DEF PlanInv, Story
  <2>5. QED BY <1>1, <1>2, <1>3, <1>6, <2>1, <2>2, <2>3, <2>4, FailKeeps DEF PlanTyped
<1>7. CASE UNCHANGED index /\ \E c \in {external, "timeout"} : Plan!Fail(t, c)
  <2>1. PICK c \in {external, "timeout"} : Plan!Fail(t, c) BY <1>7
  <2>2. c \in Plan!Categories \cup {"none"} BY <1>3 DEF Plan!Categories, PlanTyped
  <2> HIDE DEF t
  <2>3. QED BY <1>1, <1>2, <1>3, <1>4, <1>7, <2>1, <2>2, FailKeeps DEF PlanTyped
<1>8. CASE trace' = t /\ index' = index + 1 /\ planPc' = "next" /\ UNCHANGED status
  <2> HIDE DEF t
  <2>1. QED BY <1>1, <1>2, <1>4, <1>5, <1>8, NextKeeps
<1>9. QED BY <1>6, <1>7, <1>8 DEF Plan!CompleteStep

LEMMA PlanStartKeeps == ASSUME PlanConstants, PlanInv, Plan!Start PROVE PlanInv'
<1> DEFINE o == IF enabled THEN "completed" ELSE "skipped"
           e == Plan!Event("context", 0, o)
<1>1. /\ planPc = "start" /\ installed' = TRUE /\ trace' = Plan!Add(trace, e)
      /\ UNCHANGED <<index, attempt, keys, lastError, budget, external, completedStepCount,
                     enabled, plan, handler, world, pressed, tries>>
      /\ \/ enabled /\ planPc' = "next" /\ status' = status
         \/ ~enabled /\ planPc' = "settling" /\ status' = "skipped"
  BY DEF Plan!Start, Plan!theStep, Plan!theWorld, Plan!theHistory
<1>2. PlanTyped /\ trace \in Traces /\ trace.events \in Seq(PlanEvent)
  BY DEF PlanInv, PlanTyped, Traces
<1>3. e \in PlanEvent /\ e.kind = "context" BY EventIs DEF EventKind, EventOutcome
<1> HIDE DEF e
<1>4. trace' \in Traces /\ (~trace'.truncated => ~trace.truncated
                              /\ trace'.events = Append(trace.events, e))
  BY <1>1, <1>2, <1>3, AddDoes
<1>5. PlanTyped'
  BY <1>1, <1>2, <1>4 DEF PlanTyped, InStep, BeforeAttempts, InAttempts, Over, EventOutcome
<1>6. Attempts' BY <1>1 DEF PlanInv, Attempts, InAttempts, Over
<1>7. Spent' BY <1>1 DEF PlanInv, Spent, LetGo
<1>8. Story'
  <2>1. CASE ~enabled BY <1>1, <2>1 DEF Story, Over
  <2>2. CASE enabled
    <3>1. SUFFICES ASSUME ~trace'.truncated
                   PROVE  /\ Told(trace'.events, index - 1) /\ PlanEvents(trace'.events) = {}
                          /\ status = "completed"
      BY <1>1, <2>2 DEF Story, Over, Told, PlanEvents, StepEvents
    <3>2. /\ Told(trace.events, index - 1) /\ PlanEvents(trace.events) = {}
          /\ status = "completed" /\ trace'.events = Append(trace.events, e)
      BY <1>1, <1>4, <3>1 DEF PlanInv, Story, Over
    <3>3. Told(Append(trace.events, e), index - 1) BY <1>2, <1>3, <3>2, OtherEvents
    <3>4. PlanEvents(Append(trace.events, e)) = {}
      BY <1>2, <1>3, <3>2, AppendDoes DEF PlanEvents
    <3>5. QED BY <3>2, <3>3, <3>4
  <2>3. QED BY <2>1, <2>2
<1>9. Final' BY <1>1 DEF Final, Over
<1>10. QED BY <1>5, <1>6, <1>7, <1>8, <1>9 DEF PlanInv

LEMMA PlanSettleKeeps == ASSUME PlanInv, Plan!Settle PROVE PlanInv'
<1>1. /\ planPc = "settling" /\ planPc' = "returned" /\ installed' = FALSE
      /\ Plan!HandlersDone
      /\ UNCHANGED <<index, attempt, keys, lastError, budget, trace, external, status,
                     completedStepCount, enabled, plan, handler, world, pressed, tries>>
      /\ enabled => planAnswer' = [events |-> trace.events, truncated |-> trace.truncated,
                                   done |-> completedStepCount, status |-> status]
  BY DEF Plan!Settle, Plan!theStep, Plan!theWorld, Plan!theHistory
<1>2. PlanTyped'
  BY <1>1 DEF PlanInv, PlanTyped, InStep, BeforeAttempts, InAttempts, Over
<1>3. Attempts' BY <1>1 DEF PlanInv, Attempts, InAttempts, Over
<1>4. Spent' BY <1>1 DEF PlanInv, Spent, LetGo
<1>5. Story' BY <1>1 DEF PlanInv, Story, Told, PlanEvents, StepEvents, Over
<1>6. Final' BY <1>1 DEF Final, Over, Plan!HandlersDone, Plan!Waiting
<1>7. QED BY <1>2, <1>3, <1>4, <1>5, <1>6 DEF PlanInv

-----------------------------------------------------------------------------
(***************************************************************************)
(* The handlers of dialogs and popups.                                     *)
(***************************************************************************)
LEMMA LetGoIs ==
  ASSUME PlanConstants, PlanTyped
  PROVE  /\ IsFiniteSet(LetGo(Dialog)) /\ Cardinality(LetGo(Dialog)) \in Nat
         /\ IsFiniteSet(LetGo(Popup)) /\ Cardinality(LetGo(Popup)) \in Nat
<1>1. LetGo(Dialog) \subseteq Dialog /\ LetGo(Popup) \subseteq Popup BY DEF LetGo
<1>2. QED BY <1>1, FS_Subset, FS_CardinalityType DEF PlanConstants

\* A handler that tells something, or nothing, and a budget that only grows.
LEMMA HandlerKeeps ==
  ASSUME PlanConstants, PlanInv, UNCHANGED Plan!thePlan, PlanTyped', Spent',
         planPc = "returned" => trace' = trace /\ Plan!HandlersDone',
         \/ trace' = trace
         \/ \E e \in PlanEvent :
              e.kind \in {"dialog", "popup"} /\ trace' = Plan!Add(trace, e)
  PROVE  PlanInv'
<1>1. UNCHANGED <<enabled, plan, planPc, index, attempt, keys, lastError, completedStepCount,
                  status, planAnswer, installed, pressed, tries>>
  BY DEF Plan!thePlan, Plan!theStep, Plan!theHistory
<1>2. Attempts' BY <1>1 DEF PlanInv, Attempts
<1>3. Final' BY <1>1 DEF PlanInv, Final
<1>4. trace \in Traces /\ trace.events \in Seq(PlanEvent)
  BY DEF PlanInv, PlanTyped, Traces
<1>5. ASSUME ~trace'.truncated => ~trace.truncated,
             PlanEvents(trace'.events) = PlanEvents(trace.events),
             \A i \in PlanEvents(trace.events) : trace'.events[i] = trace.events[i],
             \A n : Told(trace.events, n) => Told(trace'.events, n)
      PROVE  Story'
  <2>1. SUFFICES ASSUME ~trace'.truncated PROVE Story' BY DEF Story
  <2>2. Story BY DEF PlanInv
  <2>3. \A n : Told(trace'.events, n) => Told(trace.events, n)'
    BY <1>1 DEF Told, StepEvents
  <2>4. PlanEvents(trace.events)' = PlanEvents(trace'.events) BY DEF PlanEvents
  <2>5. CASE planPc \notin Over
    BY <1>1, <1>5, <2>1, <2>2, <2>3, <2>4, <2>5 DEF Story
  <2>6. CASE planPc \in Over
    <3>1. enabled => /\ \E n \in 0..Len(plan) :
                          Told(trace.events, n) /\ (status = "completed" => n = Len(plan))
                     /\ status = "completed" <=> PlanEvents(trace.events) = {}
                     /\ \A i \in PlanEvents(trace.events) : trace.events[i].outcome = status
      BY <1>5, <2>1, <2>2, <2>6 DEF Story
    <3>2. QED BY <1>1, <1>5, <2>3, <2>4, <2>6, <3>1 DEF Story
  <2>7. QED BY <2>5, <2>6
<1>6. Story'
  <2>1. CASE trace' = trace BY <1>5, <2>1
  <2>2. ASSUME NEW e \in PlanEvent, e.kind \in {"dialog", "popup"}, trace' = Plan!Add(trace, e),
               ~trace'.truncated
        PROVE  Story'
    <3>1. ~trace.truncated /\ trace'.events = Append(trace.events, e)
      BY <1>4, <2>2, AddDoes
    <3>2. PlanEvents(trace'.events) = PlanEvents(trace.events)
          /\ \A i \in PlanEvents(trace.events) : trace'.events[i] = trace.events[i]
      BY <1>4, <2>2, <3>1, AppendDoes DEF PlanEvents
    <3>3. \A n : Told(trace.events, n) => Told(trace'.events, n)
      BY <1>4, <2>2, <3>1, OtherEvents
    <3>4. QED BY <1>5, <3>1, <3>2, <3>3
  <2>3. trace'.truncated => Story' BY DEF Story
  <2>4. QED BY <2>1, <2>2, <2>3
<1>7. QED BY <1>2, <1>3, <1>6 DEF PlanInv

\* While a handler is at work nothing was returned.
LEMMA StillAtWork ==
  ASSUME PlanInv, NEW o \in Plan!Window, handler[o] \in Plan!Pending
  PROVE  planPc # "returned"
BY DEF PlanInv, Final, Plan!HandlersDone, Plan!Waiting

\* The handlers that were let go on stay as many, or one less is; one more is when the
\* budget has counted it.
LEMMA WindowOpens ==
  ASSUME PlanConstants, PlanInv, NEW o \in Plan!Window, Plan!Opens(o) PROVE PlanInv'
<1>1. /\ handler[o] = "unborn" /\ UNCHANGED Plan!thePlan /\ UNCHANGED <<trace, external, world>>
  BY DEF Plan!Opens
<1>2. UNCHANGED <<enabled, plan, planPc, index, attempt, keys, lastError, status, installed,
                  pressed, tries>>
  BY <1>1 DEF Plan!thePlan, Plan!theStep, Plan!theHistory
<1>3. PlanTyped /\ Spent BY DEF PlanInv
<1>4. /\ budget \in [tabSteps : Nat, dialogs : Nat, popups : Nat]
      /\ handler \in [Plan!Window -> HandlerPlace]
  BY <1>3 DEF PlanTyped
<1>5. CASE ~installed
  <2>1. handler' = [handler EXCEPT ![o] = "ignored"] /\ UNCHANGED budget
    BY <1>5 DEF Plan!Opens
  <2>2. handler' \in [Plan!Window -> HandlerPlace] BY <1>4, <2>1 DEF HandlerPlace
  <2>3. PlanTyped' BY <1>1, <1>2, <1>3, <2>1, <2>2 DEF PlanTyped
  <2>4. LetGo(Dialog)' = LetGo(Dialog) /\ LetGo(Popup)' = LetGo(Popup)
    BY <1>1, <1>4, <2>1 DEF LetGo, Plan!Window
  <2>5. Spent' BY <1>2, <1>3, <2>1, <2>4 DEF Spent
  <2>6. Plan!HandlersDone => Plan!HandlersDone'
    BY <1>4, <2>1 DEF Plan!HandlersDone, Plan!Waiting, Plan!Pending
  <2>7. planPc = "returned" => Plan!HandlersDone' BY <2>6 DEF PlanInv, Final
  <2>8. QED BY <1>1, <2>3, <2>5, <2>7, HandlerKeeps
<1>6. CASE installed
  <2> DEFINE place == IF Plan!Used(o) > IF o \in Dialog THEN maxDialogsPerPage ELSE maxPopupsPerPage
                      THEN "overBudget" ELSE "acting"
  <2>1. /\ handler' = [handler EXCEPT ![o] = place]
        /\ budget' = IF o \in Dialog THEN [budget EXCEPT !.dialogs = @ + 1]
                     ELSE [budget EXCEPT !.popups = @ + 1]
    BY <1>6 DEF Plan!Opens
  <2>2. place \in {"overBudget", "acting"} OBVIOUS
  <2>3. handler' \in [Plan!Window -> HandlerPlace]
    BY <1>4, <2>1, <2>2 DEF HandlerPlace, Plan!Pending
  <2>4. /\ budget' \in [tabSteps : Nat, dialogs : Nat, popups : Nat]
        /\ budget'.tabSteps = budget.tabSteps
        /\ o \in Dialog => budget'.dialogs = budget.dialogs + 1 /\ budget'.popups = budget.popups
        /\ o \notin Dialog => budget'.popups = budget.popups + 1 /\ budget'.dialogs = budget.dialogs
    <3>1. budget.dialogs \in Nat /\ budget.popups \in Nat
          /\ budget.dialogs + 1 \in Nat /\ budget.popups + 1 \in Nat
      BY <1>4
    <3>2. QED BY <1>4, <2>1, <3>1
  <2>5. PlanTyped' BY <1>1, <1>2, <1>3, <2>3, <2>4 DEF PlanTyped
  <2>6. planPc # "returned" BY <1>6 DEF PlanInv, Final
  <2>7. /\ o \in Dialog /\ place = "acting" => budget.dialogs + 1 <= maxDialogsPerPage
        /\ o \notin Dialog /\ place = "acting" => budget.popups + 1 <= maxPopupsPerPage
    <3>1. /\ o \in Dialog => Plan!Used(o) = budget.dialogs + 1
          /\ o \notin Dialog => Plan!Used(o) = budget.popups + 1
      BY <1>4 DEF Plan!Used
    <3>2. budget.dialogs + 1 \in Nat /\ budget.popups + 1 \in Nat BY <1>4
    <3>3. QED BY <3>1, <3>2 DEF PlanConstants
  <2> HIDE DEF place
  <2>8. ASSUME NEW windows \in {Dialog, Popup}
        PROVE  LetGo(windows)' = IF place = "acting" /\ o \in windows
                                 THEN LetGo(windows) \cup {o} ELSE LetGo(windows)
    BY <1>1, <1>4, <2>1, <2>2 DEF LetGo, Plan!Window
  <2>9. o \notin LetGo(Dialog) /\ o \notin LetGo(Popup) BY <1>1 DEF LetGo
  <2>10. /\ IsFiniteSet(LetGo(Dialog)) /\ Cardinality(LetGo(Dialog)) \in Nat
         /\ IsFiniteSet(LetGo(Popup)) /\ Cardinality(LetGo(Popup)) \in Nat
    BY <1>3, LetGoIs
  <2>11. /\ Cardinality(LetGo(Dialog) \cup {o}) = Cardinality(LetGo(Dialog)) + 1
         /\ Cardinality(LetGo(Popup) \cup {o}) = Cardinality(LetGo(Popup)) + 1
    BY <2>9, <2>10, FS_AddElement
  <2>12. o \in Dialog <=> o \notin Popup BY DEF PlanConstants, Plan!Window
  <2>13. Cardinality(LetGo(Dialog))' <= budget'.dialogs
         /\ Cardinality(LetGo(Dialog))' <= maxDialogsPerPage
    <3>1. Cardinality(LetGo(Dialog))' = Cardinality(LetGo(Dialog)') OBVIOUS
    <3>2. CASE place = "acting" /\ o \in Dialog
      <4>1. LetGo(Dialog)' = LetGo(Dialog) \cup {o} BY <2>8, <3>2
      <4>2. Cardinality(LetGo(Dialog)') = Cardinality(LetGo(Dialog)) + 1 BY <2>11, <4>1
      <4>3. budget'.dialogs = budget.dialogs + 1 /\ budget.dialogs + 1 <= maxDialogsPerPage
        BY <2>4, <2>7, <2>12, <3>2
      <4>4. Cardinality(LetGo(Dialog)) <= budget.dialogs /\ budget.dialogs \in Nat
        BY <1>3, <1>4 DEF Spent
      <4>5. maxDialogsPerPage \in Nat BY DEF PlanConstants
      <4>6. QED BY ONLY <2>10, <3>1, <4>2, <4>3, <4>4, <4>5
    <3>3. CASE ~(place = "acting" /\ o \in Dialog)
      BY <1>3, <1>4, <2>4, <2>8, <2>10, <3>1, <3>3 DEF Spent
    <3>4. QED BY <3>2, <3>3
  <2>14. Cardinality(LetGo(Popup))' <= budget'.popups
         /\ Cardinality(LetGo(Popup))' <= maxPopupsPerPage
    <3>1. Cardinality(LetGo(Popup))' = Cardinality(LetGo(Popup)') OBVIOUS
    <3>2. CASE place = "acting" /\ o \in Popup
      <4>1. LetGo(Popup)' = LetGo(Popup) \cup {o} BY <2>8, <3>2
      <4>2. Cardinality(LetGo(Popup)') = Cardinality(LetGo(Popup)) + 1 BY <2>11, <4>1
      <4>3. budget'.popups = budget.popups + 1 /\ budget.popups + 1 <= maxPopupsPerPage
        BY <2>4, <2>7, <2>12, <3>2
      <4>4. Cardinality(LetGo(Popup)) <= budget.popups /\ budget.popups \in Nat
        BY <1>3, <1>4 DEF Spent
      <4>5. maxPopupsPerPage \in Nat BY DEF PlanConstants
      <4>6. QED BY ONLY <2>10, <3>1, <4>2, <4>3, <4>4, <4>5
    <3>3. CASE ~(place = "acting" /\ o \in Popup)
      BY <1>3, <1>4, <2>4, <2>8, <2>10, <3>1, <3>3 DEF Spent
    <3>4. QED BY <3>2, <3>3
  <2>15. Spent' BY <1>2, <1>3, <2>4, <2>13, <2>14 DEF Spent
  <2>16. QED BY <1>1, <2>5, <2>6, <2>15, HandlerKeeps
<1>7. QED BY <1>3, <1>5, <1>6 DEF PlanTyped

\* A handler that is at work goes on or ends.
LEMMA HandlerMoves ==
  ASSUME PlanConstants, PlanInv, NEW o \in Plan!Window, handler[o] \in Plan!Pending,
         NEW place \in {"accepted", "blocked", "broken"}, handler[o] # "acting" => place = "blocked",
         handler' = [handler EXCEPT ![o] = place], UNCHANGED Plan!thePlan,
         UNCHANGED budget, external' \in Plan!Categories \cup {"none"},
         \/ trace' = trace
         \/ \E e \in PlanEvent :
              e.kind \in {"dialog", "popup"} /\ trace' = Plan!Add(trace, e)
  PROVE  PlanInv'
<1>1. UNCHANGED <<enabled, plan, planPc, index, attempt, keys, lastError, status, installed,
                  pressed, tries>>
  BY DEF Plan!thePlan, Plan!theStep, Plan!theHistory
<1>2. PlanTyped /\ Spent /\ trace \in Traces /\ handler \in [Plan!Window -> HandlerPlace]
  BY DEF PlanInv, PlanTyped
<1>3. handler' \in [Plan!Window -> HandlerPlace]
  BY <1>2 DEF HandlerPlace, Plan!Pending
<1>4. trace' \in Traces BY <1>2, AddDoes
<1>5. PlanTyped' BY <1>1, <1>2, <1>3, <1>4 DEF PlanTyped
<1>6. LetGo(Dialog)' \subseteq LetGo(Dialog) /\ LetGo(Popup)' \subseteq LetGo(Popup)
  BY <1>2 DEF LetGo, Plan!Window, Plan!Pending
<1>7. /\ IsFiniteSet(LetGo(Dialog)) /\ Cardinality(LetGo(Dialog)) \in Nat
      /\ IsFiniteSet(LetGo(Popup)) /\ Cardinality(LetGo(Popup)) \in Nat
      /\ Cardinality(LetGo(Dialog)') \in Nat /\ Cardinality(LetGo(Popup)') \in Nat
      /\ Cardinality(LetGo(Dialog)') <= Cardinality(LetGo(Dialog))
      /\ Cardinality(LetGo(Popup)') <= Cardinality(LetGo(Popup))
  BY <1>2, <1>6, LetGoIs, FS_Subset, FS_CardinalityType
<1>8. budget.dialogs \in Nat /\ budget.popups \in Nat BY <1>2 DEF PlanTyped
<1>9. Spent' BY <1>1, <1>2, <1>7, <1>8 DEF Spent, PlanConstants
<1>10. planPc # "returned" BY StillAtWork
<1>11. QED BY <1>5, <1>9, <1>10, HandlerKeeps

LEMMA HandlersKeep ==
  ASSUME PlanConstants, PlanInv, NEW o \in Plan!Window,
         Plan!Acts(o) \/ Plan!ClosesOutOfScope(o) \/ Plan!Breaks(o) \/ Plan!Blocks(o)
  PROVE  PlanInv'
<1>1. ASSUME NEW kind \in {"dialog", "popup"}, NEW outcome \in {"completed", "blocked"},
             trace' = Plan!Add(trace, Plan!Event(kind, 0, outcome))
      PROVE  \E e \in PlanEvent : e.kind \in {"dialog", "popup"} /\ trace' = Plan!Add(trace, e)
  <2>1. kind \in EventKind /\ outcome \in EventOutcome BY DEF EventKind, EventOutcome
  <2>2. QED BY <1>1, <2>1, EventIs
<1>2. external \in Plan!Categories \cup {"none"} BY DEF PlanInv, PlanTyped
<1>3. CASE Plan!Acts(o)
  <2>1. \E e \in PlanEvent : e.kind \in {"dialog", "popup"} /\ trace' = Plan!Add(trace, e)
    BY <1>1, <1>3 DEF Plan!Acts
  <2>2. QED BY <1>2, <1>3, <2>1, HandlerMoves DEF Plan!Acts, Plan!Pending
<1>4. CASE Plan!ClosesOutOfScope(o)
  <2>1. \E e \in PlanEvent : e.kind \in {"dialog", "popup"} /\ trace' = Plan!Add(trace, e)
    BY <1>1, <1>4 DEF Plan!ClosesOutOfScope
  <2>2. QED BY <1>2, <1>4, <2>1, HandlerMoves DEF Plan!ClosesOutOfScope, Plan!Pending
<1>5. CASE Plan!Breaks(o)
  BY <1>2, <1>5, HandlerMoves DEF Plan!Breaks, Plan!Pending
<1>6. CASE Plan!Blocks(o)
  <2>1. \E e \in PlanEvent : e.kind \in {"dialog", "popup"} /\ trace' = Plan!Add(trace, e)
    BY <1>1, <1>6 DEF Plan!Blocks
  <2>2. external' \in Plan!Categories \cup {"none"} BY <1>6 DEF Plan!Blocks, Plan!Categories
  <2>3. QED BY <1>6, <2>1, <2>2, HandlerMoves DEF Plan!Blocks, Plan!Pending
<1>7. QED BY <1>3, <1>4, <1>5, <1>6

\* A step of the world or of nobody.
LEMMA RestOfWorld ==
  ASSUME PlanConstants, PlanInv, UNCHANGED Plan!thePlan,
         UNCHANGED <<budget, trace, external, handler>>
  PROVE  PlanInv'
<1>1. UNCHANGED <<enabled, plan, planPc, index, attempt, keys, lastError, status, installed,
                  pressed, tries>>
  BY DEF Plan!thePlan, Plan!theStep, Plan!theHistory
<1>2. PlanTyped' BY <1>1 DEF PlanInv, PlanTyped
<1>3. Spent' BY <1>1 DEF PlanInv, Spent, LetGo
<1>4. planPc = "returned" => Plan!HandlersDone'
  BY DEF PlanInv, Final, Plan!HandlersDone, Plan!Waiting
<1>5. QED BY <1>2, <1>3, <1>4, HandlerKeeps

LEMMA PlanStarts == ASSUME PlanConstants, Plan!Init PROVE PlanInv
<1>1. PICK p \in Plan!Approved : plan = Plan!Parsed(p) BY DEF Plan!Init
<1>2. /\ p \in Seq(PlanStep) /\ \A i \in DOMAIN p : p[i].maxAttempts \in 1..3
  BY DEF Plan!Approved, PlanConstants
<1>3. /\ plan \in Seq(PlanStep) /\ DOMAIN plan = DOMAIN p
      /\ \A i \in DOMAIN plan : plan[i].maxAttempts \in 1..3
  <2>1. plan = [i \in DOMAIN p |->
                  [p[i] EXCEPT !.retryable = p[i].retryable \cap Plan!Retryable]]
    BY <1>1 DEF Plan!Parsed
  <2>2. \A i \in DOMAIN p : p[i] \in PlanStep BY <1>2
  <2>3. \A i \in DOMAIN p : /\ plan[i] \in PlanStep
                            /\ plan[i].maxAttempts = p[i].maxAttempts
    BY <2>1, <2>2 DEF PlanStep
  <2>4. DOMAIN p = 1..Len(p) /\ Len(p) \in Nat BY <1>2
  <2>5. plan \in [1..Len(p) -> PlanStep] BY <2>1, <2>3, <2>4
  <2>6. QED BY <1>2, <2>3, <2>4, <2>5
<1>4. /\ planPc = "start" /\ index = 1 /\ attempt = 0 /\ keys = 0 /\ lastError = "none"
      /\ budget = [tabSteps |-> 0, dialogs |-> 0, popups |-> 0]
      /\ trace = [events |-> <<>>, truncated |-> FALSE] /\ external = "none"
      /\ status = "completed" /\ installed = FALSE /\ enabled \in BOOLEAN
      /\ handler = [o \in Plan!Window |-> "unborn"]
      /\ pressed = 0 /\ tries = [i \in DOMAIN plan |-> 0]
  BY DEF Plan!Init
<1>5. PlanTyped
  <2>1. trace \in Traces /\ budget \in [tabSteps : Nat, dialogs : Nat, popups : Nat]
    BY <1>4 DEF Traces
  <2>2. handler \in [Plan!Window -> HandlerPlace] BY <1>4 DEF HandlerPlace
  <2>3. index \in 1..(Len(plan) + 1) BY <1>3, <1>4
  <2>4. /\ planPc \in {"start", "next"} \cup InStep \cup Over
        /\ planPc \in InStep => index \in DOMAIN plan
    BY <1>4 DEF InStep, BeforeAttempts, InAttempts
  <2>5. tries \in [DOMAIN plan -> Nat] BY <1>4
  <2>6. /\ attempt \in Nat /\ keys \in Int /\ pressed \in Nat
        /\ lastError \in Plan!Categories \cup {"none"}
        /\ external \in Plan!Categories \cup {"none"}
    BY <1>4
  <2>7. status \in EventOutcome BY <1>4 DEF EventOutcome
  <2>8. enabled \in BOOLEAN /\ installed \in BOOLEAN BY <1>4
  <2>9. QED BY ONLY <1>3, <2>1, <2>2, <2>3, <2>4, <2>5, <2>6, <2>7, <2>8 DEF PlanTyped
<1>6. Attempts
  <2>1. planPc = "start" /\ attempt = 0 /\ tries = [i \in DOMAIN plan |-> 0] /\ index = 1
        /\ \A i \in DOMAIN plan : plan[i].maxAttempts \in 1..3
    BY <1>3, <1>4
  <2>2. QED BY ONLY <2>1 DEF Attempts, InAttempts
<1>7. Spent
  <2>1. LetGo(Dialog) = {} /\ LetGo(Popup) = {} BY <1>4 DEF LetGo, Plan!Window
  <2>2. Cardinality({}) = 0 BY FS_EmptySet
  <2>3. QED BY <1>4, <2>1, <2>2 DEF Spent, PlanConstants
<1>8. Story
  <2>1. trace.events = <<>> /\ DOMAIN trace.events = {} /\ index - 1 = 0 BY <1>4
  <2>2. Told(trace.events, 0) /\ PlanEvents(trace.events) = {}
    BY <2>1 DEF Told, StepEvents, PlanEvents
  <2>3. QED BY <1>4, <2>1, <2>2 DEF Story, Over
<1>9. Final BY <1>4 DEF Final, Over
<1>10. QED BY <1>5, <1>6, <1>7, <1>8, <1>9 DEF PlanInv

LEMMA PlanSteps ==
  ASSUME PlanConstants, PlanInv, [Plan!Next]_(Plan!vars) PROVE PlanInv'
<1>1. CASE UNCHANGED Plan!vars
  BY <1>1, RestOfWorld DEF Plan!vars, Plan!thePlan, Plan!theStep, Plan!theHistory
<1>2. CASE Plan!Happens BY <1>2, RestOfWorld DEF Plan!Happens
<1>3. QED
  BY <1>1, <1>2, PlanStartKeeps, ChecksKeep, TriesKeep, KeysKeep, RestsKeep,
     RecordKeeps, CompleteKeeps, PlanSettleKeeps, WindowOpens, HandlersKeep DEF Plan!Next

\* What the plan has told, tried and spent at each of its places, and that nothing comes after
\* its answer.
THEOREM PlanIsInvariant == ASSUME PlanConstants PROVE Plan!Spec => []PlanInv
<1>1. Plan!Init => PlanInv BY PlanStarts
<1>2. PlanInv /\ [Plan!Next]_(Plan!vars) => PlanInv' BY PlanSteps
<1>3. QED BY <1>1, <1>2, PTL DEF Plan!Spec

\* createInteractionBudget: whatever steps, retries and handlers draw on it at once, no more
\* keys are pressed, dialogs and popups let go on, and attempts made than are allowed.
THEOREM PlanBudgetsHold == ASSUME PlanConstants PROVE Plan!Spec => []Plan!BudgetsHold
<1>1. ASSUME PlanInv PROVE Plan!BudgetsHold
  <2>1. /\ {o \in Dialog : handler[o] = "accepted"} \subseteq LetGo(Dialog)
        /\ {o \in Popup : handler[o] = "accepted"} \subseteq LetGo(Popup)
    BY DEF LetGo
  <2>2. /\ IsFiniteSet(LetGo(Dialog)) /\ Cardinality(LetGo(Dialog)) \in Nat
        /\ IsFiniteSet(LetGo(Popup)) /\ Cardinality(LetGo(Popup)) \in Nat
    BY <1>1, LetGoIs DEF PlanInv
  <2>3. \A S : Plan!Cardinality(S) = Cardinality(S) BY DEF Plan!Cardinality, Cardinality
  <2> DEFINE dialogs == {o \in Dialog : handler[o] = "accepted"}
             popups == {o \in Popup : handler[o] = "accepted"}
  <2>4. /\ Cardinality(dialogs) <= Cardinality(LetGo(Dialog)) /\ Cardinality(dialogs) \in Nat
        /\ Cardinality(popups) <= Cardinality(LetGo(Popup)) /\ Cardinality(popups) \in Nat
    BY <2>1, <2>2, FS_Subset, FS_CardinalityType
  <2> HIDE DEF dialogs, popups
  <2>5. /\ Cardinality(dialogs) <= maxDialogsPerPage /\ Cardinality(popups) <= maxPopupsPerPage
    BY <1>1, <2>2, <2>4 DEF PlanInv, Spent, PlanConstants
  <2>6. QED
    BY <1>1, <2>3, <2>5 DEF PlanInv, Spent, Attempts, Plan!BudgetsHold, dialogs, popups
<1>2. QED BY <1>1, PlanIsInvariant, PTL

\* executePlaywrightInteractionPlan, while its trace was not cut: the answer tells of the steps
\* of the plan up to the one where it ended, each once and in order, and only one that may be
\* skipped as skipped; it is completed exactly if no failure of the plan is told, and tells of
\* that failure otherwise; nothing is told or done after it.
AnswerIsTheStory ==
  planPc = "returned" /\ enabled /\ ~planAnswer.truncated =>
    /\ \E n \in 0..Len(plan) :
         Told(planAnswer.events, n) /\ (planAnswer.status = "completed" => n = Len(plan))
    /\ planAnswer.status = "completed" <=> PlanEvents(planAnswer.events) = {}
    /\ \A i \in PlanEvents(planAnswer.events) :
         planAnswer.events[i].outcome = planAnswer.status
    /\ planAnswer.events = trace.events /\ Plan!HandlersDone

\* The answer is AnswerIsTheStory: AnswerTellsThePlan but for what it counts.
THEOREM StepsAreTold == ASSUME PlanConstants PROVE Plan!Spec => []AnswerIsTheStory
<1>1. ASSUME PlanInv PROVE AnswerIsTheStory
  <2>1. SUFFICES ASSUME planPc = "returned", enabled, ~planAnswer.truncated
                 PROVE  /\ ~trace.truncated /\ planAnswer.events = trace.events
                        /\ planAnswer.status = status /\ Plan!HandlersDone
    BY <1>1 DEF PlanInv, Story, Over, AnswerIsTheStory
  <2>2. QED BY <1>1, <2>1 DEF PlanInv, Final
<1>2. QED BY <1>1, PlanIsInvariant, PTL
=============================================================================
