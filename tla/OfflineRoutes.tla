---------------------------- MODULE OfflineRoutes ----------------------------
(***************************************************************************)
(* From a rendered page to the page that is read offline: the mapping of   *)
(* archived URLs to local routes and the rewriting of a document           *)
(* (archive-core/src/rewrite.ts), and the answers of the local runtime     *)
(* (archive-core/src/runtime.ts, browser-runtime/src/local-runtime.ts).    *)
(* A path is the sequence of its segments, a trailing slash an empty last  *)
(* segment; a document is the sequence of the tags the rewriter looks at.  *)
(***************************************************************************)
EXTENDS Naturals, Sequences, FiniteSets, SequencesExt

CONSTANTS
  Page, source,   \* pages; the one whose document is rewritten
  PageMappings,   \* for each page the mappings it may have: [Page -> a set of PageMapping]
  assets,         \* rows of asset_sources: [url, resource, state]
  Documents,      \* documents: sequences of tags [tag, refs, described]
  Lower, Decoded, \* segments that change when put in lower case, or percent-decoded
  stylesheet,     \* the URL of the stylesheet a "css" tag stands for: its url() references
  scopeRun        \* the Run the Route Map is made for

VARIABLES
  pages,     \* the mapping of each page: [url, identity, route, resource, entry, runId]
  document,  \* the rendered document of the source page
  phase,     \* rendered, rewritten, refused, served, answered
  derived,   \* the rewritten document, with what became of each reference in `class`
  overrides, \* whether the runtime serves the rewritten documents (pageResourceForRoute)
  answer     \* the runtime's last answer

vars == <<pages, document, phase, derived, overrides, answer>>

-----------------------------------------------------------------------------
(* URLs and paths *)

NoUrl == "none"
NoEntry == <<>>
Root == <<"">>
LocalOrigin == "127.0.0.1"

\* A reference says which parts of the URL are written; `new URL(reference, base)`.
Reaches(ref) == ref.kind \in {"absolute", "rooted", "relative"}
resolve(ref, base) ==
  CASE ref.kind = "absolute" -> ref.url
    [] ref.kind = "rooted"   -> [ref.url EXCEPT !.origin = base.origin]
    [] ref.kind = "relative" -> [ref.url EXCEPT !.origin = base.origin,
                                                !.path = Front(base.path) \o @]
    [] OTHER -> NoUrl

Absolute(url) == [kind |-> "absolute", url |-> url]

\* normalizeRewriteUrl: the fragment is not part of a resource's identity, the query is.
IgnoreQuery(url) == [url EXCEPT !.hash = "", !.search = ""]
normalizeRewriteUrl(url) == [url EXCEPT !.hash = ""]

validateCanonicalRelativePath(path) == path # <<>> /\ "" \notin Range(path)

LowerCase(segment) == IF segment \in DOMAIN Lower THEN Lower[segment] ELSE segment
Decode(segment) == IF segment \in DOMAIN Decoded THEN Decoded[segment] ELSE segment

\* canonicalLocalRoute: a portable route, with or without a slash at its end.
canonicalLocalRoute(route) ==
  \/ route = Root
  \/ validateCanonicalRelativePath(IF Last(route) = "" THEN Front(route) ELSE route)

routeCollisionKey(route) == [i \in DOMAIN route |-> LowerCase(route[i])]

-----------------------------------------------------------------------------
(* RewriteMappingIndex *)

\* archivedAssetMappingFromPhase17: only completed assets are mapped.
Mappings ==
  {[of |-> p, kind |-> "page", url |-> pages[p].url, local |-> pages[p].route] : p \in Page}
  \cup {[of |-> a.resource, kind |-> "asset", url |-> a.url, local |-> a.resource] :
          a \in {b \in assets : b.state = "completed"}}

Entries(url) ==
  {m \in Mappings : normalizeRewriteUrl(m.url) = normalizeRewriteUrl(url)}

\* lookup: an ambiguous URL is treated as one that is not archived.
lookup(url) == LET found == Entries(url) IN IF Cardinality(found) = 1 THEN found ELSE {}

\* hasLocalReference: the path of a reference is a route or resource; canonicalLocalReference
\* refuses a path that ends in a slash.
hasLocalReference(ref) ==
  /\ ref.kind \in {"rooted", "relative"}
  /\ ref.url.path = Root \/ validateCanonicalRelativePath(ref.url.path)
  /\ \E m \in Mappings : m.local = ref.url.path

-----------------------------------------------------------------------------
(* rewriteHtml *)

\* localTarget: a page keeps the query of the reference, an asset does not.
localTarget(mapping, url) ==
  [kind |-> "rooted",
   url |-> [origin |-> LocalOrigin, path |-> mapping.local, hash |-> url.hash,
            search |-> IF mapping.kind = "page" THEN url.search ELSE ""]]

Outcome(ref, class) == [ref |-> ref, class |-> class]

classifyHttpDependency(url) ==
  IF url.origin = pages[source].url.origin THEN "missing-local-resource"
                                           ELSE "external-not-archived"

\* processReference: a URL that is archived comes before a reference that looks local, and
\* all else is written out as the URL it meant.
processReference(ref, base) ==
  LET url == resolve(ref, base)
      found == IF Reaches(ref) THEN lookup(url) ELSE {}
  IN CASE ref.kind \in {"fragment", "scheme"} -> Outcome(ref, "preserved")
       [] found # {} -> Outcome(localTarget(CHOOSE m \in found : TRUE, url), "local-match")
       [] found = {} /\ hasLocalReference(ref) -> Outcome(ref, "alreadyLocal")
       [] OTHER -> IF Reaches(ref) THEN Outcome(Absolute(url), classifyHttpDependency(url))
                                   ELSE Outcome(ref, "unresolved")

\* parseSrcset: a candidate without a descriptor is read as far as the next blank, its comma
\* included, and takes the candidates behind it for its descriptor.
rewriteSrcset(tag, base) ==
  IF tag.described \/ Len(tag.refs) < 2
  THEN [j \in DOMAIN tag.refs |-> processReference(tag.refs[j], base)]
  ELSE [j \in DOMAIN tag.refs |->
          IF j = 1 /\ Reaches(tag.refs[j])
          THEN Outcome(Absolute(resolve(tag.refs[j], base)), "missing-local-resource")
          ELSE Outcome(tag.refs[j], "swallowed")]

firstBase(tags) == SelectInSeq(tags, LAMBDA t : t.tag = "base")

\* baseFromTokens and effectiveBaseUrl: the first base element counts, with or without href.
effectiveBaseUrl(tags) ==
  LET b == firstBase(tags)
  IN IF b = 0 \/ tags[b].refs = <<>> \/ ~Reaches(Head(tags[b].refs))
     THEN pages[source].url
     ELSE resolve(Head(tags[b].refs), pages[source].url)

\* A canonical link is provenance: it is written out in full.
canonicalReference(ref, base) ==
  Outcome(IF Reaches(ref) THEN Absolute(resolve(ref, base)) ELSE ref, "canonical")

\* rewriteCss: the references of a stylesheet are relative to the stylesheet.
BaseOf(tag, base) == IF tag.tag = "css" THEN stylesheet ELSE base

rewriteTag(tag, documentBase) ==
  LET base == BaseOf(tag, documentBase) IN
  [tag |-> tag.tag, described |-> tag.described,
   outcomes |-> CASE tag.tag = "base" -> [j \in DOMAIN tag.refs |-> Outcome(tag.refs[j], "kept")]
                  [] tag.tag = "canonical" ->
                       [j \in DOMAIN tag.refs |-> canonicalReference(tag.refs[j], base)]
                  [] tag.tag = "srcset" -> rewriteSrcset(tag, base)
                  [] OTHER -> [j \in DOMAIN tag.refs |-> processReference(tag.refs[j], base)]]

rewrittenTags(tags) ==
  LET base == effectiveBaseUrl(tags)
      rewritten == [i \in DOMAIN tags |-> rewriteTag(tags[i], base)]
  IN IF firstBase(tags) = 0 THEN rewritten ELSE RemoveAt(rewritten, firstBase(tags))

\* resolveRewriteReference: an attribute with an empty value fails the whole document.
Refused(tags) ==
  \E i \in DOMAIN tags : tags[i].tag # "base" /\ \E ref \in Range(tags[i].refs) : ref.kind = "empty"

RewriteHtml ==
  /\ phase = "rendered"
  /\ IF Refused(document) THEN phase' = "refused" /\ UNCHANGED derived
     ELSE phase' = "rewritten" /\ derived' = rewrittenTags(document)
  /\ UNCHANGED <<pages, document, overrides, answer>>

-----------------------------------------------------------------------------
(* generateRouteMap *)

SameRouteKey(p, q) == routeCollisionKey(pages[p].route) = routeCollisionKey(pages[q].route)
SharedResource(p) == {q \in Page : pages[q].resource = pages[p].resource}

Collides(p) ==
  \/ \E q \in Page : /\ SameRouteKey(p, q)
                     /\ \/ pages[q].route # pages[p].route
                        \/ pages[q].identity # pages[p].identity
  \/ \E q \in Page : /\ normalizeRewriteUrl(pages[q].url) = normalizeRewriteUrl(pages[p].url)
                     /\ pages[q].identity # pages[p].identity
  \/ /\ \E q \in SharedResource(p) : pages[q].entry = NoEntry
     /\ \E q, r \in SharedResource(p) : pages[q].route # pages[r].route
     /\ \E q, r \in SharedResource(p) : pages[q].identity # pages[r].identity

-----------------------------------------------------------------------------
(* The local runtime *)

mapsShareRuntimeScope == \A p \in Page : pages[p].runId = scopeRun

Rewritten(resource) == Append(Front(resource), "rewritten")

\* The document a route serves: an SPA route that of its entry page.
RouteResource(p) == IF pages[p].entry = NoEntry THEN pages[p].resource ELSE pages[p].entry
Overridden(p) == Rewritten(RouteResource(p))

blockedMappedResources == {pages[p].resource : p \in {q \in Page : Collides(q)}}
resourceSet ==
  (({pages[p].resource : p \in Page} \cup {m.of : m \in {n \in Mappings : n.kind = "asset"}}
      \cup {Overridden(p) : p \in {q \in Page : overrides}}) \ blockedMappedResources)
  \cup UNION {{pages[p].resource, RouteResource(p)} : p \in {q \in Page : ~Collides(q)}}

\* decodeRuntimePath: undoes the browser's encoding, and refuses an empty segment.
decodeRuntimePath(path) ==
  LET decoded == [i \in DOMAIN path |-> Decode(path[i])]
  IN IF decoded = Root \/ validateCanonicalRelativePath(decoded) THEN decoded ELSE <<>>

Answer(status, resource) == [status |-> status, resource |-> resource]

resolveRuntimeRequest(path) ==
  LET wanted == decodeRuntimePath(path)
      matches == {p \in Page : pages[p].route = wanted}
  IN IF wanted = <<>> THEN Answer(400, <<>>)
     ELSE IF Cardinality(matches) > 1 \/ \E p \in matches : Collides(p) THEN Answer(409, <<>>)
     ELSE IF matches # {}
          THEN LET p == CHOOSE q \in matches : TRUE
               IN Answer(200, IF overrides THEN Overridden(p) ELSE RouteResource(p))
     ELSE IF wanted \in resourceSet THEN Answer(200, wanted)
     ELSE Answer(404, <<>>)

\* createLocalRuntimeServer: refuses maps that are not all of one Run.
CreateLocalRuntimeServer ==
  /\ phase = "rewritten"
  /\ overrides' \in BOOLEAN
  /\ phase' = IF mapsShareRuntimeScope THEN "served" ELSE "refused"
  /\ UNCHANGED <<pages, document, derived, answer>>

\* handler: another host, another method, a resource that is not in the maps, a file that is
\* not there.
Handle(path, request) ==
  LET resolved == resolveRuntimeRequest(path)
  IN CASE request = "other host" -> Answer(421, <<>>)
       [] request = "POST" -> Answer(405, <<>>)
       [] request \in {"GET", "file is missing"} ->
            IF /\ resolved.status = 200
               /\ request = "file is missing" \/ resolved.resource \notin resourceSet
            THEN Answer(404, <<>>) ELSE resolved

-----------------------------------------------------------------------------
(* A browser, outside the code: it resolves by the first base element that has a href *)

StandardBase(tags, documentUrl) ==
  LET b == SelectInSeq(tags, LAMBDA t : t.tag = "base" /\ t.refs # <<>>)
  IN IF b = 0 \/ ~Reaches(Head(tags[b].refs)) THEN documentUrl
     ELSE resolve(Head(tags[b].refs), documentUrl)

Plain(tag) == [tag |-> tag.tag, refs |-> [j \in DOMAIN tag.outcomes |-> tag.outcomes[j].ref]]

\* The reader follows a reference of the rewritten page, or loads what it names.
Follow(i, j, request) ==
  LET local == [origin |-> LocalOrigin, path |-> pages[source].route, search |-> "", hash |-> ""]
      page == StandardBase([k \in DOMAIN derived |-> Plain(derived[k])], local)
      base == IF derived[i].tag = "css" THEN [local EXCEPT !.path = <<"objects", "css">>] ELSE page
      ref == derived[i].outcomes[j].ref
      url == resolve(ref, base)
  IN /\ phase = "served" /\ Reaches(ref) /\ derived[i].tag # "base"
     /\ answer' = [tag |-> i, at |-> j, request |-> request,
                   got |-> IF url.origin = LocalOrigin THEN Handle(url.path, request)
                           ELSE Answer(0, <<>>)]
     /\ phase' = "answered"
     /\ UNCHANGED <<pages, document, derived, overrides>>

-----------------------------------------------------------------------------
Init ==
  /\ pages \in {f \in [Page -> UNION {PageMappings[p] : p \in Page}] :
                  \A p \in Page : f[p] \in PageMappings[p] /\ canonicalLocalRoute(f[p].route)}
  /\ document \in Documents
  /\ phase = "rendered" /\ derived = <<>> /\ overrides = FALSE
  /\ answer = [got |-> Answer(0, <<>>)]

Next == \/ RewriteHtml
        \/ CreateLocalRuntimeServer
        \/ \E i \in DOMAIN derived : \E j \in DOMAIN derived[i].outcomes :
             \E request \in {"GET", "other host", "POST", "file is missing"} : Follow(i, j, request)

Spec == Init /\ [][Next]_vars

-----------------------------------------------------------------------------
(* Properties *)

TypeOK ==
  /\ phase \in {"rendered", "rewritten", "refused", "served", "answered"}
  /\ overrides \in BOOLEAN
  /\ \A i \in DOMAIN derived : derived[i].tag \in {"base", "canonical", "a", "srcset", "css"}
  /\ answer.got.status \in {0, 200, 400, 404, 405, 409, 421}

Bases(tags) == {i \in DOMAIN tags : tags[i].tag = "base"}

\* The tag and the URL the answered reference had in the rendered page, as a browser read it.
OriginalTag == document[IF Bases(document) = {} THEN answer.tag ELSE answer.tag + 1]
OriginalUrl ==
  resolve(OriginalTag.refs[answer.at],
          BaseOf(OriginalTag, StandardBase(document, pages[source].url)))

\* A page that shares neither its route, whatever the case, nor its URL, nor its document.
Alone(p) ==
  \A q \in Page \ {p} :
    /\ ~SameRouteKey(p, q)
    /\ normalizeRewriteUrl(pages[q].url) # normalizeRewriteUrl(pages[p].url)
    /\ pages[q].resource # pages[p].resource

\* A route the runtime can be asked for: without a slash at its end and without an escape.
Askable(route) == decodeRuntimePath(route) = route

DocumentsOf(p) == {pages[p].resource, RouteResource(p), Overridden(p)}

\* processReference, generateRouteMap and resolveRuntimeRequest: a reference that was made
\* local is answered with the page or asset it named when the page was rendered, or with an
\* error; without an error if that page stands alone.  A reference that was left a dependency
\* is not asked of the runtime.  For documents with at most one base element.
LinksReachTheirPage ==
  phase = "answered" /\ Cardinality(Bases(document)) < 2 =>
    LET class == derived[answer.tag].outcomes[answer.at].class
        named == {m \in Mappings : m.url = [OriginalUrl EXCEPT !.hash = ""]}
    IN /\ class = "local-match" =>
            /\ answer.got.status # 0
            /\ answer.got.status = 200 =>
                 \E m \in named : answer.got.resource \in
                                    IF m.kind = "page" THEN DocumentsOf(m.of) ELSE {m.of}
            /\ answer.request = "GET" =>
                 \A m \in named :
                   (m.kind = "asset" \/ (Alone(m.of) /\ Askable(m.local))) => answer.got.status = 200
       /\ class \in {"missing-local-resource", "external-not-archived", "canonical"} =>
            answer.got.status = 0

\* What docs/architecture/HTML_REWRITER.md says of the base element; does not hold when a
\* document has two: only the first is removed, and the browser then goes by the second.
LinksStayOffline ==
  phase = "answered" /\ derived[answer.tag].outcomes[answer.at].class = "local-match" =>
    answer.got.status # 0
=============================================================================
