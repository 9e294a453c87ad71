---------------------------- MODULE NetworkReplay ----------------------------
(***************************************************************************)
(* Capture and replay of responses: what the browser's requests meet in    *)
(* PlaywrightNetworkReplayAdapter (browser-runtime/src/network-replay.ts), *)
(* and the snapshots it keeps: rows of replay_snapshots and body files     *)
(* named by their digest (persistence-sqlite/src/replay.ts).  A body       *)
(* stands for its digest.                                                  *)
(***************************************************************************)
EXTENDS Naturals, FiniteSets

CONSTANTS
  Task,        \* requests of pages that may be under way at a time
  Request,     \* requests: [method, to, key, sensitive]; `key` is a query key a policy may ignore
  Body,        \* bodies a server may answer with
  NoBody,
  MaxRequests, MaxFaults   \* bounds: requests, faults (crash, failed write, damaged file)

VARIABLES
  policy,      \* [strict, capturing, ignoring]: NetworkReplayPolicy, queryPolicy of its capture
  rows,        \* replay_snapshots: [identity, body, status]
  file,        \* api/responses/<digest>.bin: absent, whole or damaged
  pc, mem,     \* each task: where it is; its request and response
  heard,       \* what servers answered: [to, key, body, status]
  damaged,     \* bodies whose file was damaged from outside
  requests, faults

vars == <<policy, rows, file, pc, mem, heard, damaged, requests, faults>>

NoMem == [request |-> CHOOSE r \in Request : TRUE, layer |-> 0, body |-> NoBody, status |-> 0]

Local(request) == request.to = "runtime"
Redirect(status) == status \in 300..399

\* The columns of replay_snapshots that matter: a row is complete when it is inserted.
Row == [identity : [method : {"GET"}, to : {r.to : r \in Request}, key : BOOLEAN],
        body : Body, status : Nat]

\* canonicalReplayRequestIdentity: method, URL without ignored keys, selected headers.
Identity(request, ignoring) ==
  [method |-> request.method, to |-> request.to, key |-> request.key /\ ~ignoring]

\* lookup: the rows of an identity; a lookup ignores no key beyond the default ones.
Snapshots(request) == {r \in rows : r.identity = Identity(request, FALSE)}
Bodies(snapshots) == {r.body : r \in snapshots}

Goto(t, where, what) == pc' = [pc EXCEPT ![t] = where] /\ mem' = [mem EXCEPT ![t] = what]
At(t, where) == Goto(t, where, mem[t])
Fault == faults < MaxFaults /\ faults' = faults + 1

-----------------------------------------------------------------------------
(* A request: the same decision is made twice, by handleCdpRequest in the CDP session and by
   handleRoute in the context's route; in between the page session authorizes it. *)

Ask(t) ==
  /\ pc[t] = "idle" /\ requests < MaxRequests
  /\ requests' = requests + 1
  /\ \E r \in Request : Goto(t, "handle", [NoMem EXCEPT !.request = r, !.layer = 1])
  /\ UNCHANGED <<policy, rows, file, heard, damaged, faults>>

\* defer or continue: on to the other layer, unless it is refused there, and then out.
Pass(t) ==
  IF mem[t].layer = 1
  THEN \/ Goto(t, "handle", [mem[t] EXCEPT !.layer = 2])
       \/ At(t, "aborted")
  ELSE At(t, "network")

Handle(t) ==
  LET request == mem[t].request
      found == Snapshots(request)
  IN /\ pc[t] = "handle"
     /\ \/ request.method \notin {"GET", "HEAD"} /\ At(t, "aborted")
        \/ request.method \in {"GET", "HEAD"} /\ Local(request) /\ Pass(t)
        \/ /\ request.method \in {"GET", "HEAD"} /\ ~Local(request)
           /\ \/ request.sensitive /\ At(t, "aborted")
              \/ /\ ~request.sensitive /\ Cardinality(Bodies(found)) = 1
                 /\ LET row == CHOOSE r \in found : TRUE
                    IN Goto(t, "read", [mem[t] EXCEPT !.body = row.body, !.status = row.status])
              \/ /\ ~request.sensitive /\ Cardinality(Bodies(found)) # 1
                 /\ IF policy.strict THEN At(t, "aborted") ELSE Pass(t)
     /\ UNCHANGED <<policy, rows, file, heard, damaged, requests, faults>>

\* readBody, then fulfill: length and digest are checked, a redirect has lost its location;
\* what fails after a match is aborted, strict or not.  A replayed response is a response to
\* the page: it is offered to the capture as well.
ReadBody(t) ==
  /\ pc[t] = "read"
  /\ IF file[mem[t].body] = "whole" /\ ~Redirect(mem[t].status)
     THEN At(t, "fulfilled") ELSE At(t, "aborted")
  /\ UNCHANGED <<policy, rows, file, heard, damaged, requests, faults>>

\* A server answers a request that was let through.
Respond(t) ==
  /\ pc[t] = "network"
  /\ \E body \in Body, status \in {200, 302} :
       /\ heard' = heard \cup {[to |-> mem[t].request.to, key |-> mem[t].request.key,
                                body |-> body, status |-> status]}
       /\ Goto(t, "response", [mem[t] EXCEPT !.body = body, !.status = status])
  /\ UNCHANGED <<policy, rows, file, damaged, requests, faults>>

End(t) ==
  /\ pc[t] \in {"aborted", "fulfilled", "response"}
  /\ Goto(t, "idle", NoMem)
  /\ UNCHANGED <<policy, rows, file, heard, damaged, requests, faults>>

-----------------------------------------------------------------------------
(* captureResponse, started by the page's response event and waited for by nobody *)

\* classifyCaptureEligibility, then the body, its size, its content, the scope and the
\* identity; what is not eligible is left alone (End).
CaptureResponse(t) ==
  /\ pc[t] \in {"fulfilled", "response"} /\ policy.capturing
  /\ mem[t].request.method = "GET" /\ ~mem[t].request.sensitive
  /\ At(t, "exists")
  /\ UNCHANGED <<policy, rows, file, heard, damaged, requests, faults>>

\* capture: is the body there already?
PathExists(t) ==
  /\ pc[t] = "exists"
  /\ At(t, IF file[mem[t].body] = "absent" THEN "write" ELSE "verify")
  /\ UNCHANGED <<policy, rows, file, heard, damaged, requests, faults>>

\* INSERT OR IGNORE: unique by scope, identity and body.
Inserted(t) ==
  LET identity == Identity(mem[t].request, policy.ignoring)
  IN IF \E r \in rows : r.identity = identity /\ r.body = mem[t].body THEN rows
     ELSE rows \cup {[identity |-> identity, body |-> mem[t].body, status |-> mem[t].status]}

\* A file with other bytes under this name fails the capture.
VerifyExisting(t) ==
  /\ pc[t] = "verify"
  /\ rows' = IF file[mem[t].body] = "whole" THEN Inserted(t) ELSE rows
  /\ Goto(t, "idle", NoMem)
  /\ UNCHANGED <<policy, file, heard, damaged, requests, faults>>

\* atomicWriteFile without overwrite: a file that another capture has put there meanwhile
\* fails this one.
WriteStarts(t) ==
  /\ pc[t] = "write"
  /\ IF file[mem[t].body] = "absent" THEN At(t, "rename") ELSE Goto(t, "idle", NoMem)
  /\ UNCHANGED <<policy, rows, file, heard, damaged, requests, faults>>

\* The temporary file is renamed; one that came up since is replaced.
Rename(t) ==
  /\ pc[t] = "rename"
  /\ file' = [file EXCEPT ![mem[t].body] = "whole"]
  /\ At(t, "insert")
  /\ UNCHANGED <<policy, rows, heard, damaged, requests, faults>>

WriteIgnored(t) ==
  /\ pc[t] \in {"write", "rename", "insert"} /\ Fault
  /\ At(t, "insert")
  /\ UNCHANGED <<policy, rows, file, heard, damaged, requests>>
WriteFails(t) ==
  /\ pc[t] \in {"write", "rename", "insert"} /\ Fault
  /\ Goto(t, "idle", NoMem)
  /\ UNCHANGED <<policy, rows, file, heard, damaged, requests>>

Insert(t) ==
  /\ pc[t] = "insert"
  /\ rows' = Inserted(t)
  /\ Goto(t, "idle", NoMem)
  /\ UNCHANGED <<policy, file, heard, damaged, requests, faults>>

-----------------------------------------------------------------------------
\* The process ends; another one opens the Project, perhaps to replay it under another policy.
Restart ==
  /\ Fault
  /\ pc' = [t \in Task |-> "idle"] /\ mem' = [t \in Task |-> NoMem]
  /\ policy' \in [strict : BOOLEAN, capturing : BOOLEAN, ignoring : {policy.ignoring}]
  /\ UNCHANGED <<rows, file, heard, damaged, requests>>

\* Somebody else changes or removes a body file.
Damage(body) ==
  /\ file[body] = "whole" /\ Fault
  /\ \E f \in {"absent", "damaged"} : file' = [file EXCEPT ![body] = f]
  /\ damaged' = damaged \cup {body}
  /\ UNCHANGED <<policy, rows, pc, mem, heard, requests>>

Init ==
  /\ policy \in [strict : BOOLEAN, capturing : BOOLEAN, ignoring : BOOLEAN]
  /\ rows = {} /\ file = [b \in Body |-> "absent"]
  /\ pc = [t \in Task |-> "idle"] /\ mem = [t \in Task |-> NoMem]
  /\ heard = {} /\ damaged = {} /\ requests = 0 /\ faults = 0

Next == \/ \E t \in Task : \/ Ask(t) \/ Handle(t) \/ ReadBody(t) \/ Respond(t) \/ End(t)
                           \/ CaptureResponse(t) \/ PathExists(t) \/ VerifyExisting(t)
                           \/ WriteStarts(t) \/ Rename(t) \/ WriteFails(t) \/ Insert(t)
        \/ Restart
        \/ \E b \in Body : Damage(b)

Spec == Init /\ [][Next]_vars

-----------------------------------------------------------------------------
(* Properties *)

TypeOK ==
  /\ policy \in [strict : BOOLEAN, capturing : BOOLEAN, ignoring : BOOLEAN]
  /\ rows \subseteq Row
  /\ file \in [Body -> {"absent", "whole", "damaged"}]
  /\ \A t \in Task : mem[t].body \in Body \cup {NoBody} /\ mem[t].request \in Request
  /\ requests \in 0..MaxRequests /\ faults \in 0..MaxFaults

\* capture, lookup and readBody (docs/architecture/NETWORK_REPLAY.md: "Bodies are written
\* atomically before the complete row is committed"; "sensitive headers [...] are rejected"):
\* a replayed answer is one that a server gave to that request, body and status together,
\* whatever captures ran side by side or broke off; a snapshot keeps its body unless somebody
\* else took it; a strict policy lets nothing out but requests to the runtime.
ReplayIsFaithful ==
  /\ \A t \in Task : pc[t] = "fulfilled" =>
       \E h \in heard : /\ h.to = mem[t].request.to
                        /\ h.key = mem[t].request.key \/ policy.ignoring
                        /\ h.body = mem[t].body /\ h.status = mem[t].status
  /\ \A r \in rows : file[r.body] = "whole" \/ r.body \in damaged
  /\ \A t \in Task : pc[t] = "network" /\ policy.strict => Local(mem[t].request)

\* captureResponse: what one would expect of it; does not hold.  Of two captures of one new
\* body the slower may fail: its row, of another request, is then missing.
EveryCaptureIsKept ==
  [][\A t \in Task : pc[t] = "write" /\ pc'[t] = "idle" => faults' # faults]_vars
=============================================================================
