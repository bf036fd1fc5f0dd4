-------------------------- MODULE MailboxExchange --------------------------
(***************************************************************************)
(* The file mailbox between the Rust MCP client (src/mailbox.rs and the    *)
(* connection half of src/backend.rs) and the Java bridge                  *)
(* (BridgeServer.java), with the operator and the start script that touch  *)
(* the same directory.  One action is one step another process can come    *)
(* between: a system call on the directory, an await, a lock.  Processes   *)
(* may die at every step; a request identifier is used once (a UUID).      *)
(* The directory is listed atomically; contents are written before the     *)
(* name they are published under, so a staged file is one step.            *)
(***************************************************************************)
EXTENDS Naturals

CONSTANTS
    Clients,    \* MCP server processes that may use this mailbox directory
    Bridges,    \* headless or GUI bridge processes that may serve it
    Requests,   \* request UUIDs: the bound on the calls of one behaviour
    NoRequest, Nobody, Launcher

ASSUME ConstantsAssumption ==
    /\ NoRequest \notin Requests
    /\ Clients \cap Bridges = {}
    /\ {Nobody, Launcher} \cap (Clients \cup Bridges) = {}
    /\ Nobody # Launcher

VARIABLES
    (* the mailbox directory *)
    marker,         \* request named in client.pending, or NoRequest
    requestTmp,     \* requests with a request.<id>.tmp
    request,        \* request in request.json, or NoRequest
    responseTmp,    \* responses in response.<uuid>.tmp files
    response,       \* response in response.json, or NoResponse
    stop,           \* the stop sentinel exists
    clientLock,     \* owner of client.lock, or Nobody
    bridgeLock,     \* owner of bridge.lock: a bridge, a probe, or Nobody
    (* each client process *)
    cpc,            \* where its tool call stands
    stored,         \* Backend.mailbox is Some: client.lock outlives the call
    failed,         \* Mailbox.failed, the in-memory poison
    current,        \* request of its call
    received,       \* response it read
    inFlight,       \* file operation still queued after its call was dropped
    (* each bridge process *)
    bpc,            \* where its run loop stands
    closed,         \* BridgeServer.closed
    serving,        \* request it took
    reply,          \* response it is about to publish
    (* what happened, for the properties *)
    used,           \* request identifiers already generated
    runs,           \* runs[r]: how often the dispatcher was entered for r
    ran,            \* ran[r]: outcome of the native operation
    told            \* told[r]: what the MCP caller of r was told

files == <<marker, requestTmp, request, responseTmp, response, stop>>
locks == <<clientLock, bridgeLock>>
callVars == <<stored, failed, current, received, inFlight>>
clientVars == <<cpc, callVars>>
loopVars == <<closed, serving, reply>>
bridgeVars == <<bpc, loopVars>>
history == <<used, runs, ran, told>>
vars == <<files, locks, clientVars, bridgeVars, history>>

-----------------------------------------------------------------------------
(* The values the variables take. *)

Definite == {"ok", "error"}
Outcomes == Definite \cup {"unsure"}

\* What the envelope tells the client: a result, a definite error, or an error
\* whose code is mutation_uncertain or bridge_halted.
Kinds == Definite \cup {"uncertain"}
Responses == [id : Requests, kind : Kinds]
NoResponse == [id |-> NoRequest, kind |-> "uncertain"]

\* The awaited file operations of one call.
FileSteps == {"mark", "stage", "publish", "removeResponse", "removeMarker"}
\* The positions at which Mailbox.failed is set and the future can be dropped.
Exchanging == FileSteps \cup {"poll", "check", "finish"}
ClientSteps == {"off", "idle", "open", "prepare", "probe", "unprobe", "call"} \cup Exchanging

Serving == {"dispatch", "consume", "stage", "publish"}
BridgeSteps == {"off", "refused", "scan", "loop", "look", "closing"} \cup Serving

TypeOK ==
    /\ marker \in Requests \cup {NoRequest}
    /\ requestTmp \in SUBSET Requests
    /\ request \in Requests \cup {NoRequest}
    /\ responseTmp \in SUBSET Responses
    /\ response \in Responses \cup {NoResponse}
    /\ stop \in BOOLEAN
    /\ clientLock \in Clients \cup {Nobody}
    /\ bridgeLock \in Clients \cup Bridges \cup {Launcher, Nobody}
    /\ cpc \in [Clients -> ClientSteps]
    /\ stored \in [Clients -> BOOLEAN]
    /\ failed \in [Clients -> BOOLEAN]
    /\ current \in [Clients -> Requests \cup {NoRequest}]
    /\ received \in [Clients -> Responses \cup {NoResponse}]
    /\ inFlight \in [Clients -> FileSteps \cup {"none"}]
    /\ bpc \in [Bridges -> BridgeSteps]
    /\ closed \in [Bridges -> BOOLEAN]
    /\ serving \in [Bridges -> Requests \cup {NoRequest}]
    /\ reply \in [Bridges -> Responses \cup {NoResponse}]
    /\ used \in SUBSET Requests
    /\ runs \in [Requests -> Nat]
    /\ ran \in [Requests -> Outcomes \cup {"none"}]
    /\ told \in [Requests -> Definite \cup {"none", "unknown"}]

Init ==
    /\ marker = NoRequest
    /\ requestTmp = {}
    /\ request = NoRequest
    /\ responseTmp = {}
    /\ response = NoResponse
    /\ stop = FALSE
    /\ clientLock = Nobody
    /\ bridgeLock = Nobody
    /\ cpc = [c \in Clients |-> "off"]
    /\ stored = [c \in Clients |-> FALSE]
    /\ failed = [c \in Clients |-> FALSE]
    /\ current = [c \in Clients |-> NoRequest]
    /\ received = [c \in Clients |-> NoResponse]
    /\ inFlight = [c \in Clients |-> "none"]
    /\ bpc = [b \in Bridges |-> "off"]
    /\ closed = [b \in Bridges |-> FALSE]
    /\ serving = [b \in Bridges |-> NoRequest]
    /\ reply = [b \in Bridges |-> NoResponse]
    /\ used = {}
    /\ runs = [r \in Requests |-> 0]
    /\ ran = [r \in Requests |-> "none"]
    /\ told = [r \in Requests |-> "none"]

-----------------------------------------------------------------------------
(* The client: one tool call at a time, Backend is behind a mutex. *)

\* ensure_idle: no name the client counts as unfinished or stopped.
DirectoryIdle ==
    /\ marker = NoRequest
    /\ request = NoRequest
    /\ response = NoResponse
    /\ requestTmp = {}
    /\ responseTmp = {}
    /\ ~stop

Goto(c, step) == cpc' = [cpc EXCEPT ![c] = step]

StartClient(c) ==
    /\ cpc[c] = "off"
    /\ inFlight[c] = "none"
    /\ Goto(c, "idle")
    /\ failed' = [failed EXCEPT ![c] = FALSE]
    /\ current' = [current EXCEPT ![c] = NoRequest]
    /\ UNCHANGED <<files, locks, stored, received, inFlight, bridgeVars, history>>

\* A tool call with no stored mailbox.  A held client.lock is a tool error that
\* changes nothing.  The last conjunct bounds the calls of a behaviour.
OpenMailbox(c) ==
    /\ cpc[c] = "idle"
    /\ ~stored[c]
    /\ clientLock = Nobody
    /\ used # Requests
    /\ clientLock' = c
    /\ Goto(c, "open")
    /\ UNCHANGED <<files, bridgeLock, callVars, bridgeVars, history>>

ReuseMailbox(c) ==
    /\ cpc[c] = "idle"
    /\ stored[c]
    /\ used # Requests
    /\ Goto(c, "prepare")
    /\ UNCHANGED <<files, locks, callVars, bridgeVars, history>>

\* A call that ends before Mailbox.failed is set: a mailbox that was opened for
\* it is dropped, and client.lock with it.
EndUnsent(c) ==
    /\ Goto(c, "idle")
    /\ clientLock' = IF stored[c] THEN clientLock ELSE Nobody
    /\ UNCHANGED <<files, callVars, bridgeVars, history>>

\* The listing at the end of Mailbox::open.
CheckOpened(c) ==
    /\ cpc[c] = "open"
    /\ \/ /\ DirectoryIdle
          /\ Goto(c, "prepare")
          /\ UNCHANGED <<files, clientLock, callVars, bridgeVars, history>>
       \/ /\ ~DirectoryIdle
          /\ EndUnsent(c)
    /\ UNCHANGED bridgeLock

\* Mailbox::ensure_reusable, the first thing prepare does.
EnsureReusable(c) ==
    /\ cpc[c] = "prepare"
    /\ \/ /\ ~failed[c] /\ DirectoryIdle
          /\ Goto(c, "probe")
          /\ UNCHANGED <<files, clientLock, callVars, bridgeVars, history>>
       \/ /\ failed[c] \/ ~DirectoryIdle
          /\ EndUnsent(c)
    /\ UNCHANGED bridgeLock

\* bridge_running finds bridge.lock taken.  The start script opens that file
\* unshared, which makes the probe fail instead.
ProbeRunning(c) ==
    /\ cpc[c] = "probe"
    /\ \/ /\ bridgeLock \in Bridges
          /\ Goto(c, "call")
          /\ stored' = [stored EXCEPT ![c] = TRUE]
          /\ UNCHANGED <<files, clientLock, failed, current, received, inFlight,
                         bridgeVars, history>>
       \/ /\ bridgeLock = Launcher
          /\ EndUnsent(c)
    /\ UNCHANGED bridgeLock

\* bridge_running takes the free lock to learn that it is free ...
ProbeTakes(c) ==
    /\ cpc[c] = "probe"
    /\ bridgeLock = Nobody
    /\ bridgeLock' = c
    /\ Goto(c, "unprobe")
    /\ UNCHANGED <<files, clientLock, callVars, bridgeVars, history>>

\* ... and drops it: the bridge is reported as not running, nothing was sent.
ProbeDrops(c) ==
    /\ cpc[c] = "unprobe"
    /\ bridgeLock' = Nobody
    /\ EndUnsent(c)

\* call_validated up to its first await: the poison is set before the directory
\* is listed again.
BeginCall(c, r) ==
    /\ cpc[c] = "call"
    /\ r \notin used
    /\ used' = used \cup {r}
    /\ failed' = [failed EXCEPT ![c] = TRUE]
    /\ \/ /\ DirectoryIdle
          /\ Goto(c, "mark")
          /\ current' = [current EXCEPT ![c] = r]
          /\ UNCHANGED told
       \/ /\ ~DirectoryIdle
          /\ Goto(c, "idle")
          /\ told' = [told EXCEPT ![r] = "unknown"]
          /\ UNCHANGED current
    /\ UNCHANGED <<files, locks, stored, received, inFlight, bridgeVars, runs, ran>>

\* What the file operations do to the directory, whoever waits for them.
MarkFileOverwrites(r) ==
    /\ marker' = r
    /\ UNCHANGED <<requestTmp, request, responseTmp, response, stop>>

\* create_new: an existing client.pending is never replaced.
MarkFile(r) ==
    /\ marker = NoRequest
    /\ marker' = r
    /\ UNCHANGED <<requestTmp, request, responseTmp, response, stop>>

StageFile(r) ==
    /\ requestTmp' = requestTmp \cup {r}
    /\ UNCHANGED <<marker, request, responseTmp, response, stop>>

PublishFile(r) ==
    /\ requestTmp' = requestTmp \ {r}
    /\ request' = r
    /\ UNCHANGED <<marker, responseTmp, response, stop>>

RemoveResponseFile ==
    /\ response' = NoResponse
    /\ UNCHANGED <<marker, requestTmp, request, responseTmp, stop>>

RemoveMarkerFile ==
    /\ marker' = NoRequest
    /\ UNCHANGED <<requestTmp, request, responseTmp, response, stop>>

FileOperation(step, r) ==
    \/ step = "mark" /\ MarkFile(r)
    \/ step = "stage" /\ StageFile(r)
    \/ step = "publish" /\ PublishFile(r)
    \/ step = "removeResponse" /\ RemoveResponseFile
    \/ step = "removeMarker" /\ RemoveMarkerFile

AfterKeepsMarker(step) ==
    CASE step = "mark" -> "stage"
      [] step = "stage" -> "publish"
      [] step = "publish" -> "poll"
      [] step \in {"removeResponse", "removeMarker"} -> "finish"

After(step) ==
    CASE step = "mark" -> "stage"
      [] step = "stage" -> "publish"
      [] step = "publish" -> "poll"
      [] step = "removeResponse" -> "removeMarker"
      [] step = "removeMarker" -> "finish"

\* The awaited operation completes and the call goes on.
Operate(c) ==
    /\ cpc[c] \in FileSteps
    /\ FileOperation(cpc[c], current[c])
    /\ Goto(c, After(cpc[c]))
    /\ UNCHANGED <<locks, callVars, bridgeVars, history>>

ReadResponse(c) ==
    /\ cpc[c] = "poll"
    /\ response # NoResponse
    /\ received' = [received EXCEPT ![c] = response]
    /\ Goto(c, "check")
    /\ UNCHANGED <<files, locks, stored, failed, current, inFlight, bridgeVars, history>>

\* The answer is to this call, its request was consumed, its outcome definite.
AcceptsAnyKind(c) == received[c].id = current[c] /\ request = NoRequest

Acceptable(c) ==
    /\ received[c].id = current[c]
    /\ request = NoRequest
    /\ received[c].kind \in Definite

Accept(c) ==
    /\ cpc[c] = "check"
    /\ Acceptable(c)
    /\ Goto(c, "removeResponse")
    /\ UNCHANGED <<files, locks, callVars, bridgeVars, history>>

Return(c) ==
    /\ cpc[c] = "finish"
    /\ Goto(c, "idle")
    /\ failed' = [failed EXCEPT ![c] = FALSE]
    /\ told' = [told EXCEPT ![current[c]] = received[c].kind]
    /\ current' = [current EXCEPT ![c] = NoRequest]
    /\ received' = [received EXCEPT ![c] = NoResponse]
    /\ UNCHANGED <<files, locks, stored, inFlight, bridgeVars, used, runs, ran>>

\* The call ends with an error and leaves the poison and every file as they are.
EndPoisoned(c) ==
    /\ Goto(c, "idle")
    /\ told' = [told EXCEPT ![current[c]] = "unknown"]
    /\ received' = [received EXCEPT ![c] = NoResponse]
    /\ UNCHANGED <<files, locks, stored, failed, current, bridgeVars, used, runs, ran>>

\* The deadline passes; an answer may arrive between the last look and the clock.
TimeoutOnlyIfAnswered(c) ==
    /\ cpc[c] = "poll"
    /\ response # NoResponse
    /\ EndPoisoned(c)
    /\ UNCHANGED inFlight

Timeout(c) ==
    /\ cpc[c] = "poll"
    /\ EndPoisoned(c)
    /\ UNCHANGED inFlight

\* One of the checks refuses the response.  Whether the result of an otherwise
\* acceptable response satisfies validate_result is left open.
Reject(c) ==
    /\ cpc[c] = "check"
    /\ EndPoisoned(c)
    /\ UNCHANGED inFlight

\* create_new finds a marker.
MarkerTaken(c) ==
    /\ cpc[c] = "mark"
    /\ marker # NoRequest
    /\ EndPoisoned(c)
    /\ UNCHANGED inFlight

\* An I/O error, or the call's future is dropped.  Dropping does not recall an
\* operation the blocking pool already has.
Abandon(c) ==
    /\ cpc[c] \in Exchanging
    /\ EndPoisoned(c)
    /\ inFlight' \in {[inFlight EXCEPT ![c] = step] :
                         step \in {"none"} \cup (FileSteps \cap {cpc[c]})}

LateOperation(c) ==
    /\ inFlight[c] # "none"
    /\ \/ FileOperation(inFlight[c], current[c])
       \/ inFlight[c] = "mark" /\ marker # NoRequest /\ UNCHANGED files
    /\ inFlight' = [inFlight EXCEPT ![c] = "none"]
    /\ UNCHANGED <<locks, cpc, stored, failed, current, received, bridgeVars, history>>

\* The process ends, by itself or killed; locks die with their handles.  Queued
\* operations survive the runtime's shutdown by at most its 100 ms.
ExitClient(c) ==
    /\ cpc[c] # "off"
    /\ Goto(c, "off")
    /\ stored' = [stored EXCEPT ![c] = FALSE]
    /\ clientLock' = IF clientLock = c THEN Nobody ELSE clientLock
    /\ bridgeLock' = IF bridgeLock = c THEN Nobody ELSE bridgeLock
    /\ received' = [received EXCEPT ![c] = NoResponse]
    /\ told' = IF cpc[c] \in Exchanging
                 THEN [told EXCEPT ![current[c]] = "unknown"] ELSE told
    /\ inFlight' \in {[inFlight EXCEPT ![c] = step] :
                         step \in {inFlight[c]} \cup (FileSteps \cap {cpc[c]})}
    /\ UNCHANGED <<files, failed, current, bridgeVars, used, runs, ran>>

LoseOperation(c) ==
    /\ cpc[c] = "off"
    /\ inFlight[c] # "none"
    /\ inFlight' = [inFlight EXCEPT ![c] = "none"]
    /\ UNCHANGED <<files, locks, cpc, stored, failed, current, received, bridgeVars,
                   history>>

-----------------------------------------------------------------------------
(* The bridge. *)

BridgeGoto(b, step) == bpc' = [bpc EXCEPT ![b] = step]

\* The constructor's tryLock.
LockMailbox(b) ==
    /\ bpc[b] = "off"
    /\ bridgeLock = Nobody
    /\ bridgeLock' = b
    /\ BridgeGoto(b, "scan")
    /\ closed' = [closed EXCEPT ![b] = FALSE]
    /\ UNCHANGED <<files, clientLock, clientVars, serving, reply, history>>

\* tryLock finds the lock taken: "Another bridge owns the mailbox".
RefuseMailbox(b) ==
    /\ bpc[b] = "off"
    /\ bridgeLock \in Clients \cup Bridges
    /\ BridgeGoto(b, "refused")
    /\ UNCHANGED <<files, locks, clientVars, loopVars, history>>

ExitRefused(b) ==
    /\ bpc[b] = "refused"
    /\ BridgeGoto(b, "off")
    /\ UNCHANGED <<files, locks, clientVars, loopVars, history>>

\* The constructor's listing: unlike the client it accepts a client.pending.
ScanSkipsRequest == response # NoResponse \/ stop \/ requestTmp # {} \/ responseTmp # {}

Unfinished ==
    request # NoRequest \/ response # NoResponse \/ requestTmp # {} \/ responseTmp # {}

Stale == Unfinished \/ stop

ScanMailbox(b) ==
    /\ bpc[b] = "scan"
    /\ \/ Stale /\ BridgeGoto(b, "off") /\ bridgeLock' = Nobody
       \/ ~Stale /\ BridgeGoto(b, "loop") /\ UNCHANGED bridgeLock
    /\ UNCHANGED <<files, clientLock, clientVars, loopVars, history>>

StopFlagOnly(b) == closed[b]

StopRequested(b) == stop \/ closed[b]

SeeStop(b) ==
    /\ bpc[b] = "loop"
    /\ BridgeGoto(b, IF StopRequested(b) THEN "closing" ELSE "look")
    /\ UNCHANGED <<files, locks, clientVars, loopVars, history>>

NoRequestThere == request = NoRequest

RequestThere == request # NoRequest

\* The rest of an iteration, stop or not: sleep, or take the request.  An
\* unconsumed response ends the loop instead.
LookForRequest(b) ==
    /\ bpc[b] = "look"
    /\ \/ /\ ~RequestThere
          /\ BridgeGoto(b, "loop")
          /\ UNCHANGED serving
       \/ /\ RequestThere
          /\ serving' = [serving EXCEPT ![b] = request]
          /\ BridgeGoto(b, IF response = NoResponse THEN "dispatch" ELSE "closing")
    /\ UNCHANGED <<files, locks, clientVars, closed, reply, history>>

ReportsDoubtAsError(outcome, kind) ==
    kind = IF outcome = "unsure" THEN "error" ELSE outcome

\* How the loop reports an outcome.  A definite error is a BridgeException with
\* any other code or a failed read; an unexpected exception of a mutation is
\* mutation_uncertain; a result over 8 MiB is answered with bridge_halted.
Reports(outcome, kind) ==
    /\ kind \in Definite => kind = outcome
    /\ outcome = "error" => kind = "error"

\* The dispatcher runs the command.
Dispatch(b) ==
    /\ bpc[b] = "dispatch"
    /\ runs' = [runs EXCEPT ![serving[b]] = @ + 1]
    /\ \E outcome \in Outcomes, kind \in Kinds :
          /\ Reports(outcome, kind)
          /\ ran' = [ran EXCEPT ![serving[b]] = outcome]
          /\ reply' = [reply EXCEPT ![b] = [id |-> serving[b], kind |-> kind]]
    /\ BridgeGoto(b, "consume")
    /\ UNCHANGED <<files, locks, clientVars, closed, serving, used, told>>

Consume(b) ==
    /\ bpc[b] = "consume"
    /\ request' = NoRequest
    /\ BridgeGoto(b, IF request = NoRequest THEN "closing" ELSE "stage")
    /\ UNCHANGED <<marker, requestTmp, responseTmp, response, stop, locks, clientVars,
                   loopVars, history>>

StageResponse(b) ==
    /\ bpc[b] = "stage"
    /\ responseTmp' = responseTmp \cup {reply[b]}
    /\ BridgeGoto(b, "publish")
    /\ UNCHANGED <<marker, requestTmp, request, response, stop, locks, clientVars,
                   loopVars, history>>

\* An uncertain answer is the last one: the loop returns.
PublishResponse(b) ==
    /\ bpc[b] = "publish"
    /\ \/ /\ response = NoResponse
          /\ response' = reply[b]
          /\ responseTmp' = responseTmp \ {reply[b]}
          /\ BridgeGoto(b, IF reply[b].kind = "uncertain" THEN "closing" ELSE "loop")
       \/ /\ response # NoResponse
          /\ BridgeGoto(b, "closing")
          /\ UNCHANGED <<response, responseTmp>>
    /\ serving' = [serving EXCEPT ![b] = NoRequest]
    /\ reply' = [reply EXCEPT ![b] = NoResponse]
    /\ UNCHANGED <<marker, requestTmp, request, stop, locks, clientVars, closed, history>>

\* Any I/O error of the loop leaves it the same way as a stop: through close().
FailBridge(b) ==
    /\ bpc[b] \in {"loop", "look"} \cup Serving
    /\ BridgeGoto(b, "closing")
    /\ UNCHANGED <<files, locks, clientVars, loopVars, history>>

\* The lock is released by close(), by the constructor, or by the process's death.
LeaveBridge(b) ==
    /\ BridgeGoto(b, "off")
    /\ bridgeLock' = IF bridgeLock = b THEN Nobody ELSE bridgeLock
    /\ serving' = [serving EXCEPT ![b] = NoRequest]
    /\ reply' = [reply EXCEPT ![b] = NoResponse]
    /\ UNCHANGED <<files, clientLock, clientVars, closed, history>>

CloseBridge(b) ==
    /\ bpc[b] = "closing"
    /\ LeaveBridge(b)

CrashBridge(b) ==
    /\ bpc[b] # "off"
    /\ LeaveBridge(b)

\* requestStop, from the GUI.
RequestStop(b) ==
    /\ bpc[b] \in {"loop", "look"} \cup Serving
    /\ closed' = [closed EXCEPT ![b] = TRUE]
    /\ UNCHANGED <<files, locks, clientVars, bpc, serving, reply, history>>

-----------------------------------------------------------------------------
(* The operator and the start script. *)

WriteStop ==
    /\ stop' = TRUE
    /\ UNCHANGED <<marker, requestTmp, request, responseTmp, response, locks, clientVars,
                   bridgeVars, history>>

LauncherProbes ==
    /\ bridgeLock = Nobody
    /\ bridgeLock' = Launcher
    /\ UNCHANGED <<files, clientLock, clientVars, bridgeVars, history>>

\* The stop sentinel is removed unless an exchange left anything behind.
LauncherClears ==
    /\ bridgeLock = Launcher
    /\ bridgeLock' = Nobody
    /\ stop' = (stop /\ (marker # NoRequest \/ Unfinished))
    /\ UNCHANGED <<marker, requestTmp, request, responseTmp, response, clientLock,
                   clientVars, bridgeVars, history>>

\* docs/recovery.md: with both processes gone the operator moves the stale files
\* away, one after the other, the pending file last.
Recover ==
    /\ clientLock = Nobody
    /\ bridgeLock = Nobody
    /\ \A c \in Clients : inFlight[c] = "none"
    /\ \/ /\ requestTmp' = {}
          /\ UNCHANGED <<marker, request, responseTmp, response, stop>>
       \/ /\ request' = NoRequest
          /\ UNCHANGED <<marker, requestTmp, responseTmp, response, stop>>
       \/ /\ responseTmp' = {}
          /\ UNCHANGED <<marker, requestTmp, request, response, stop>>
       \/ RemoveResponseFile
       \/ /\ request = NoRequest /\ response = NoResponse
          /\ requestTmp = {} /\ responseTmp = {}
          /\ RemoveMarkerFile
    /\ UNCHANGED <<locks, clientVars, bridgeVars, history>>

-----------------------------------------------------------------------------

\* The steps of a call once it has begun; the user is free never to call.
ClientStep(c) ==
    \/ CheckOpened(c) \/ EnsureReusable(c)
    \/ ProbeRunning(c) \/ ProbeTakes(c) \/ ProbeDrops(c)
    \/ \E r \in Requests : BeginCall(c, r)
    \/ Operate(c) \/ MarkerTaken(c)
    \/ ReadResponse(c) \/ Accept(c) \/ Reject(c) \/ Timeout(c) \/ Return(c)

ClientEnvironment(c) ==
    \/ StartClient(c) \/ OpenMailbox(c) \/ ReuseMailbox(c)
    \/ Abandon(c) \/ ExitClient(c) \/ LoseOperation(c)

BridgeStep(b) ==
    \/ ExitRefused(b) \/ ScanMailbox(b)
    \/ SeeStop(b) \/ LookForRequest(b) \/ Dispatch(b) \/ Consume(b)
    \/ StageResponse(b) \/ PublishResponse(b) \/ CloseBridge(b)

BridgeEnvironment(b) ==
    \/ LockMailbox(b) \/ RefuseMailbox(b)
    \/ FailBridge(b) \/ CrashBridge(b) \/ RequestStop(b)

Next ==
    \/ \E c \in Clients : ClientStep(c) \/ LateOperation(c) \/ ClientEnvironment(c)
    \/ \E b \in Bridges : BridgeStep(b) \/ BridgeEnvironment(b)
    \/ WriteStop \/ LauncherProbes \/ LauncherClears \/ Recover

Spec == Init /\ [][Next]_vars

\* Each process takes its next step unless it dies: the client polls against a
\* deadline, a native command ends, the script closes its handle.
Fairness ==
    /\ \A c \in Clients : WF_vars(ClientStep(c)) /\ WF_vars(LateOperation(c))
    /\ \A b \in Bridges : WF_vars(BridgeStep(b))
    /\ WF_vars(LauncherClears)

FairSpec == Spec /\ Fairness

-----------------------------------------------------------------------------
(* Safety. *)

\* No request is handed to the dispatcher twice, whichever bridges serve the
\* mailbox one after the other and wherever they die.
AtMostOnce == \A r \in Requests : runs[r] <= 1

\* A definite answer is the native outcome of the caller's own request, never
\* that of an earlier one left in the mailbox.
TruthfulAnswer ==
    \A r \in Requests : told[r] \in Definite => told[r] = ran[r]

\* Every file of an exchange, and a command a bridge is working on, belong to
\* the request client.pending names; so there is one exchange at a time.
OneExchange ==
    LET names(r) == r = marker
    IN  /\ \A r \in requestTmp : names(r)
        /\ request # NoRequest => names(request)
        /\ \A m \in responseTmp : names(m.id)
        /\ response # NoResponse => names(response.id)
        /\ \A b \in Bridges : bpc[b] \in Serving => names(serving[b])

\* client.pending is taken away only once the native outcome of its request is
\* definite and nothing of the exchange is left, or when no process has a lock.
GuardOutlivesDoubt ==
    [][(marker # NoRequest /\ marker' # marker) =>
          \/ /\ marker' = NoRequest
             /\ ran[marker] \in Definite
             /\ request = NoRequest /\ response = NoResponse
             /\ \A b \in Bridges : bpc[b] \notin Serving
          \/ clientLock = Nobody /\ bridgeLock = Nobody]_vars

-----------------------------------------------------------------------------
(* What the documents say and the code does not do. *)

\* docs/bridge-protocol.md:7: a cancellation or a crash of the client prevents
\* automatic reuse; mailbox.rs:146: a cancellation leaves the marker in place.
\* So a call whose command ran and that ends unanswered leaves client.pending.
UnansweredStaysGuarded ==
    [][\A r \in Requests :
          (told[r] = "none" /\ told'[r] = "unknown" /\ ran[r] # "none") => marker' = r]_vars

-----------------------------------------------------------------------------
(* Liveness, under FairSpec. *)

\* Every tool call that began ends: with an answer, an error, or its process.
CallReturns ==
    \A c \in Clients : cpc[c] \notin {"off", "idle"} ~> cpc[c] \in {"off", "idle"}

\* A published request does not stay unnoticed by a bridge that holds the lock.
RequestNoticed ==
    \A r \in Requests : (request = r /\ bridgeLock \in Bridges)
                            ~> (request # r \/ bridgeLock \notin Bridges)

\* The stop sentinel ends the serving bridge, however busy its client keeps it.
StopHonoured ==
    \A b \in Bridges : (stop /\ bpc[b] = "loop") ~> bpc[b] = "off"

-----------------------------------------------------------------------------
\* The mailbox implements at-most-once calls under a guard.
Call == INSTANCE GuardedCall WITH
            guarded <- marker,
            attached <- clientLock # Nobody \/ bridgeLock # Nobody

ImplementsGuardedCall == Call!Spec
=============================================================================
