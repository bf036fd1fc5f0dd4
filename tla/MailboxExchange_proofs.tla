----------------------- MODULE MailboxExchange_proofs -----------------------
(***************************************************************************)
(* Proofs about the file mailbox, for any clients, bridges and requests:   *)
(* type correctness, at-most-once execution, truthful answers, a single    *)
(* exchange at a time, and the implementation of GuardedCall.              *)
(***************************************************************************)
EXTENDS MailboxExchange, TLAPS

-----------------------------------------------------------------------------
(* The inductive invariant. *)

\* c's call stands at the file operation, or left it queued.
At(c, step) == cpc[c] = step \/ inFlight[c] = step

\* The positions between creating client.pending and removing it.
Guarding == {"stage", "publish", "poll", "check", "removeResponse", "removeMarker"}

NobodyServes == \A b \in Bridges : bpc[b] \notin Serving

NoFiles ==
    /\ requestTmp = {}
    /\ request = NoRequest
    /\ responseTmp = {}
    /\ response = NoResponse

\* What a response says is what happened.
Faithful(m) == m.kind \in Definite => ran[m.id] = m.kind

\* Who must own which lock.
LocksHeld ==
    /\ \A c \in Clients :
          /\ cpc[c] \notin {"off", "idle"} => clientLock = c
          /\ stored[c] => clientLock = c /\ cpc[c] # "off"
          /\ cpc[c] \in {"call"} \cup Exchanging => stored[c]
          /\ cpc[c] = "unprobe" => bridgeLock = c
    /\ \A b \in Bridges : bpc[b] \notin {"off", "refused"} => bridgeLock = b

\* A queued operation belongs to a process that begins no other call.
QueuedPoisoned ==
    \A c \in Clients : inFlight[c] # "none" =>
        /\ cpc[c] \in {"off", "idle", "prepare"}
        /\ failed[c]
        /\ cpc[c] # "off" => stored[c]

\* Each call has an identifier of its own, still unanswered while it lasts.
Identified ==
    /\ marker \in used \cup {NoRequest}
    /\ \A c \in Clients :
          /\ current[c] \in used \cup {NoRequest}
          /\ cpc[c] \in Exchanging \/ inFlight[c] # "none" => current[c] # NoRequest
          /\ cpc[c] \in Exchanging => told[current[c]] = "none"
    /\ \A c, d \in Clients :
          current[c] = current[d] /\ current[c] # NoRequest => c = d

\* runs and ran count and describe the same executions.
Counted ==
    \A r \in Requests :
        /\ runs[r] \in {0, 1}
        /\ runs[r] = 0 <=> ran[r] = "none"
        /\ r \notin used => runs[r] = 0 /\ told[r] = "none"
        /\ told[r] \in Definite => told[r] = ran[r]

\* An exchange is in at most one of the four kinds of file.
OnePlace ==
    /\ request # NoRequest =>
          requestTmp = {} /\ responseTmp = {} /\ response = NoResponse
    /\ requestTmp # {} => responseTmp = {} /\ response = NoResponse
    /\ responseTmp # {} => response = NoResponse
    /\ response # NoResponse => response \in Responses /\ Faithful(response)
    /\ \A m \in responseTmp : Faithful(m)

\* What each position of a call implies about the directory.
CallStands ==
    \A c \in Clients :
        /\ \A step \in Guarding : At(c, step) => marker = current[c]
        /\ At(c, "mark") => runs[current[c]] = 0 /\ marker # current[c]
        /\ At(c, "stage") => runs[current[c]] = 0 /\ NoFiles /\ NobodyServes
        /\ At(c, "publish") => runs[current[c]] = 0 /\ requestTmp = {current[c]}
        /\ cpc[c] \in {"check", "removeResponse"} =>
              response = received[c] /\ response # NoResponse
        /\ At(c, "removeResponse") =>
              response # NoResponse /\ ran[current[c]] \in Definite
        /\ At(c, "removeMarker") =>
              NoFiles /\ NobodyServes /\ ran[current[c]] \in Definite
        /\ cpc[c] \in {"removeResponse", "removeMarker", "finish"} =>
              received[c].kind \in Definite /\ ran[current[c]] = received[c].kind
        /\ cpc[c] = "finish" => marker # current[c]

\* What each position of the loop implies about the directory.
BridgeStands ==
    \A b \in Bridges :
        /\ bpc[b] \in {"loop", "look"} => responseTmp = {}
        /\ bpc[b] \in {"loop", "look", "dispatch"} /\ request # NoRequest =>
              runs[request] = 0
        /\ bpc[b] \in Serving => serving[b] \in Requests
        /\ bpc[b] \in {"dispatch", "consume"} => request = serving[b]
        /\ bpc[b] \in {"consume", "stage", "publish"} =>
              reply[b] \in Responses /\ reply[b].id = serving[b] /\ Faithful(reply[b])
        /\ bpc[b] = "stage" => NoFiles
        /\ bpc[b] = "publish" => responseTmp = {reply[b]}

IInv ==
    /\ TypeOK
    /\ LocksHeld
    /\ QueuedPoisoned
    /\ Identified
    /\ Counted
    /\ OneExchange
    /\ OnePlace
    /\ CallStands
    /\ BridgeStands
-----------------------------------------------------------------------------
(* Every step preserves the invariant.  The value sets, the groups of       *)
(* variables and the parts of the invariant are expanded throughout.        *)

USE ConstantsAssumption
USE DEF Definite, Outcomes, Kinds, Responses, NoResponse, FileSteps, Exchanging,
        ClientSteps, Serving, BridgeSteps, files, locks, callVars, clientVars,
        loopVars, bridgeVars, history,
        LocksHeld, QueuedPoisoned, Identified, Counted, OneExchange, OnePlace,
        CallStands, BridgeStands, At, Guarding, NobodyServes, NoFiles, Faithful

(* What the invariant says at the four turning points of an exchange.       *)

\* With the request staged nothing else of the exchange exists yet.
LEMMA StagedAlone ==
  ASSUME IInv, NEW c \in Clients, At(c, "publish")
  PROVE  /\ current[c] \in Requests /\ marker = current[c]
         /\ runs[current[c]] = 0
         /\ requestTmp = {current[c]} /\ request = NoRequest
         /\ responseTmp = {} /\ response = NoResponse
         /\ NobodyServes
<1>1. /\ current[c] \in Requests /\ marker = current[c] /\ runs[current[c]] = 0
      /\ requestTmp = {current[c]}
  BY DEF IInv, TypeOK
<1>2. request = NoRequest /\ responseTmp = {} /\ response = NoResponse
  BY <1>1 DEF IInv, TypeOK
<1>3. NobodyServes
  BY <1>1, <1>2 DEF IInv, TypeOK
<1> QED
  BY <1>1, <1>2, <1>3

\* A request about to be dispatched has not run, and is the guarded one.
LEMMA DispatchedFresh ==
  ASSUME IInv, NEW b \in Bridges, bpc[b] = "dispatch"
  PROVE  /\ serving[b] \in Requests /\ request = serving[b] /\ marker = serving[b]
         /\ runs[serving[b]] = 0
         /\ requestTmp = {} /\ responseTmp = {} /\ response = NoResponse
<1>1. serving[b] \in Requests /\ request = serving[b] /\ marker = serving[b]
  BY DEF IInv, TypeOK
<1> QED
  BY <1>1 DEF IInv, TypeOK

\* A staged response is all there is of the exchange.
LEMMA ReplyAlone ==
  ASSUME IInv, NEW b \in Bridges, bpc[b] = "publish"
  PROVE  /\ reply[b] \in Responses /\ reply[b].id = marker /\ Faithful(reply[b])
         /\ responseTmp = {reply[b]}
         /\ request = NoRequest /\ requestTmp = {} /\ response = NoResponse
<1>1. reply[b] \in Responses /\ reply[b].id = marker /\ Faithful(reply[b])
      /\ responseTmp = {reply[b]}
  BY DEF IInv, TypeOK
<1> QED
  BY <1>1 DEF IInv, TypeOK

\* A published response is all there is of the exchange.
LEMMA AnswerAlone ==
  ASSUME IInv, response # NoResponse
  PROVE  /\ request = NoRequest /\ requestTmp = {} /\ responseTmp = {}
         /\ NobodyServes
<1>1. request = NoRequest /\ requestTmp = {} /\ responseTmp = {}
  BY DEF IInv, TypeOK
<1>2. NobodyServes
  BY <1>1 DEF IInv, TypeOK
<1> QED
  BY <1>1, <1>2

LEMMA StartClientPreserves ==
  ASSUME IInv, NEW c \in Clients, StartClient(c)
  PROVE  IInv'
BY SMTT(60) DEF IInv, TypeOK, StartClient, Goto

LEMMA OpenMailboxPreserves ==
  ASSUME IInv, NEW c \in Clients, OpenMailbox(c)
  PROVE  IInv'
BY SMTT(60) DEF IInv, TypeOK, OpenMailbox, Goto

LEMMA ReuseMailboxPreserves ==
  ASSUME IInv, NEW c \in Clients, ReuseMailbox(c)
  PROVE  IInv'
BY SMTT(60) DEF IInv, TypeOK, ReuseMailbox, Goto

LEMMA CheckOpenedPreserves ==
  ASSUME IInv, NEW c \in Clients, CheckOpened(c)
  PROVE  IInv'
<1>0. TypeOK
  BY DEF IInv
<1>1. TypeOK'
  BY <1>0, SMTT(60) DEF TypeOK, CheckOpened, Goto, EndUnsent, DirectoryIdle
<1>2. LocksHeld'
  BY SMTT(60) DEF IInv, TypeOK, CheckOpened, Goto, EndUnsent, DirectoryIdle
<1>3. QueuedPoisoned'
  BY SMTT(60) DEF IInv, TypeOK, CheckOpened, Goto, EndUnsent, DirectoryIdle
<1>4. Identified'
  BY SMTT(60) DEF IInv, TypeOK, CheckOpened, Goto, EndUnsent, DirectoryIdle
<1>5. Counted'
  BY SMTT(60) DEF IInv, TypeOK, CheckOpened, Goto, EndUnsent, DirectoryIdle
<1>6. OneExchange'
  BY SMTT(60) DEF IInv, TypeOK, CheckOpened, Goto, EndUnsent, DirectoryIdle
<1>7. OnePlace'
  BY SMTT(60) DEF IInv, TypeOK, CheckOpened, Goto, EndUnsent, DirectoryIdle
<1>8. CallStands'
  BY SMTT(60) DEF IInv, TypeOK, CheckOpened, Goto, EndUnsent, DirectoryIdle
<1>9. BridgeStands'
  BY SMTT(60) DEF IInv, TypeOK, CheckOpened, Goto, EndUnsent, DirectoryIdle
<1> QED
  BY <1>1, <1>2, <1>3, <1>4, <1>5, <1>6, <1>7, <1>8, <1>9 DEF IInv

LEMMA EnsureReusablePreserves ==
  ASSUME IInv, NEW c \in Clients, EnsureReusable(c)
  PROVE  IInv'
<1>0. TypeOK
  BY DEF IInv
<1>1. CASE ~failed[c] /\ DirectoryIdle
  BY <1>1, SMTT(60) DEF IInv, TypeOK, EnsureReusable, Goto, EndUnsent
<1>2. CASE failed[c] \/ ~DirectoryIdle
  <2>1. TypeOK'
    BY <1>0, <1>2 DEF TypeOK, EnsureReusable, Goto, EndUnsent
  <2>2. /\ LocksHeld' /\ QueuedPoisoned' /\ Identified' /\ Counted'
        /\ OneExchange' /\ OnePlace' /\ BridgeStands'
    BY <1>2, SMTT(60) DEF IInv, TypeOK, EnsureReusable, Goto, EndUnsent
  <2>3. CallStands'
    BY <1>2, SMTT(60) DEF IInv, TypeOK, EnsureReusable, Goto, EndUnsent
  <2> QED
    BY <2>1, <2>2, <2>3 DEF IInv
<1> QED
  BY <1>1, <1>2 DEF EnsureReusable

LEMMA ProbeRunningPreserves ==
  ASSUME IInv, NEW c \in Clients, ProbeRunning(c)
  PROVE  IInv'
<1>0. TypeOK
  BY DEF IInv
<1>1. TypeOK'
  <2>1. CASE bridgeLock = Launcher
    BY <1>0, <2>1 DEF TypeOK, ProbeRunning, Goto, EndUnsent
  <2>2. CASE bridgeLock \in Bridges
    BY <1>0, <2>2 DEF TypeOK, ProbeRunning, Goto
  <2> QED
    BY <2>1, <2>2 DEF ProbeRunning
<1>2. LocksHeld'
  BY SMTT(60) DEF IInv, TypeOK, ProbeRunning, Goto, EndUnsent
<1>3. QueuedPoisoned'
  BY SMTT(60) DEF IInv, TypeOK, ProbeRunning, Goto, EndUnsent
<1>4. Identified'
  BY SMTT(60) DEF IInv, TypeOK, ProbeRunning, Goto, EndUnsent
<1>5. Counted'
  BY SMTT(60) DEF IInv, TypeOK, ProbeRunning, Goto, EndUnsent
<1>6. OneExchange'
  BY SMTT(60) DEF IInv, TypeOK, ProbeRunning, Goto, EndUnsent
<1>7. OnePlace'
  BY SMTT(60) DEF IInv, TypeOK, ProbeRunning, Goto, EndUnsent
<1>8. CallStands'
  BY SMTT(60) DEF IInv, TypeOK, ProbeRunning, Goto, EndUnsent
<1>9. BridgeStands'
  BY SMTT(60) DEF IInv, TypeOK, ProbeRunning, Goto, EndUnsent
<1> QED
  BY <1>1, <1>2, <1>3, <1>4, <1>5, <1>6, <1>7, <1>8, <1>9 DEF IInv

LEMMA ProbeTakesPreserves ==
  ASSUME IInv, NEW c \in Clients, ProbeTakes(c)
  PROVE  IInv'
BY SMTT(60) DEF IInv, TypeOK, ProbeTakes, Goto

LEMMA ProbeDropsPreserves ==
  ASSUME IInv, NEW c \in Clients, ProbeDrops(c)
  PROVE  IInv'
BY SMTT(60) DEF IInv, TypeOK, ProbeDrops, Goto, EndUnsent

LEMMA BeginCallPreserves ==
  ASSUME IInv, NEW c \in Clients, NEW r \in Requests, BeginCall(c, r)
  PROVE  IInv'
<1>0. TypeOK
  BY DEF IInv
<1>1. TypeOK'
  BY <1>0, SMTT(60) DEF TypeOK, BeginCall, DirectoryIdle, Goto
<1>2. LocksHeld'
  BY SMTT(60) DEF IInv, TypeOK, BeginCall, DirectoryIdle, Goto
<1>3. QueuedPoisoned'
  BY SMTT(60) DEF IInv, TypeOK, BeginCall, DirectoryIdle, Goto
<1>4. Identified'
  BY SMTT(60) DEF IInv, TypeOK, BeginCall, DirectoryIdle, Goto
<1>5. Counted'
  BY SMTT(60) DEF IInv, TypeOK, BeginCall, DirectoryIdle, Goto
<1>6. OneExchange'
  BY SMTT(60) DEF IInv, TypeOK, BeginCall, DirectoryIdle, Goto
<1>7. OnePlace'
  BY SMTT(60) DEF IInv, TypeOK, BeginCall, DirectoryIdle, Goto
<1>8. CallStands'
  BY SMTT(60) DEF IInv, TypeOK, BeginCall, DirectoryIdle, Goto
<1>9. BridgeStands'
  BY SMTT(60) DEF IInv, TypeOK, BeginCall, DirectoryIdle, Goto
<1> QED
  BY <1>1, <1>2, <1>3, <1>4, <1>5, <1>6, <1>7, <1>8, <1>9 DEF IInv

LEMMA OperatePreserves ==
  ASSUME IInv, NEW c \in Clients, Operate(c)
  PROVE  IInv'
<1>1. CASE cpc[c] = "mark"
  BY <1>1, SMTT(60) DEF IInv, TypeOK, Operate, FileOperation, MarkFile, After, Goto
<1>2. CASE cpc[c] = "stage"
  BY <1>2, SMTT(60) DEF IInv, TypeOK, Operate, FileOperation, StageFile, After, Goto
<1>3. CASE cpc[c] = "publish"
  <2>0. TypeOK
    BY DEF IInv
  <2>. /\ current[c] \in Requests /\ marker = current[c]
       /\ runs[current[c]] = 0
       /\ requestTmp = {current[c]} /\ request = NoRequest
       /\ responseTmp = {} /\ response = NoResponse
       /\ NobodyServes
    BY <1>3, StagedAlone
  <2>1. TypeOK'
    BY <1>3, <2>0, SMTT(60) DEF TypeOK, Operate, FileOperation, PublishFile, After, Goto
  <2>2. LocksHeld'
    BY <1>3, SMTT(60) DEF IInv, TypeOK, Operate, FileOperation, PublishFile, After, Goto
  <2>3. QueuedPoisoned'
    BY <1>3, SMTT(60) DEF IInv, TypeOK, Operate, FileOperation, PublishFile, After, Goto
  <2>4. Identified'
    BY <1>3, SMTT(60) DEF IInv, TypeOK, Operate, FileOperation, PublishFile, After, Goto
  <2>5. Counted'
    BY <1>3, SMTT(60) DEF IInv, TypeOK, Operate, FileOperation, PublishFile, After, Goto
  <2>6. OneExchange'
    BY <1>3, SMTT(60) DEF IInv, TypeOK, Operate, FileOperation, PublishFile, After, Goto
  <2>7. OnePlace'
    BY <1>3, SMTT(60) DEF IInv, TypeOK, Operate, FileOperation, PublishFile, After, Goto
  <2>8. CallStands'
    BY <1>3, SMTT(60) DEF IInv, TypeOK, Operate, FileOperation, PublishFile, After, Goto
  <2>9. BridgeStands'
    BY <1>3, SMTT(60) DEF IInv, TypeOK, Operate, FileOperation, PublishFile, After, Goto
  <2> QED
    BY <2>1, <2>2, <2>3, <2>4, <2>5, <2>6, <2>7, <2>8, <2>9 DEF IInv
<1>4. CASE cpc[c] = "removeResponse"
  <2>0. TypeOK
    BY DEF IInv
  <2>. /\ request = NoRequest /\ requestTmp = {} /\ responseTmp = {}
       /\ NobodyServes
    BY <1>4, AnswerAlone DEF IInv
  <2>1. TypeOK'
    BY <1>4, <2>0, SMTT(60) DEF TypeOK, Operate, FileOperation, RemoveResponseFile, After, Goto
  <2>2. LocksHeld'
    BY <1>4, SMTT(60) DEF IInv, TypeOK, Operate, FileOperation, RemoveResponseFile, After, Goto
  <2>3. QueuedPoisoned'
    BY <1>4, SMTT(60) DEF IInv, TypeOK, Operate, FileOperation, RemoveResponseFile, After, Goto
  <2>4. Identified'
    BY <1>4, SMTT(60) DEF IInv, TypeOK, Operate, FileOperation, RemoveResponseFile, After, Goto
  <2>5. Counted'
    BY <1>4, SMTT(60) DEF IInv, TypeOK, Operate, FileOperation, RemoveResponseFile, After, Goto
  <2>6. OneExchange'
    BY <1>4, SMTT(60) DEF IInv, TypeOK, Operate, FileOperation, RemoveResponseFile, After, Goto
  <2>7. OnePlace'
    BY <1>4, SMTT(60) DEF IInv, TypeOK, Operate, FileOperation, RemoveResponseFile, After, Goto
  <2>8. CallStands'
    BY <1>4, SMTT(60) DEF IInv, TypeOK, Operate, FileOperation, RemoveResponseFile, After, Goto
  <2>9. BridgeStands'
    BY <1>4, SMTT(60) DEF IInv, TypeOK, Operate, FileOperation, RemoveResponseFile, After, Goto
  <2> QED
    BY <2>1, <2>2, <2>3, <2>4, <2>5, <2>6, <2>7, <2>8, <2>9 DEF IInv
<1>5. CASE cpc[c] = "removeMarker"
  BY <1>5, SMTT(60) DEF IInv, TypeOK, Operate, FileOperation, RemoveMarkerFile, After, Goto
<1> QED
  BY <1>1, <1>2, <1>3, <1>4, <1>5 DEF Operate

LEMMA ReadResponsePreserves ==
  ASSUME IInv, NEW c \in Clients, ReadResponse(c)
  PROVE  IInv'
BY SMTT(60) DEF IInv, TypeOK, ReadResponse, Goto

LEMMA AcceptPreserves ==
  ASSUME IInv, NEW c \in Clients, Accept(c)
  PROVE  IInv'
BY SMTT(60) DEF IInv, TypeOK, Accept, Acceptable, Goto

LEMMA ReturnPreserves ==
  ASSUME IInv, NEW c \in Clients, Return(c)
  PROVE  IInv'
BY SMTT(60) DEF IInv, TypeOK, Return, Goto

LEMMA TimeoutPreserves ==
  ASSUME IInv, NEW c \in Clients, Timeout(c)
  PROVE  IInv'
BY SMTT(60) DEF IInv, TypeOK, Timeout, Goto, EndPoisoned

LEMMA RejectPreserves ==
  ASSUME IInv, NEW c \in Clients, Reject(c)
  PROVE  IInv'
BY SMTT(60) DEF IInv, TypeOK, Reject, Goto, EndPoisoned

LEMMA MarkerTakenPreserves ==
  ASSUME IInv, NEW c \in Clients, MarkerTaken(c)
  PROVE  IInv'
BY SMTT(60) DEF IInv, TypeOK, MarkerTaken, Goto, EndPoisoned

LEMMA AbandonPreserves ==
  ASSUME IInv, NEW c \in Clients, Abandon(c)
  PROVE  IInv'
BY SMTT(60) DEF IInv, TypeOK, Abandon, Goto, EndPoisoned

LEMMA LateOperationPreserves ==
  ASSUME IInv, NEW c \in Clients, LateOperation(c)
  PROVE  IInv'
<1>1. CASE inFlight[c] = "mark"
  BY <1>1, SMTT(60) DEF IInv, TypeOK, LateOperation, FileOperation, MarkFile
<1>2. CASE inFlight[c] = "stage"
  BY <1>2, SMTT(60) DEF IInv, TypeOK, LateOperation, FileOperation, StageFile
<1>3. CASE inFlight[c] = "publish"
  <2>0. TypeOK
    BY DEF IInv
  <2>. /\ current[c] \in Requests /\ marker = current[c]
       /\ runs[current[c]] = 0
       /\ requestTmp = {current[c]} /\ request = NoRequest
       /\ responseTmp = {} /\ response = NoResponse
       /\ NobodyServes
    BY <1>3, StagedAlone
  <2>1. TypeOK'
    BY <1>3, <2>0, SMTT(60) DEF TypeOK, LateOperation, FileOperation, PublishFile
  <2>2. LocksHeld'
    BY <1>3, SMTT(60) DEF IInv, TypeOK, LateOperation, FileOperation, PublishFile
  <2>3. QueuedPoisoned'
    BY <1>3, SMTT(60) DEF IInv, TypeOK, LateOperation, FileOperation, PublishFile
  <2>4. Identified'
    BY <1>3, SMTT(60) DEF IInv, TypeOK, LateOperation, FileOperation, PublishFile
  <2>5. Counted'
    BY <1>3, SMTT(60) DEF IInv, TypeOK, LateOperation, FileOperation, PublishFile
  <2>6. OneExchange'
    BY <1>3, SMTT(60) DEF IInv, TypeOK, LateOperation, FileOperation, PublishFile
  <2>7. OnePlace'
    BY <1>3, SMTT(60) DEF IInv, TypeOK, LateOperation, FileOperation, PublishFile
  <2>8. CallStands'
    BY <1>3, SMTT(60) DEF IInv, TypeOK, LateOperation, FileOperation, PublishFile
  <2>9. BridgeStands'
    BY <1>3, SMTT(60) DEF IInv, TypeOK, LateOperation, FileOperation, PublishFile
  <2> QED
    BY <2>1, <2>2, <2>3, <2>4, <2>5, <2>6, <2>7, <2>8, <2>9 DEF IInv
<1>4. CASE inFlight[c] = "removeResponse"
  <2>0. TypeOK
    BY DEF IInv
  <2>. /\ request = NoRequest /\ requestTmp = {} /\ responseTmp = {}
       /\ NobodyServes
    BY <1>4, AnswerAlone DEF IInv
  <2>1. TypeOK'
    BY <1>4, <2>0, SMTT(60) DEF TypeOK, LateOperation, FileOperation, RemoveResponseFile
  <2>2. LocksHeld'
    BY <1>4, SMTT(60) DEF IInv, TypeOK, LateOperation, FileOperation, RemoveResponseFile
  <2>3. QueuedPoisoned'
    BY <1>4, SMTT(60) DEF IInv, TypeOK, LateOperation, FileOperation, RemoveResponseFile
  <2>4. Identified'
    BY <1>4, SMTT(60) DEF IInv, TypeOK, LateOperation, FileOperation, RemoveResponseFile
  <2>5. Counted'
    BY <1>4, SMTT(60) DEF IInv, TypeOK, LateOperation, FileOperation, RemoveResponseFile
  <2>6. OneExchange'
    BY <1>4, SMTT(60) DEF IInv, TypeOK, LateOperation, FileOperation, RemoveResponseFile
  <2>7. OnePlace'
    BY <1>4, SMTT(60) DEF IInv, TypeOK, LateOperation, FileOperation, RemoveResponseFile
  <2>8. CallStands'
    BY <1>4, SMTT(60) DEF IInv, TypeOK, LateOperation, FileOperation, RemoveResponseFile
  <2>9. BridgeStands'
    BY <1>4, SMTT(60) DEF IInv, TypeOK, LateOperation, FileOperation, RemoveResponseFile
  <2> QED
    BY <2>1, <2>2, <2>3, <2>4, <2>5, <2>6, <2>7, <2>8, <2>9 DEF IInv
<1>5. CASE inFlight[c] = "removeMarker"
  BY <1>5, SMTT(60) DEF IInv, TypeOK, LateOperation, FileOperation, RemoveMarkerFile
<1> QED
  BY <1>1, <1>2, <1>3, <1>4, <1>5 DEF LateOperation, IInv, TypeOK

LEMMA ExitClientPreserves ==
  ASSUME IInv, NEW c \in Clients, ExitClient(c)
  PROVE  IInv'
BY SMTT(60) DEF IInv, TypeOK, ExitClient, Goto

LEMMA LoseOperationPreserves ==
  ASSUME IInv, NEW c \in Clients, LoseOperation(c)
  PROVE  IInv'
BY SMTT(60) DEF IInv, TypeOK, LoseOperation

LEMMA LockMailboxPreserves ==
  ASSUME IInv, NEW b \in Bridges, LockMailbox(b)
  PROVE  IInv'
BY SMTT(60) DEF IInv, TypeOK, LockMailbox, BridgeGoto

LEMMA RefuseMailboxPreserves ==
  ASSUME IInv, NEW b \in Bridges, RefuseMailbox(b)
  PROVE  IInv'
BY SMTT(60) DEF IInv, TypeOK, RefuseMailbox, BridgeGoto

LEMMA ExitRefusedPreserves ==
  ASSUME IInv, NEW b \in Bridges, ExitRefused(b)
  PROVE  IInv'
BY SMTT(60) DEF IInv, TypeOK, ExitRefused, BridgeGoto

LEMMA ScanMailboxPreserves ==
  ASSUME IInv, NEW b \in Bridges, ScanMailbox(b)
  PROVE  IInv'
BY SMTT(60) DEF IInv, TypeOK, ScanMailbox, Stale, Unfinished, BridgeGoto

LEMMA SeeStopPreserves ==
  ASSUME IInv, NEW b \in Bridges, SeeStop(b)
  PROVE  IInv'
BY SMTT(60) DEF IInv, TypeOK, SeeStop, StopRequested, BridgeGoto

LEMMA LookForRequestPreserves ==
  ASSUME IInv, NEW b \in Bridges, LookForRequest(b)
  PROVE  IInv'
<1>0. TypeOK
  BY DEF IInv
<1>1. TypeOK'
  BY <1>0, SMTT(60) DEF TypeOK, LookForRequest, RequestThere, BridgeGoto
<1>2. LocksHeld'
  BY SMTT(60) DEF IInv, TypeOK, LookForRequest, RequestThere, BridgeGoto
<1>3. QueuedPoisoned'
  BY SMTT(60) DEF IInv, TypeOK, LookForRequest, RequestThere, BridgeGoto
<1>4. Identified'
  BY SMTT(60) DEF IInv, TypeOK, LookForRequest, RequestThere, BridgeGoto
<1>5. Counted'
  BY SMTT(60) DEF IInv, TypeOK, LookForRequest, RequestThere, BridgeGoto
<1>6. OneExchange'
  BY SMTT(60) DEF IInv, TypeOK, LookForRequest, RequestThere, BridgeGoto
<1>7. OnePlace'
  BY SMTT(60) DEF IInv, TypeOK, LookForRequest, RequestThere, BridgeGoto
<1>8. CallStands'
  BY SMTT(60) DEF IInv, TypeOK, LookForRequest, RequestThere, BridgeGoto
<1>9. BridgeStands'
  BY SMTT(60) DEF IInv, TypeOK, LookForRequest, RequestThere, BridgeGoto
<1> QED
  BY <1>1, <1>2, <1>3, <1>4, <1>5, <1>6, <1>7, <1>8, <1>9 DEF IInv

LEMMA DispatchPreserves ==
  ASSUME IInv, NEW b \in Bridges, Dispatch(b)
  PROVE  IInv'
<1>0. TypeOK
  BY DEF IInv
<1>. /\ serving[b] \in Requests /\ request = serving[b] /\ marker = serving[b]
     /\ runs[serving[b]] = 0
     /\ requestTmp = {} /\ responseTmp = {} /\ response = NoResponse
  BY DispatchedFresh DEF Dispatch
<1>1. TypeOK'
  BY <1>0, SMTT(60) DEF TypeOK, Dispatch, Reports, BridgeGoto
<1>2. LocksHeld'
  BY SMTT(60) DEF IInv, TypeOK, Dispatch, Reports, BridgeGoto
<1>3. QueuedPoisoned'
  BY SMTT(60) DEF IInv, TypeOK, Dispatch, Reports, BridgeGoto
<1>4. Identified'
  BY SMTT(60) DEF IInv, TypeOK, Dispatch, Reports, BridgeGoto
<1>5. Counted'
  <2>1. PICK outcome \in Outcomes :
            /\ ran' = [ran EXCEPT ![serving[b]] = outcome]
            /\ runs' = [runs EXCEPT ![serving[b]] = @ + 1]
            /\ used' = used /\ told' = told
    BY DEF Dispatch
  <2>2. ran[serving[b]] = "none" /\ serving[b] \in used
    BY DEF IInv, TypeOK
  <2>3. runs'[serving[b]] = 1 /\ ran'[serving[b]] = outcome /\ outcome # "none"
    BY <2>1, <1>0 DEF TypeOK
  <2>4. \A r \in Requests \ {serving[b]} : runs'[r] = runs[r] /\ ran'[r] = ran[r]
    BY <2>1, <1>0 DEF TypeOK
  <2>5. Counted
    BY DEF IInv
  <2> QED
    BY <2>1, <2>2, <2>3, <2>4, <2>5
<1>6. OneExchange'
  BY SMTT(60) DEF IInv, TypeOK, Dispatch, Reports, BridgeGoto
<1>7. OnePlace'
  BY SMTT(60) DEF IInv, TypeOK, Dispatch, Reports, BridgeGoto
<1>8. CallStands'
  BY SMTT(60) DEF IInv, TypeOK, Dispatch, Reports, BridgeGoto
<1>9. BridgeStands'
  BY SMTT(60) DEF IInv, TypeOK, Dispatch, Reports, BridgeGoto
<1> QED
  BY <1>1, <1>2, <1>3, <1>4, <1>5, <1>6, <1>7, <1>8, <1>9 DEF IInv

LEMMA ConsumePreserves ==
  ASSUME IInv, NEW b \in Bridges, Consume(b)
  PROVE  IInv'
BY SMTT(60) DEF IInv, TypeOK, Consume, BridgeGoto

LEMMA StageResponsePreserves ==
  ASSUME IInv, NEW b \in Bridges, StageResponse(b)
  PROVE  IInv'
BY SMTT(60) DEF IInv, TypeOK, StageResponse, BridgeGoto

LEMMA PublishResponsePreserves ==
  ASSUME IInv, NEW b \in Bridges, PublishResponse(b)
  PROVE  IInv'
<1>0. TypeOK
  BY DEF IInv
<1>. /\ reply[b] \in Responses /\ reply[b].id = marker /\ Faithful(reply[b])
     /\ responseTmp = {reply[b]}
     /\ request = NoRequest /\ requestTmp = {} /\ response = NoResponse
  BY ReplyAlone DEF PublishResponse
<1>1. TypeOK'
  BY SMTT(60) DEF IInv, TypeOK, PublishResponse, BridgeGoto
<1>2. LocksHeld'
  BY SMTT(60) DEF IInv, TypeOK, PublishResponse, BridgeGoto
<1>3. QueuedPoisoned'
  BY SMTT(60) DEF IInv, TypeOK, PublishResponse, BridgeGoto
<1>4. Identified'
  BY SMTT(60) DEF IInv, TypeOK, PublishResponse, BridgeGoto
<1>5. Counted'
  BY SMTT(60) DEF IInv, TypeOK, PublishResponse, BridgeGoto
<1>6. OneExchange'
  BY SMTT(60) DEF IInv, TypeOK, PublishResponse, BridgeGoto
<1>7. OnePlace'
  BY SMTT(60) DEF IInv, TypeOK, PublishResponse, BridgeGoto
<1>8. CallStands'
  BY SMTT(60) DEF IInv, TypeOK, PublishResponse, BridgeGoto
<1>9. BridgeStands'
  BY SMTT(60) DEF IInv, TypeOK, PublishResponse, BridgeGoto
<1> QED
  BY <1>1, <1>2, <1>3, <1>4, <1>5, <1>6, <1>7, <1>8, <1>9 DEF IInv

LEMMA FailBridgePreserves ==
  ASSUME IInv, NEW b \in Bridges, FailBridge(b)
  PROVE  IInv'
BY SMTT(60) DEF IInv, TypeOK, FailBridge, BridgeGoto

LEMMA CloseBridgePreserves ==
  ASSUME IInv, NEW b \in Bridges, CloseBridge(b)
  PROVE  IInv'
BY SMTT(60) DEF IInv, TypeOK, CloseBridge, BridgeGoto, LeaveBridge

LEMMA CrashBridgePreserves ==
  ASSUME IInv, NEW b \in Bridges, CrashBridge(b)
  PROVE  IInv'
BY SMTT(60) DEF IInv, TypeOK, CrashBridge, BridgeGoto, LeaveBridge

LEMMA RequestStopPreserves ==
  ASSUME IInv, NEW b \in Bridges, RequestStop(b)
  PROVE  IInv'
BY SMTT(60) DEF IInv, TypeOK, RequestStop

LEMMA WriteStopPreserves ==
  ASSUME IInv, WriteStop
  PROVE  IInv'
BY SMTT(60) DEF IInv, TypeOK, WriteStop

LEMMA LauncherProbesPreserves ==
  ASSUME IInv, LauncherProbes
  PROVE  IInv'
BY SMTT(60) DEF IInv, TypeOK, LauncherProbes

LEMMA LauncherClearsPreserves ==
  ASSUME IInv, LauncherClears
  PROVE  IInv'
BY SMTT(60) DEF IInv, TypeOK, LauncherClears

LEMMA RecoverPreserves ==
  ASSUME IInv, Recover
  PROVE  IInv'
BY SMTT(60) DEF IInv, TypeOK, Recover, RemoveResponseFile, RemoveMarkerFile

-----------------------------------------------------------------------------
(* The invariant of the specification. *)

HIDE DEF Definite, Outcomes, Kinds, Responses, NoResponse, FileSteps, Exchanging,
         ClientSteps, Serving, BridgeSteps, files, locks, callVars, clientVars,
        loopVars, bridgeVars, history,
         LocksHeld, QueuedPoisoned, Identified, Counted, OneExchange, OnePlace,
         CallStands, BridgeStands, At, Guarding, NobodyServes, NoFiles, Faithful

LEMMA InitEstablishes == Init => IInv
<1> SUFFICES ASSUME Init PROVE IInv
  OBVIOUS
<1>1. TypeOK
  BY DEF Init, TypeOK, Definite, Outcomes, Kinds, Responses, NoResponse, FileSteps,
         Exchanging, ClientSteps, Serving, BridgeSteps
<1>2. LocksHeld /\ QueuedPoisoned /\ Identified
  BY DEF Init, LocksHeld, QueuedPoisoned, Identified, Exchanging, FileSteps
<1>3. Counted
  BY DEF Init, Counted, Definite
<1>4. OneExchange
  BY DEF Init, OneExchange, NoResponse, Serving
<1>5. OnePlace
  BY DEF Init, OnePlace
<1>6. CallStands
  BY DEF Init, CallStands, At, Guarding
<1>7. BridgeStands
  BY DEF Init, BridgeStands, Serving
<1> QED
  BY <1>1, <1>2, <1>3, <1>4, <1>5, <1>6, <1>7 DEF IInv

LEMMA StutterPreserves ==
  ASSUME IInv, UNCHANGED vars
  PROVE  IInv'
BY DEF vars, files, locks, callVars, clientVars, loopVars, bridgeVars, history, IInv, TypeOK, LocksHeld,
       QueuedPoisoned, Identified, Counted, OneExchange, OnePlace, CallStands,
       BridgeStands, At, NobodyServes, NoFiles, Faithful

LEMMA ClientPreserves ==
  ASSUME IInv, NEW c \in Clients,
         ClientStep(c) \/ LateOperation(c) \/ ClientEnvironment(c)
  PROVE  IInv'
<1>1. CASE ClientStep(c)
  BY <1>1, CheckOpenedPreserves, EnsureReusablePreserves, ProbeRunningPreserves,
     ProbeTakesPreserves, ProbeDropsPreserves, BeginCallPreserves, OperatePreserves,
     MarkerTakenPreserves, ReadResponsePreserves, AcceptPreserves, RejectPreserves,
     TimeoutPreserves, ReturnPreserves DEF ClientStep
<1>2. CASE LateOperation(c)
  BY <1>2, LateOperationPreserves
<1>3. CASE ClientEnvironment(c)
  BY <1>3, StartClientPreserves, OpenMailboxPreserves, ReuseMailboxPreserves,
     AbandonPreserves, ExitClientPreserves, LoseOperationPreserves DEF ClientEnvironment
<1> QED
  BY <1>1, <1>2, <1>3

LEMMA BridgePreserves ==
  ASSUME IInv, NEW b \in Bridges, BridgeStep(b) \/ BridgeEnvironment(b)
  PROVE  IInv'
<1>1. CASE BridgeStep(b)
  BY <1>1, ExitRefusedPreserves, ScanMailboxPreserves, SeeStopPreserves,
     LookForRequestPreserves, DispatchPreserves, ConsumePreserves,
     StageResponsePreserves, PublishResponsePreserves, CloseBridgePreserves
     DEF BridgeStep
<1>2. CASE BridgeEnvironment(b)
  BY <1>2, LockMailboxPreserves, RefuseMailboxPreserves, FailBridgePreserves,
     CrashBridgePreserves, RequestStopPreserves DEF BridgeEnvironment
<1> QED
  BY <1>1, <1>2

\* IInv holds in every reachable state, whoever dies, is late or is cancelled.
THEOREM Invariance == Spec => []IInv
<1>1. Init => IInv
  BY InitEstablishes
<1>2. IInv /\ [Next]_vars => IInv'
  BY ClientPreserves, BridgePreserves, WriteStopPreserves, LauncherProbesPreserves,
     LauncherClearsPreserves, RecoverPreserves, StutterPreserves DEF Next
<1> QED
  BY <1>1, <1>2, PTL DEF Spec

\* Type correctness of the mailbox, its clients and its bridges.
THEOREM Typing == Spec => []TypeOK
<1>1. IInv => TypeOK
  BY DEF IInv
<1> QED
  BY <1>1, Invariance, PTL

\* No request reaches the dispatcher twice (BridgeServer's startup scan, the
\* atomic publication and the single bridge.lock owner together).
THEOREM RunsAtMostOnce == Spec => []AtMostOnce
<1>1. IInv => AtMostOnce
  BY DEF IInv, Counted, AtMostOnce
<1> QED
  BY <1>1, Invariance, PTL

\* A caller that is told a definite outcome is told that of its own request.
THEOREM AnswersTruthfully == Spec => []TruthfulAnswer
<1>1. IInv => TruthfulAnswer
  BY DEF IInv, Counted, TruthfulAnswer
<1> QED
  BY <1>1, Invariance, PTL

\* The files of the mailbox and the command being executed always belong to the
\* one request that client.pending names.
THEOREM OneExchangeAtATime == Spec => []OneExchange
<1>1. IInv => OneExchange
  BY DEF IInv
<1> QED
  BY <1>1, Invariance, PTL

-----------------------------------------------------------------------------
(* The mailbox implements GuardedCall. *)

USE DEF files, locks, callVars, clientVars, loopVars, bridgeVars, history, Definite, Outcomes, Goto, BridgeGoto

\* A step that leaves the guard, the outcomes and the answers alone.
LEMMA QuietStep ==
  ASSUME UNCHANGED <<marker, ran, told>>
  PROVE  [Call!Next]_(Call!vars)
BY DEF Call!Next, Call!Attach, Call!vars

\* A call that ends without an answer.
LEMMA GiveUpStep ==
  ASSUME NEW r \in Requests, told[r] = "none",
         told' = [told EXCEPT ![r] = "unknown"], UNCHANGED <<marker, ran>>
  PROVE  [Call!Next]_(Call!vars)
BY DEF Call!Next, Call!GiveUp

\* What a caller's identifier is while its call lasts.
LEMMA Exchanged ==
  ASSUME IInv, NEW c \in Clients, cpc[c] \in Exchanging
  PROVE  current[c] \in Requests /\ told[current[c]] = "none"
BY DEF IInv, TypeOK, Identified

\* Each step of a call, whoever waits for it, is a step of the abstract call.
LEMMA FileStep ==
  ASSUME IInv, NEW c \in Clients, NEW step \in FileSteps, At(c, step),
         FileOperation(step, current[c]),
         UNCHANGED <<ran, told, clientLock, bridgeLock>>
  PROVE  [Call!Next]_(Call!vars)
<1>0. current[c] \in Requests
  BY DEF IInv, TypeOK, Identified, At, FileSteps, Exchanging
<1>1. CASE step = "mark"
  <2>1. ran[current[c]] = "none"
    BY <1>0, <1>1 DEF IInv, CallStands, Counted
  <2>2. Call!Guard(current[c])
    BY <1>1, <2>1 DEF FileOperation, MarkFile, Call!Guard
  <2> QED
    BY <1>0, <2>2 DEF Call!Next
<1>2. CASE step = "removeMarker"
  <2>1. marker = current[c] /\ ran[current[c]] \in Definite
    BY <1>2 DEF IInv, CallStands, Guarding
  <2>2. Call!Lift(current[c])
    BY <1>2, <2>1 DEF FileOperation, RemoveMarkerFile, Call!Lift, Call!Definite
  <2> QED
    BY <1>0, <2>2 DEF Call!Next
<1>3. CASE step \in {"stage", "publish", "removeResponse"}
  BY <1>3, QuietStep DEF FileOperation, StageFile, PublishFile, RemoveResponseFile
<1> QED
  BY <1>1, <1>2, <1>3 DEF FileSteps

LEMMA ClientRefines ==
  ASSUME IInv, NEW c \in Clients,
         ClientStep(c) \/ LateOperation(c) \/ ClientEnvironment(c)
  PROVE  [Call!Next]_(Call!vars)
<1>1. CASE \/ CheckOpened(c) \/ EnsureReusable(c) \/ ProbeRunning(c) \/ ProbeTakes(c)
           \/ ProbeDrops(c) \/ ReadResponse(c) \/ Accept(c)
  BY <1>1, QuietStep DEF CheckOpened, EnsureReusable, ProbeRunning, ProbeTakes,
     ProbeDrops, ReadResponse, Accept, EndUnsent
<1>2. ASSUME NEW r \in Requests, BeginCall(c, r)
      PROVE  [Call!Next]_(Call!vars)
  <2>1. told[r] = "none"
    BY <1>2 DEF IInv, Counted, BeginCall
  <2> QED
    BY <1>2, <2>1, QuietStep, GiveUpStep DEF BeginCall
<1>3. CASE Operate(c)
  BY <1>3, FileStep DEF Operate, At
<1>4. CASE Return(c)
  <2>1. current[c] \in Requests /\ told[current[c]] = "none"
    BY <1>4, Exchanged DEF Return, Exchanging
  <2>2. /\ marker # current[c]
        /\ received[c].kind \in Definite /\ ran[current[c]] = received[c].kind
    BY <1>4 DEF IInv, CallStands, Return
  <2>3. Call!Answer(current[c])
    BY <1>4, <2>1, <2>2 DEF Return, Call!Answer, Call!Definite
  <2> QED
    BY <2>1, <2>3 DEF Call!Next
<1>5. CASE MarkerTaken(c) \/ Reject(c) \/ Timeout(c) \/ Abandon(c)
  <2>1. cpc[c] \in Exchanging
    BY <1>5 DEF MarkerTaken, Reject, Timeout, Abandon, Exchanging, FileSteps
  <2> QED
    BY <1>5, <2>1, Exchanged, GiveUpStep
    DEF MarkerTaken, Reject, Timeout, Abandon, EndPoisoned
<1>6. CASE LateOperation(c)
  <2>1. inFlight[c] \in FileSteps
    BY <1>6 DEF IInv, TypeOK, LateOperation
  <2> QED
    BY <1>6, <2>1, FileStep, QuietStep DEF LateOperation, At
<1>7. CASE StartClient(c) \/ OpenMailbox(c) \/ ReuseMailbox(c) \/ LoseOperation(c)
  BY <1>7, QuietStep DEF StartClient, OpenMailbox, ReuseMailbox, LoseOperation
<1>8. CASE ExitClient(c)
  <2>1. CASE cpc[c] \in Exchanging
    BY <1>8, <2>1, Exchanged, GiveUpStep DEF ExitClient
  <2>2. CASE cpc[c] \notin Exchanging
    BY <1>8, <2>2, QuietStep DEF ExitClient
  <2> QED
    BY <2>1, <2>2
<1> QED
  BY <1>1, <1>2, <1>3, <1>4, <1>5, <1>6, <1>7, <1>8 DEF ClientStep, ClientEnvironment

LEMMA BridgeRefines ==
  ASSUME IInv, NEW b \in Bridges, BridgeStep(b) \/ BridgeEnvironment(b)
  PROVE  [Call!Next]_(Call!vars)
<1>1. CASE Dispatch(b)
  <2>1. serving[b] \in Requests /\ marker = serving[b] /\ runs[serving[b]] = 0
    BY <1>1, DispatchedFresh DEF Dispatch
  <2>2. ran[serving[b]] = "none"
    BY <2>1 DEF IInv, Counted
  <2>3. Call!Run(serving[b])
    BY <1>1, <2>1, <2>2 DEF Dispatch, Call!Run, Call!Definite
  <2> QED
    BY <2>1, <2>3 DEF Call!Next
<1>2. CASE ~Dispatch(b)
  BY <1>2, QuietStep
  DEF BridgeStep, BridgeEnvironment, ExitRefused, ScanMailbox, SeeStop, LookForRequest,
      Consume, StageResponse, PublishResponse, CloseBridge, LockMailbox, RefuseMailbox,
      FailBridge, CrashBridge, RequestStop, LeaveBridge
<1> QED
  BY <1>1, <1>2

\* Recovery lifts the guard only while nobody is attached.
LEMMA RecoverRefines ==
  ASSUME IInv, Recover
  PROVE  [Call!Next]_(Call!vars)
<1>1. CASE marker' = NoRequest
  <2>1. Call!Reconcile
    BY <1>1 DEF Recover, Call!Reconcile
  <2> QED
    BY <2>1 DEF Call!Next
<1>2. CASE marker' # NoRequest
  BY <1>2, QuietStep DEF Recover, RemoveResponseFile, RemoveMarkerFile
<1> QED
  BY <1>1, <1>2

\* Every behaviour of the mailbox is one of GuardedCall: calls run at most once,
\* under their guard, and are answered with what they did or with "unknown".
THEOREM Refinement == Spec => ImplementsGuardedCall
<1>1. Init => Call!Init
  BY DEF Init, Call!Init
<1>2. IInv /\ [Next]_vars => [Call!Next]_(Call!vars)
  <2>1. ASSUME IInv, UNCHANGED vars
        PROVE  [Call!Next]_(Call!vars)
    BY <2>1, QuietStep DEF vars
  <2>2. ASSUME WriteStop \/ LauncherProbes \/ LauncherClears
        PROVE  [Call!Next]_(Call!vars)
    BY <2>2, QuietStep DEF WriteStop, LauncherProbes, LauncherClears
  <2> QED
    BY <2>1, <2>2, ClientRefines, BridgeRefines, RecoverRefines DEF Next
<1> QED
  BY <1>1, <1>2, Invariance, PTL DEF Spec, ImplementsGuardedCall, Call!Spec

-----------------------------------------------------------------------------
(* The guard is taken away for a definite outcome or by the operator. *)

\* client.pending is removed by a call, or its queued operation, only once the
\* outcome is definite and nothing of the exchange is left.
LEMMA FileStepKeepsGuard ==
  ASSUME IInv, NEW c \in Clients, NEW step \in FileSteps, At(c, step),
         FileOperation(step, current[c]), marker # NoRequest, marker' # marker
  PROVE  /\ marker' = NoRequest /\ ran[marker] \in Definite
         /\ request = NoRequest /\ response = NoResponse
         /\ \A b \in Bridges : bpc[b] \notin Serving
<1>1. step = "removeMarker" /\ marker' = NoRequest
  BY DEF FileOperation, MarkFile, StageFile, PublishFile, RemoveResponseFile,
         RemoveMarkerFile
<1> QED
  BY <1>1 DEF IInv, CallStands, Guarding, NoFiles, NobodyServes

\* No step of any process, alive or dying, lifts the guard while in doubt.
THEOREM GuardKept == Spec => GuardOutlivesDoubt
<1> DEFINE Removed == marker # NoRequest /\ marker' # marker
           Settled == \/ /\ marker' = NoRequest
                         /\ ran[marker] \in Definite
                         /\ request = NoRequest /\ response = NoResponse
                         /\ \A b \in Bridges : bpc[b] \notin Serving
                      \/ clientLock = Nobody /\ bridgeLock = Nobody
<1>1. ASSUME IInv, Next, Removed
      PROVE  Settled
  <2>1. ASSUME NEW c \in Clients,
               ClientStep(c) \/ LateOperation(c) \/ ClientEnvironment(c)
        PROVE  Settled
    <3>1. CASE Operate(c)
      BY <1>1, <3>1, FileStepKeepsGuard DEF Operate, At
    <3>2. CASE LateOperation(c)
      <4>1. inFlight[c] \in FileSteps
        BY <1>1, <3>2 DEF IInv, TypeOK, LateOperation
      <4> QED
        BY <1>1, <3>2, <4>1, FileStepKeepsGuard DEF LateOperation, At
    <3>3. CASE ~Operate(c) /\ ~LateOperation(c)
      BY <1>1, <2>1, <3>3
      DEF ClientStep, ClientEnvironment, CheckOpened, EnsureReusable, ProbeRunning,
          ProbeTakes, ProbeDrops, BeginCall, MarkerTaken, ReadResponse, Accept, Reject,
          Timeout, Return, StartClient, OpenMailbox, ReuseMailbox, Abandon, ExitClient,
          LoseOperation, EndUnsent, EndPoisoned
    <3> QED
      BY <3>1, <3>2, <3>3
  <2>2. ASSUME NEW b \in Bridges, BridgeStep(b) \/ BridgeEnvironment(b)
        PROVE  Settled
    BY <1>1, <2>2
    DEF BridgeStep, BridgeEnvironment, ExitRefused, ScanMailbox, SeeStop,
        LookForRequest, Dispatch, Consume, StageResponse, PublishResponse, CloseBridge,
        LockMailbox, RefuseMailbox, FailBridge, CrashBridge, RequestStop, LeaveBridge
  <2>3. CASE WriteStop \/ LauncherProbes \/ LauncherClears \/ Recover
    BY <1>1, <2>3 DEF WriteStop, LauncherProbes, LauncherClears, Recover
  <2> QED
    BY <1>1, <2>1, <2>2, <2>3 DEF Next
<1>2. IInv /\ [Next]_vars => [Removed => Settled]_vars
  BY <1>1
<1> QED
  BY <1>2, Invariance, PTL DEF Spec, GuardOutlivesDoubt

=============================================================================
