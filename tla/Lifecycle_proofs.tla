-------------------------- MODULE Lifecycle_proofs --------------------------
(***************************************************************************)
(* Three inductive invariants of Lifecycle, for any files and any bounds:   *)
(* the handshake of stopBridge with the worker, what a headless bridge knows *)
(* about unsaved work while it switches and closes, and what each command    *)
(* holds, saves and leaves behind at each of its steps.                      *)
(***************************************************************************)
EXTENDS Lifecycle, TLAPS

\* The worker shows its server before it looks at the flag, so whoever sets the
\* flag finds the server or is seen.
StopInv ==
    /\ {stopping, published, closed} \subseteq BOOLEAN
    /\ worker \in {"published", "running"} => published
    /\ ui \in {"idle", "flagged"}
    /\ ui = "flagged" => stopping
    /\ StopNotLost

LEMMA StopInit == Init => StopInv
  BY DEF Init, StopInv, StopNotLost

\* Commands, and the user at his programs, stay away from worker and plugin.
LEMMA CommandKeepsWorker ==
    ASSUME Command
    PROVE  UNCHANGED workerVars
  BY DEF Command, Receive, NativeFault, OpenProject, CloseProject, CloseNative,
         LoadImport, RefuseImport, StoreImport, StoreFault, SelectSame, Acquire, LookAtOld,
         Select, SelectFault, ReleaseOld, Save, CheckSaved, Respond, BridgeEdits, Step

LEMMA UserKeepsWorker ==
    ASSUME NEW f \in Files,
           UserOpens(f) \/ UserImports(f) \/ UserEdits \/ UserSaves \/ UserCloses
    PROVE  UNCHANGED workerVars
  BY DEF UserOpens, UserImports, UserEdits, UserSaves, UserCloses, User

LEMMA StopStep == StopInv /\ [Next]_vars => StopInv'
<1> SUFFICES ASSUME StopInv, [Next]_vars PROVE StopInv'
  OBVIOUS
<1> USE DEF StopInv, StopNotLost
<1>1. ASSUME UNCHANGED workerVars PROVE StopInv'
  BY <1>1 DEF workerVars
<1>2. CASE FailToConstruct \/ Publish \/ LookForStop \/ LeaveLoop \/ Unlock
  <2>1. CASE FailToConstruct \/ LeaveLoop
    BY <2>1 DEF FailToConstruct, LeaveLoop
  <2>2. CASE Publish
    BY <2>2 DEF Publish
  <2>3. CASE LookForStop
    BY <2>3 DEF LookForStop
  <2>4. CASE Unlock
    BY <2>4 DEF Unlock
  <2> QED
    BY <1>2, <2>1, <2>2, <2>3, <2>4
<1>3. CASE CloseDispatcher
  BY <1>3 DEF CloseDispatcher
<1>4. CASE Start \/ StopFlag
  BY <1>4 DEF Start, StopFlag
<1>5. CASE StopServer
  BY <1>5 DEF StopServer
<1>6. CASE Command
  BY <1>1, <1>6, CommandKeepsWorker
<1>7. CASE \E f \in Files : UserOpens(f) \/ UserImports(f)
  BY <1>1, <1>7, UserKeepsWorker
<1>8. CASE UserEdits \/ UserSaves \/ UserCloses
  BY <1>1, <1>8 DEF UserEdits, UserSaves, UserCloses, User
<1>9. CASE Finished \/ UNCHANGED vars
  BY <1>1, <1>9 DEF Finished, vars
<1> QED
  BY <1>2, <1>3, <1>4, <1>5, <1>6, <1>7, <1>8, <1>9 DEF Next

\* Once stopBridge has returned, no server runs that has not been told, wherever
\* the worker was and however often the bridge is started again.
THEOREM StopsReachTheWorker == Spec => []StopNotLost
<1>1. StopInv => StopNotLost
  BY DEF StopInv
<1> QED
  BY <1>1, StopInit, StopStep, PTL DEF Spec

-----------------------------------------------------------------------------
Records ==
    [file : Files \cup {Nobody}, stored : BOOLEAN, changed : BOOLEAN, bridge : BOOLEAN,
     tool : BOOLEAN]
\* Open programs o under identities below n.
Open(o, n) == o \in [DOMAIN o -> Records] /\ \A i \in DOMAIN o : i \in Nat /\ i < n
Identity(i, n) == i = Nobody \/ (i \in Nat /\ i < n)

WorkTypes ==
    /\ nextId \in Nat
    /\ request.file \in Files \cup {Nobody}
    /\ Open(open, nextId)
    /\ Identity(current, nextId) /\ Identity(target, nextId)

\* What a headless bridge has made sure of, at each step of a command.
Kept ==
    /\ lost = {}
    /\ pc = "close_project" => \A i \in consumers : ~ Changed(i)
    /\ pc \in {"import_program", "select_program", "loaded", "switch"} => ~ Changed(current)
    /\ pc \in {"select", "selected"} => ~ Changed(old)
    /\ pc = "selected" => current = target
    /\ pc = "loaded" /\ target \in DOMAIN open => ~ open[target].stored

WorkInv ==
    /\ WorkTypes
    /\ pc \notin {"idle", "doubt"} => worker = "running"
    /\ mode = "headless" => Kept

LEMMA ReleasedFacts ==
    ASSUME NEW o, NEW n, Open(o, n), NEW S
    PROVE  /\ Open(Released(o, S), n)
           /\ \A i \in DOMAIN Released(o, S) :
                i \in DOMAIN o /\ Released(o, S)[i].changed = o[i].changed
                    /\ Released(o, S)[i].stored = o[i].stored
  BY DEF Open, Released, Records

LEMMA DroppedFacts ==
    ASSUME NEW o, NEW S, \A i \in S \cap DOMAIN o : ~ (o[i].changed /\ o[i].stored)
    PROVE  Dropped(o, S) = {}
  BY DEF Dropped

LEMMA OpenedFacts ==
    ASSUME nextId \in Nat, Open(open, nextId), NEW r \in Records
    PROVE  /\ Open(Opened(nextId, r), nextId + 1)
           /\ DOMAIN Opened(nextId, r) = DOMAIN open \cup {nextId}
           /\ nextId \notin DOMAIN open /\ Opened(nextId, r)[nextId] = r
           /\ \A i \in DOMAIN open : Opened(nextId, r)[i] = open[i]
  BY DEF Open, Opened

LEMMA NewObject ==
    ASSUME NEW f \in Files \cup {Nobody}, NEW s \in BOOLEAN, NEW b \in BOOLEAN, NEW t \in BOOLEAN
    PROVE  Object(f, s, b, t) \in Records /\ Object(f, s, b, t).changed = ~ s
           /\ Object(f, s, b, t).stored = s /\ Object(f, s, b, t).bridge = b
  BY DEF Object, Records

LEMMA WorkInit == Init => WorkInv
<1> SUFFICES ASSUME Init PROVE WorkInv
  OBVIOUS
<1>1. Open(open, nextId)
  BY DEF Init, Open
<1> QED
  BY <1>1 DEF Init, WorkInv, WorkTypes, Kept, Identity, NoRequest

\* What has been given stays given.
LEMMA IdentityFacts ==
    ASSUME NEW n \in Nat
    PROVE  /\ n + 1 \in Nat /\ Identity(n, n + 1)
           /\ \A i : Identity(i, n) => Identity(i, n + 1)
  BY DEF Identity

\* A program changed in place is still a program.
LEMMA RecordFacts ==
    ASSUME NEW r \in Records, NEW v \in BOOLEAN
    PROVE  /\ [r EXCEPT !.changed = v] \in Records /\ [r EXCEPT !.tool = v] \in Records
           /\ [r EXCEPT !.bridge = v] \in Records
           /\ [r EXCEPT !.bridge = v].changed = r.changed
           /\ [r EXCEPT !.bridge = v].stored = r.stored
           /\ [[r EXCEPT !.stored = TRUE] EXCEPT !.changed = FALSE] \in Records
  BY DEF Records

\* The requests a client sends name an operation, and a file or none.
LEMMA RequestFacts == \A r \in Requests : r.file \in Files \cup {Nobody} /\ r.op \in Ops
  BY DEF Requests

LEMMA TypesStep == WorkTypes /\ [Next]_vars => WorkTypes'
<1> SUFFICES ASSUME WorkTypes, [Next]_vars PROVE WorkTypes'
  OBVIOUS
<1> USE DEF WorkTypes
<1>0. ASSUME UNCHANGED <<nextId, request, open, current, target>> PROVE WorkTypes'
  BY <1>0
<1>1. CASE FailToConstruct \/ Publish \/ LookForStop \/ LeaveLoop \/ Unlock \/ StopFlag \/ StopServer
  BY <1>0, <1>1 DEF FailToConstruct, Publish, LookForStop, LeaveLoop, Unlock, StopFlag, StopServer,
     nativeVars, commandVars
<1>2. CASE CloseDispatcher
  <2>1. Open(open', nextId)
    BY <1>2, ReleasedFacts DEF CloseDispatcher, nativeVars
  <2> QED
    BY <1>2, <2>1 DEF CloseDispatcher, nativeVars, Identity
<1>3. CASE Start
  BY <1>3 DEF Start, nativeVars, NoRequest
<1>4. CASE Receive
  BY <1>4, RequestFacts DEF Receive, nativeVars, Identity
<1>5. CASE NativeFault \/ CloseNative \/ CheckSaved \/ Respond \/ LookAtOld
  BY <1>0, <1>5 DEF NativeFault, CloseNative, CheckSaved, Respond, LookAtOld, Step, nativeVars
<1>6. CASE OpenProject
  BY <1>6 DEF OpenProject, Step, Open, Identity
<1>7. CASE CloseProject
  <2>1. Open(open', nextId)
    BY <1>7, ReleasedFacts DEF CloseProject
  <2> QED
    BY <1>7, <2>1 DEF CloseProject, Step, Identity
<1>8. CASE LoadImport
  <2>1. Object(request.file, FALSE, TRUE, FALSE) \in Records
    BY NewObject
  <2>2. Open(open', nextId + 1)
    BY <1>8, <2>1, OpenedFacts DEF LoadImport
  <2> QED
    BY <1>8, <2>2, IdentityFacts DEF LoadImport, Step
<1>9. CASE RefuseImport \/ StoreFault \/ SelectFault
  <2>1. open' = Released(open, {target}) /\ UNCHANGED <<nextId, request, current, target>>
    BY <1>9 DEF RefuseImport, StoreFault, SelectFault, Discard, Step
  <2> QED
    BY <2>1, ReleasedFacts
<1>10. CASE StoreImport
  <2>1. open' = [open EXCEPT ![target] =
                    [[open[target] EXCEPT !.stored = TRUE] EXCEPT !.changed = FALSE]]
    BY <1>10 DEF StoreImport
  <2>2. Open(open', nextId)
    BY <2>1, RecordFacts DEF Open
  <2> QED
    BY <1>10, <2>2 DEF StoreImport, Step
<1>11. CASE SelectSame
  BY <1>11 DEF SelectSame, Step, nativeVars
<1>12. CASE Acquire
  <2>1. CASE Of(request.file) # {}
    <3>1. /\ target' \in Of(request.file) /\ nextId' = nextId
          /\ open' = [open EXCEPT ![target'].bridge = TRUE]
      BY <1>12, <2>1 DEF Acquire
    <3>2. Open(open', nextId)
      BY <3>1, RecordFacts DEF Open, Of
    <3> QED
      BY <1>12, <3>1, <3>2 DEF Acquire, Step, Identity, Of, Open
  <2>2. CASE Of(request.file) = {}
    <3>1. /\ target' = nextId /\ nextId' = nextId + 1
          /\ open' = Opened(nextId, Object(request.file, TRUE, TRUE, FALSE))
      BY <1>12, <2>2 DEF Acquire
    <3>2. Object(request.file, TRUE, TRUE, FALSE) \in Records
      BY NewObject
    <3>3. Open(open', nextId + 1)
      BY <3>1, <3>2, OpenedFacts
    <3> QED
      BY <1>12, <3>1, <3>3, IdentityFacts DEF Acquire, Step
  <2> QED
    BY <2>1, <2>2
<1>13. CASE Select
  <2>1. Open(open', nextId)
    BY <1>13, RecordFacts DEF Select, Open
  <2> QED
    BY <1>13, <2>1 DEF Select, Step
<1>14. CASE ReleaseOld
  <2>1. Open(open', nextId)
    BY <1>14, ReleasedFacts DEF ReleaseOld
  <2> QED
    BY <1>14, <2>1 DEF ReleaseOld, Step
<1>15. CASE Save
  <2>1. Open(open', nextId) /\ target' \in DOMAIN open
    BY <1>15, RecordFacts DEF Save, Open
  <2> QED
    BY <1>15, <2>1 DEF Save, Step, Identity, Open
<1>16. CASE BridgeEdits
  <2>1. Open(open', nextId)
    BY <1>16, RecordFacts DEF BridgeEdits, Open
  <2> QED
    BY <1>16, <2>1 DEF BridgeEdits, commandVars
<1>17. ASSUME NEW f \in Files, UserOpens(f) PROVE WorkTypes'
  <2>1. CASE Of(f) # {}
    <3>1. /\ current' \in Of(f) /\ nextId' = nextId
          /\ open' = [open EXCEPT ![current'].tool = TRUE]
      BY <1>17, <2>1 DEF UserOpens
    <3>2. Open(open', nextId)
      BY <3>1, RecordFacts DEF Open, Of
    <3> QED
      BY <1>17, <3>1, <3>2 DEF UserOpens, User, commandVars, Identity, Of, Open
  <2>2. CASE Of(f) = {}
    <3>1. /\ current' = nextId /\ nextId' = nextId + 1
          /\ open' = Opened(nextId, Object(f, TRUE, FALSE, TRUE))
      BY <1>17, <2>2 DEF UserOpens
    <3>2. Object(f, TRUE, FALSE, TRUE) \in Records
      BY NewObject
    <3>3. Open(open', nextId + 1)
      BY <3>1, <3>2, OpenedFacts
    <3> QED
      BY <1>17, <3>1, <3>3, IdentityFacts DEF UserOpens, User, commandVars
  <2> QED
    BY <2>1, <2>2
<1>18. CASE UserEdits \/ UserSaves
  <2>1. Open(open', nextId)
    <3>1. CASE UserEdits
      BY <3>1, RecordFacts DEF UserEdits, Open
    <3>2. CASE UserSaves
      BY <3>2, RecordFacts DEF UserSaves, Open, Changed
    <3> QED
      BY <1>18, <3>1, <3>2
  <2> QED
    BY <1>18, <2>1 DEF UserEdits, UserSaves, User, commandVars
<1>19. CASE UserCloses
  <2>1. Open(open', nextId)
    BY <1>19, RecordFacts DEF UserCloses, Open, Restrict
  <2> QED
    BY <1>19, <2>1 DEF UserCloses, User, commandVars, Identity, Open
<1>20. ASSUME NEW f \in Files, UserImports(f) PROVE WorkTypes'
  BY <1>0, <1>20 DEF UserImports, User, commandVars
<1>21. CASE Finished \/ UNCHANGED vars
  BY <1>0, <1>21 DEF Finished, vars, nativeVars, commandVars
<1> QED
  BY <1>1, <1>2, <1>3, <1>4, <1>5, <1>6, <1>7, <1>8, <1>9, <1>10, <1>11, <1>12, <1>13, <1>14,
     <1>15, <1>16, <1>17, <1>18, <1>19, <1>20, <1>21 DEF Next, Command

\* A command runs only on a worker that runs.
LEMMA RunsStep ==
    ASSUME pc \notin {"idle", "doubt"} => worker = "running", [Next]_vars
    PROVE  (pc \notin {"idle", "doubt"} => worker = "running")'
<1>1. CASE FailToConstruct \/ Publish \/ LookForStop \/ LeaveLoop \/ Unlock \/ CloseDispatcher
  BY <1>1 DEF FailToConstruct, Publish, LookForStop, LeaveLoop, Unlock, CloseDispatcher, commandVars
<1>2. CASE Start \/ StopFlag \/ StopServer
  BY <1>2 DEF Start, StopFlag, StopServer, commandVars
<1>3. CASE Command
  <2>1. worker' = worker
    BY <1>3, CommandKeepsWorker DEF workerVars
  <2>2. CASE Receive
    BY <2>1, <2>2 DEF Receive
  <2>3. CASE BridgeEdits
    BY <2>1, <2>3 DEF BridgeEdits, commandVars
  <2>4. CASE ~ Receive /\ ~ BridgeEdits
    <3>1. pc \notin {"idle", "doubt"}
      BY <1>3, <2>4 DEF Command, NativeFault, OpenProject, CloseProject, CloseNative,
         LoadImport, RefuseImport, StoreImport, StoreFault, SelectSame, Acquire, LookAtOld,
         Select, SelectFault, ReleaseOld, Save, CheckSaved, Respond, Ops
    <3> QED
      BY <2>1, <3>1
  <2> QED
    BY <2>2, <2>3, <2>4
<1>4. CASE \E f \in Files : UserOpens(f) \/ UserImports(f)
  BY <1>4 DEF UserOpens, UserImports, User, commandVars, workerVars
<1>5. CASE UserEdits \/ UserSaves \/ UserCloses
  BY <1>5 DEF UserEdits, UserSaves, UserCloses, User, commandVars, workerVars
<1>6. CASE Finished \/ UNCHANGED vars
  BY <1>6 DEF Finished, vars, commandVars, workerVars
<1> QED
  BY <1>1, <1>2, <1>3, <1>4, <1>5, <1>6 DEF Next

\* Releasing programs without unsaved work ends none.
LEMMA NothingDropped ==
    ASSUME NEW S, \A i \in S : ~ Changed(i)
    PROVE  Dropped(open, S) = {}
  BY DroppedFacts DEF Changed

\* Nobody but the bridge works on a headless bridge's programs, so what was found
\* without unsaved work is so still when it is released.
LEMMA KeptStep ==
    ASSUME WorkInv, [Next]_vars, mode' = "headless"
    PROVE  Kept'
<1>1. mode = "headless" /\ Kept
  <2>1. mode' = mode
    BY DEF Next, vars, Command, FailToConstruct, Publish, LookForStop, LeaveLoop, Unlock,
       CloseDispatcher, Start, StopFlag, StopServer, Receive, NativeFault, OpenProject,
       CloseProject, CloseNative, LoadImport, RefuseImport, StoreImport, StoreFault, SelectSame,
       Acquire, LookAtOld, Select, SelectFault, ReleaseOld, Save, CheckSaved, Respond,
       BridgeEdits, Step, UserOpens, UserImports, UserEdits, UserSaves, UserCloses, User, Finished
  <2> QED
    BY <2>1 DEF WorkInv
<1>2. WorkTypes /\ (pc \notin {"idle", "doubt"} => worker = "running")
  BY DEF WorkInv
<1>3. ASSUME UNCHANGED <<lost, pc, consumers, open, current, target, old>> PROVE Kept'
  BY <1>1, <1>3 DEF Kept, Changed
\* A step after which nothing is known but that no work was lost.
<1>4. ASSUME lost' = lost,
             pc' \in {"idle", "answered", "refused", "doubt", "closing", "saved", "open_project",
                      "save_program"}
      PROVE  Kept'
  BY <1>1, <1>4 DEF Kept
<1>5. CASE FailToConstruct \/ Publish \/ LookForStop \/ LeaveLoop \/ Unlock \/ StopFlag \/ StopServer
  BY <1>3, <1>5 DEF FailToConstruct, Publish, LookForStop, LeaveLoop, Unlock, StopFlag, StopServer,
     nativeVars, commandVars
<1>6. CASE CloseDispatcher
  <2>1. pc \in {"idle", "doubt"}
    BY <1>2, <1>6 DEF CloseDispatcher
  <2>2. lost' = lost
    BY <1>1, <1>6, NothingDropped DEF CloseDispatcher, nativeVars
  <2> QED
    BY <1>4, <1>6, <2>1, <2>2 DEF CloseDispatcher
<1>7. CASE Start
  BY <1>1, <1>7 DEF Start
<1>8. CASE Receive
  <2>1. UNCHANGED <<lost, open, current, consumers>>
    BY <1>8 DEF Receive, nativeVars
  <2>2. request'.op \in Ops
    BY <1>8, RequestFacts DEF Receive
  <2>3. CASE pc' = "refused"
    BY <1>4, <2>1, <2>3
  <2>4. CASE Allowed(request') /\ pc' = request'.op
    BY <1>1, <2>1, <2>2, <2>4 DEF Kept, Allowed, Ops, SwitchSafe, Changed
  <2> QED
    BY <1>8, <2>3, <2>4 DEF Receive
<1>9. CASE NativeFault \/ OpenProject \/ CloseNative \/ SelectSame \/ Save \/ CheckSaved \/ Respond
  BY <1>4, <1>9 DEF NativeFault, OpenProject, CloseNative, SelectSame, Save, CheckSaved, Respond,
     Step, nativeVars
<1>10. CASE CloseProject
  BY <1>1, <1>4, <1>10, NothingDropped DEF CloseProject, Step, Kept
<1>11. CASE LoadImport
  <2>1. Object(request.file, FALSE, TRUE, FALSE) \in Records
        /\ Object(request.file, FALSE, TRUE, FALSE).stored = FALSE
    BY <1>2, NewObject DEF WorkTypes
  <2>2. /\ open' = Opened(nextId, Object(request.file, FALSE, TRUE, FALSE))
        /\ target' = nextId /\ UNCHANGED <<lost, current>> /\ pc' = "loaded"
    BY <1>11 DEF LoadImport, Step
  <2>3. DOMAIN open' = DOMAIN open \cup {nextId} /\ ~ open'[nextId].stored
        /\ \A i \in DOMAIN open : open'[i] = open[i]
    BY <1>2, <2>1, <2>2, OpenedFacts DEF WorkTypes
  <2>4. current # nextId
    BY <1>2, LifecycleAssumption DEF WorkTypes, Identity
  <2>5. ~ Changed(current)
    BY <1>1, <1>11 DEF LoadImport, Kept
  <2> QED
    BY <1>1, <2>2, <2>3, <2>4, <2>5 DEF Kept, Changed
<1>12. CASE RefuseImport \/ StoreFault
  <2>1. lost' = lost \cup Dropped(open, {target}) /\ pc' \in {"refused", "doubt"}
    BY <1>12 DEF RefuseImport, StoreFault, Discard, Step
  <2>2. target \in DOMAIN open => ~ open[target].stored
    BY <1>1, <1>12 DEF RefuseImport, StoreFault, Kept
  <2>3. Dropped(open, {target}) = {}
    BY <2>2, DroppedFacts
  <2> QED
    BY <1>4, <2>1, <2>3
<1>13. CASE StoreImport
  <2>1. ~ Changed(current)
    BY <1>1, <1>13 DEF StoreImport, Kept
  <2>2. /\ open' = [open EXCEPT ![target] =
                       [[open[target] EXCEPT !.stored = TRUE] EXCEPT !.changed = FALSE]]
        /\ UNCHANGED <<lost, current>> /\ pc' = "switch"
    BY <1>13 DEF StoreImport, Step
  <2>3. ASSUME target \in DOMAIN open PROVE ~ open'[target].changed
    BY <1>2, <2>2, <2>3 DEF WorkTypes, Open, Records
  <2>4. ~ Changed(current)'
    BY <2>1, <2>2, <2>3 DEF Changed
  <2> QED
    BY <1>1, <2>2, <2>4 DEF Kept
<1>14. CASE Acquire
  <2>1. ~ Changed(current) /\ UNCHANGED <<lost, current>> /\ pc' = "switch"
    BY <1>1, <1>14 DEF Acquire, Kept, Step
  <2>2. CASE Of(request.file) # {}
    <3>1. open' = [open EXCEPT ![target'].bridge = TRUE]
      BY <1>14, <2>2 DEF Acquire
    <3>2. ~ Changed(current)'
      BY <1>2, <2>1, <3>1, RecordFacts DEF Changed, WorkTypes, Open
    <3> QED
      BY <1>1, <2>1, <3>2 DEF Kept
  <2>3. CASE Of(request.file) = {}
    <3>1. open' = Opened(nextId, Object(request.file, TRUE, TRUE, FALSE))
      BY <1>14, <2>3 DEF Acquire
    <3>2. Object(request.file, TRUE, TRUE, FALSE) \in Records
      BY <1>2, NewObject DEF WorkTypes
    <3>3. DOMAIN open' = DOMAIN open \cup {nextId} /\ \A i \in DOMAIN open : open'[i] = open[i]
      BY <1>2, <3>1, <3>2, OpenedFacts DEF WorkTypes
    <3>4. current # nextId
      BY <1>2, LifecycleAssumption DEF WorkTypes, Identity
    <3> QED
      BY <1>1, <2>1, <3>3, <3>4 DEF Kept, Changed
  <2> QED
    BY <2>2, <2>3
<1>15. CASE LookAtOld
  BY <1>1, <1>15 DEF LookAtOld, Step, nativeVars, Kept, Changed
<1>16. CASE Select
  BY <1>1, <1>16 DEF Select, Step, Kept, Changed
<1>17. CASE SelectFault
  BY <1>1, <1>17 DEF SelectFault, Kept
<1>18. CASE ReleaseOld
  <2>1. \A i \in (consumers \cap {old}) \ {target} : ~ Changed(i)
    BY <1>1, <1>18 DEF ReleaseOld, Kept
  <2>2. lost' = lost
    BY <1>18, <2>1, NothingDropped DEF ReleaseOld
  <2> QED
    BY <1>4, <1>18, <2>2 DEF ReleaseOld, Step
<1>19. CASE BridgeEdits
  BY <1>2, <1>4, <1>19 DEF BridgeEdits, commandVars
<1>20. CASE (\E f \in Files : UserOpens(f) \/ UserImports(f)) \/ UserEdits \/ UserSaves \/ UserCloses
  BY <1>1, <1>20 DEF UserOpens, UserImports, UserEdits, UserSaves, UserCloses, User
<1>21. CASE Finished \/ UNCHANGED vars
  BY <1>3, <1>21 DEF Finished, vars, nativeVars, commandVars
<1> QED
  BY <1>5, <1>6, <1>7, <1>8, <1>9, <1>10, <1>11, <1>12, <1>13, <1>14, <1>15, <1>16, <1>17, <1>18,
     <1>19, <1>20, <1>21 DEF Next, Command

\* Unsaved work in a headless bridge is never lost by a release of the bridge: not
\* in an import or a selection, failed or not, not by close_project, and not when
\* the dispatcher is closed.
THEOREM WorkIsKept == Spec => []WorkKept
<1>1. WorkInv /\ [Next]_vars => WorkInv'
  <2> SUFFICES ASSUME WorkInv, [Next]_vars PROVE WorkInv'
    OBVIOUS
  <2>1. WorkTypes'
    BY TypesStep DEF WorkInv
  <2>2. (pc \notin {"idle", "doubt"} => worker = "running")'
    BY RunsStep DEF WorkInv
  <2>3. (mode = "headless" => Kept)'
    BY KeptStep
  <2> QED
    BY <2>1, <2>2, <2>3 DEF WorkInv
<1>2. WorkInv => WorkKept
  BY DEF WorkInv, Kept, WorkKept
<1> QED
  BY <1>1, <1>2, WorkInit, PTL DEF Spec

-----------------------------------------------------------------------------
(* What a command holds and what it has said, at each of its steps.          *)

Held == {i \in DOMAIN open : open[i].bridge}

\* What has been accepted is held, in its folder and, if imported, written.
Settled ==
    /\ target \in consumers /\ open[target].stored
    /\ request.op = "import_program" => request.file \in disk \cap wrote
    /\ request.op = "select_program" => wrote = {}

\* Nothing has been done yet.
Untouched == wrote = {} /\ consumers = before.consumers /\ project = before.project

Progress ==
    /\ pc \in Ops => request.op = pc
    /\ pc \in Ops \cup {"refused"} => Untouched
    /\ pc = "loaded" =>
         /\ request.op = "import_program" /\ wrote = {} /\ project = before.project
         /\ target \notin before.consumers /\ consumers = before.consumers \cup {target}
    /\ pc \in {"switch", "select", "selected"} =>
         request.op \in {"import_program", "select_program"} /\ Settled
    /\ pc = "closing" => request.op = "close_project" /\ consumers = {}
    /\ pc = "saved" => request.op = "save_program"
    /\ pc = "answered" =>
         /\ request.op = "import_program" => Settled
         /\ request.op = "select_program" => wrote = {}
         /\ request.op = "close_project" => consumers = {} /\ project = Nobody

OutcomeInv ==
    /\ WorkInv
    /\ Held = consumers
    /\ worker \in {"constructing", "ended"} => consumers = {}
    /\ Progress

LEMMA OutcomeInit == Init => OutcomeInv
<1> SUFFICES ASSUME Init PROVE OutcomeInv
  OBVIOUS
<1>1. Held = {}
  BY DEF Init, Held
<1> QED
  BY <1>1, WorkInit DEF Init, OutcomeInv, Progress, Ops

LEMMA HeldReleased ==
    ASSUME Held = consumers, NEW S, S \subseteq consumers, open' = Released(open, S)
    PROVE  Held' = consumers \ S /\ \A i \in Held' : open'[i] = open[i]
  BY DEF Held, Released

\* What a program gets or loses is its place in the tool, its changes or its folder:
\* who else holds it is not touched.
LEMMA HeldSame ==
    ASSUME DOMAIN open' = DOMAIN open, \A i \in DOMAIN open : open'[i].bridge = open[i].bridge
    PROVE  Held' = Held
  BY DEF Held

\* A step of somebody else, while a command is where it was.
LEMMA OutcomeFrame ==
    ASSUME OutcomeInv, UNCHANGED <<pc, consumers, request, target, before, wrote, project>>,
           disk \subseteq disk', Held' = Held, \A i \in Held : open'[i].stored = open[i].stored
    PROVE  Progress' /\ Held' = consumers'
  BY DEF OutcomeInv, Progress, Settled, Untouched

LEMMA UserFrame ==
    ASSUME OutcomeInv,
           (\E f \in Files : UserOpens(f) \/ UserImports(f)) \/ UserEdits \/ UserSaves \/ UserCloses
    PROVE  /\ UNCHANGED <<pc, consumers, request, target, before, wrote, project, worker>>
           /\ disk \subseteq disk' /\ Held' = Held
           /\ \A i \in Held : open'[i].stored = open[i].stored
<1>0. Open(open, nextId) /\ nextId \in Nat
  BY DEF OutcomeInv, WorkInv, WorkTypes
<1>1. UNCHANGED <<pc, consumers, request, target, before, wrote, project, worker>>
  BY DEF UserOpens, UserImports, UserEdits, UserSaves, UserCloses, User, commandVars, workerVars
<1>2. ASSUME NEW f \in Files, UserOpens(f)
      PROVE  Held' = Held /\ disk \subseteq disk' /\ \A i \in Held : open'[i].stored = open[i].stored
  <2>1. CASE Of(f) # {}
    <3>1. PICK i \in DOMAIN open : open' = [open EXCEPT ![i].tool = TRUE]
      BY <1>2, <2>1 DEF UserOpens, Of
    <3>2. DOMAIN open' = DOMAIN open /\ \A j \in DOMAIN open :
            open'[j].bridge = open[j].bridge /\ open'[j].stored = open[j].stored
      BY <1>0, <3>1 DEF Open, Records
    <3> QED
      BY <1>1, <1>2, <3>2, HeldSame DEF UserOpens, Held
  <2>2. CASE Of(f) = {}
    <3>1. open' = Opened(nextId, Object(f, TRUE, FALSE, TRUE))
      BY <1>2, <2>2 DEF UserOpens
    <3>2. /\ DOMAIN open' = DOMAIN open \cup {nextId} /\ nextId \notin DOMAIN open
          /\ ~ open'[nextId].bridge /\ \A j \in DOMAIN open : open'[j] = open[j]
      <4>1. LET r == Object(f, TRUE, FALSE, TRUE) IN r \in Records /\ r.bridge = FALSE
        BY NewObject
      <4> QED
        BY <1>0, <3>1, <4>1, OpenedFacts
    <3> QED
      BY <1>1, <1>2, <3>2 DEF UserOpens, Held
  <2> QED
    BY <2>1, <2>2
<1>3. CASE \E f \in Files : UserImports(f)
  BY <1>1, <1>3 DEF UserImports, Held
<1>4. CASE UserEdits \/ UserSaves
  <2>1. \/ open' = [open EXCEPT ![current].changed = TRUE]
        \/ open' = [open EXCEPT ![current].changed = FALSE]
    BY <1>4 DEF UserEdits, UserSaves
  <2>2. DOMAIN open' = DOMAIN open /\ \A j \in DOMAIN open :
          open'[j].bridge = open[j].bridge /\ open'[j].stored = open[j].stored
    BY <1>0, <2>1 DEF Open, Records
  <2> QED
    BY <1>1, <1>4, <2>2, HeldSame DEF UserEdits, UserSaves, Held
<1>5. CASE UserCloses
  <2>1. CASE open[current].bridge
    <3>1. open' = [open EXCEPT ![current].tool = FALSE]
      BY <1>5, <2>1 DEF UserCloses
    <3>2. DOMAIN open' = DOMAIN open /\ \A j \in DOMAIN open :
            open'[j].bridge = open[j].bridge /\ open'[j].stored = open[j].stored
      BY <1>0, <3>1 DEF Open, Records
    <3> QED
      BY <1>1, <1>5, <3>2, HeldSame DEF UserCloses, Held
  <2>2. CASE ~ open[current].bridge
    BY <1>1, <1>5, <2>2 DEF UserCloses, Held, Restrict
  <2> QED
    BY <2>1, <2>2
<1> QED
  BY <1>1, <1>2, <1>3, <1>4, <1>5

LEMMA WorkStep == WorkInv /\ [Next]_vars => WorkInv'
  BY TypesStep, RunsStep, KeptStep DEF WorkInv

\* The lock comes and goes while no command runs, and CloseDispatcher releases all.
LEMMA OutcomeWorker ==
    ASSUME OutcomeInv,
           FailToConstruct \/ Publish \/ LookForStop \/ LeaveLoop \/ Unlock
             \/ CloseDispatcher \/ Start \/ StopFlag \/ StopServer
    PROVE  (Held = consumers /\ (worker \in {"constructing", "ended"} => consumers = {})
              /\ Progress)'
<1>0. Held = consumers /\ WorkInv /\ (worker \in {"constructing", "ended"} => consumers = {})
  BY DEF OutcomeInv
<1>1. CASE CloseDispatcher
  <2>1. pc \in {"idle", "doubt"} /\ pc' = pc /\ request' = request
    BY <1>0, <1>1 DEF WorkInv, CloseDispatcher
  <2>2. CASE UNCHANGED <<nativeVars, consumers>> /\ worker' = "failed"
    BY <1>0, <2>1, <2>2 DEF nativeVars, Held, Progress, Ops
  <2>3. CASE worker' = "ended" /\ open' = Released(open, consumers) /\ consumers' = {}
    BY <1>0, <2>1, <2>3, HeldReleased DEF Progress, Ops
  <2> QED
    BY <1>1, <2>2, <2>3 DEF CloseDispatcher
<1>2. CASE Start
  BY <1>0, <1>2 DEF Start, nativeVars, Held, Progress, Ops
<1>3. CASE FailToConstruct \/ Publish \/ LookForStop \/ LeaveLoop \/ Unlock \/ StopFlag \/ StopServer
  <2>1. UNCHANGED <<nativeVars, commandVars>>
    BY <1>3 DEF FailToConstruct, Publish, LookForStop, LeaveLoop, Unlock, StopFlag, StopServer
  <2>2. worker' \in {"constructing", "ended"} => worker \in {"constructing", "ended"}
    BY <1>3 DEF FailToConstruct, Publish, LookForStop, LeaveLoop, Unlock, StopFlag, StopServer
  <2>3. Held' = Held /\ disk \subseteq disk' /\ \A i \in Held : open'[i].stored = open[i].stored
    BY <2>1 DEF nativeVars, Held
  <2>4. UNCHANGED <<pc, consumers, request, target, before, wrote, project>>
    BY <2>1 DEF nativeVars, commandVars
  <2>5. Progress' /\ Held' = consumers'
    BY <2>3, <2>4, OutcomeFrame
  <2> QED
    BY <1>0, <2>2, <2>4, <2>5
<1> QED
  BY <1>1, <1>2, <1>3

\* Each step of a command leaves the objects and the dispatcher's list in agreement.
LEMMA OutcomeCommand ==
    ASSUME OutcomeInv, Command
    PROVE  Held' = consumers' /\ Progress'
<1>0. /\ Held = consumers /\ Progress
      /\ nextId \in Nat /\ Open(open, nextId)
      /\ request.file \in Files \cup {Nobody}
  BY DEF OutcomeInv, WorkInv, WorkTypes
<1>1. ASSUME pc' \in {"idle", "doubt"} PROVE Progress'
  BY <1>1 DEF Progress, Ops
<1>2. CASE Receive
  <2>1. /\ UNCHANGED <<open, consumers, project>> /\ wrote' = {}
        /\ before' = [consumers |-> consumers, project |-> project]
        /\ request'.op \in Ops /\ pc' \in {request'.op, "refused"}
    BY <1>2, RequestFacts DEF Receive, nativeVars
  <2> QED
    BY <1>0, <2>1 DEF Held, Progress, Untouched, Ops
<1>3. CASE NativeFault
  <2>1. UNCHANGED <<open, consumers>> /\ pc' = "doubt"
    BY <1>3 DEF NativeFault, nativeVars, Step
  <2> QED
    BY <1>0, <1>1, <2>1 DEF Held
<1>4. CASE OpenProject
  BY <1>0, <1>4 DEF OpenProject, Step, Held, Progress, Ops
<1>5. CASE CloseProject
  <2>1. Held' = {}
    BY <1>0, <1>5, HeldReleased DEF CloseProject
  <2> QED
    BY <1>0, <1>5, <2>1 DEF CloseProject, Step, Progress, Ops
<1>6. CASE CloseNative
  BY <1>0, <1>6 DEF CloseNative, Step, Held, Progress, Ops
<1>7. CASE LoadImport
  <2>1. /\ open' = Opened(nextId, Object(request.file, FALSE, TRUE, FALSE))
        /\ consumers' = consumers \cup {nextId} /\ target' = nextId /\ pc' = "loaded"
        /\ pc = "import_program" /\ UNCHANGED <<request, wrote, project, before>>
    BY <1>7 DEF LoadImport, Step
  <2>2. /\ DOMAIN open' = DOMAIN open \cup {nextId} /\ nextId \notin DOMAIN open
        /\ open'[nextId].bridge /\ \A j \in DOMAIN open : open'[j] = open[j]
    BY <1>0, <2>1, OpenedFacts, NewObject
  <2>3. Held' = consumers' /\ nextId \notin consumers
    BY <1>0, <2>1, <2>2 DEF Held
  <2>4. request.op = "import_program" /\ Untouched
    BY <1>0, <2>1 DEF Progress, Ops
  <2> QED
    BY <2>1, <2>3, <2>4 DEF Progress, Untouched, Ops
<1>8. CASE RefuseImport \/ StoreFault \/ SelectFault
  <2>1. /\ pc \in {"loaded", "select", "selected"} /\ open' = Released(open, {target})
        /\ consumers' = consumers \ {target} /\ pc' \in {"refused", "doubt"}
        /\ pc' = "refused" => pc = "loaded"
        /\ UNCHANGED <<request, before, project, target>>
        /\ pc' = "refused" => wrote' = wrote
    BY <1>8 DEF RefuseImport, StoreFault, SelectFault, Discard, Step
  <2>2. target \in consumers
    BY <1>0, <2>1 DEF Progress, Settled
  <2>3. Held' = consumers'
    BY <1>0, <2>1, <2>2, HeldReleased
  <2>4. CASE pc' = "refused"
    BY <1>0, <2>1, <2>2, <2>3, <2>4 DEF Progress, Untouched, Ops
  <2> QED
    BY <1>1, <2>1, <2>3, <2>4
<1>9. CASE StoreImport
  <2>1. /\ pc = "loaded" /\ pc' = "switch" /\ disk' = disk \cup {request.file}
        /\ wrote' = wrote \cup {request.file} /\ UNCHANGED <<request, consumers, target>>
    BY <1>9 DEF StoreImport, Step
  <2>2. open' = [open EXCEPT ![target] =
                    [[open[target] EXCEPT !.stored = TRUE] EXCEPT !.changed = FALSE]]
    BY <1>9 DEF StoreImport
  <2>3. target \in consumers /\ request.op = "import_program"
    BY <1>0, <2>1 DEF Progress
  <2>4. target \in DOMAIN open
    BY <1>0, <2>3 DEF Held
  <2>5. open[target] \in Records
    BY <1>0, <2>4 DEF Open
  <2>6. /\ DOMAIN open' = DOMAIN open /\ open'[target].bridge = open[target].bridge
        /\ open'[target].stored /\ \A i \in DOMAIN open \ {target} : open'[i] = open[i]
    BY <2>2, <2>4, <2>5 DEF Records
  <2>7. Held' = Held
    BY <2>6, HeldSame
  <2> QED
    BY <1>0, <2>1, <2>3, <2>6, <2>7 DEF Progress, Settled, Ops
<1>10. CASE SelectSame
  BY <1>0, <1>10 DEF SelectSame, Step, nativeVars, Held, Progress, Untouched, Ops
<1>11. CASE Acquire
  <2>1. /\ pc = "select_program" /\ pc' = "switch" /\ consumers' = consumers \cup {target'}
        /\ UNCHANGED <<request, wrote>>
    BY <1>11 DEF Acquire, Step
  <2>2. Held' = consumers' /\ open'[target'].stored
    <3>1. CASE Of(request.file) # {}
      <4>1. target' \in Of(request.file) /\ open' = [open EXCEPT ![target'].bridge = TRUE]
        BY <1>11, <3>1 DEF Acquire
      <4>2. /\ target' \in DOMAIN open /\ DOMAIN open' = DOMAIN open
            /\ open'[target'].bridge /\ open'[target'].stored
            /\ \A i \in DOMAIN open \ {target'} : open'[i] = open[i]
        BY <1>0, <4>1 DEF Of, Open, Records
      <4> QED
        BY <1>0, <2>1, <4>2 DEF Held
    <3>2. CASE Of(request.file) = {}
      <4>1. open' = Opened(nextId, Object(request.file, TRUE, TRUE, FALSE)) /\ target' = nextId
        BY <1>11, <3>2 DEF Acquire
      <4>2. /\ DOMAIN open' = DOMAIN open \cup {nextId} /\ open'[nextId].bridge
            /\ open'[nextId].stored /\ \A j \in DOMAIN open : open'[j] = open[j]
        BY <1>0, <4>1, OpenedFacts, NewObject
      <4> QED
        BY <1>0, <2>1, <4>1, <4>2 DEF Held
    <3> QED
      BY <3>1, <3>2
  <2>3. request.op = "select_program" /\ wrote = {}
    BY <1>0, <2>1 DEF Progress, Untouched, Ops
  <2> QED
    BY <2>1, <2>2, <2>3 DEF Progress, Settled, Ops
<1>12. CASE LookAtOld
  BY <1>0, <1>12 DEF LookAtOld, Step, nativeVars, Held, Progress, Settled, Ops
<1>13. CASE Select
  <2>1. /\ pc = "select" /\ pc' = "selected"
        /\ UNCHANGED <<request, consumers, target, wrote, disk>>
    BY <1>13 DEF Select, Step
  <2>2. DOMAIN open' = DOMAIN open /\ \A j \in DOMAIN open :
          open'[j].bridge = open[j].bridge /\ open'[j].stored = open[j].stored
    BY <1>0, <1>13 DEF Select, Open, Records
  <2>3. Held' = Held
    BY <2>2, HeldSame
  <2>4. target \in DOMAIN open
    BY <1>0, <2>1 DEF Progress, Settled, Held
  <2> QED
    BY <1>0, <2>1, <2>2, <2>3, <2>4 DEF Progress, Settled, Ops
<1>14. CASE ReleaseOld
  <2> DEFINE replaced == (consumers \cap {old}) \ {target}
  <2>1. /\ pc = "selected" /\ pc' = "answered" /\ UNCHANGED <<request, target, wrote, disk>>
        /\ open' = Released(open, replaced) /\ consumers' = consumers \ replaced
    BY <1>14 DEF ReleaseOld, Step
  <2>2. Held' = consumers' /\ \A i \in Held' : open'[i] = open[i]
    BY <1>0, <2>1, HeldReleased
  <2>3. Settled /\ request.op # "close_project"
    BY <1>0, <2>1 DEF Progress
  <2>4. Settled'
    BY <2>1, <2>2, <2>3 DEF Settled
  <2> QED
    BY <2>1, <2>2, <2>3, <2>4 DEF Progress, Settled, Ops
<1>15. CASE Save
  <2>1. DOMAIN open' = DOMAIN open /\ \A j \in DOMAIN open : open'[j].bridge = open[j].bridge
    BY <1>0, <1>15 DEF Save, Open, Records
  <2> QED
    BY <1>0, <1>15, <2>1, HeldSame DEF Save, Step, Progress, Ops
<1>16. CASE CheckSaved
  <2>1. UNCHANGED <<open, consumers, request>> /\ pc = "saved" /\ pc' \in {"answered", "doubt"}
    BY <1>16 DEF CheckSaved, Step, nativeVars
  <2> QED
    BY <1>0, <2>1 DEF Held, Progress, Ops
<1>17. CASE Respond
  <2>1. UNCHANGED <<open, consumers>> /\ pc' = "idle"
    BY <1>17 DEF Respond, Step, nativeVars
  <2> QED
    BY <1>0, <1>1, <2>1 DEF Held
<1>18. CASE BridgeEdits
  <2>1. /\ DOMAIN open' = DOMAIN open /\ disk' = disk
        /\ UNCHANGED <<pc, consumers, request, target, before, wrote, project>>
        /\ \A j \in DOMAIN open :
             open'[j].bridge = open[j].bridge /\ open'[j].stored = open[j].stored
    BY <1>0, <1>18 DEF BridgeEdits, Open, Records, commandVars
  <2>2. Held' = Held /\ \A i \in Held : open'[i].stored = open[i].stored
    BY <2>1, HeldSame DEF Held
  <2> QED
    BY <2>1, <2>2, OutcomeFrame
<1> QED
  BY <1>2, <1>3, <1>4, <1>5, <1>6, <1>7, <1>8, <1>9, <1>10, <1>11, <1>12, <1>13, <1>14,
     <1>15, <1>16, <1>17, <1>18 DEF Command

LEMMA OutcomeStep == OutcomeInv /\ [Next]_vars => OutcomeInv'
<1> SUFFICES ASSUME OutcomeInv, [Next]_vars PROVE OutcomeInv'
  OBVIOUS
<1>1. WorkInv'
  BY WorkStep DEF OutcomeInv
<1>2. CASE FailToConstruct \/ Publish \/ LookForStop \/ LeaveLoop \/ Unlock
             \/ CloseDispatcher \/ Start \/ StopFlag \/ StopServer
  BY <1>1, <1>2, OutcomeWorker DEF OutcomeInv
<1>3. CASE Command
  <2>1. worker' = worker
    BY <1>3, CommandKeepsWorker DEF workerVars
  <2>2. worker # "running" => consumers' = consumers
    <3>1. CASE Receive \/ BridgeEdits
      BY <3>1 DEF Receive, BridgeEdits, commandVars
    <3>2. CASE ~ Receive /\ ~ BridgeEdits
      <4>1. pc \notin {"idle", "doubt"}
        BY <1>3, <3>2 DEF Command, NativeFault, OpenProject, CloseProject, CloseNative,
           LoadImport, RefuseImport, StoreImport, StoreFault, SelectSame, Acquire, LookAtOld,
           Select, SelectFault, ReleaseOld, Save, CheckSaved, Respond, Ops
      <4> QED
        BY <4>1 DEF OutcomeInv, WorkInv
    <3> QED
      BY <3>1, <3>2
  <2> QED
    BY <1>1, <1>3, <2>1, <2>2, OutcomeCommand DEF OutcomeInv
<1>4. CASE (\E f \in Files : UserOpens(f) \/ UserImports(f)) \/ UserEdits \/ UserSaves
             \/ UserCloses
  BY <1>1, <1>4, UserFrame, OutcomeFrame DEF OutcomeInv
<1>5. CASE Finished \/ UNCHANGED vars
  BY <1>1, <1>5 DEF Finished, vars, nativeVars, commandVars, workerVars, OutcomeInv, Held,
     Progress, Settled, Untouched
<1> QED
  BY <1>2, <1>3, <1>4, <1>5 DEF Next

\* Every command has one outcome, whatever steps of it fail and whatever the user of
\* the GUI does between them: nothing is leaked or released twice, and a refusal has
\* saved, opened and closed nothing.
THEOREM EveryCommandHasOneOutcome == Spec => []OneOutcome
<1>1. OutcomeInv => OneOutcome
  BY DEF OutcomeInv, Progress, Settled, Untouched, OneOutcome, Held, Ops
<1> QED
  BY <1>1, OutcomeInit, OutcomeStep, PTL DEF Spec
=============================================================================
