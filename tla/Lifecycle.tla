----------------------------- MODULE Lifecycle -----------------------------
(***************************************************************************)
(* Projects and programs of one bridge: the dispatcher's lifecycle commands,     *)
(* the native program objects and who holds them, and the thread that runs the    *)
(* bridge, from its construction to the closing of the dispatcher.                *)
(*                                                                         *)
(* A headless bridge owns its project and is its only user.  The GUI's bridge      *)
(* shares the tool's project with a user who opens, edits, saves, closes and        *)
(* switches programs at any time, also between two steps of a command; the          *)
(* project of the tool stays open.  A program object lives while somebody holds     *)
(* it, and what was not saved ends with it.                                        *)
(***************************************************************************)
EXTENDS Integers, FiniteSets, Functions

CONSTANTS
    Files,          \* program files of a project
    Modes,          \* "headless", "gui"
    Nobody,         \* no project, no program
    MaxIds,         \* bound: identities given to projects and program objects
    MaxCommands,    \* bound: commands received
    MaxUserSteps,   \* bound: steps of the GUI user
    MaxStarts       \* bound: starts of the GUI's bridge

ASSUME LifecycleAssumption ==
    /\ Modes \subseteq {"headless", "gui"}
    /\ {MaxIds, MaxCommands, MaxUserSteps, MaxStarts} \subseteq Nat
    /\ Nobody \notin Nat \cup Files

VARIABLES
    mode,
    \* Native state.
    project,     \* identity of the open project, or Nobody
    disk,        \* files saved in it
    open,        \* identity -> [file, stored, changed, bridge, tool] of an open program
    current,     \* identity of the program that is selected, or Nobody
    lost,        \* stored programs whose unsaved work ended with a release by the bridge
    \* CommandDispatcher.
    consumers,   \* programs the dispatcher has to release
    request,     \* [op, file, project, program]
    pc,          \* idle, the operation or the step of it, answered, refused, doubt
    target, old, \* the program a command works on, and the one it replaces
    before,      \* consumers and project when the command began
    wrote,       \* files the command saved
    \* RedlineMcpPlugin and BridgeServer.
    worker,      \* constructing, published, running, closing, unlocked, ended, failed
    stopping,    \* the plugin's flag
    published,   \* the field bridge refers to the server
    closed,      \* the server's flag
    ui,          \* idle, or stopBridge between its two steps
    nextId, commands, userSteps, starts

nativeVars == <<project, disk, open, current, lost>>
commandVars == <<consumers, request, pc, target, old, before, wrote, commands>>
workerVars == <<worker, stopping, published, closed, ui, starts>>
vars == <<mode, nativeVars, commandVars, workerVars, nextId, userSteps>>

-----------------------------------------------------------------------------
\* The objects o after the bridge releases those of S.
Released(o, S) ==
    [i \in {i \in DOMAIN o : i \notin S \/ o[i].tool} |->
        IF i \in S THEN [o[i] EXCEPT !.bridge = FALSE] ELSE o[i]]
\* Work that ends with such a release.
Dropped(o, S) == {i \in S \cap DOMAIN o : o[i].changed /\ o[i].stored /\ ~ o[i].tool}
Of(file) == {i \in DOMAIN open : open[i].stored /\ open[i].file = file}
Object(file, stored, bridge, tool) ==
    [file |-> file, stored |-> stored, changed |-> ~ stored, bridge |-> bridge, tool |-> tool]
Opened(i, object) == [k \in DOMAIN open \cup {i} |-> IF k = i THEN object ELSE open[k]]
Changed(i) == i \in DOMAIN open /\ open[i].changed

Ops == {"open_project", "close_project", "import_program", "select_program", "save_program"}
NoRequest == [op |-> "none", file |-> Nobody, project |-> Nobody, program |-> Nobody]

Init ==
    /\ mode \in Modes
    /\ disk \in SUBSET Files
    /\ project = (IF mode = "gui" THEN 0 ELSE Nobody)
    /\ open = <<>> /\ current = Nobody /\ lost = {}
    /\ consumers = {} /\ request = NoRequest /\ pc = "idle"
    /\ target = Nobody /\ old = Nobody
    /\ before = [consumers |-> {}, project |-> Nobody] /\ wrote = {}
    /\ worker = "constructing" /\ stopping = FALSE /\ published = FALSE /\ closed = FALSE
    /\ ui = "idle"
    /\ nextId = 1 /\ commands = 0 /\ userSteps = 0 /\ starts = 1

-----------------------------------------------------------------------------
(* The thread of the bridge.                                                *)

\* Another bridge owns the mailbox, or something is left in it.
FailToConstruct ==
    /\ worker = "constructing"
    /\ worker' = "ended"
    /\ UNCHANGED <<mode, nativeVars, commandVars, stopping, published, closed, ui, starts, nextId,
                   userSteps>>

\* The field is set before the flag is looked at.
Publish ==
    /\ worker = "constructing"
    /\ worker' = "published" /\ published' = TRUE
    /\ UNCHANGED <<mode, nativeVars, commandVars, stopping, closed, ui, starts, nextId, userSteps>>

\* A plausible slip: a stop that came during construction is not looked for.
RunAnyway ==
    /\ worker = "published"
    /\ worker' = "running"
    /\ UNCHANGED <<mode, nativeVars, commandVars, stopping, published, closed, ui, starts, nextId,
                   userSteps>>
LookForStop ==
    /\ worker = "published"
    /\ worker' = IF stopping THEN "closing" ELSE "running"
    /\ UNCHANGED <<mode, nativeVars, commandVars, stopping, published, closed, ui, starts, nextId,
                   userSteps>>

\* The loop ends between two commands: closed, the stop sentinel (at any time),
\* or a doubt.
LeaveLoop ==
    /\ worker = "running" /\ pc \in {"idle", "doubt"}
    /\ worker' = "closing"
    /\ UNCHANGED <<mode, nativeVars, commandVars, stopping, published, closed, ui, starts, nextId,
                   userSteps>>

\* BridgeServer.close(): the mailbox is free for the next bridge.
Unlock ==
    /\ worker = "closing"
    /\ worker' = "unlocked" /\ closed' = TRUE
    /\ UNCHANGED <<mode, nativeVars, commandVars, stopping, published, ui, starts, nextId, userSteps>>

\* CommandDispatcher.close(): a headless bridge with unsaved work fails and keeps it.
CloseDispatcher ==
    /\ worker = "unlocked"
    /\ IF mode = "headless" /\ \E i \in consumers : Changed(i)
       THEN worker' = "failed" /\ UNCHANGED <<nativeVars, consumers>>
       ELSE /\ worker' = "ended"
            /\ open' = Released(open, consumers) /\ lost' = lost \cup Dropped(open, consumers)
            /\ consumers' = {}
            /\ current' = (IF mode = "headless" THEN Nobody ELSE current)
            /\ project' = (IF mode = "headless" THEN Nobody ELSE project)
            /\ disk' = disk
    /\ published' = FALSE
    /\ UNCHANGED <<mode, request, pc, target, old, before, wrote, commands, stopping, closed, ui,
                   starts, nextId, userSteps>>

\* startBridge, once the last worker is gone: a new dispatcher and server.
Start ==
    /\ mode = "gui" /\ worker = "ended" /\ ui = "idle" /\ starts < MaxStarts
    /\ worker' = "constructing" /\ stopping' = FALSE /\ closed' = FALSE /\ starts' = starts + 1
    /\ pc' = "idle" /\ request' = NoRequest
    /\ UNCHANGED <<mode, nativeVars, consumers, target, old, before, wrote, commands, published, ui,
                   nextId, userSteps>>

\* stopBridge, or dispose(): the flag, then the server if there is one.
StopFlag ==
    /\ mode = "gui" /\ ui = "idle" /\ ~ stopping /\ worker # "ended"
    /\ stopping' = TRUE /\ ui' = "flagged"
    /\ UNCHANGED <<mode, nativeVars, commandVars, worker, published, closed, starts, nextId,
                   userSteps>>
StopServer ==
    /\ ui = "flagged"
    /\ ui' = "idle" /\ closed' = (closed \/ published)
    /\ UNCHANGED <<mode, nativeVars, commandVars, worker, stopping, published, starts, nextId,
                   userSteps>>

-----------------------------------------------------------------------------
(* Commands.                                                                *)

\* A plausible slip: the selected program is switched away whatever it holds.
SwitchAlways == TRUE
SwitchSafe == ~ Changed(current)
\* What is checked before anything happens; expectedProject and expectedProgram
\* compare identities.
Allowed(r) ==
    CASE r.op = "open_project" -> mode = "headless" /\ project = Nobody
      [] r.op = "close_project" ->
            /\ mode = "headless" /\ project = r.project
            /\ ~ Changed(current) /\ \A i \in consumers : ~ Changed(i)
      [] r.op = "import_program" ->
            project = r.project /\ SwitchSafe /\ r.file \notin disk
      [] r.op = "select_program" ->
            project = r.project /\ SwitchSafe /\ r.file \in disk
      [] r.op = "save_program" -> current = r.program

\* A client sends identities that were given once, of what is there or was.
Requests ==
    LET given == 0..(nextId - 1) \cup {Nobody}
    IN {r \in [op : Ops, file : Files \cup {Nobody}, project : given, program : given] :
          /\ (r.file = Nobody) = (r.op \notin {"import_program", "select_program"})
          /\ (r.project = Nobody) = (r.op \in {"open_project", "save_program"})
          /\ (r.program = Nobody) = (r.op # "save_program")}

Receive ==
    /\ worker = "running" /\ ~ closed /\ pc = "idle" /\ commands < MaxCommands
    /\ request' \in Requests
    /\ pc' = IF Allowed(request') THEN request'.op ELSE "refused"
    /\ commands' = commands + 1
    /\ before' = [consumers |-> consumers, project |-> project]
    /\ wrote' = {} /\ target' = Nobody /\ old' = Nobody
    /\ UNCHANGED <<mode, nativeVars, consumers, workerVars, nextId, userSteps>>

\* A step of a command ends it, or is followed by the step named next.
Step(next) ==
    /\ pc' = next
    /\ UNCHANGED <<mode, request, before, commands, workerVars, userSteps>>

\* An exception of native code in a step that changes something: every operation
\* here is a mutation for the bridge.
NativeFault ==
    /\ pc \in Ops \cup {"closing"}
    /\ Step("doubt")
    /\ UNCHANGED <<nativeVars, consumers, target, old, wrote, nextId>>

OpenProject ==
    /\ pc = "open_project" /\ nextId < MaxIds
    /\ project' = nextId /\ nextId' = nextId + 1
    /\ Step("answered")
    /\ UNCHANGED <<disk, open, current, lost, consumers, target, old, wrote>>

CloseProject ==
    /\ pc = "close_project"
    /\ open' = Released(open, consumers) /\ lost' = lost \cup Dropped(open, consumers)
    /\ consumers' = {} /\ current' = Nobody
    /\ Step("closing")
    /\ UNCHANGED <<project, disk, target, old, wrote, nextId>>
CloseNative ==
    /\ pc = "closing"
    /\ project' = Nobody
    /\ Step("answered")
    /\ UNCHANGED <<disk, open, current, lost, consumers, target, old, wrote, nextId>>

\* The loader's program is in no folder yet.
LoadImport ==
    /\ pc = "import_program" /\ nextId < MaxIds
    /\ open' = Opened(nextId, Object(request.file, FALSE, TRUE, FALSE))
    /\ consumers' = consumers \cup {nextId}
    /\ target' = nextId /\ nextId' = nextId + 1
    /\ Step("loaded")
    /\ UNCHANGED <<project, disk, current, lost, old, wrote>>

\* A plausible slip: the program is released and stays among the consumers.
DiscardFromNative ==
    /\ open' = Released(open, {target}) /\ lost' = lost \cup Dropped(open, {target})
    /\ consumers' = consumers
\* What has not been accepted is given back.
Discard ==
    /\ open' = Released(open, {target}) /\ lost' = lost \cup Dropped(open, {target})
    /\ consumers' = consumers \ {target}

\* Blocks, image base and the name in the folder are looked at again.
RefuseImport ==
    /\ pc = "loaded"
    /\ Discard
    /\ Step("refused")
    /\ UNCHANGED <<project, disk, current, target, old, wrote, nextId>>
StoreImport ==
    /\ pc = "loaded" /\ request.file \notin disk
    /\ disk' = disk \cup {request.file} /\ wrote' = wrote \cup {request.file}
    /\ open' = [open EXCEPT ![target].stored = TRUE, ![target].changed = FALSE]
    /\ Step("switch")
    /\ UNCHANGED <<project, current, lost, consumers, target, old, nextId>>
\* LoadResults.save fails before or after it has written.
StoreFault ==
    /\ pc = "loaded" /\ request.file \notin disk
    /\ disk' \in {disk, disk \cup {request.file}}
    /\ Discard
    /\ Step("doubt")
    /\ UNCHANGED <<project, current, target, old, wrote, nextId>>

\* The program that is selected already is the answer.
SelectSame ==
    /\ pc = "select_program" /\ current \in Of(request.file)
    /\ target' = current
    /\ Step("answered")
    /\ UNCHANGED <<nativeVars, consumers, old, wrote, nextId>>
\* The object that is open, or a new one.
Acquire ==
    /\ pc = "select_program" /\ current \notin Of(request.file)
    /\ IF Of(request.file) # {}
       THEN /\ target' \in Of(request.file)
            /\ open' = [open EXCEPT ![target'].bridge = TRUE]
            /\ nextId' = nextId
       ELSE /\ nextId < MaxIds
            /\ open' = Opened(nextId, Object(request.file, TRUE, TRUE, FALSE))
            /\ target' = nextId /\ nextId' = nextId + 1
    /\ consumers' = consumers \cup {target'}
    /\ Step("switch")
    /\ UNCHANGED <<project, disk, current, lost, old, wrote>>

\* switchProgram: three looks at the selected program, in the GUI each a task of
\* its own for the event thread.
LookAtOld ==
    /\ pc = "switch"
    /\ old' = current
    /\ Step("select")
    /\ UNCHANGED <<nativeVars, consumers, target, wrote, nextId>>
Select ==
    /\ pc = "select"
    /\ current' = target
    /\ open' = IF mode = "gui" THEN [open EXCEPT ![target].tool = TRUE] ELSE open
    /\ Step("selected")
    /\ UNCHANGED <<project, disk, lost, consumers, target, old, wrote, nextId>>
\* The tool closes, or its user has selected another program already.
SelectFault ==
    /\ \/ pc = "select" /\ mode = "gui"
       \/ pc = "selected" /\ current # target
    /\ Discard
    /\ Step("doubt")
    /\ UNCHANGED <<project, disk, current, target, old, wrote, nextId>>
ReleaseOld ==
    /\ pc = "selected" /\ current = target
    /\ LET replaced == (consumers \cap {old}) \ {target}
       IN /\ open' = Released(open, replaced) /\ lost' = lost \cup Dropped(open, replaced)
          /\ consumers' = consumers \ replaced
    /\ Step("answered")
    /\ UNCHANGED <<project, disk, current, target, old, wrote, nextId>>

Save ==
    /\ pc = "save_program" /\ request.program \in DOMAIN open
    /\ open' = [open EXCEPT ![request.program].changed = FALSE]
    /\ target' = request.program /\ wrote' = {open[target'].file}
    /\ Step("saved")
    /\ UNCHANGED <<project, disk, current, lost, consumers, old, nextId>>
\* Saved is answered only if it is still so.
CheckSaved ==
    /\ pc = "saved"
    /\ Step(IF current = target /\ ~ Changed(target) THEN "answered" ELSE "doubt")
    /\ UNCHANGED <<nativeVars, consumers, target, old, wrote, nextId>>

Respond ==
    /\ pc \in {"answered", "refused"}
    /\ Step("idle")
    /\ UNCHANGED <<nativeVars, consumers, target, old, wrote, nextId>>

\* Between two commands, a metadata edit or what an analysis did; an analysis that
\* close() waits for leaves what it has done, too.
BridgeEdits ==
    /\ (worker = "running" /\ pc = "idle") \/ worker = "closing"
    /\ current \in DOMAIN open /\ ~ Changed(current)
    /\ open' = [open EXCEPT ![current].changed = TRUE]
    /\ UNCHANGED <<mode, project, disk, current, lost, commandVars, workerVars, nextId, userSteps>>

-----------------------------------------------------------------------------
(* The user of the GUI.                                                     *)

User ==
    /\ mode = "gui" /\ userSteps < MaxUserSteps
    /\ userSteps' = userSteps + 1
    /\ UNCHANGED <<mode, project, lost, commandVars, workerVars>>

UserOpens(f) ==
    /\ User /\ f \in disk
    /\ IF Of(f) # {}
       THEN /\ current' \in Of(f) \ {current}
            /\ open' = [open EXCEPT ![current'].tool = TRUE]
            /\ nextId' = nextId
       ELSE /\ nextId < MaxIds
            /\ open' = Opened(nextId, Object(f, TRUE, FALSE, TRUE))
            /\ current' = nextId /\ nextId' = nextId + 1
    /\ disk' = disk
UserEdits ==
    /\ User /\ current \in DOMAIN open /\ ~ Changed(current)
    /\ open' = [open EXCEPT ![current].changed = TRUE]
    /\ UNCHANGED <<disk, current, nextId>>
UserSaves ==
    /\ User /\ Changed(current)
    /\ open' = [open EXCEPT ![current].changed = FALSE]
    /\ UNCHANGED <<disk, current, nextId>>
\* A program somebody else holds as well stays as it is; the work of one that
\* nobody else holds is the user's to throw away.
UserCloses ==
    /\ User /\ current \in DOMAIN open
    /\ open' = IF open[current].bridge THEN [open EXCEPT ![current].tool = FALSE]
               ELSE Restrict(open, DOMAIN open \ {current})
    /\ current' \in {i \in DOMAIN open' : open'[i].tool} \cup {Nobody}
    /\ current' = Nobody => \A i \in DOMAIN open' : ~ open'[i].tool
    /\ UNCHANGED <<disk, nextId>>
UserImports(f) ==
    /\ User /\ f \notin disk
    /\ disk' = disk \cup {f}
    /\ UNCHANGED <<open, current, nextId>>

-----------------------------------------------------------------------------
\* Nothing runs any more, or a bound is reached.
Finished ==
    /\ \/ worker \in {"ended", "failed"}
       \/ nextId = MaxIds
    /\ UNCHANGED vars

Command ==
    \/ Receive \/ NativeFault \/ OpenProject \/ CloseProject \/ CloseNative
    \/ LoadImport \/ RefuseImport \/ StoreImport \/ StoreFault
    \/ SelectSame \/ Acquire \/ LookAtOld \/ Select \/ SelectFault \/ ReleaseOld
    \/ Save \/ CheckSaved \/ Respond \/ BridgeEdits

Next ==
    \/ FailToConstruct \/ Publish \/ LookForStop \/ LeaveLoop \/ Unlock \/ CloseDispatcher
    \/ Start \/ StopFlag \/ StopServer
    \/ Command
    \/ \E f \in Files : UserOpens(f) \/ UserImports(f)
    \/ UserEdits \/ UserSaves \/ UserCloses
    \/ Finished

Spec == Init /\ [][Next]_vars

-----------------------------------------------------------------------------
(* Properties.                                                              *)

\* A stop of the GUI's bridge is not lost, wherever the worker is: once
\* stopBridge has returned, no server runs that has not been told.
StopNotLost == stopping /\ ui = "idle" /\ worker = "running" => closed

\* A headless bridge ends nobody's unsaved work: not by closing the project, not
\* by an import or a selection, failed or not, and not when it stops.  Only a stop
\* with nothing unsaved is a clean end.
WorkKept == mode = "headless" => lost = {}

\* Several steps, some of which may fail, and one outcome.  Outside of a command the
\* dispatcher knows exactly the programs it holds, so none is leaked and none
\* released twice; a definite error has saved nothing, opened nothing and
\* closed nothing; an answer means what it says; nothing is held after a clean end.
OneOutcome ==
    LET held == {i \in DOMAIN open : open[i].bridge}
    IN /\ pc \in {"idle", "answered", "refused", "doubt"} => held = consumers
       /\ pc = "refused" =>
            wrote = {} /\ consumers = before.consumers /\ project = before.project
       /\ pc = "answered" /\ request.op = "import_program" =>
            target \in consumers /\ open[target].stored /\ request.file \in disk \cap wrote
       /\ pc = "answered" /\ request.op = "select_program" => wrote = {}
       /\ pc = "answered" /\ request.op = "close_project" => held = {} /\ project = Nobody
       /\ worker = "ended" => held = {}
=============================================================================
