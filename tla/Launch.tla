------------------------------- MODULE Launch -------------------------------
(***************************************************************************)
(* Automatic startup of the bridge: ConnectionConfig::prepare (backend.rs), *)
(* the launcher (launch.rs), the start scripts it runs as a helper process   *)
(* and the Java process the helper starts and leaves behind.  A tool call    *)
(* holds client.lock from opening the mailbox on; a bridge holds bridge.lock;*)
(* the helper holds it while it looks at the directory.  The client's own    *)
(* probe of bridge.lock is one step here (MailboxExchange splits it).        *)
(***************************************************************************)
EXTENDS Naturals, FiniteSets

CONSTANTS
    Clients,    \* MCP server processes configured with --launch-config
    Launches,   \* helper processes ever spawned, each with its Java process
    Other,      \* a bridge nobody launches: the GUI plugin
    Nobody,     \* no owner, no helper
    Crashes     \* TRUE: a client may die without dropping its futures

ASSUME LaunchAssumption ==
    /\ Clients \cap Launches = {}
    /\ {Other, Nobody} \cap (Clients \cup Launches) = {}
    /\ Other # Nobody
    /\ Crashes \in BOOLEAN

VARIABLES
    clientLock,  \* owner of client.lock
    bridgeLock,  \* owner of bridge.lock: Other, or a launch (helper or Java)
    stop,        \* the stop sentinel exists
    doubt,       \* an unfinished exchange is left in the mailbox
    cpc,         \* position of a client's tool call
    stored,      \* Backend.mailbox is Some
    uncertain,   \* Backend.launch_uncertain
    launch,      \* the helper the call waits for
    unconfirmed, \* history: helpers this process spawned and did not confirm
    hpc,         \* position of a helper
    jpc,         \* position of its Java process
    used,        \* history: Java processes that executed a command
    written,     \* parts of the readiness record a helper has put in its pipe
    captured,    \* parts the reader task of the call has captured
    ended,       \* how the reader task ended, if it has
    permit       \* the stored notification of tokio::sync::Notify

mailboxVars == <<clientLock, bridgeLock, stop, doubt>>
captureVars == <<captured, ended, permit>>
clientVars  == <<cpc, stored, uncertain, launch, unconfirmed, captureVars>>
processVars == <<hpc, jpc, used, written>>
vars == <<mailboxVars, clientVars, processVars>>

Record  == 2     \* parts of a complete readiness record
Waiting == {"await", "read", "parked"}
Gone    == {"exited", "failed", "killed"}
Dead    == {"none", "dead", "over", "stopped"}  \* over: it had said "ready"
Serving == {"serving", "ready"}

TypeOK ==
    /\ clientLock \in Clients \cup {Nobody}
    /\ bridgeLock \in Launches \cup {Other, Nobody}
    /\ stop \in BOOLEAN /\ doubt \in BOOLEAN
    /\ cpc \in [Clients -> Waiting \cup
                 {"off", "idle", "prepare", "launch", "confirm", "last", "send"}]
    /\ stored \in [Clients -> BOOLEAN] /\ uncertain \in [Clients -> BOOLEAN]
    /\ launch \in [Clients -> Launches \cup {Nobody}]
    /\ unconfirmed \in [Clients -> SUBSET Launches]
    /\ hpc \in [Launches -> Gone \cup
                 {"none", "check", "holding", "start", "wait", "record", "write"}]
    /\ jpc \in [Launches -> Dead \cup Serving \cup {"starting", "closing"}]
    /\ used \subseteq Launches
    /\ written \in [Launches -> 0 .. Record]
    /\ captured \in [Clients -> 0 .. Record]
    /\ ended \in [Clients -> {"no", "end", "error"}] /\ permit \in [Clients -> BOOLEAN]

Init ==
    /\ clientLock = Nobody /\ bridgeLock = Nobody
    /\ stop = FALSE /\ doubt = FALSE
    /\ cpc = [c \in Clients |-> "off"]
    /\ stored = [c \in Clients |-> FALSE]
    /\ uncertain = [c \in Clients |-> FALSE]
    /\ launch = [c \in Clients |-> Nobody]
    /\ unconfirmed = [c \in Clients |-> {}]
    /\ hpc = [l \in Launches |-> "none"]
    /\ jpc = [l \in Launches |-> "none"]
    /\ used = {}
    /\ written = [l \in Launches |-> 0]
    /\ captured = [c \in Clients |-> 0]
    /\ ended = [c \in Clients |-> "no"]
    /\ permit = [c \in Clients |-> FALSE]

-----------------------------------------------------------------------------
(* Locks as a probe sees them. *)

HelperHolds == bridgeLock \in Launches /\ hpc[bridgeLock] = "holding"

\* bridge_running: a bridge holds the lock.  A helper's exclusive handle makes
\* opening the file fail, which is an error and neither answer.
Running    == bridgeLock # Nobody /\ ~HelperHolds
NotRunning == bridgeLock = Nobody

KillNothing(l) == UNCHANGED <<hpc, bridgeLock>>

\* A killed helper's handle is closed by the system.
Kill(l) ==
    /\ hpc' = [hpc EXCEPT ![l] = IF @ \in Gone THEN @ ELSE "killed"]
    /\ bridgeLock' = IF HelperHolds /\ bridgeLock = l THEN Nobody ELSE bridgeLock

-----------------------------------------------------------------------------
(* The tool call. *)

Goto(c, to) == cpc' = [cpc EXCEPT ![c] = to]

StartClient(c) ==
    /\ cpc[c] = "off"
    /\ Goto(c, "idle")
    /\ UNCHANGED <<mailboxVars, stored, uncertain, launch, unconfirmed, captureVars,
                   processVars>>

\* connected_mailbox opens the mailbox or uses the one it has.  Another owner of
\* client.lock is an error that changes nothing.
BeginCall(c) ==
    /\ cpc[c] = "idle" /\ clientLock \in {Nobody, c}
    /\ clientLock' = c
    /\ Goto(c, "prepare")
    /\ UNCHANGED <<bridgeLock, stop, doubt, stored, uncertain, launch, unconfirmed,
                   captureVars, processVars>>

\* The launcher's local state is dropped when it returns.
DropLaunch(c) ==
    /\ launch' = [launch EXCEPT ![c] = Nobody]
    /\ captured' = [captured EXCEPT ![c] = 0]
    /\ ended' = [ended EXCEPT ![c] = "no"]
    /\ permit' = [permit EXCEPT ![c] = FALSE]

\* The call returns an error or is dropped: a mailbox that was not stored yet is
\* dropped too.  launch_uncertain belongs to the backend and stays.
Leave(c) ==
    /\ Goto(c, "idle")
    /\ clientLock' = IF stored[c] THEN clientLock ELSE Nobody
    /\ DropLaunch(c)
    /\ UNCHANGED <<stop, doubt, stored, uncertain, unconfirmed, jpc, used, written>>

\* Whatever prepare refuses: a mailbox that is not idle, an uncertain launch, an
\* invalid configuration, a failing probe.
RefuseCall(c) ==
    /\ cpc[c] = "prepare"
    /\ Leave(c)
    /\ UNCHANGED <<bridgeLock, hpc>>

Reusable(c) == ~stop /\ ~doubt /\ ~uncertain[c]

FindBridge(c) ==
    /\ cpc[c] = "prepare" /\ Reusable(c) /\ Running
    /\ Goto(c, "last")
    /\ UNCHANGED <<mailboxVars, stored, uncertain, launch, unconfirmed, captureVars,
                   processVars>>

DecideLaunchUnlatched(c) ==
    /\ cpc[c] = "prepare" /\ Reusable(c) /\ NotRunning
    /\ Goto(c, "launch")
    /\ UNCHANGED <<mailboxVars, stored, uncertain, launch, unconfirmed, captureVars,
                   processVars>>

\* The latch is set before the launcher is entered.
DecideLaunch(c) ==
    /\ cpc[c] = "prepare" /\ Reusable(c) /\ NotRunning
    /\ uncertain' = [uncertain EXCEPT ![c] = TRUE]
    /\ Goto(c, "launch")
    /\ UNCHANGED <<mailboxVars, stored, launch, unconfirmed, captureVars, processVars>>

\* ensure_bridge fails before it spawns anything: not on Windows, configuration
\* changed, no PowerShell, handles, spawn.
LaunchUnavailable(c) ==
    /\ cpc[c] = "launch"
    /\ Leave(c)
    /\ UNCHANGED <<bridgeLock, hpc>>

LaunchNotNeeded(c) ==
    /\ cpc[c] = "launch" /\ Running
    /\ Goto(c, "confirm")
    /\ UNCHANGED <<mailboxVars, stored, uncertain, launch, unconfirmed, captureVars,
                   processVars>>

Spawn(c, l) ==
    /\ cpc[c] = "launch" /\ NotRunning /\ hpc[l] = "none"
    /\ hpc' = [hpc EXCEPT ![l] = "check"]
    /\ launch' = [launch EXCEPT ![c] = l]
    /\ unconfirmed' = [unconfirmed EXCEPT ![c] = @ \cup {l}]
    /\ Goto(c, "await")
    /\ UNCHANGED <<mailboxVars, stored, uncertain, captureVars, jpc, used, written>>

\* child.wait(): a failed helper is an error, a successful one is read.
HelperSucceeded(c) ==
    /\ cpc[c] = "await" /\ hpc[launch[c]] = "exited"
    /\ Goto(c, "read")
    /\ UNCHANGED <<mailboxVars, stored, uncertain, launch, unconfirmed, captureVars,
                   processVars>>

HelperFailed(c) ==
    /\ cpc[c] = "await" /\ hpc[launch[c]] = "failed"
    /\ Leave(c)
    /\ UNCHANGED <<bridgeLock, hpc>>

CompleteAtEnd(c) == captured[c] = Record /\ ended[c] = "end"

\* wait_for_readiness looks at the capture: a read error decides first, then a
\* complete record; an incomplete one is waited for unless the pipe has ended.
Complete(c) == captured[c] = Record
Invalid(c) == ended[c] = "error" \/ (~Complete(c) /\ ended[c] = "end")

SeeReady(c) ==
    /\ cpc[c] = "read" /\ Complete(c) /\ ended[c] # "error"
    /\ Goto(c, "confirm")
    /\ UNCHANGED <<mailboxVars, stored, uncertain, launch, unconfirmed, captureVars,
                   processVars>>

Park(c) ==
    /\ cpc[c] = "read" /\ ~Complete(c) /\ ended[c] = "no"
    /\ Goto(c, "parked")
    /\ UNCHANGED <<mailboxVars, stored, uncertain, launch, unconfirmed, captureVars,
                   processVars>>

SeeInvalid(c) ==
    /\ cpc[c] = "read" /\ Invalid(c)
    /\ Leave(c)
    /\ UNCHANGED <<bridgeLock, hpc>>

\* notify_one stores its permit when nobody waits, so the order of the look and
\* the notification does not matter.
Wake(c) ==
    /\ cpc[c] = "parked" /\ permit[c]
    /\ permit' = [permit EXCEPT ![c] = FALSE]
    /\ Goto(c, "read")
    /\ UNCHANGED <<mailboxVars, stored, uncertain, launch, unconfirmed, captured, ended,
                   processVars>>

TimeoutLeavesHelper(c) ==
    /\ cpc[c] \in Waiting
    /\ Leave(c)
    /\ UNCHANGED <<bridgeLock, hpc>>

\* STARTUP_TIMEOUT: the helper is killed, the Java process is not.
Timeout(c) ==
    /\ cpc[c] \in Waiting
    /\ Kill(launch[c])
    /\ Leave(c)

\* The launcher reported ready: the latch falls if a bridge owns the mailbox.
Confirm(c) ==
    /\ cpc[c] = "confirm" /\ Running
    /\ uncertain' = [uncertain EXCEPT ![c] = FALSE]
    /\ unconfirmed' = [unconfirmed EXCEPT ![c] = @ \ {launch[c]}]
    /\ DropLaunch(c)
    /\ Goto(c, "last")
    /\ UNCHANGED <<mailboxVars, stored, processVars>>

ReadyWithoutBridge(c) ==
    /\ cpc[c] = "confirm" /\ ~Running
    /\ Leave(c)
    /\ UNCHANGED <<bridgeLock, hpc>>

\* The last probe of prepare; then the mailbox is stored.
LastProbe(c) ==
    /\ cpc[c] = "last"
    /\ \/ /\ Running
          /\ Goto(c, "send")
          /\ stored' = [stored EXCEPT ![c] = TRUE]
          /\ UNCHANGED <<mailboxVars, uncertain, launch, unconfirmed, captureVars,
                          processVars>>
       \/ /\ ~Running
          /\ Leave(c)
          /\ UNCHANGED <<bridgeLock, hpc>>

\* The exchange (MailboxExchange): answered by the bridge that owns the mailbox,
\* or left in doubt.
Executing == IF HelperHolds THEN {} ELSE {bridgeLock} \cap Launches

Call(c) ==
    /\ cpc[c] = "send"
    /\ \/ Running /\ used' = used \cup Executing /\ UNCHANGED doubt
       \/ used' \in {used, used \cup Executing} /\ doubt' = TRUE
    /\ Goto(c, "idle")
    /\ UNCHANGED <<clientLock, bridgeLock, stop, stored, uncertain, launch, unconfirmed,
                   captureVars, hpc, jpc, written>>

\* The future of the call is dropped, which it can be only where it awaits:
\* kill_on_drop ends the helper.
Cancel(c) ==
    /\ cpc[c] \in Waiting
    /\ Kill(launch[c])
    /\ Leave(c)

Vanish(c) ==
    /\ Goto(c, "off")
    /\ clientLock' = IF clientLock = c THEN Nobody ELSE clientLock
    /\ stored' = [stored EXCEPT ![c] = FALSE]
    /\ uncertain' = [uncertain EXCEPT ![c] = FALSE]
    /\ unconfirmed' = [unconfirmed EXCEPT ![c] = {}]
    /\ DropLaunch(c)
    /\ UNCHANGED <<stop, doubt, jpc, used, written>>

\* main returns: the runtime drops the call.
ExitClient(c) ==
    /\ \/ cpc[c] = "idle" /\ UNCHANGED <<bridgeLock, hpc>>
       \/ cpc[c] \in Waiting /\ Kill(launch[c])
    /\ Vanish(c)

\* The process is killed: nothing is dropped, the helper goes on.
CrashClient(c) ==
    /\ Crashes /\ cpc[c] # "off"
    /\ Vanish(c)
    /\ UNCHANGED <<bridgeLock, hpc>>

-----------------------------------------------------------------------------
(* The reader task of the helper's stdout.  It is aborted with the call. *)

Notify(c) == permit' = [permit EXCEPT ![c] = TRUE]

ReaderReads(c) ==
    /\ cpc[c] \in Waiting /\ ended[c] = "no"
    /\ \E n \in captured[c] + 1 .. written[launch[c]] :
         captured' = [captured EXCEPT ![c] = n]
    /\ Notify(c)
    /\ UNCHANGED <<mailboxVars, cpc, stored, uncertain, launch, unconfirmed, ended,
                   processVars>>

\* Java may keep a duplicate of the pipe: the end may be seen once the helper is
\* gone, and need not be.  A read error can come at any time.
ReaderEnds(c) ==
    /\ cpc[c] \in Waiting /\ ended[c] = "no"
    /\ \E how \in {"end", "error"} :
         /\ how = "end" => hpc[launch[c]] \in Gone /\ captured[c] = written[launch[c]]
         /\ ended' = [ended EXCEPT ![c] = how]
    /\ Notify(c)
    /\ UNCHANGED <<mailboxVars, cpc, stored, uncertain, launch, unconfirmed, captured,
                   processVars>>

-----------------------------------------------------------------------------
(* The helper. *)

Helper(l, from, to) ==
    /\ hpc[l] = from
    /\ hpc' = [hpc EXCEPT ![l] = to]

HelperProbesUnheld(l) ==
    /\ \/ bridgeLock = Nobody /\ Helper(l, "check", "holding")
       \/ bridgeLock # Nobody /\ Helper(l, "check", "failed")
    /\ UNCHANGED <<mailboxVars, clientVars, jpc, used, written>>

\* The ownership probe: an exclusive handle, kept while the directory is looked at.
HelperProbes(l) ==
    /\ \/ /\ bridgeLock = Nobody
          /\ Helper(l, "check", "holding")
          /\ bridgeLock' = l
       \/ /\ bridgeLock # Nobody
          /\ Helper(l, "check", "failed")
          /\ UNCHANGED bridgeLock
    /\ UNCHANGED <<clientLock, stop, doubt, clientVars, jpc, used, written>>

\* Pending files fail the start; otherwise only the stop sentinel is removed.
HelperClears(l) ==
    /\ \/ doubt /\ Helper(l, "holding", "failed") /\ UNCHANGED stop
       \/ ~doubt /\ Helper(l, "holding", "start") /\ stop' = FALSE
    /\ bridgeLock' = IF bridgeLock = l THEN Nobody ELSE bridgeLock
    /\ UNCHANGED <<clientLock, doubt, clientVars, jpc, used, written>>

HelperStarts(l) ==
    /\ Helper(l, "start", "wait")
    /\ jpc' = [jpc EXCEPT ![l] = "starting"]
    /\ UNCHANGED <<mailboxVars, clientVars, used, written>>

\* The log says ready, whatever has become of the process since it was asked.
HelperSeesReady(l) ==
    /\ jpc[l] \in {"ready", "closing", "over"}
    /\ Helper(l, "wait", "record")
    /\ UNCHANGED <<mailboxVars, clientVars, jpc, used, written>>

HelperSeesExit(l) ==
    /\ jpc[l] \in Dead
    /\ Helper(l, "wait", "failed")
    /\ UNCHANGED <<mailboxVars, clientVars, jpc, used, written>>

\* 45 seconds without the line: the process this helper started is stopped.
HelperGivesUp(l) ==
    /\ Helper(l, "wait", "failed")
    /\ jpc' = [jpc EXCEPT ![l] = IF @ \in Dead THEN @ ELSE "stopped"]
    /\ bridgeLock' = IF bridgeLock = l THEN Nobody ELSE bridgeLock
    /\ UNCHANGED <<clientLock, stop, doubt, clientVars, used, written>>

\* Writing the launch record can fail; Java is not stopped any more.
HelperRecords(l) ==
    /\ Helper(l, "record", "write") \/ Helper(l, "record", "failed")
    /\ UNCHANGED <<mailboxVars, clientVars, jpc, used, written>>

HelperWritesOn(l) ==
    /\ hpc[l] = "write"
    /\ written' = [written EXCEPT ![l] = @ + 1]
    /\ UNCHANGED <<mailboxVars, clientVars, hpc, jpc, used>>

HelperWrites(l) ==
    /\ hpc[l] = "write" /\ written[l] < Record
    /\ written' = [written EXCEPT ![l] = @ + 1]
    /\ UNCHANGED <<mailboxVars, clientVars, hpc, jpc, used>>

HelperExits(l) ==
    /\ written[l] = Record
    /\ Helper(l, "write", "exited")
    /\ UNCHANGED <<mailboxVars, clientVars, jpc, used, written>>

-----------------------------------------------------------------------------
(* The Java process: the lock, the listing of the directory, the line on       *)
(* stderr, the loop, close.  An exchange in doubt may have left only           *)
(* client.pending, which the bridge does not look for.                         *)

Java(l, from, to) ==
    /\ jpc[l] \in from
    /\ jpc' = [jpc EXCEPT ![l] = to]

JavaOwns(l) ==
    /\ bridgeLock = Nobody /\ ~stop
    /\ Java(l, {"starting"}, "serving")
    /\ bridgeLock' = l
    /\ UNCHANGED <<clientLock, stop, doubt, clientVars, hpc, used, written>>

JavaRefused(l) ==
    /\ bridgeLock # Nobody \/ stop \/ doubt
    /\ Java(l, {"starting"}, "dead")
    /\ UNCHANGED <<mailboxVars, clientVars, hpc, used, written>>

JavaReady(l) ==
    /\ Java(l, {"serving"}, "ready")
    /\ UNCHANGED <<mailboxVars, clientVars, hpc, used, written>>

\* The stop sentinel, or a halt or failure of the loop: the lock goes first.
JavaStops(l) ==
    /\ Java(l, {"ready"}, "closing")
    /\ bridgeLock' = Nobody
    /\ UNCHANGED <<clientLock, stop, doubt, clientVars, hpc, used, written>>

JavaEnds(l) ==
    /\ Java(l, {"closing"}, "over")
    /\ UNCHANGED <<mailboxVars, clientVars, hpc, used, written>>

JavaDies(l) ==
    /\ Java(l, {"starting", "serving"}, "dead") \/ Java(l, {"ready", "closing"}, "over")
    /\ bridgeLock' = IF bridgeLock = l /\ jpc[l] \in Serving THEN Nobody ELSE bridgeLock
    /\ UNCHANGED <<clientLock, stop, doubt, clientVars, hpc, used, written>>

-----------------------------------------------------------------------------
(* Everybody else. *)

OtherStarts ==
    /\ bridgeLock = Nobody /\ ~stop /\ ~doubt
    /\ bridgeLock' = Other
    /\ UNCHANGED <<clientLock, stop, doubt, clientVars, processVars>>

OtherStops ==
    /\ bridgeLock = Other
    /\ bridgeLock' = Nobody
    /\ UNCHANGED <<clientLock, stop, doubt, clientVars, processVars>>

WriteStop ==
    /\ ~stop /\ stop' = TRUE
    /\ UNCHANGED <<clientLock, bridgeLock, doubt, clientVars, processVars>>

\* docs/recovery.md: client and bridge are stopped, the evidence is moved away.
Recover ==
    /\ doubt /\ clientLock = Nobody /\ bridgeLock = Nobody
    /\ doubt' = FALSE
    /\ UNCHANGED <<clientLock, bridgeLock, stop, clientVars, processVars>>

-----------------------------------------------------------------------------
Client(c) ==
    \/ StartClient(c) \/ BeginCall(c) \/ RefuseCall(c) \/ FindBridge(c)
    \/ DecideLaunch(c) \/ LaunchUnavailable(c) \/ LaunchNotNeeded(c)
    \/ \E l \in Launches : Spawn(c, l)
    \/ HelperSucceeded(c) \/ HelperFailed(c)
    \/ SeeReady(c) \/ Park(c) \/ SeeInvalid(c) \/ Wake(c) \/ Timeout(c)
    \/ Confirm(c) \/ ReadyWithoutBridge(c) \/ LastProbe(c) \/ Call(c)
    \/ Cancel(c) \/ ExitClient(c) \/ CrashClient(c)

Helps(l) ==
    \/ HelperProbes(l) \/ HelperClears(l) \/ HelperStarts(l)
    \/ HelperSeesReady(l) \/ HelperSeesExit(l) \/ HelperGivesUp(l)
    \/ HelperRecords(l) \/ HelperWrites(l) \/ HelperExits(l)

Runs(l) ==
    \/ JavaOwns(l) \/ JavaRefused(l) \/ JavaReady(l)
    \/ JavaStops(l) \/ JavaEnds(l) \/ JavaDies(l)

Next ==
    \/ \E c \in Clients : Client(c) \/ ReaderReads(c) \/ ReaderEnds(c)
    \/ \E l \in Launches : Helps(l) \/ Runs(l)
    \/ OtherStarts \/ OtherStops \/ WriteStop \/ Recover

Spec == Init /\ [][Next]_vars

\* The runtime polls the call and its reader, the helper's loop runs until its
\* own deadline.  Neither the 55 s limit nor the death of Java is counted on.
Fairness ==
    /\ \A c \in Clients :
         /\ WF_vars(HelperSucceeded(c) \/ HelperFailed(c) \/ SeeReady(c) \/ Park(c)
                    \/ SeeInvalid(c) \/ Wake(c))
         /\ WF_vars(ReaderReads(c))
    /\ \A l \in Launches : WF_vars(Helps(l))

FairSpec == Spec /\ Fairness

-----------------------------------------------------------------------------
(* Properties. *)

\* A process launches again only after its last launch was confirmed by a
\* bridge that owned the mailbox, however its calls failed, timed out or were
\* cancelled: a second Java descendant of unknown state is never created
\* (backend.rs 25-38, docs/recovery.md "refuses to launch again").
OneUnconfirmedLaunch == \A c \in Clients : Cardinality(unconfirmed[c]) <= 1

Helping(l) == hpc[l] \notin Gone \cup {"none"}

\* Helpers never meet: one exists only while the call that spawned it holds
\* client.lock and waits for it (launch.rs 277, kill_on_drop).
OneHelper ==
    ~Crashes => \A l, k \in Launches : Helping(l) /\ Helping(k) => l = k

\* A Java process that executed a command is never stopped by a helper that
\* gives up on its startup: unsaved work would go with it (launch.rs 3-5,
\* start-bridge.ps1 82-85).
NoWorkStopped ==
    ~Crashes => \A l \in used : jpc[l] # "stopped"

\* The stop sentinel is taken away only while no bridge is there to see it, and
\* not while an exchange is unfinished (start-bridge.ps1 33-45).
StopReachesBridge ==
    [][stop /\ ~stop' =>
         /\ ~doubt
         /\ bridgeLock # Other
         /\ \A l \in Launches : jpc[l] \notin Serving]_vars

\* A call that waits for its helper goes on, without its 55 s limit: the helper
\* ends by itself and its record is noticed although Java keeps the pipe open
\* (launch.rs 204-239).
LaunchEnds ==
    \A c \in Clients : cpc[c] \in Waiting ~> cpc[c] \notin Waiting

=============================================================================
