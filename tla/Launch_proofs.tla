--------------------------- MODULE Launch_proofs ---------------------------
(***************************************************************************)
(* The inductive invariant of Launch, for any sets of clients and launches,  *)
(* and the safety properties it implies.                                     *)
(***************************************************************************)
EXTENDS Launch, FiniteSetTheorems, TLAPS

\* A call that has opened the mailbox, and a backend that keeps it, own client.lock.
CallStands ==
    \A c \in Clients :
        /\ stored[c] \/ cpc[c] \notin {"off", "idle"} => clientLock = c
        /\ cpc[c] \in Waiting => launch[c] \in Launches
        /\ cpc[c] \in {"read", "parked"} => hpc[launch[c]] = "exited"
        /\ cpc[c] \in {"off", "idle", "prepare", "launch", "last", "send"} => launch[c] = Nobody

\* What a process has spawned and not confirmed: nothing while the latch is down,
\* nothing between the latch and the spawn, one helper afterwards.
LatchStands ==
    \A c \in Clients :
        /\ ~uncertain[c] \/ cpc[c] = "launch" => unconfirmed[c] = {}
        /\ cpc[c] \in Waiting \cup {"launch", "confirm"} => uncertain[c]
        /\ cpc[c] \in Waiting => unconfirmed[c] = {launch[c]}
        /\ cpc[c] = "confirm" => unconfirmed[c] \subseteq {launch[c]}
        /\ \A l, k \in unconfirmed[c] : l = k

\* bridge.lock belongs to the helper that looks or to the Java process that serves.
LockStands ==
    \A l \in Launches :
        /\ bridgeLock = l <=> jpc[l] \in Serving \/ hpc[l] = "holding"
        /\ hpc[l] \in {"none", "check", "holding", "start"} => jpc[l] = "none"

\* Without crashes a helper is the one the owner of client.lock waits for.
HelperStands ==
    ~Crashes =>
        \A l \in Launches :
            Helping(l) =>
                /\ clientLock \in Clients
                /\ cpc[clientLock] \in Waiting
                /\ launch[clientLock] = l

\* A process that executed a command has no helper any more.
UsedStands ==
    /\ \A l \in used : jpc[l] # "none"
    /\ ~Crashes => \A l \in used : ~Helping(l) /\ jpc[l] # "stopped"

IInv ==
    /\ TypeOK /\ CallStands /\ LatchStands /\ LockStands /\ HelperStands /\ UsedStands

-----------------------------------------------------------------------------
USE LaunchAssumption
USE DEF mailboxVars, captureVars, clientVars, processVars, vars, Record, Waiting,
        Gone, Dead, Serving, HelperHolds, Running, NotRunning, Kill, Goto, DropLaunch,
        Leave, Vanish, Reusable, Complete, Invalid, Executing, Notify, Helper, Java, Helping,
        TypeOK, CallStands, LatchStands, LockStands, HelperStands, UsedStands

LEMMA Initially == ASSUME Init PROVE IInv
<1>a. stop \in BOOLEAN
  BY Zenon DEF Init
<1>b. doubt \in BOOLEAN
  BY Zenon DEF Init
<1>1. TypeOK
  BY <1>a, <1>b, SMTT(20) DEF Init
<1>2. CallStands
  BY SMTT(20) DEF Init
<1>3. LatchStands
  BY SMTT(20) DEF Init
<1>4. LockStands
  BY SMTT(20) DEF Init
<1>5. HelperStands
  BY SMTT(20) DEF Init
<1>6. UsedStands
  BY SMTT(20) DEF Init
<1> QED  BY <1>1, <1>2, <1>3, <1>4, <1>5, <1>6 DEF IInv

-----------------------------------------------------------------------------
(* The tool call and its reader. *)

LEMMA StartClientPreserves == ASSUME IInv, NEW c \in Clients, StartClient(c) PROVE IInv'
  BY SMTT(20) DEF IInv, StartClient

LEMMA BeginCallPreserves == ASSUME IInv, NEW c \in Clients, BeginCall(c) PROVE IInv'
  BY SMTT(20) DEF IInv, BeginCall

LEMMA RefuseCallPreserves == ASSUME IInv, NEW c \in Clients, RefuseCall(c) PROVE IInv'
  BY SMTT(20) DEF IInv, RefuseCall

LEMMA FindBridgePreserves == ASSUME IInv, NEW c \in Clients, FindBridge(c) PROVE IInv'
  BY SMTT(20) DEF IInv, FindBridge

LEMMA DecideLaunchPreserves == ASSUME IInv, NEW c \in Clients, DecideLaunch(c) PROVE IInv'
  BY SMTT(20) DEF IInv, DecideLaunch

LEMMA LaunchUnavailablePreserves == ASSUME IInv, NEW c \in Clients, LaunchUnavailable(c) PROVE IInv'
  BY SMTT(20) DEF IInv, LaunchUnavailable

LEMMA LaunchNotNeededPreserves == ASSUME IInv, NEW c \in Clients, LaunchNotNeeded(c) PROVE IInv'
  BY SMTT(20) DEF IInv, LaunchNotNeeded

LEMMA SpawnPreserves ==
    ASSUME IInv, NEW c \in Clients, NEW l \in Launches, Spawn(c, l) PROVE IInv'
<1>0. TypeOK
  BY DEF IInv
<1>1. TypeOK'
  BY <1>0, SMTT(20) DEF Spawn
<1>2. CallStands'
  BY SMTT(20) DEF IInv, Spawn
<1>a. /\ cpc' = [cpc EXCEPT ![c] = "await"]
      /\ launch' = [launch EXCEPT ![c] = l]
      /\ unconfirmed' = [unconfirmed EXCEPT ![c] = {l}]
      /\ uncertain' = uncertain
  <2>1. unconfirmed[c] = {}
    BY SMTT(20) DEF IInv, Spawn
  <2>2. unconfirmed[c] \cup {l} = {l}
    BY <2>1
  <2> QED  BY <2>2 DEF Spawn
<1>b. uncertain[c]
  BY SMTT(20) DEF IInv, Spawn
<1>3. LatchStands'
  BY <1>0, <1>a, <1>b, SMTT(20) DEF IInv
<1>4. LockStands'
  BY SMTT(20) DEF IInv, Spawn
<1>5. HelperStands'
  BY SMTT(20) DEF IInv, Spawn
<1>6. UsedStands'
  BY SMTT(20) DEF IInv, Spawn
<1> QED  BY <1>1, <1>2, <1>3, <1>4, <1>5, <1>6 DEF IInv

LEMMA HelperSucceededPreserves == ASSUME IInv, NEW c \in Clients, HelperSucceeded(c) PROVE IInv'
  BY SMTT(20) DEF IInv, HelperSucceeded

LEMMA HelperFailedPreserves == ASSUME IInv, NEW c \in Clients, HelperFailed(c) PROVE IInv'
  BY SMTT(20) DEF IInv, HelperFailed

LEMMA SeeReadyPreserves == ASSUME IInv, NEW c \in Clients, SeeReady(c) PROVE IInv'
<1>0. TypeOK
  BY DEF IInv
<1>1. TypeOK'
  BY <1>0, SMTT(20) DEF SeeReady
<1>2. CallStands'
  BY SMTT(20) DEF IInv, SeeReady
<1>3. LatchStands'
  BY SMTT(20) DEF IInv, SeeReady
<1>4. LockStands'
  BY SMTT(20) DEF IInv, SeeReady
<1>5. HelperStands'
  BY SMTT(20) DEF IInv, SeeReady
<1>6. UsedStands'
  BY SMTT(20) DEF IInv, SeeReady
<1> QED  BY <1>1, <1>2, <1>3, <1>4, <1>5, <1>6 DEF IInv

LEMMA ParkPreserves == ASSUME IInv, NEW c \in Clients, Park(c) PROVE IInv'
  BY SMTT(20) DEF IInv, Park

LEMMA SeeInvalidPreserves == ASSUME IInv, NEW c \in Clients, SeeInvalid(c) PROVE IInv'
<1>0. TypeOK
  BY DEF IInv
<1>1. TypeOK'
  BY <1>0, SMTT(20) DEF SeeInvalid
<1>2. CallStands'
  BY SMTT(20) DEF IInv, SeeInvalid
<1>3. LatchStands'
  BY SMTT(20) DEF IInv, SeeInvalid
<1>4. LockStands'
  BY SMTT(20) DEF IInv, SeeInvalid
<1>5. HelperStands'
  BY SMTT(20) DEF IInv, SeeInvalid
<1>6. UsedStands'
  BY SMTT(20) DEF IInv, SeeInvalid
<1> QED  BY <1>1, <1>2, <1>3, <1>4, <1>5, <1>6 DEF IInv

LEMMA WakePreserves == ASSUME IInv, NEW c \in Clients, Wake(c) PROVE IInv'
  BY SMTT(20) DEF IInv, Wake

LEMMA TimeoutPreserves == ASSUME IInv, NEW c \in Clients, Timeout(c) PROVE IInv'
  BY SMTT(20) DEF IInv, Timeout

LEMMA ConfirmPreserves == ASSUME IInv, NEW c \in Clients, Confirm(c) PROVE IInv'
  BY SMTT(20) DEF IInv, Confirm

LEMMA ReadyWithoutBridgePreserves == ASSUME IInv, NEW c \in Clients, ReadyWithoutBridge(c) PROVE IInv'
  BY SMTT(20) DEF IInv, ReadyWithoutBridge

LEMMA LastProbePreserves == ASSUME IInv, NEW c \in Clients, LastProbe(c) PROVE IInv'
<1>0. TypeOK
  BY DEF IInv
<1>1. TypeOK'
  <2>1. CASE /\ Goto(c, "send")
             /\ stored' = [stored EXCEPT ![c] = TRUE]
             /\ UNCHANGED <<mailboxVars, uncertain, launch, unconfirmed, captureVars,
                            processVars>>
    BY <1>0, <2>1, SMTT(20)
  <2>2. CASE Leave(c) /\ UNCHANGED <<bridgeLock, hpc>>
    BY <1>0, <2>2, SMTT(20)
  <2> QED  BY <2>1, <2>2, Zenon DEF LastProbe
<1>2. CallStands'
  BY SMTT(20) DEF IInv, LastProbe
<1>3. LatchStands'
  BY SMTT(20) DEF IInv, LastProbe
<1>4. LockStands'
  BY SMTT(20) DEF IInv, LastProbe
<1>5. HelperStands'
  BY SMTT(20) DEF IInv, LastProbe
<1>6. UsedStands'
  BY SMTT(20) DEF IInv, LastProbe
<1> QED  BY <1>1, <1>2, <1>3, <1>4, <1>5, <1>6 DEF IInv

LEMMA CallPreserves == ASSUME IInv, NEW c \in Clients, Call(c) PROVE IInv'
<1>0. TypeOK
  BY DEF IInv
<1>b0. (doubt \in BOOLEAN)'
  BY <1>0, Zenon DEF Call
<1>1. TypeOK'
  BY <1>0, <1>b0, SMTT(20) DEF Call
<1>a. /\ cpc[c] = "send" /\ cpc' = [cpc EXCEPT ![c] = "idle"]
      /\ UNCHANGED <<clientLock, stored, launch, hpc>>
  BY DEF Call
<1>2. CallStands'
  BY <1>0, <1>a, SMTT(20) DEF IInv
<1>3. LatchStands'
  BY SMTT(20) DEF IInv, Call
<1>4. LockStands'
  BY SMTT(20) DEF IInv, Call
<1>5. HelperStands'
  BY SMTT(20) DEF IInv, Call
<1>6. UsedStands'
  BY SMTT(20) DEF IInv, Call
<1> QED  BY <1>1, <1>2, <1>3, <1>4, <1>5, <1>6 DEF IInv

LEMMA CancelPreserves == ASSUME IInv, NEW c \in Clients, Cancel(c) PROVE IInv'
  BY SMTT(20) DEF IInv, Cancel

LEMMA ExitClientPreserves == ASSUME IInv, NEW c \in Clients, ExitClient(c) PROVE IInv'
  BY SMTT(20) DEF IInv, ExitClient

LEMMA CrashClientPreserves == ASSUME IInv, NEW c \in Clients, CrashClient(c) PROVE IInv'
  BY SMTT(20) DEF IInv, CrashClient

LEMMA ReaderReadsPreserves == ASSUME IInv, NEW c \in Clients, ReaderReads(c) PROVE IInv'
  BY SMTT(20) DEF IInv, ReaderReads

LEMMA ReaderEndsPreserves == ASSUME IInv, NEW c \in Clients, ReaderEnds(c) PROVE IInv'
  BY SMTT(20) DEF IInv, ReaderEnds

-----------------------------------------------------------------------------
(* The helper and the Java process. *)

LEMMA HelperProbesPreserves == ASSUME IInv, NEW l \in Launches, HelperProbes(l) PROVE IInv'
  BY SMTT(20) DEF IInv, HelperProbes

LEMMA HelperClearsPreserves == ASSUME IInv, NEW l \in Launches, HelperClears(l) PROVE IInv'
<1>0. TypeOK
  BY DEF IInv
<1>b0. (stop \in BOOLEAN)'
  BY <1>0, Zenon DEF HelperClears
<1>1. TypeOK'
  BY <1>0, <1>b0, SMTT(20) DEF HelperClears
<1>2. CallStands'
  BY SMTT(20) DEF IInv, HelperClears
<1>3. LatchStands'
  BY SMTT(20) DEF IInv, HelperClears
<1>4. LockStands'
  BY SMTT(20) DEF IInv, HelperClears
<1>5. HelperStands'
  BY SMTT(20) DEF IInv, HelperClears
<1>6. UsedStands'
  BY SMTT(20) DEF IInv, HelperClears
<1> QED  BY <1>1, <1>2, <1>3, <1>4, <1>5, <1>6 DEF IInv

LEMMA HelperStartsPreserves == ASSUME IInv, NEW l \in Launches, HelperStarts(l) PROVE IInv'
  BY SMTT(20) DEF IInv, HelperStarts

LEMMA HelperSeesReadyPreserves == ASSUME IInv, NEW l \in Launches, HelperSeesReady(l) PROVE IInv'
  BY SMTT(20) DEF IInv, HelperSeesReady

LEMMA HelperSeesExitPreserves == ASSUME IInv, NEW l \in Launches, HelperSeesExit(l) PROVE IInv'
  BY SMTT(20) DEF IInv, HelperSeesExit

LEMMA HelperGivesUpPreserves == ASSUME IInv, NEW l \in Launches, HelperGivesUp(l) PROVE IInv'
  BY SMTT(20) DEF IInv, HelperGivesUp

LEMMA HelperRecordsPreserves == ASSUME IInv, NEW l \in Launches, HelperRecords(l) PROVE IInv'
  BY SMTT(20) DEF IInv, HelperRecords

LEMMA HelperWritesPreserves == ASSUME IInv, NEW l \in Launches, HelperWrites(l) PROVE IInv'
  BY SMTT(20) DEF IInv, HelperWrites

LEMMA HelperExitsPreserves == ASSUME IInv, NEW l \in Launches, HelperExits(l) PROVE IInv'
  BY SMTT(20) DEF IInv, HelperExits

LEMMA JavaOwnsPreserves == ASSUME IInv, NEW l \in Launches, JavaOwns(l) PROVE IInv'
  BY SMTT(20) DEF IInv, JavaOwns

LEMMA JavaRefusedPreserves == ASSUME IInv, NEW l \in Launches, JavaRefused(l) PROVE IInv'
  BY SMTT(20) DEF IInv, JavaRefused

LEMMA JavaReadyPreserves == ASSUME IInv, NEW l \in Launches, JavaReady(l) PROVE IInv'
  BY SMTT(20) DEF IInv, JavaReady

LEMMA JavaStopsPreserves == ASSUME IInv, NEW l \in Launches, JavaStops(l) PROVE IInv'
  BY SMTT(20) DEF IInv, JavaStops

LEMMA JavaEndsPreserves == ASSUME IInv, NEW l \in Launches, JavaEnds(l) PROVE IInv'
  BY SMTT(20) DEF IInv, JavaEnds

LEMMA JavaDiesPreserves == ASSUME IInv, NEW l \in Launches, JavaDies(l) PROVE IInv'
  BY SMTT(20) DEF IInv, JavaDies

-----------------------------------------------------------------------------
(* Everybody else. *)

LEMMA OtherStartsPreserves == ASSUME IInv, OtherStarts PROVE IInv'
  BY SMTT(20) DEF IInv, OtherStarts

LEMMA OtherStopsPreserves == ASSUME IInv, OtherStops PROVE IInv'
  BY SMTT(20) DEF IInv, OtherStops

LEMMA WriteStopPreserves == ASSUME IInv, WriteStop PROVE IInv'
  BY SMTT(20) DEF IInv, WriteStop

LEMMA RecoverPreserves == ASSUME IInv, Recover PROVE IInv'
<1>0. TypeOK
  BY DEF IInv
<1>b0. (doubt \in BOOLEAN)'
  BY <1>0, Zenon DEF Recover
<1>1. TypeOK'
  BY <1>0, <1>b0, SMTT(20) DEF Recover
<1>2. CallStands'
  BY SMTT(20) DEF IInv, Recover
<1>3. LatchStands'
  BY SMTT(20) DEF IInv, Recover
<1>4. LockStands'
  BY SMTT(20) DEF IInv, Recover
<1>5. HelperStands'
  BY SMTT(20) DEF IInv, Recover
<1>6. UsedStands'
  BY SMTT(20) DEF IInv, Recover
<1> QED  BY <1>1, <1>2, <1>3, <1>4, <1>5, <1>6 DEF IInv

-----------------------------------------------------------------------------
(* Steps and theorems. *)

LEMMA ClientPreserves == ASSUME IInv, NEW c \in Clients, Client(c) PROVE IInv'
  BY StartClientPreserves, BeginCallPreserves, RefuseCallPreserves,
      FindBridgePreserves, DecideLaunchPreserves, LaunchUnavailablePreserves,
      LaunchNotNeededPreserves, SpawnPreserves, HelperSucceededPreserves,
      HelperFailedPreserves, SeeReadyPreserves, ParkPreserves, SeeInvalidPreserves,
      WakePreserves, TimeoutPreserves, ConfirmPreserves, ReadyWithoutBridgePreserves,
      LastProbePreserves, CallPreserves, CancelPreserves, ExitClientPreserves,
      CrashClientPreserves, Zenon
  DEF Client

LEMMA ReaderPreserves ==
    ASSUME IInv, NEW c \in Clients, ReaderReads(c) \/ ReaderEnds(c) PROVE IInv'
  BY ReaderReadsPreserves, ReaderEndsPreserves, Zenon

LEMMA LaunchPreserves ==
    ASSUME IInv, NEW l \in Launches, Helps(l) \/ Runs(l) PROVE IInv'
  BY HelperProbesPreserves, HelperClearsPreserves, HelperStartsPreserves,
      HelperSeesReadyPreserves, HelperSeesExitPreserves, HelperGivesUpPreserves,
      HelperRecordsPreserves, HelperWritesPreserves, HelperExitsPreserves,
      JavaOwnsPreserves, JavaRefusedPreserves, JavaReadyPreserves, JavaStopsPreserves,
      JavaEndsPreserves, JavaDiesPreserves, Zenon
  DEF Helps, Runs

LEMMA StutterPreserves == ASSUME IInv, UNCHANGED vars PROVE IInv'
<1>1. TypeOK'
  BY Zenon DEF IInv
<1>2. CallStands'
  BY SMTT(20) DEF IInv
<1>3. LatchStands'
  BY SMTT(20) DEF IInv
<1>4. LockStands'
  BY SMTT(20) DEF IInv
<1>5. HelperStands'
  BY SMTT(20) DEF IInv
<1>6. UsedStands'
  BY SMTT(20) DEF IInv
<1> QED  BY <1>1, <1>2, <1>3, <1>4, <1>5, <1>6 DEF IInv

LEMMA NextPreserves == ASSUME IInv, [Next]_vars PROVE IInv'
<1>1. CASE \E c \in Clients : Client(c) \/ ReaderReads(c) \/ ReaderEnds(c)
  BY <1>1, ClientPreserves, ReaderPreserves, Zenon
<1>2. CASE \E l \in Launches : Helps(l) \/ Runs(l)
  BY <1>2, LaunchPreserves, Zenon
<1>3. CASE OtherStarts \/ OtherStops \/ WriteStop \/ Recover
  BY <1>3, OtherStartsPreserves, OtherStopsPreserves, WriteStopPreserves,
     RecoverPreserves, Zenon
<1>4. CASE UNCHANGED vars
  BY <1>4, StutterPreserves
<1> QED  BY <1>1, <1>2, <1>3, <1>4, Zenon DEF Next

\* A set whose members are all the same has at most one.
LEMMA Singles ==
    ASSUME NEW S, \A l, k \in S : l = k
    PROVE  Cardinality(S) <= 1
<1>1. CASE S = {}
  BY <1>1, FS_EmptySet
<1>2. CASE S # {}
  <2>1. PICK l \in S : TRUE
    BY <1>2
  <2>2. S = {l}
    BY <2>1
  <2> QED  BY <2>2, FS_Singleton
<1> QED  BY <1>1, <1>2

LEMMA StopStep == ASSUME IInv, Next, stop, ~stop' PROVE
    /\ ~doubt
    /\ bridgeLock # Other
    /\ \A l \in Launches : jpc[l] \notin Serving
<1>0. ASSUME NEW c \in Clients, ReaderReads(c) \/ ReaderEnds(c) PROVE FALSE
  BY <1>0, Zenon DEF ReaderReads, ReaderEnds
<1>a. ASSUME NEW c \in Clients, Client(c) PROVE FALSE
  BY <1>a, Zenon DEF Client, StartClient, BeginCall, RefuseCall, FindBridge,
     DecideLaunch, LaunchUnavailable, LaunchNotNeeded, Spawn, HelperSucceeded, HelperFailed,
     SeeReady, Park, SeeInvalid, Wake, Timeout, Confirm, ReadyWithoutBridge, LastProbe,
     Call, Cancel, ExitClient, CrashClient
<1>b. ASSUME NEW l \in Launches, Runs(l) PROVE FALSE
  BY <1>b, Zenon DEF Runs, JavaOwns, JavaRefused, JavaReady, JavaStops, JavaEnds, JavaDies
<1>c. ASSUME NEW l \in Launches, Helps(l), ~HelperClears(l) PROVE FALSE
  BY <1>c, Zenon DEF Helps, HelperProbes, HelperStarts, HelperSeesReady, HelperSeesExit,
     HelperGivesUp, HelperRecords, HelperWrites, HelperExits
<1>d. ~(OtherStarts \/ OtherStops \/ WriteStop \/ Recover)
  BY Zenon DEF OtherStarts, OtherStops, WriteStop, Recover
<1>1. PICK l \in Launches : HelperClears(l)
  BY <1>0, <1>a, <1>b, <1>c, <1>d, Zenon DEF Next
<1>2. ~doubt /\ hpc[l] = "holding"
  BY <1>1, Zenon DEF HelperClears
<1> QED  BY <1>2, SMTT(20) DEF IInv

HIDE DEF mailboxVars, captureVars, clientVars, processVars, vars, Record, Waiting,
         Gone, Dead, Serving, HelperHolds, Running, NotRunning, Kill, Goto, DropLaunch,
         Leave, Vanish, Reusable, Complete, Invalid, Executing, Notify, Helper, Java, Helping,
         TypeOK, CallStands, LatchStands, LockStands, HelperStands, UsedStands

\* The inductive invariant holds in every reachable state, with or without crashes.
THEOREM LaunchInvariance == Spec => []IInv
<1>1. Init => IInv
  BY Initially
<1>2. IInv /\ [Next]_vars => IInv'
  BY NextPreserves
<1> QED  BY <1>1, <1>2, PTL DEF Spec

\* Type correctness of locks, calls, latches, captures and processes.
THEOREM LaunchTyping == Spec => []TypeOK
<1>1. IInv => TypeOK
  BY DEF IInv
<1> QED  BY <1>1, LaunchInvariance, PTL

\* Between two confirmations a process spawns one helper at most (backend.rs 25-38).
THEOREM LaunchesAreConfirmed == Spec => []OneUnconfirmedLaunch
<1>1. IInv => OneUnconfirmedLaunch
  <2> SUFFICES ASSUME IInv, NEW c \in Clients PROVE Cardinality(unconfirmed[c]) <= 1
    BY DEF OneUnconfirmedLaunch
  <2>1. \A l, k \in unconfirmed[c] : l = k
    BY DEF IInv, LatchStands
  <2> QED  BY <2>1, Singles
<1> QED  BY <1>1, LaunchInvariance, PTL

\* While no process crashes, two helpers never run at once (launch.rs 277).
THEOREM HelpersNeverMeet == Spec => []OneHelper
<1>1. IInv => OneHelper
  BY DEF IInv, HelperStands, OneHelper
<1> QED  BY <1>1, LaunchInvariance, PTL

\* While no process crashes, a Java process that worked is not stopped by a helper
\* (launch.rs 3-5, start-bridge.ps1 82-85).
THEOREM WorkSurvivesStartup == Spec => []NoWorkStopped
<1>1. IInv => NoWorkStopped
  BY DEF IInv, UsedStands, NoWorkStopped
<1> QED  BY <1>1, LaunchInvariance, PTL

\* The stop sentinel is removed only when no bridge is there to see it
\* (start-bridge.ps1 33-45).
THEOREM StopsAreSeen == Spec => StopReachesBridge
<1>1. IInv /\ [Next]_vars =>
        [stop /\ ~stop' =>
           /\ ~doubt
           /\ bridgeLock # Other
           /\ \A l \in Launches : jpc[l] \notin Serving]_vars
  BY StopStep
<1> QED  BY <1>1, LaunchInvariance, PTL DEF Spec, StopReachesBridge

=============================================================================
