------------------------ MODULE AnalysisJobs_proofs ------------------------
(***************************************************************************)
(* The inductive invariant of AnalysisJobs, for any set of jobs, any table  *)
(* capacity above one, GUI or headless, and the safety properties it        *)
(* implies.  OwnershipCoversAnalysis needs a server that is not collected.  *)
(***************************************************************************)
EXTENDS AnalysisJobs, TLAPS

Alive == apc # "dead"

\* The active job is the one that waits or is being worked on, there is one at
\* most, and the thread is past it when the slot is empty.
ActiveStands ==
    Alive =>
        /\ queue = <<>> \/ \E j \in Jobs : queue = <<j>> /\ activeJob = j
        /\ queue # <<>> => apc \in {"idle", "finish"}
        /\ apc \in Working \ {"finish"} => activeJob = current
        /\ queue = <<>> /\ apc \in {"idle", "finish"} => activeJob = NoJob

\* What the job of the analysis thread has recorded at each of its steps.
CurrentStands ==
    Alive =>
        /\ apc = "idle" <=> current = NoJob
        /\ apc = "run" => state[current] = "queued"
        /\ apc \in Working \ {"run", "cleanup", "clear", "finish"} => state[current] = "running"
        /\ apc \in {"cleanup", "clear", "finish"} => state[current] \in {"running", "failed"}
        /\ apc = "fail" => error[current]
        /\ transaction <=> apc \in {"analyse", "check", "rollup", "commit"}

\* What each job has recorded.
JobsStand ==
    \A j \in Jobs :
        /\ state[j] = "failed" => error[j]
        /\ error[j] => state[j] = "failed" \/ (Alive => j = current /\ apc = "fail")
        /\ Alive /\ state[j] = "queued" => queue = <<j>> \/ (j = current /\ apc = "run")
        /\ Alive /\ state[j] = "running" => j = current
        /\ Alive /\ queue = <<j>> => state[j] = "queued"
        /\ j \in consumers => queue = <<j>> \/ (j = current /\ apc \in Working \ {"clear", "finish"})

\* The place of the unfinished jobs in the table: the last two.
TableStands ==
    Alive =>
        /\ activeJob # NoJob => jobs # <<>> /\ jobs[Len(jobs)] = activeJob
        /\ apc = "finish" /\ queue = <<>> => jobs # <<>> /\ jobs[Len(jobs)] = current
        /\ apc = "finish" /\ queue # <<>> => Len(jobs) > 1 /\ jobs[Len(jobs) - 1] = current

\* What a report has read so far.
ReportStands ==
    /\ bpc \in {"status", "statusError", "cancel"} => report.job \in Jobs
    /\ report.state \in Final => report.job \in Jobs /\ state[report.job] = report.state
    /\ bpc # "statusError" /\ report.state = "failed" => report.error

\* The bridge thread stops submitting before it waits, and waits before it
\* releases the lock.
StopStands ==
    /\ accepting <=> bpc \notin {"await", "close", "awaitAgain", "ended", "dead"}
    /\ bpc = "dead" <=> apc = "dead"
    /\ bpc \in {"idle", "command", "submit", "status", "statusError", "cancel", "stop", "await"} => lock
    /\ ~Collects /\ ~lock /\ Alive => Terminated
    /\ bpc = "dead" => queue = <<>>
    /\ Collects \/ OwnershipCoversAnalysis

IInv ==
    /\ TypeOK /\ ActiveStands /\ CurrentStands /\ JobsStand /\ TableStands
    /\ ReportStands /\ StopStands
    /\ CommandsRunAlone /\ CompletedIsOver /\ UnfinishedIsKnown

-----------------------------------------------------------------------------
USE JobsAssumption
USE DEF tableVars, jobVars, executorVars, threadVars, vars,
        States, Final, Working, Asked, Table, Alive, Engaged, Terminated,
        PrepareStop, Advance,
        TypeOK, ActiveStands, CurrentStands, JobsStand, TableStands, ReportStands,
        StopStands, CommandsRunAlone, CompletedIsOver, UnfinishedIsKnown,
         OwnershipCoversAnalysis

\* The table after a job is added: it is last, the former last stays before it.
LEMMA EnrolledFacts ==
    ASSUME TypeOK, NEW j \in Jobs
    PROVE  /\ Enrolled(j) \in Seq(Jobs)
           /\ Len(Enrolled(j)) =< Capacity
           /\ Len(Enrolled(j)) > 0
           /\ Enrolled(j)[Len(Enrolled(j))] = j
           /\ Len(jobs) > 0 =>
                 /\ Len(Enrolled(j)) > 1
                 /\ Enrolled(j)[Len(Enrolled(j)) - 1] = jobs[Len(jobs)]
<1> DEFINE kept == IF Len(jobs) >= Capacity THEN Tail(jobs) ELSE jobs
<1>1. /\ kept \in Seq(Jobs)
      /\ Len(kept) < Capacity
      /\ Len(jobs) > 0 => Len(kept) > 0 /\ kept[Len(kept)] = jobs[Len(jobs)]
  BY SMTT(20)
<1>2. Enrolled(j) = Append(kept, j)
  BY DEF Enrolled
<1> HIDE DEF kept
<1> QED
  BY <1>1, <1>2, SMTT(20)

LEMMA Initially == ASSUME Init PROVE IInv
<1>b0. accepting \in BOOLEAN
  BY Zenon DEF Init
<1>b1. transaction \in BOOLEAN
  BY Zenon DEF Init
<1>b2. userAnalysis \in BOOLEAN
  BY Zenon DEF Init
<1>b3. lock \in BOOLEAN
  BY Zenon DEF Init
<1>1. TypeOK
  BY <1>b0, <1>b1, <1>b2, <1>b3, SMTT(15) DEF Init
<1>2. ActiveStands
  BY SMTT(15) DEF Init
<1>3. CurrentStands
  BY SMTT(15) DEF Init
<1>4. JobsStand
  BY SMTT(15) DEF Init
<1>5. TableStands
  BY SMTT(15) DEF Init
<1>6. ReportStands
  BY SMTT(15) DEF Init
<1>7. StopStands
  BY SMTT(15) DEF Init
<1>8. CommandsRunAlone
  BY SMTT(15) DEF Init
<1>9. CompletedIsOver
  BY SMTT(15) DEF Init
<1>10. UnfinishedIsKnown
  BY SMTT(15) DEF Init
<1> QED  BY <1>1, <1>2, <1>3, <1>4, <1>5, <1>6, <1>7, <1>8, <1>9, <1>10 DEF IInv

-----------------------------------------------------------------------------
(* The bridge thread. *)

LEMMA BeginCommandPreserves == ASSUME IInv, BeginCommand PROVE IInv'
<1>0. TypeOK
  BY DEF IInv
<1>1. TypeOK'
  BY <1>0, SMTT(15) DEF BeginCommand
<1>2. ActiveStands'
  BY SMTT(15) DEF IInv, BeginCommand
<1>3. CurrentStands'
  BY SMTT(15) DEF IInv, BeginCommand
<1>4. JobsStand'
  BY SMTT(15) DEF IInv, BeginCommand
<1>5. TableStands'
  BY SMTT(15) DEF IInv, BeginCommand
<1>6. ReportStands'
  BY SMTT(15) DEF IInv, BeginCommand
<1>7. StopStands'
  BY SMTT(15) DEF IInv, BeginCommand
<1>8. CommandsRunAlone'
  BY SMTT(15) DEF IInv, BeginCommand, IsBusy
<1>9. CompletedIsOver'
  BY SMTT(15) DEF IInv, BeginCommand
<1>10. UnfinishedIsKnown'
  BY SMTT(15) DEF IInv, BeginCommand
<1> QED  BY <1>1, <1>2, <1>3, <1>4, <1>5, <1>6, <1>7, <1>8, <1>9, <1>10 DEF IInv

LEMMA EndCommandPreserves == ASSUME IInv, EndCommand PROVE IInv'
  BY SMTT(30) DEF IInv, EndCommand

LEMMA AnalyzePreserves == ASSUME NEW j \in Jobs, IInv, Analyze(j) PROVE IInv'
<1>e. /\ Enrolled(j) \in Seq(Jobs)
      /\ Len(Enrolled(j)) =< Capacity
      /\ Len(Enrolled(j)) > 0
      /\ Enrolled(j)[Len(Enrolled(j))] = j
      /\ Len(jobs) > 0 =>
            /\ Len(Enrolled(j)) > 1
            /\ Enrolled(j)[Len(Enrolled(j)) - 1] = jobs[Len(jobs)]
  BY EnrolledFacts DEF IInv
<1>t. /\ TableStands /\ Alive /\ queue = <<>> /\ apc \in {"idle", "finish"}
      /\ apc = "finish" => Len(jobs) > 0 /\ jobs[Len(jobs)] = current
  BY SMTT(15) DEF IInv, Analyze
<1>0. TypeOK
  BY DEF IInv
<1>1. TypeOK'
  BY <1>0, <1>e, SMTT(15) DEF Analyze, Asked
<1>2. ActiveStands'
  BY SMTT(15) DEF IInv, Analyze
<1>3. CurrentStands'
  BY SMTT(15) DEF IInv, Analyze
<1>4. JobsStand'
  BY SMTT(15) DEF IInv, Analyze
<1>5. TableStands'
  BY <1>0, <1>e, <1>t, SMTT(15) DEF Analyze
<1>6. ReportStands'
  BY SMTT(15) DEF IInv, Analyze
<1>7. StopStands'
  BY SMTT(15) DEF IInv, Analyze
<1>8. CommandsRunAlone'
  BY SMTT(15) DEF IInv, Analyze
<1>9. CompletedIsOver'
  BY SMTT(15) DEF IInv, Analyze
<1>10. UnfinishedIsKnown'
  <2> SUFFICES ASSUME NEW k \in Jobs, state'[k] \in {"queued", "running"}
               PROVE  \E i \in DOMAIN jobs' : jobs'[i] = k
    BY DEF UnfinishedIsKnown, Table
  <2>1. CASE k = j
    BY <1>0, <1>e, <2>1, SMTT(15) DEF Analyze
  <2>2. CASE k # j
    <3>1. k = current /\ apc = "finish" /\ queue = <<>>
      BY <2>2, SMTT(15) DEF IInv, Analyze
    <3>2. Len(jobs) > 0 /\ jobs[Len(jobs)] = k
      BY <1>t, <3>1, SMTT(15) DEF Analyze
    <3> QED
      BY <1>0, <1>e, <3>2, SMTT(15) DEF Analyze
  <2> QED  BY <2>1, <2>2
<1> QED  BY <1>1, <1>2, <1>3, <1>4, <1>5, <1>6, <1>7, <1>8, <1>9, <1>10 DEF IInv

LEMMA JobStatusPreserves == ASSUME NEW j \in Jobs, IInv, JobStatus(j) PROVE IInv'
<1>0. TypeOK
  BY DEF IInv
<1>1. TypeOK'
  BY <1>0, SMTT(15) DEF JobStatus
<1>2. ActiveStands'
  BY SMTT(15) DEF IInv, JobStatus
<1>3. CurrentStands'
  BY SMTT(15) DEF IInv, JobStatus
<1>4. JobsStand'
  BY SMTT(15) DEF IInv, JobStatus
<1>5. TableStands'
  BY SMTT(15) DEF IInv, JobStatus
<1>6. ReportStands'
  BY SMTT(15) DEF IInv, JobStatus
<1>7. StopStands'
  BY SMTT(15) DEF IInv, JobStatus
<1>8. CommandsRunAlone'
  BY SMTT(15) DEF IInv, JobStatus
<1>9. CompletedIsOver'
  BY SMTT(15) DEF IInv, JobStatus
<1>10. UnfinishedIsKnown'
  BY SMTT(15) DEF IInv, JobStatus
<1> QED  BY <1>1, <1>2, <1>3, <1>4, <1>5, <1>6, <1>7, <1>8, <1>9, <1>10 DEF IInv

LEMMA ReadStatePreserves == ASSUME IInv, ReadState PROVE IInv'
  BY SMTT(30) DEF IInv, ReadState

LEMMA ReadErrorPreserves == ASSUME IInv, ReadError PROVE IInv'
  BY SMTT(30) DEF IInv, ReadError

LEMMA CancelAnalysisPreserves == ASSUME NEW j \in Jobs, IInv, CancelAnalysis(j) PROVE IInv'
<1>0. TypeOK
  BY DEF IInv
<1>1. TypeOK'
  BY <1>0, SMTT(15) DEF CancelAnalysis
<1>2. ActiveStands'
  BY SMTT(15) DEF IInv, CancelAnalysis
<1>3. CurrentStands'
  BY SMTT(15) DEF IInv, CancelAnalysis
<1>4. JobsStand'
  BY SMTT(15) DEF IInv, CancelAnalysis
<1>5. TableStands'
  BY SMTT(15) DEF IInv, CancelAnalysis
<1>6. ReportStands'
  BY SMTT(15) DEF IInv, CancelAnalysis
<1>7. StopStands'
  BY SMTT(15) DEF IInv, CancelAnalysis
<1>8. CommandsRunAlone'
  BY SMTT(15) DEF IInv, CancelAnalysis
<1>9. CompletedIsOver'
  BY SMTT(15) DEF IInv, CancelAnalysis
<1>10. UnfinishedIsKnown'
  BY SMTT(15) DEF IInv, CancelAnalysis
<1> QED  BY <1>1, <1>2, <1>3, <1>4, <1>5, <1>6, <1>7, <1>8, <1>9, <1>10 DEF IInv

LEMMA CancelMonitorPreserves == ASSUME IInv, CancelMonitor PROVE IInv'
  BY SMTT(30) DEF IInv, CancelMonitor

LEMMA BeginStopPreserves == ASSUME IInv, BeginStop PROVE IInv'
  BY SMTT(30) DEF IInv, BeginStop

LEMMA StopServerPreserves == ASSUME IInv, StopServer PROVE IInv'
<1>0. TypeOK
  BY DEF IInv
<1>b0. (accepting \in BOOLEAN)'
  BY <1>0, Zenon DEF StopServer
<1>1. TypeOK'
  BY <1>0, <1>b0, SMTT(15) DEF StopServer
<1>2. ActiveStands'
  BY SMTT(15) DEF IInv, StopServer
<1>3. CurrentStands'
  BY SMTT(15) DEF IInv, StopServer
<1>4. JobsStand'
  BY SMTT(15) DEF IInv, StopServer
<1>5. TableStands'
  BY SMTT(15) DEF IInv, StopServer
<1>6. ReportStands'
  BY SMTT(15) DEF IInv, StopServer
<1>7. StopStands'
  BY SMTT(15) DEF IInv, StopServer
<1>8. CommandsRunAlone'
  BY SMTT(15) DEF IInv, StopServer
<1>9. CompletedIsOver'
  BY SMTT(15) DEF IInv, StopServer
<1>10. UnfinishedIsKnown'
  BY SMTT(15) DEF IInv, StopServer
<1> QED  BY <1>1, <1>2, <1>3, <1>4, <1>5, <1>6, <1>7, <1>8, <1>9, <1>10 DEF IInv

LEMMA ReleaseLockPreserves == ASSUME IInv, ReleaseLock PROVE IInv'
<1>0. TypeOK
  BY DEF IInv
<1>b0. (lock \in BOOLEAN)'
  BY <1>0, Zenon DEF ReleaseLock
<1>1. TypeOK'
  BY <1>0, <1>b0, SMTT(15) DEF ReleaseLock
<1>2. ActiveStands'
  BY SMTT(15) DEF IInv, ReleaseLock
<1>3. CurrentStands'
  BY SMTT(15) DEF IInv, ReleaseLock
<1>4. JobsStand'
  BY SMTT(15) DEF IInv, ReleaseLock
<1>5. TableStands'
  BY SMTT(15) DEF IInv, ReleaseLock
<1>6. ReportStands'
  BY SMTT(15) DEF IInv, ReleaseLock
<1>7. StopStands'
  BY SMTT(15) DEF IInv, ReleaseLock
<1>8. CommandsRunAlone'
  BY SMTT(15) DEF IInv, ReleaseLock
<1>9. CompletedIsOver'
  BY SMTT(15) DEF IInv, ReleaseLock
<1>10. UnfinishedIsKnown'
  BY SMTT(15) DEF IInv, ReleaseLock
<1> QED  BY <1>1, <1>2, <1>3, <1>4, <1>5, <1>6, <1>7, <1>8, <1>9, <1>10 DEF IInv

LEMMA KeepLockPreserves == ASSUME IInv, KeepLock PROVE IInv'
  BY SMTT(30) DEF IInv, KeepLock

LEMMA StopDispatcherPreserves == ASSUME IInv, StopDispatcher PROVE IInv'
<1>0. TypeOK
  BY DEF IInv
<1>b0. (accepting \in BOOLEAN)'
  BY <1>0, Zenon DEF StopDispatcher
<1>1. TypeOK'
  BY <1>0, <1>b0, SMTT(15) DEF StopDispatcher
<1>2. ActiveStands'
  BY SMTT(15) DEF IInv, StopDispatcher
<1>3. CurrentStands'
  BY SMTT(15) DEF IInv, StopDispatcher
<1>4. JobsStand'
  BY SMTT(15) DEF IInv, StopDispatcher
<1>5. TableStands'
  BY SMTT(15) DEF IInv, StopDispatcher
<1>6. ReportStands'
  BY SMTT(15) DEF IInv, StopDispatcher
<1>7. StopStands'
  BY SMTT(15) DEF IInv, StopDispatcher
<1>8. CommandsRunAlone'
  BY SMTT(15) DEF IInv, StopDispatcher
<1>9. CompletedIsOver'
  BY SMTT(15) DEF IInv, StopDispatcher
<1>10. UnfinishedIsKnown'
  BY SMTT(15) DEF IInv, StopDispatcher
<1> QED  BY <1>1, <1>2, <1>3, <1>4, <1>5, <1>6, <1>7, <1>8, <1>9, <1>10 DEF IInv

LEMMA EndBridgePreserves == ASSUME IInv, EndBridge PROVE IInv'
  BY SMTT(30) DEF IInv, EndBridge

LEMMA ExitProcessPreserves == ASSUME IInv, ExitProcess PROVE IInv'
<1>0. TypeOK
  BY DEF IInv
<1>b0. (lock \in BOOLEAN)'
  BY <1>0, Zenon DEF ExitProcess
<1>b1. (transaction \in BOOLEAN)'
  BY <1>0, Zenon DEF ExitProcess
<1>1. TypeOK'
  BY <1>0, <1>b0, <1>b1, SMTT(15) DEF ExitProcess
<1>2. ActiveStands'
  BY SMTT(15) DEF IInv, ExitProcess
<1>3. CurrentStands'
  BY SMTT(15) DEF IInv, ExitProcess
<1>4. JobsStand'
  BY SMTT(15) DEF IInv, ExitProcess
<1>5. TableStands'
  BY SMTT(15) DEF IInv, ExitProcess
<1>6. ReportStands'
  BY SMTT(15) DEF IInv, ExitProcess
<1>7. StopStands'
  BY SMTT(15) DEF IInv, ExitProcess
<1>8. CommandsRunAlone'
  BY SMTT(15) DEF IInv, ExitProcess
<1>9. CompletedIsOver'
  BY SMTT(15) DEF IInv, ExitProcess
<1>10. UnfinishedIsKnown'
  BY SMTT(15) DEF IInv, ExitProcess
<1> QED  BY <1>1, <1>2, <1>3, <1>4, <1>5, <1>6, <1>7, <1>8, <1>9, <1>10 DEF IInv

LEMMA CollectServerPreserves == ASSUME IInv, CollectServer PROVE IInv'
<1>0. TypeOK
  BY DEF IInv
<1>b0. (lock \in BOOLEAN)'
  BY <1>0, Zenon DEF CollectServer
<1>1. TypeOK'
  BY <1>0, <1>b0, SMTT(15) DEF CollectServer
<1>2. ActiveStands'
  BY SMTT(15) DEF IInv, CollectServer
<1>3. CurrentStands'
  BY SMTT(15) DEF IInv, CollectServer
<1>4. JobsStand'
  BY SMTT(15) DEF IInv, CollectServer
<1>5. TableStands'
  BY SMTT(15) DEF IInv, CollectServer
<1>6. ReportStands'
  BY SMTT(15) DEF IInv, CollectServer
<1>7. StopStands'
  BY SMTT(15) DEF IInv, CollectServer
<1>8. CommandsRunAlone'
  BY SMTT(15) DEF IInv, CollectServer
<1>9. CompletedIsOver'
  BY SMTT(15) DEF IInv, CollectServer
<1>10. UnfinishedIsKnown'
  BY SMTT(15) DEF IInv, CollectServer
<1> QED  BY <1>1, <1>2, <1>3, <1>4, <1>5, <1>6, <1>7, <1>8, <1>9, <1>10 DEF IInv

-----------------------------------------------------------------------------
(* The analysis thread. *)

LEMMA TakeJobPreserves == ASSUME IInv, TakeJob PROVE IInv'
<1>1. PICK j \in Jobs : queue = <<j>> /\ activeJob = j /\ state[j] = "queued"
  BY SMTT(15) DEF IInv, TakeJob
<1>2. current' = j /\ queue' = <<>>
  BY <1>1, SMTT(15) DEF TakeJob
<1>3. TypeOK'
  BY <1>1, <1>2, SMTT(15) DEF IInv, TakeJob
<1>4. ActiveStands'
  BY <1>1, <1>2, SMTT(15) DEF IInv, TakeJob
<1>5. CurrentStands'
  BY <1>1, <1>2, SMTT(15) DEF IInv, TakeJob
<1>6. JobsStand'
  BY <1>1, <1>2, SMTT(15) DEF IInv, TakeJob
<1>7. TableStands'
  BY <1>1, <1>2, SMTT(15) DEF IInv, TakeJob
<1>8. ReportStands'
  BY <1>1, <1>2, SMTT(15) DEF IInv, TakeJob
<1>9. StopStands'
  BY <1>1, <1>2, SMTT(15) DEF IInv, TakeJob
<1>10. CommandsRunAlone'
  BY <1>1, <1>2, SMTT(15) DEF IInv, TakeJob
<1>11. CompletedIsOver'
  BY <1>1, <1>2, SMTT(15) DEF IInv, TakeJob
<1>12. UnfinishedIsKnown'
  BY <1>1, <1>2, SMTT(15) DEF IInv, TakeJob
<1> QED  BY <1>3, <1>4, <1>5, <1>6, <1>7, <1>8, <1>9, <1>10, <1>11, <1>12 DEF IInv

LEMMA MarkRunningPreserves == ASSUME IInv, MarkRunning PROVE IInv'
<1>1. TypeOK'
  BY SMTT(15) DEF IInv, MarkRunning
<1>2. ActiveStands'
  BY SMTT(15) DEF IInv, MarkRunning
<1>3. CurrentStands'
  BY SMTT(15) DEF IInv, MarkRunning
<1>4. JobsStand'
  <2> SUFFICES ASSUME NEW j \in Jobs
               PROVE  /\ state'[j] = "failed" => error[j]
                      /\ error[j] => state'[j] = "failed" \/ (j = current /\ apc' = "fail")
                      /\ state'[j] = "queued" => queue = <<j>>
                      /\ state'[j] = "running" => j = current
                      /\ queue = <<j>> => state'[j] = "queued"
                      /\ j \in consumers => queue = <<j>> \/ j = current
    BY SMTT(15) DEF MarkRunning
  <2>1. current \in Jobs /\ state[current] = "queued" /\ ~error[current] /\ queue = <<>>
    BY SMTT(15) DEF IInv, MarkRunning
  <2>2. CASE j = current
    BY <2>1, <2>2, SMTT(15) DEF IInv, MarkRunning
  <2>3. CASE j # current
    BY <2>1, <2>3, SMTT(15) DEF IInv, MarkRunning
  <2> QED  BY <2>2, <2>3
<1>5. TableStands'
  BY SMTT(15) DEF IInv, MarkRunning
<1>6. ReportStands'
  BY SMTT(15) DEF IInv, MarkRunning
<1>7. StopStands'
  BY SMTT(15) DEF IInv, MarkRunning
<1>8. CommandsRunAlone'
  BY SMTT(15) DEF IInv, MarkRunning
<1>9. CompletedIsOver'
  BY SMTT(15) DEF IInv, MarkRunning
<1>10. UnfinishedIsKnown'
  BY SMTT(15) DEF IInv, MarkRunning
<1> QED  BY <1>1, <1>2, <1>3, <1>4, <1>5, <1>6, <1>7, <1>8, <1>9, <1>10 DEF IInv

LEMMA ArmDeadlinePreserves == ASSUME IInv, ArmDeadline PROVE IInv'
  BY SMTT(30) DEF IInv, ArmDeadline

LEMMA BeginAnalysisPreserves == ASSUME IInv, BeginAnalysis PROVE IInv'
<1>0. TypeOK
  BY DEF IInv
<1>b0. (transaction \in BOOLEAN)'
  BY <1>0, Zenon DEF BeginAnalysis
<1>1. TypeOK'
  BY <1>0, <1>b0, SMTT(15) DEF BeginAnalysis
<1>2. ActiveStands'
  BY SMTT(15) DEF IInv, BeginAnalysis
<1>3. CurrentStands'
  BY SMTT(15) DEF IInv, BeginAnalysis
<1>4. JobsStand'
  BY SMTT(15) DEF IInv, BeginAnalysis
<1>5. TableStands'
  BY SMTT(15) DEF IInv, BeginAnalysis
<1>6. ReportStands'
  BY SMTT(15) DEF IInv, BeginAnalysis
<1>7. StopStands'
  BY SMTT(15) DEF IInv, BeginAnalysis
<1>8. CommandsRunAlone'
  BY SMTT(15) DEF IInv, BeginAnalysis
<1>9. CompletedIsOver'
  BY SMTT(15) DEF IInv, BeginAnalysis
<1>10. UnfinishedIsKnown'
  BY SMTT(15) DEF IInv, BeginAnalysis
<1> QED  BY <1>1, <1>2, <1>3, <1>4, <1>5, <1>6, <1>7, <1>8, <1>9, <1>10 DEF IInv

LEMMA EndAnalysisPreserves == ASSUME IInv, EndAnalysis PROVE IInv'
  BY SMTT(30) DEF IInv, EndAnalysis

LEMMA CheckCancelledPreserves == ASSUME IInv, CheckCancelled PROVE IInv'
  BY SMTT(30) DEF IInv, CheckCancelled

LEMMA EndTransactionPreserves == ASSUME IInv, EndTransaction PROVE IInv'
<1>0. TypeOK
  BY DEF IInv
<1>b0. (transaction \in BOOLEAN)'
  BY <1>0, Zenon DEF EndTransaction
<1>1. TypeOK'
  BY <1>0, <1>b0, SMTT(15) DEF EndTransaction
<1>2. ActiveStands'
  BY SMTT(15) DEF IInv, EndTransaction
<1>3. CurrentStands'
  BY SMTT(15) DEF IInv, EndTransaction
<1>4. JobsStand'
  BY SMTT(15) DEF IInv, EndTransaction
<1>5. TableStands'
  BY SMTT(15) DEF IInv, EndTransaction
<1>6. ReportStands'
  BY SMTT(15) DEF IInv, EndTransaction
<1>7. StopStands'
  BY SMTT(15) DEF IInv, EndTransaction
<1>8. CommandsRunAlone'
  BY SMTT(15) DEF IInv, EndTransaction
<1>9. CompletedIsOver'
  BY SMTT(15) DEF IInv, EndTransaction
<1>10. UnfinishedIsKnown'
  BY SMTT(15) DEF IInv, EndTransaction
<1> QED  BY <1>1, <1>2, <1>3, <1>4, <1>5, <1>6, <1>7, <1>8, <1>9, <1>10 DEF IInv

LEMMA RecordErrorPreserves == ASSUME IInv, RecordError PROVE IInv'
  BY SMTT(30) DEF IInv, RecordError

LEMMA RecordFailedPreserves == ASSUME IInv, RecordFailed PROVE IInv'
  BY SMTT(30) DEF IInv, RecordFailed

LEMMA CleanUpPreserves == ASSUME IInv, CleanUp PROVE IInv'
  BY SMTT(30) DEF IInv, CleanUp

LEMMA ClearActivePreserves == ASSUME IInv, ClearActive PROVE IInv'
  BY SMTT(30) DEF IInv, ClearActive

LEMMA FinishPreserves == ASSUME IInv, Finish PROVE IInv'
  BY SMTT(30) DEF IInv, Finish

-----------------------------------------------------------------------------
(* Timer and user. *)

LEMMA DeadlinePassesPreserves == ASSUME NEW j \in Jobs, IInv, DeadlinePasses(j) PROVE IInv'
  BY SMTT(30) DEF IInv, DeadlinePasses

LEMMA UserAnalysesPreserves == ASSUME IInv, UserAnalyses PROVE IInv'
  BY SMTT(30) DEF IInv, UserAnalyses

-----------------------------------------------------------------------------
(* The invariant and what it implies. *)

LEMMA StutterPreserves == ASSUME IInv, UNCHANGED vars PROVE IInv'
  BY SMTT(30) DEF IInv

HIDE DEF tableVars, jobVars, executorVars, threadVars, vars,
         States, Final, Working, Asked, Table, Alive, Engaged, Terminated,
         PrepareStop, Advance,
         TypeOK, ActiveStands, CurrentStands, JobsStand, TableStands, ReportStands,
         StopStands, CommandsRunAlone, CompletedIsOver, UnfinishedIsKnown,
         OwnershipCoversAnalysis

LEMMA NextPreserves == ASSUME IInv, [Next]_vars PROVE IInv'
<1>1. CASE BridgeThread
  <2>1. CASE BeginCommand
    BY <2>1, BeginCommandPreserves
  <2>2. CASE EndCommand
    BY <2>2, EndCommandPreserves
  <2>3. ASSUME NEW j \in Jobs, Analyze(j) PROVE IInv'
    BY <2>3, AnalyzePreserves
  <2>4. ASSUME NEW j \in Jobs, JobStatus(j) PROVE IInv'
    BY <2>4, JobStatusPreserves
  <2>5. CASE ReadState
    BY <2>5, ReadStatePreserves
  <2>6. CASE ReadError
    BY <2>6, ReadErrorPreserves
  <2>7. ASSUME NEW j \in Jobs, CancelAnalysis(j) PROVE IInv'
    BY <2>7, CancelAnalysisPreserves
  <2>8. CASE CancelMonitor
    BY <2>8, CancelMonitorPreserves
  <2>9. CASE BeginStop
    BY <2>9, BeginStopPreserves
  <2>10. CASE StopServer
    BY <2>10, StopServerPreserves
  <2>11. CASE ReleaseLock
    BY <2>11, ReleaseLockPreserves
  <2>12. CASE KeepLock
    BY <2>12, KeepLockPreserves
  <2>13. CASE StopDispatcher
    BY <2>13, StopDispatcherPreserves
  <2>14. CASE EndBridge
    BY <2>14, EndBridgePreserves
  <2> QED  BY <1>1, <2>1, <2>2, <2>3, <2>4, <2>5, <2>6, <2>7, <2>8, <2>9, <2>10, <2>11, <2>12, <2>13, <2>14 DEF BridgeThread
<1>2. CASE AnalysisStep
  <2>1. CASE TakeJob
    BY <2>1, TakeJobPreserves
  <2>2. CASE MarkRunning
    BY <2>2, MarkRunningPreserves
  <2>3. CASE ArmDeadline
    BY <2>3, ArmDeadlinePreserves
  <2>4. CASE BeginAnalysis
    BY <2>4, BeginAnalysisPreserves
  <2>5. CASE CheckCancelled
    BY <2>5, CheckCancelledPreserves
  <2>6. CASE EndTransaction
    BY <2>6, EndTransactionPreserves
  <2>7. CASE RecordError
    BY <2>7, RecordErrorPreserves
  <2>8. CASE RecordFailed
    BY <2>8, RecordFailedPreserves
  <2>9. CASE CleanUp
    BY <2>9, CleanUpPreserves
  <2>10. CASE ClearActive
    BY <2>10, ClearActivePreserves
  <2>11. CASE Finish
    BY <2>11, FinishPreserves
  <2> QED  BY <1>2, <2>1, <2>2, <2>3, <2>4, <2>5, <2>6, <2>7, <2>8, <2>9, <2>10, <2>11 DEF AnalysisStep
<1>3. ASSUME NEW j \in Jobs, DeadlinePasses(j) PROVE IInv'
  BY <1>3, DeadlinePassesPreserves
<1>4. CASE EndAnalysis \/ UserAnalyses \/ ExitProcess \/ CollectServer
  BY <1>4, EndAnalysisPreserves, UserAnalysesPreserves, ExitProcessPreserves,
     CollectServerPreserves
<1>5. CASE UNCHANGED vars
  BY <1>5, StutterPreserves
<1> QED  BY <1>1, <1>2, <1>3, <1>4, <1>5 DEF Next

\* The inductive invariant holds in every reachable state: what the job of the
\* analysis thread has recorded, its place in the table, and what a stop waits for.
THEOREM JobsInvariance == Spec => []IInv
<1>1. Init => IInv
  BY Initially
<1>2. IInv /\ [Next]_vars => IInv'
  BY NextPreserves
<1> QED  BY <1>1, <1>2, PTL DEF Spec

\* Type correctness, for any jobs and any capacity above one.
THEOREM JobsTyping == Spec => []TypeOK
<1>1. IInv => TypeOK
  BY DEF IInv
<1> QED  BY <1>1, JobsInvariance, PTL

\* No command that needs an idle bridge runs while one of its jobs waits or analyses.
THEOREM NoCommandMeetsAnalysis == Spec => []CommandsRunAlone
<1>1. IInv => CommandsRunAlone
  BY DEF IInv
<1> QED  BY <1>1, JobsInvariance, PTL

\* A job reported as completed has left the active slot and its program.
THEOREM CompletedJobsAreOver == Spec => []CompletedIsOver
<1>1. IInv => CompletedIsOver
  BY DEF IInv
<1> QED  BY <1>1, JobsInvariance, PTL

\* A status report of a failed job carries its error.
THEOREM FailuresAreExplained == Spec => []FailureIsExplained
<1>1. IInv => FailureIsExplained
  BY DEF IInv, ReportStands, FailureIsExplained
<1> QED  BY <1>1, JobsInvariance, PTL

\* The table never forgets a job that has no outcome yet.
THEOREM UnfinishedJobsAreKnown == Spec => []UnfinishedIsKnown
<1>1. IInv => UnfinishedIsKnown
  BY DEF IInv
<1> QED  BY <1>1, JobsInvariance, PTL

\* Unless the JVM collects the server, the mailbox is owned while a job of the
\* bridge is waiting or analysing.
THEOREM AnalysisIsOwned == ASSUME ~Collects PROVE Spec => []OwnershipCoversAnalysis
<1>1. IInv => OwnershipCoversAnalysis
  BY DEF IInv, StopStands
<1> QED  BY <1>1, JobsInvariance, PTL

LEMMA OutcomeStep ==
    ASSUME IInv, [Next]_vars, NEW j \in Jobs, state[j] \in Final
    PROVE  state'[j] = state[j] /\ error'[j] = error[j]
<1> USE DEF tableVars, jobVars, executorVars, threadVars, vars, States, Final,
            Working, PrepareStop, Advance
<1>0. /\ state \in [Jobs -> States] /\ error \in [Jobs -> BOOLEAN]
      /\ apc \in {"run", "caught", "fail"} => j # current
      /\ apc = "finish" /\ state[current] # "failed" => state[current] = "running"
  BY SMTT(15) DEF IInv, TypeOK, CurrentStands, Alive
<1>1. CASE \E k \in Jobs : Analyze(k)
  BY <1>0, <1>1, SMTT(15) DEF Analyze
<1>2. CASE MarkRunning \/ RecordError \/ RecordFailed \/ Finish
  BY <1>0, <1>2, SMTT(15) DEF MarkRunning, RecordError, RecordFailed, Finish
<1>3. CASE UNCHANGED <<state, error>>
  BY <1>3
<1>4. \/ \E k \in Jobs : Analyze(k)
      \/ MarkRunning \/ RecordError \/ RecordFailed \/ Finish
      \/ UNCHANGED <<state, error>>
  BY SMTT(30) DEF Next, BridgeThread, AnalysisStep, BeginCommand, EndCommand, JobStatus,
     ReadState, ReadError, CancelAnalysis, CancelMonitor, BeginStop, StopServer,
     ReleaseLock, KeepLock, StopDispatcher, EndBridge, ExitProcess, CollectServer,
     TakeJob, ArmDeadline, BeginAnalysis, EndAnalysis, CheckCancelled,
     EndTransaction, CleanUp, ClearActive, DeadlinePasses, UserAnalyses
<1> QED  BY <1>1, <1>2, <1>3, <1>4

\* A final state and its error never change.
THEOREM OutcomesAreFinal == Spec => OutcomeIsFinal
<1>1. IInv /\ [Next]_vars =>
        [\A j \in Jobs : state[j] \in Final => state'[j] = state[j] /\ error'[j] = error[j]]_vars
  BY OutcomeStep
<1> QED  BY <1>1, JobsInvariance, PTL DEF Spec, OutcomeIsFinal
=============================================================================
