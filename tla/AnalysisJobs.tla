---------------------------- MODULE AnalysisJobs ----------------------------
(***************************************************************************)
(* Background analysis of one bridge (CommandDispatcher.java): the bridge   *)
(* thread dispatches one command after the other and finally stops, the     *)
(* analysis thread runs the submitted jobs one after the other, the timer   *)
(* thread cancels a job at its deadline, and the GUI user may analyse the   *)
(* program too.  dispatch() is synchronized, but only the bridge thread     *)
(* calls it; the analysis thread takes no lock at all, so every read and    *)
(* write the two threads share is a step of its own.                        *)
(***************************************************************************)
EXTENDS Naturals, Sequences, FiniteSets

CONSTANTS
    Jobs,       \* the jobs ever submitted
    NoJob,      \* null
    Capacity,   \* jobs the table keeps (100)
    Gui,        \* TRUE: the GUI plugin, FALSE: a headless process
    Collects    \* TRUE: the JVM may collect an unreachable server

ASSUME JobsAssumption ==
    /\ NoJob \notin Jobs
    /\ Capacity \in Nat \ {0, 1}
    /\ Gui \in BOOLEAN /\ Collects \in BOOLEAN

VARIABLES
    jobs,         \* ids in the table, oldest first
    activeJob,    \* the volatile field
    state,        \* AnalysisJob.state
    error,        \* AnalysisJob.error is set
    cancelled,    \* the job's monitor is cancelled
    deadline,     \* jobs whose cancellation the timer still has to fire
    consumers,    \* jobs that keep their program open
    queue,        \* submitted, not yet taken by the analysis thread
    accepting,    \* the executor is not shut down
    apc, current, \* analysis thread: position, job
    transaction,  \* the analysis transaction is open
    userAnalysis, \* the GUI user analyses the current program
    bpc,          \* bridge thread: position
    report,       \* job status under construction or last returned
    lock          \* bridge.lock is held

tableVars    == <<jobs, activeJob, report>>
jobVars      == <<state, error, cancelled, deadline, consumers>>
executorVars == <<queue, accepting>>
threadVars   == <<apc, current, transaction>>
vars == <<tableVars, jobVars, executorVars, threadVars, userAnalysis, bpc, lock>>

States   == {"none", "queued", "running", "failed", "completed"}
Final    == {"failed", "completed"}
Working  == {"run", "arm", "begin", "analyse", "check", "rollup", "commit",
             "caught", "fail", "cleanup", "clear", "finish"}
Asked(j) == [job |-> j, state |-> "none", error |-> FALSE]
Table    == {jobs[i] : i \in DOMAIN jobs}

TypeOK ==
    /\ jobs \in Seq(Jobs) /\ Len(jobs) =< Capacity
    /\ activeJob \in Jobs \cup {NoJob}
    /\ state \in [Jobs -> States]
    /\ error \in [Jobs -> BOOLEAN] /\ cancelled \in [Jobs -> BOOLEAN]
    /\ deadline \subseteq Jobs /\ consumers \subseteq Jobs
    /\ queue \in Seq(Jobs) /\ accepting \in BOOLEAN
    /\ apc \in Working \cup {"idle", "dead"}
    /\ current \in Jobs \cup {NoJob}
    /\ transaction \in BOOLEAN /\ userAnalysis \in BOOLEAN /\ lock \in BOOLEAN
    /\ bpc \in {"idle", "command", "submit", "status", "statusError", "cancel",
                "stop", "await", "close", "awaitAgain", "ended", "dead"}
    /\ report \in [job : Jobs \cup {NoJob}, state : States, error : BOOLEAN]

Init ==
    /\ jobs = <<>> /\ activeJob = NoJob
    /\ state = [j \in Jobs |-> "none"]
    /\ error = [j \in Jobs |-> FALSE]
    /\ cancelled = [j \in Jobs |-> FALSE]
    /\ deadline = {} /\ consumers = {}
    /\ queue = <<>> /\ accepting = TRUE
    /\ apc = "idle" /\ current = NoJob /\ transaction = FALSE
    /\ userAnalysis = FALSE
    /\ bpc = "idle" /\ report = Asked(NoJob) /\ lock = TRUE

-----------------------------------------------------------------------------
(* The bridge thread: commands. *)

\* Mutant of IsBusy: only running native analysis counts.
BusyWhileAnalysing == apc = "analyse" \/ userAnalysis

\* AutoAnalysisManager.isAnalyzing sees native analysis whoever started it.
IsBusy == activeJob # NoJob \/ apc = "analyse" \/ userAnalysis

\* dispatch of any command but status, job_status, list_languages and
\* cancel_analysis: it runs only if ensureIdle lets it pass.
BeginCommand ==
    /\ bpc = "idle" /\ ~IsBusy
    /\ bpc' \in {"command", "submit"}
    /\ UNCHANGED <<tableVars, jobVars, executorVars, threadVars, userAnalysis, lock>>

\* The command returns or throws; analyze too, if its program is not the
\* expected one.
EndCommand ==
    /\ bpc \in {"command", "submit"}
    /\ bpc' = "idle"
    /\ UNCHANGED <<tableVars, jobVars, executorVars, threadVars, userAnalysis, lock>>

\* Mutants of Enrolled: the newest job leaves a full table; none does.
EnrolledForNewest(j) ==
    Append(IF Len(jobs) >= Capacity THEN SubSeq(jobs, 1, Len(jobs) - 1) ELSE jobs, j)
EnrolledAlways(j) == Append(jobs, j)

\* The oldest job leaves a full table.
Enrolled(j) ==
    Append(IF Len(jobs) >= Capacity THEN Tail(jobs) ELSE jobs, j)

\* analyze: table, active job, consumer and executor, then the new job's status.
Analyze(j) ==
    /\ bpc = "submit" /\ state[j] = "none"
    /\ state' = [state EXCEPT ![j] = "queued"]
    /\ jobs' = Enrolled(j)
    /\ activeJob' = j
    /\ consumers' = consumers \cup {j}
    /\ queue' = Append(queue, j)
    /\ bpc' = "status"
    /\ report' = Asked(j)
    /\ UNCHANGED <<error, cancelled, deadline, accepting, threadVars, userAnalysis, lock>>

\* job_status looks the job up; an unknown id is an error and changes nothing.
JobStatus(j) ==
    /\ bpc = "idle" /\ j \in Table
    /\ bpc' = "status"
    /\ report' = Asked(j)
    /\ UNCHANGED <<jobs, activeJob, jobVars, executorVars, threadVars, userAnalysis, lock>>

\* info(): the state is read first ...
ReadState ==
    /\ bpc = "status"
    /\ report' = [report EXCEPT !.state = state[report.job]]
    /\ bpc' = "statusError"
    /\ UNCHANGED <<jobs, activeJob, jobVars, executorVars, threadVars, userAnalysis, lock>>

\* ... and then the error.
ReadError ==
    /\ bpc = "statusError"
    /\ report' = [report EXCEPT !.error = error[report.job]]
    /\ bpc' = "idle"
    /\ UNCHANGED <<jobs, activeJob, jobVars, executorVars, threadVars, userAnalysis, lock>>

\* cancel_analysis cancels the job if it is the active one, a step later.
CancelAnalysis(j) ==
    /\ bpc = "idle" /\ j \in Table
    /\ bpc' = IF j = activeJob THEN "cancel" ELSE "status"
    /\ report' = Asked(j)
    /\ UNCHANGED <<jobs, activeJob, jobVars, executorVars, threadVars, userAnalysis, lock>>

CancelMonitor ==
    /\ bpc = "cancel"
    /\ cancelled' = [cancelled EXCEPT ![report.job] = TRUE]
    /\ bpc' = "status"
    /\ UNCHANGED <<tableVars, state, error, deadline, consumers, executorVars,
                   threadVars, userAnalysis, lock>>

-----------------------------------------------------------------------------
(* The bridge thread: stop.  run() has returned; BridgeServer.close() and   *)
(* then CommandDispatcher.close() both call prepareStop().                  *)

PrepareStop(from, to) ==
    /\ bpc = from
    /\ bpc' = to
    /\ cancelled' = [j \in Jobs |-> cancelled[j] \/ j = activeJob]
    /\ accepting' = FALSE
    /\ UNCHANGED <<tableVars, state, error, deadline, consumers, queue, threadVars,
                   userAnalysis, lock>>

BeginStop ==
    /\ bpc = "idle"
    /\ bpc' = "stop"
    /\ UNCHANGED <<tableVars, jobVars, executorVars, threadVars, userAnalysis, lock>>

StopServer == PrepareStop("stop", "await")

\* Mutant of Terminated: an empty queue is enough.
TerminatedIfDrained == ~accepting /\ queue = <<>>

\* awaitTermination: no work left and the thread idle.
Terminated == ~accepting /\ queue = <<>> /\ apc = "idle"

\* Only then the lock is released.
ReleaseLock ==
    /\ bpc = "await" /\ Terminated
    /\ lock' = FALSE
    /\ bpc' = "close"
    /\ UNCHANGED <<tableVars, jobVars, executorVars, threadVars, userAnalysis>>

\* 30 seconds passed or the wait was interrupted: close() throws with the lock held.
KeepLock ==
    /\ bpc = "await" /\ ~Terminated
    /\ bpc' = "close"
    /\ UNCHANGED <<tableVars, jobVars, executorVars, threadVars, userAnalysis, lock>>

StopDispatcher == PrepareStop("close", "awaitAgain")

\* timer.shutdownNow() drops the pending deadlines; the consumers of the bridge
\* itself are the dispatcher's other business.  Nothing more happens on a timeout.
EndBridge ==
    /\ bpc = "awaitAgain"
    /\ deadline' = IF Terminated THEN {} ELSE deadline
    /\ bpc' = "ended"
    /\ UNCHANGED <<tableVars, state, error, cancelled, consumers, executorVars,
                   threadVars, userAnalysis, lock>>

\* A headless process ends with its main thread: all others are daemons.
ExitProcess ==
    /\ bpc = "ended" /\ ~Gui
    /\ bpc' = "dead" /\ apc' = "dead"
    /\ lock' = FALSE /\ transaction' = FALSE
    /\ queue' = <<>> /\ deadline' = {} /\ consumers' = {}
    /\ UNCHANGED <<tableVars, state, error, cancelled, accepting, current, userAnalysis>>

\* A Ghidra process lives on, but nothing refers to the server any more: once
\* it is collected, its channel is closed and the lock with it.
CollectServer ==
    /\ bpc = "ended" /\ Gui /\ Collects
    /\ lock' = FALSE
    /\ UNCHANGED <<tableVars, jobVars, executorVars, threadVars, userAnalysis, bpc>>

-----------------------------------------------------------------------------
(* The analysis thread: the submitted task, statement by statement. *)

Advance(from, to) == apc = from /\ apc' = to

TakeJob ==
    /\ queue # <<>> /\ Advance("idle", "run")
    /\ current' = Head(queue) /\ queue' = Tail(queue)
    /\ UNCHANGED <<tableVars, jobVars, accepting, transaction, userAnalysis, bpc, lock>>

MarkRunning ==
    /\ Advance("run", "arm")
    /\ state' = [state EXCEPT ![current] = "running"]
    /\ UNCHANGED <<tableVars, error, cancelled, deadline, consumers, executorVars,
                   current, transaction, userAnalysis, bpc, lock>>

\* Mutant of ArmDeadline: the job runs without a bound.
ArmNothing ==
    /\ Advance("arm", "begin")
    /\ UNCHANGED <<tableVars, jobVars, executorVars, current, transaction,
                   userAnalysis, bpc, lock>>

ArmDeadline ==
    /\ Advance("arm", "begin")
    /\ deadline' = deadline \cup {current}
    /\ UNCHANGED <<tableVars, state, error, cancelled, consumers, executorVars,
                   current, transaction, userAnalysis, bpc, lock>>

\* The transaction starts, or getting the manager or starting it throws.
BeginAnalysis ==
    /\ \/ Advance("begin", "analyse") /\ transaction' = TRUE
       \/ Advance("begin", "caught") /\ UNCHANGED transaction
    /\ UNCHANGED <<tableVars, jobVars, executorVars, current, userAnalysis, bpc, lock>>

\* Native analysis returns, finished or cancelled, or throws.
EndAnalysis ==
    /\ Advance("analyse", "check") \/ Advance("analyse", "rollup")
    /\ UNCHANGED <<tableVars, jobVars, executorVars, current, transaction,
                   userAnalysis, bpc, lock>>

CheckCancelled ==
    /\ Advance("check", IF cancelled[current] THEN "rollup" ELSE "commit")
    /\ UNCHANGED <<tableVars, jobVars, executorVars, current, transaction,
                   userAnalysis, bpc, lock>>

\* The inner finally commits, whatever happened.
EndTransaction ==
    /\ Advance("commit", "cleanup") \/ Advance("rollup", "caught")
    /\ transaction' = FALSE
    /\ UNCHANGED <<tableVars, jobVars, executorVars, current, userAnalysis, bpc, lock>>

\* Mutant of RecordError: the state is set first.
RecordStateFirst ==
    /\ Advance("caught", "fail")
    /\ state' = [state EXCEPT ![current] = "failed"]
    /\ UNCHANGED <<tableVars, error, cancelled, deadline, consumers, executorVars,
                   current, transaction, userAnalysis, bpc, lock>>

\* The catch clause sets the error first and the state last.
RecordError ==
    /\ Advance("caught", "fail")
    /\ error' = [error EXCEPT ![current] = TRUE]
    /\ UNCHANGED <<tableVars, state, cancelled, deadline, consumers, executorVars,
                   current, transaction, userAnalysis, bpc, lock>>

RecordFailed ==
    /\ Advance("fail", "cleanup")
    /\ state' = [state EXCEPT ![current] = "failed"]
    /\ UNCHANGED <<tableVars, error, cancelled, deadline, consumers, executorVars,
                   current, transaction, userAnalysis, bpc, lock>>

\* Mutant of CleanUp: the outcome is published before the job is over.
CompleteFirst ==
    /\ Advance("cleanup", "clear")
    /\ state' = [state EXCEPT ![current] = IF @ = "failed" THEN @ ELSE "completed"]
    /\ deadline' = deadline \ {current}
    /\ consumers' = consumers \ {current}
    /\ UNCHANGED <<tableVars, error, cancelled, executorVars, current,
                   transaction, userAnalysis, bpc, lock>>

\* The outer finally: deadline and consumer, ...
CleanUp ==
    /\ Advance("cleanup", "clear")
    /\ deadline' = deadline \ {current}
    /\ consumers' = consumers \ {current}
    /\ UNCHANGED <<tableVars, state, error, cancelled, executorVars, current,
                   transaction, userAnalysis, bpc, lock>>

\* ... the active job, ...
ClearActive ==
    /\ Advance("clear", "finish")
    /\ activeJob' = NoJob
    /\ UNCHANGED <<jobs, report, jobVars, executorVars, current, transaction,
                   userAnalysis, bpc, lock>>

\* Mutant of Finish: every job completes.
FinishCompleted ==
    /\ Advance("finish", "idle")
    /\ state' = [state EXCEPT ![current] = "completed"]
    /\ current' = NoJob
    /\ UNCHANGED <<tableVars, error, cancelled, deadline, consumers, executorVars,
                   transaction, userAnalysis, bpc, lock>>

\* ... and the state, unless it is failed.
Finish ==
    /\ Advance("finish", "idle")
    /\ state' = [state EXCEPT ![current] =
                    IF state[current] = "failed" THEN "failed" ELSE "completed"]
    /\ current' = NoJob
    /\ UNCHANGED <<tableVars, error, cancelled, deadline, consumers, executorVars,
                   transaction, userAnalysis, bpc, lock>>

-----------------------------------------------------------------------------
(* The timer thread and the GUI user. *)

DeadlinePasses(j) ==
    /\ j \in deadline
    /\ cancelled' = [cancelled EXCEPT ![j] = TRUE]
    /\ deadline' = deadline \ {j}
    /\ UNCHANGED <<tableVars, state, error, consumers, executorVars, threadVars,
                   userAnalysis, bpc, lock>>

UserAnalyses ==
    /\ Gui
    /\ userAnalysis' = ~userAnalysis
    /\ UNCHANGED <<tableVars, jobVars, executorVars, threadVars, bpc, lock>>

-----------------------------------------------------------------------------
BridgeThread ==
    \/ BeginCommand \/ EndCommand
    \/ \E j \in Jobs : Analyze(j) \/ JobStatus(j) \/ CancelAnalysis(j)
    \/ ReadState \/ ReadError \/ CancelMonitor
    \/ BeginStop \/ StopServer \/ ReleaseLock \/ KeepLock \/ StopDispatcher
    \/ EndBridge

AnalysisStep ==
    \/ TakeJob \/ MarkRunning \/ ArmDeadline \/ BeginAnalysis
    \/ CheckCancelled \/ EndTransaction \/ RecordError \/ RecordFailed
    \/ CleanUp \/ ClearActive \/ Finish

Next ==
    \/ BridgeThread \/ AnalysisStep \/ EndAnalysis
    \/ \E j \in Jobs : DeadlinePasses(j)
    \/ UserAnalyses \/ ExitProcess \/ CollectServer

Spec == Init /\ [][Next]_vars

\* The analysis thread runs and the timer fires.  Native analysis need not end
\* by itself, but it ends once its monitor is cancelled.  Commands, stop, user
\* and collector are not fair.
Fairness ==
    /\ WF_vars(AnalysisStep)
    /\ WF_vars(EndAnalysis /\ cancelled[current])
    /\ \A j \in Jobs : WF_vars(DeadlinePasses(j))

FairSpec == Spec /\ Fairness

-----------------------------------------------------------------------------
(* Properties. *)

\* A job is waiting or has not yet been cleared by its task.
Engaged == queue # <<>> \/ apc \in Working

\* No command that needs an idle bridge runs while a job of the bridge waits or
\* analyses: the guard is read once, the analysis thread moves on by itself.
CommandsRunAlone ==
    bpc \in {"command", "submit"} =>
        queue = <<>> /\ apc \in {"idle", "finish"} /\ ~transaction

\* Whoever reads "completed" can rely on it: the job left the active slot and
\* its program, and the analysis transaction is closed.
CompletedIsOver ==
    report.state = "completed" =>
        report.job # activeJob /\ report.job \notin consumers /\ report.job # current

\* A status read while the job fails never shows the failure without its error.
FailureIsExplained ==
    bpc # "statusError" /\ report.state = "failed" => report.error

\* The table forgets finished jobs only: the outcome of a job that still runs
\* can be asked for and the job cancelled.
UnfinishedIsKnown ==
    \A j \in Jobs : state[j] \in {"queued", "running"} => j \in Table

\* A final state and its error never change.
OutcomeIsFinal ==
    [][\A j \in Jobs : state[j] \in Final =>
          state'[j] = state[j] /\ error'[j] = error[j]]_vars

\* docs/java-api.md:64, prepareStop: the bridge owns the mailbox as long as its
\* analysis goes on, also when a stop gives up waiting for it.
OwnershipCoversAnalysis == Engaged => lock

\* A submitted job reaches a final state or ends with its process: the deadline
\* cancels what does not finish.
EveryJobEnds ==
    \A j \in Jobs : state[j] = "queued" ~> (state[j] \in Final \/ bpc = "dead")
=============================================================================
