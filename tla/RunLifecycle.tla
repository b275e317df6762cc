---------------------------- MODULE RunLifecycle ----------------------------
(***************************************************************************)
(* The life of the agent runs of one case: a request reserves a run and    *)
(* its draft version, a background job drives guarded tool calls, and the  *)
(* run is ended by its job, by a later request or by a restarted server.   *)
(*                                                                         *)
(* Three stores take part and each survives the others: the database       *)
(* (committed rows), the trace directory (one JSONL file per run) and the  *)
(* memory of the server process (jobs, tool calls, requests), which a      *)
(* crash erases.  A database transaction is one step, the one that commits *)
(* it, except where its row lock matters: the case row of `reserve` and    *)
(* the version and run rows of a tool call are held over two steps.        *)
(*                                                                         *)
(* A run and its version share a number (agent_runs.version_id is UNIQUE). *)
(* Time is abstract: `expired` says the saved outer timeout plus the       *)
(* recovery grace has passed, which may happen at any moment of a run.     *)
(***************************************************************************)
EXTENDS Naturals, FiniteSets, Sequences

CONSTANTS Requests,     (* request handlers that start or look at a run     *)
          Boot,         (* the startup hook, a client of its own            *)
          MaxRuns,      (* runs ever reserved                               *)
          MaxToolSteps, (* trace events after which no call or denial comes *)
          MaxFaults,    (* database failures met by jobs and requests       *)
          MaxStops      (* crashes and shutdowns of the server              *)

ASSUME ClientsAssumption == Boot \notin Requests
ASSUME BoundsAssumption ==
  /\ MaxRuns \in Nat /\ MaxToolSteps \in Nat
  /\ MaxFaults \in Nat /\ MaxStops \in Nat

RunIds  == 1..MaxRuns
Clients == Requests \cup {Boot}

(* Attempts `_execute` makes to persist the end of a run.                  *)
PersistAttempts == 3

Outcomes == {"absent", "running", "success", "failed", "stopped"}
Ended    == {"success", "failed", "stopped"}

(* stop_reason: "stopped" stands for every reason other than the two named *)
Results == {"none", "completed", "failed", "stopped"}

(* One trace event per agent_run_steps row: a tool step is "pending" until *)
(* its operation commits as a read, an artifact write or the finalization. *)
Events == {"job_start", "pending", "read", "write", "finalize", "error",
           "guardrail_denied", "job_interrupted", "job_finish",
           "job_trace_failure"}

VARIABLES
  outcome,     (* agent_runs.outcome, "absent" before the reservation       *)
  finalized,   (* runs whose version has finalized_at                       *)
  steps,       (* the committed trace events of a run, in seq order         *)
  traceFailed, (* runs whose stage_detail is trace_write_failed             *)
  expired,     (* runs past outerTimeoutS + RECOVERY_GRACE_S                *)
  file,        (* contents of traces/<run>.jsonl, <<>> when missing         *)
  server,      (* "down", "booting", "serving" or "stopping"                *)
  tool,        (* the transaction a run's executor is in, or "idle"         *)
  held,        (* runs whose version and run rows a tool call has locked    *)
  closed,      (* runs whose executor has been closed                       *)
  jobPc, jobResult, jobAttempt,     (* the background job of each run       *)
  clientPc, clientRun, clientGoal,  (* each request, and the startup hook   *)
  faults, stops                     (* budgets spent                        *)

database == <<outcome, finalized, steps, traceFailed>>
jobs     == <<jobPc, jobResult, jobAttempt>>
clients  == <<clientPc, clientRun, clientGoal>>
tools    == <<tool, held, closed>>
budgets  == <<faults, stops>>
vars     == <<database, expired, file, server, tools, jobs, clients, budgets>>

ServerStates == {"down", "booting", "serving", "stopping"}
ToolStates   == {"idle", "begin", "operate", "fail", "finalized"}
JobStates    == {"none", "work", "prepare", "mark", "export", "flag", "over"}
ClientStates == {"idle", "mark", "export", "flag", "reserve", "insert",
                 "dispatch"}
Goals        == {"look", "start", "launch", "abort", "boot"}

Init ==
  /\ outcome = [r \in RunIds |-> "absent"]
  /\ finalized = {} /\ traceFailed = {} /\ expired = {}
  /\ steps = [r \in RunIds |-> <<>>]
  /\ file = [r \in RunIds |-> <<>>]
  /\ server = "down"
  /\ tool = [r \in RunIds |-> "idle"]
  /\ held = {} /\ closed = {}
  /\ jobPc = [r \in RunIds |-> "none"]
  /\ jobResult = [r \in RunIds |-> "none"]
  /\ jobAttempt = [r \in RunIds |-> 0]
  /\ clientPc = [c \in Clients |-> "idle"]
  /\ clientRun = [c \in Clients |-> 0]
  /\ clientGoal = [c \in Clients |-> "look"]
  /\ faults = 0 /\ stops = 0

-----------------------------------------------------------------------------
(* What the code reads and writes.                                         *)

Running(r) == outcome[r] = "running"

NoActiveRun == \A r \in RunIds : ~Running(r)

Reserved == {r \in RunIds : outcome[r] # "absent"}

(* The running runs a recovery query selects.                              *)
Recoverable_Fault == {r \in RunIds : Running(r) /\ r \notin expired}
Recoverable == {r \in RunIds : Running(r) /\ r \in expired}

Recorded(r, event) == \E i \in 1..Len(steps[r]) : steps[r][i] = event

Record(r, event) == steps' = [steps EXCEPT ![r] = Append(@, event)]

(* Version and run rows are locked by a tool call; whoever ends the run or *)
(* exports its trace waits for them.                                       *)
RunUnlocked_Fault(r) == TRUE
RunUnlocked(r) == r \notin held

(* The outcome `finish` stores: a completed job only succeeds when its     *)
(* version really is finalized.                                            *)
OutcomeOf_Fault(r, result) ==
  IF result = "failed" THEN "failed" ELSE "success"
OutcomeOf(r, result) ==
  IF result # "completed" THEN result
  ELSE IF r \in finalized THEN "success" ELSE "failed"

(* The first transaction of `finish`, idempotent under the run row lock.   *)
FinishRun_Fault(r, result) ==
  /\ RunUnlocked(r)
  /\ outcome' = [outcome EXCEPT ![r] = OutcomeOf(r, result)]
  /\ Record(r, "job_finish")
  /\ UNCHANGED <<finalized, traceFailed>>
FinishRun(r, result) ==
  /\ RunUnlocked(r)
  /\ IF Running(r)
     THEN /\ outcome' = [outcome EXCEPT ![r] = OutcomeOf(r, result)]
          /\ Record(r, "job_finish")
     ELSE UNCHANGED <<outcome, steps>>
  /\ UNCHANGED <<finalized, traceFailed>>

(* The export transaction: the file is replaced by the committed events.   *)
WriteTrace(r) ==
  /\ RunUnlocked(r)
  /\ file' = [file EXCEPT ![r] = steps[r]]

(* A trace that cannot be written takes a success back, and fails a run    *)
(* that has not been given to a job yet.                                   *)
OutcomeUntraced_Fault(r, starting) ==
  IF outcome[r] = "success" THEN "failed" ELSE outcome[r]
OutcomeUntraced(r, starting) ==
  IF outcome[r] = "success" \/ (starting /\ Running(r))
  THEN "failed" ELSE outcome[r]

(* The transaction that follows an export stopped by an OSError.           *)
ReportTraceFailure(r, starting) ==
  /\ RunUnlocked(r)
  /\ IF r \in traceFailed
     THEN UNCHANGED <<outcome, steps, traceFailed>>
     ELSE /\ outcome' = [outcome EXCEPT ![r] = OutcomeUntraced(r, starting)]
          /\ traceFailed' = traceFailed \cup {r}
          /\ Record(r, "job_trace_failure")
  /\ UNCHANGED finalized

-----------------------------------------------------------------------------
(* Tool calls: each call is two transactions, begin_step and operation, or *)
(* begin_step, a failed operation and fail_step.                           *)

SetTool(r, state) == tool' = [tool EXCEPT ![r] = state]

(* What the executor does once a transaction has not gone through: a       *)
(* refused operation is answered by fail_step, anything else by an error   *)
(* reply; a closed executor does nothing more.                             *)
AfterRefusal(r) ==
  IF tool[r] = "operate" /\ r \notin closed THEN "fail" ELSE "idle"

InvokeTool(r) ==
  /\ jobPc[r] = "work" /\ tool[r] = "idle" /\ r \notin closed
  /\ Len(steps[r]) <= MaxToolSteps
  /\ SetTool(r, "begin")
  /\ UNCHANGED <<database, expired, file, server, held, closed, jobs, clients,
                 budgets>>

InTransaction(r) == tool[r] \in {"begin", "operate", "fail"}

(* Only a running run may write, and only until its version is finalized.  *)
MayWrite_Fault(r) == r \notin finalized
MayWrite(r) == Running(r) /\ r \notin finalized

(* Lock the version and run rows and pass the checks made under the lock.  *)
LockRun(r) ==
  /\ InTransaction(r) /\ r \notin held
  /\ r \notin closed /\ MayWrite(r)
  /\ held' = held \cup {r}
  /\ UNCHANGED <<database, expired, file, server, tool, closed, jobs, clients,
                 budgets>>

RefuseTool(r) ==
  /\ InTransaction(r) /\ r \notin held
  /\ r \in closed \/ ~MayWrite(r)
  /\ SetTool(r, AfterRefusal(r))
  /\ UNCHANGED <<database, expired, file, server, held, closed, jobs, clients,
                 budgets>>

(* The step of the call in progress: the last that has begun.              *)
CallStep(r) ==
  CHOOSE i \in DOMAIN steps[r] :
    /\ steps[r][i] = "pending"
    /\ \A j \in DOMAIN steps[r] : steps[r][j] = "pending" => j <= i

(* Commit a locked transaction and release its rows.  The executor may     *)
(* have been closed since the last check: the commit is already under way. *)
CommitTool(r, event, next) ==
  /\ r \in held
  /\ held' = held \ {r}
  /\ SetTool(r, IF r \in closed THEN "idle" ELSE next)
  /\ IF tool[r] = "begin"
     THEN Record(r, event)
     ELSE steps' = [steps EXCEPT ![r][CallStep(r)] = event]
  /\ UNCHANGED <<outcome, traceFailed, expired, file, server, closed, jobs,
                 clients, budgets>>

BeginStep(r) ==
  /\ tool[r] = "begin"
  /\ CommitTool(r, "pending", "operate")
  /\ UNCHANGED finalized

(* A call the SDK denied leaves one event and no operation.  It is told by *)
(* the task that reads the SDK's messages, whatever call is in progress,   *)
(* and waits for the rows that call may hold.                              *)
RecordDenial(r) ==
  /\ jobPc[r] = "work" /\ r \notin closed
  /\ Len(steps[r]) <= MaxToolSteps
  /\ RunUnlocked(r) /\ MayWrite(r)
  /\ Record(r, "guardrail_denied")
  /\ UNCHANGED <<outcome, finalized, traceFailed, expired, file, server, tools,
                 jobs, clients, budgets>>

Operation(r) ==
  /\ tool[r] = "operate"
  /\ \E event \in {"read", "write"} : CommitTool(r, event, "idle")
  /\ UNCHANGED finalized

HasItems_Fault(r) == TRUE
HasItems(r) == Recorded(r, "write")

(* `finalize` refuses a draft without items; the rest of its validation is *)
(* the choice between this action and RollBack.                            *)
FinalizeDraft(r) ==
  /\ tool[r] = "operate"
  /\ HasItems(r)
  /\ CommitTool(r, "finalize", "finalized")
  /\ finalized' = finalized \cup {r}

FailStep(r) ==
  /\ tool[r] = "fail"
  /\ CommitTool(r, "error", "idle")
  /\ UNCHANGED finalized

(* Input refused, a database error, or the cancellation of a closed run.   *)
RollBack(r) ==
  /\ r \in held
  /\ held' = held \ {r}
  /\ SetTool(r, AfterRefusal(r))
  /\ UNCHANGED <<database, expired, file, server, closed, jobs, clients,
                 budgets>>

-----------------------------------------------------------------------------
(* The job: work, then at most three attempts to persist the end.          *)

SetJob(r, pc, result, attempt) ==
  /\ jobPc' = [jobPc EXCEPT ![r] = pc]
  /\ jobResult' = [jobResult EXCEPT ![r] = result]
  /\ jobAttempt' = [jobAttempt EXCEPT ![r] = attempt]

GoTo(r, pc) == SetJob(r, pc, jobResult[r], jobAttempt[r])

EndJob(r) == SetJob(r, "over", "none", 0)

(* Leave the worker with a result: the executor is closed, and a call that *)
(* is still in a transaction is cancelled but not waited for.              *)
StopWork(r, result) ==
  /\ jobPc[r] = "work"
  /\ SetJob(r, "prepare", result, 0)
  /\ closed' = closed \cup {r}
  /\ SetTool(r, IF tool[r] = "finalized" THEN "idle" ELSE tool[r])
  /\ UNCHANGED <<database, expired, file, server, held, clients, budgets>>

(* The worker returns between two calls: completed after a successful      *)
(* finalize_draft, otherwise for one of the reasons that give up.          *)
WorkerReturns(r) ==
  \/ tool[r] = "finalized" /\ StopWork(r, "completed")
  \/ tool[r] = "idle" /\ \E result \in {"failed", "stopped"} :
                            StopWork(r, result)

(* The inner, inactivity or outer timeout fires, whatever the call does.   *)
WorkerTimesOut(r) == StopWork(r, "stopped")

InterruptionDue_Fault(r) == Running(r)
InterruptionDue(r) == Running(r) /\ ~Recorded(r, "job_interrupted")

(* before_finish: an end other than completion is recorded once.           *)
PrepareFinish(r) ==
  /\ jobPc[r] = "prepare"
  /\ \/ jobResult[r] = "completed" /\ UNCHANGED steps
     \/ /\ jobResult[r] # "completed" /\ RunUnlocked(r)
        /\ IF InterruptionDue(r)
           THEN Record(r, "job_interrupted")
           ELSE UNCHANGED steps
  /\ GoTo(r, "mark")
  /\ UNCHANGED <<outcome, finalized, traceFailed, expired, file, server,
                 tools, clients, budgets>>

JobFinish(r) ==
  /\ jobPc[r] = "mark"
  /\ FinishRun(r, jobResult[r])
  /\ GoTo(r, "export")
  /\ UNCHANGED <<expired, file, server, tools, clients, budgets>>

JobExport(r) ==
  /\ jobPc[r] = "export" /\ RunUnlocked(r)
  /\ \/ WriteTrace(r) /\ EndJob(r)
     \/ UNCHANGED file /\ GoTo(r, "flag")
  /\ UNCHANGED <<database, expired, server, tools, clients, budgets>>

JobReportTraceFailure(r) ==
  /\ jobPc[r] = "flag"
  /\ ReportTraceFailure(r, FALSE)
  /\ EndJob(r)
  /\ UNCHANGED <<expired, file, server, tools, clients, budgets>>

AttemptsLeft(r) == jobAttempt[r] + 1 < PersistAttempts

(* An attempt fails, or its deadline passes, after any of its commits; the *)
(* third failure leaves the run to a later recovery.                       *)
PersistFails(r) ==
  /\ jobPc[r] \in {"prepare", "mark", "export", "flag"}
  /\ faults < MaxFaults /\ faults' = faults + 1
  /\ IF AttemptsLeft(r)
     THEN SetJob(r, "prepare", jobResult[r], jobAttempt[r] + 1)
     ELSE EndJob(r)
  /\ UNCHANGED <<database, expired, file, server, tools, clients, stops>>

-----------------------------------------------------------------------------
(* Requests, and the startup hook, which recovers like a request does.     *)

SetClient(c, pc, run, goal) ==
  /\ clientPc' = [clientPc EXCEPT ![c] = pc]
  /\ clientRun' = [clientRun EXCEPT ![c] = run]
  /\ clientGoal' = [clientGoal EXCEPT ![c] = goal]

Rest(c) == SetClient(c, "idle", 0, "look")

(* The result a client gives to a run it ends.                             *)
ClientResult(c) == IF clientGoal[c] \in {"boot", "abort"} THEN "failed"
                   ELSE "stopped"

(* A request to start a run, or to look at the case's runs, first selects  *)
(* the expired running run, without a lock.                                *)
Arrive(c) ==
  /\ c \in Requests /\ server = "serving" /\ clientPc[c] = "idle"
  /\ \/ \E r \in Recoverable, goal \in {"look", "start"} :
           SetClient(c, "mark", r, goal)
     \/ Recoverable = {} /\ SetClient(c, "reserve", 0, "start")
  /\ UNCHANGED <<database, expired, file, server, tools, jobs, budgets>>

(* The case row is locked from the checks of `reserve` to its commit.      *)
CaseUnlocked_Fault == TRUE
CaseUnlocked == \A c \in Clients : clientPc[c] # "insert"

(* `reserve` locks the case row and refuses while a run is active.         *)
LockCase(c) ==
  /\ clientPc[c] = "reserve"
  /\ CaseUnlocked
  /\ IF NoActiveRun THEN SetClient(c, "insert", 0, "start") ELSE Rest(c)
  /\ UNCHANGED <<database, expired, file, server, tools, jobs, budgets>>

(* The rest of its checks, then version, run and job_start in one commit,  *)
(* which the unique index on running runs guards a second time.            *)
Reserve(c) ==
  LET r == Cardinality(Reserved) + 1 IN
  /\ clientPc[c] = "insert"
  /\ \/ /\ r \in RunIds /\ NoActiveRun
        /\ outcome' = [outcome EXCEPT ![r] = "running"]
        /\ Record(r, "job_start")
        /\ SetClient(c, "export", r, "launch")
     \/ Rest(c) /\ UNCHANGED <<outcome, steps>>
  /\ UNCHANGED <<finalized, traceFailed, expired, file, server, tools, jobs,
                 budgets>>

ClientFinish(c) ==
  /\ clientPc[c] = "mark"
  /\ FinishRun(clientRun[c], ClientResult(c))
  /\ SetClient(c, "export", clientRun[c], clientGoal[c])
  /\ UNCHANGED <<expired, file, server, tools, jobs, budgets>>

(* What follows the trace export of a client's run.                        *)
Continue(c) ==
  CASE clientGoal[c] = "start" ->
         SetClient(c, "reserve", 0, "start") /\ UNCHANGED server
    [] clientGoal[c] = "launch" ->
         SetClient(c, "dispatch", clientRun[c], "launch") /\ UNCHANGED server
    [] clientGoal[c] = "boot" -> Rest(c) /\ server' = "serving"
    [] OTHER -> Rest(c) /\ UNCHANGED server

ClientExport(c) ==
  /\ clientPc[c] = "export" /\ RunUnlocked(clientRun[c])
  /\ \/ WriteTrace(clientRun[c]) /\ Continue(c)
     \/ /\ SetClient(c, "flag", clientRun[c], clientGoal[c])
        /\ UNCHANGED <<file, server>>
  /\ UNCHANGED <<database, expired, tools, jobs, budgets>>

ClientReportTraceFailure(c) ==
  /\ clientPc[c] = "flag"
  /\ ReportTraceFailure(clientRun[c], clientGoal[c] = "launch")
  /\ Continue(c)
  /\ UNCHANGED <<expired, file, tools, jobs, budgets>>

(* Start the job of a run that is still running; a scheduler that raises   *)
(* has the run finished as failed.                                         *)
Dispatch(c) ==
  LET r == clientRun[c] IN
  /\ clientPc[c] = "dispatch"
  /\ \/ ~Running(r) /\ Rest(c) /\ UNCHANGED jobs
     \/ Running(r) /\ Rest(c) /\ SetJob(r, "work", "none", 0)
     \/ Running(r) /\ SetClient(c, "mark", r, "abort") /\ UNCHANGED jobs
  /\ UNCHANGED <<database, expired, file, server, tools, budgets>>

(* A database error ends a request with 500, or the startup altogether.    *)
ClientFails(c) ==
  /\ clientPc[c] # "idle"
  /\ faults < MaxFaults /\ faults' = faults + 1
  /\ Rest(c)
  /\ server' = IF c = Boot THEN "down" ELSE server
  /\ UNCHANGED <<database, expired, file, tools, jobs, stops>>

-----------------------------------------------------------------------------
(* The server process and the clock.                                       *)

StartServer ==
  /\ server = "down"
  /\ \/ \E r \in Recoverable :
           SetClient(Boot, "mark", r, "boot") /\ server' = "booting"
     \/ Recoverable = {} /\ server' = "serving" /\ UNCHANGED clients
  /\ UNCHANGED <<database, expired, file, tools, jobs, budgets>>

(* Everything the process had in memory is gone, its row locks included.   *)
LoseProcess ==
  /\ server' = "down"
  /\ tool' = [r \in RunIds |-> "idle"]
  /\ held' = {} /\ closed' = {}
  /\ jobPc' = [r \in RunIds |-> "none"]
  /\ jobResult' = [r \in RunIds |-> "none"]
  /\ jobAttempt' = [r \in RunIds |-> 0]
  /\ clientPc' = [c \in Clients |-> "idle"]
  /\ clientRun' = [c \in Clients |-> 0]
  /\ clientGoal' = [c \in Clients |-> "look"]
  /\ UNCHANGED <<database, expired, file>>

Crash ==
  /\ server # "down" /\ stops < MaxStops
  /\ stops' = stops + 1
  /\ LoseProcess
  /\ UNCHANGED faults

(* stop_jobs cancels every job: one at work still persists its end, one    *)
(* that was persisting makes no further attempt.                           *)
Shutdown ==
  /\ server = "serving" /\ stops < MaxStops
  /\ \A c \in Clients : clientPc[c] = "idle"
  /\ server' = "stopping" /\ stops' = stops + 1
  /\ LET working == {r \in RunIds : jobPc[r] = "work"}
         persisting == {r \in RunIds : jobPc[r] \notin {"none", "work", "over"}}
     IN
     /\ jobPc' = [r \in RunIds |-> IF r \in working THEN "prepare" ELSE jobPc[r]]
     /\ jobResult' = [r \in RunIds |->
                        IF r \in working THEN "failed" ELSE jobResult[r]]
     /\ jobAttempt' = [r \in RunIds |->
                         IF r \in persisting THEN PersistAttempts - 1
                         ELSE jobAttempt[r]]
     /\ closed' = closed \cup working
  /\ tool' = [r \in RunIds |->
                IF tool[r] = "finalized" THEN "idle" ELSE tool[r]]
  /\ UNCHANGED <<database, expired, file, held, clients, faults>>

(* The process ends when the cancelled jobs are over or after 16 seconds,  *)
(* whatever they are doing by then.                                        *)
Exit ==
  /\ server = "stopping"
  /\ LoseProcess
  /\ UNCHANGED budgets

(* now - started_at exceeds the saved outer timeout plus the grace.        *)
Expire(r) ==
  /\ Running(r) /\ r \notin expired
  /\ expired' = expired \cup {r}
  /\ UNCHANGED <<database, file, server, tools, jobs, clients, budgets>>

ToolStep(r) ==
  \/ InvokeTool(r) \/ LockRun(r) \/ RefuseTool(r) \/ RollBack(r)
  \/ BeginStep(r) \/ RecordDenial(r) \/ Operation(r) \/ FinalizeDraft(r)
  \/ FailStep(r)

JobStep(r) ==
  \/ WorkerReturns(r) \/ WorkerTimesOut(r)
  \/ PrepareFinish(r) \/ JobFinish(r) \/ JobExport(r)
  \/ JobReportTraceFailure(r)

ClientStep(c) ==
  \/ LockCase(c) \/ Reserve(c) \/ ClientFinish(c) \/ ClientExport(c)
  \/ ClientReportTraceFailure(c) \/ Dispatch(c)

Next ==
  \/ \E r \in RunIds :
        ToolStep(r) \/ JobStep(r) \/ PersistFails(r) \/ Expire(r)
  \/ \E c \in Clients : Arrive(c) \/ ClientStep(c) \/ ClientFails(c)
  \/ StartServer \/ Crash \/ Shutdown \/ Exit

Spec == Init /\ [][Next]_vars
-----------------------------------------------------------------------------
(* Properties.                                                             *)

(* Every variable keeps its type; an end is persisted at most three times. *)
TypeOK ==
  /\ outcome \in [RunIds -> Outcomes]
  /\ finalized \in SUBSET RunIds
  /\ steps \in [RunIds -> Seq(Events)]
  /\ traceFailed \in SUBSET RunIds
  /\ expired \in SUBSET RunIds
  /\ file \in [RunIds -> Seq(Events)]
  /\ server \in ServerStates
  /\ tool \in [RunIds -> ToolStates]
  /\ held \in SUBSET RunIds
  /\ closed \in SUBSET RunIds
  /\ jobPc \in [RunIds -> JobStates]
  /\ jobResult \in [RunIds -> Results]
  /\ jobAttempt \in [RunIds -> 0..PersistAttempts - 1]
  /\ clientPc \in [Clients -> ClientStates]
  /\ clientRun \in [Clients -> 0..MaxRuns]
  /\ clientGoal \in [Clients -> Goals]
  /\ faults \in 0..MaxFaults
  /\ stops \in 0..MaxStops

(* A case has at most one running run, and the case row lock alone is      *)
(* enough for that: no request ever reaches the insertion of `reserve` to  *)
(* be refused there by the unique index (run_repository.py, `reserve`).    *)
SingleRunning ==
  /\ \A r, s \in RunIds : Running(r) /\ Running(s) => r = s
  /\ \A c \in Clients : clientPc[c] = "insert" => NoActiveRun

(* A run reported as a success has a finalized version with items in it,   *)
(* was never interrupted, and has its start and end in the trace           *)
(* (`finish`, `finalize`, `_export_or_fail`).                              *)
SuccessIsClean ==
  \A r \in RunIds : outcome[r] = "success" =>
     /\ r \in finalized \ traceFailed
     /\ Recorded(r, "write") /\ Recorded(r, "finalize")
     /\ Recorded(r, "job_finish") /\ ~Recorded(r, "job_interrupted")

(* What may follow an event in the trace of a run: only the end follows an *)
(* interruption, nothing but a trace failure follows the end, and nothing  *)
(* that.  Every retry of `finish` and of `prepare_finish` is idempotent    *)
(* and no tool call slips in behind them.                                  *)
Follows(event) ==
  CASE event = "job_trace_failure" -> {}
    [] event = "job_finish" -> {"job_trace_failure"}
    [] event = "job_interrupted" -> {"job_finish", "job_trace_failure"}
    [] OTHER -> Events \ {"job_start"}

WellOrderedSteps ==
  \A r \in RunIds : \A i, j \in 1..Len(steps[r]) :
     i < j => steps[r][j] \in Follows(steps[r][i])

(* The trace file never says anything the database does not: it is always  *)
(* a prefix of the committed events, whatever crashed in between           *)
(* (`RunTraceStore.sync` runs on committed events under the run row lock). *)
TracePrefix ==
  \A r \in RunIds : /\ Len(file[r]) <= Len(steps[r])
                    /\ \A i \in 1..Len(file[r]) : file[r][i] = steps[r][i]

(* The outcome and the event that ends a run are committed together: a run *)
(* has ended exactly when its trace says so, in `finish` or, before its    *)
(* job was started, in `_export_or_fail`.                                  *)
EndIsRecorded ==
  \A r \in RunIds :
     /\ outcome[r] \in Ended <=>
          Recorded(r, "job_finish") \/ Recorded(r, "job_trace_failure")
     /\ r \in traceFailed <=> Recorded(r, "job_trace_failure")

(* The artifact writes of a run, by the position of their step.            *)
Artifacts(r) ==
  {i \in 1..Len(steps[r]) : steps[r][i] \in {"write", "finalize"}}

(* The artifacts of a version only grow while its run is running and the   *)
(* version is not finalized, although the check and the commit are two     *)
(* steps and recovery, finish and a cancelled call run in between          *)
(* (`AgentToolGateway.locked`, `DraftRepository.edit`).                    *)
WritesAreFenced ==
  [][\A r \in RunIds :
        Artifacts(r)' # Artifacts(r) => Running(r) /\ r \notin finalized]_vars

(* A run ends once.  The one change an ended run may still see is the loss *)
(* of its success when the trace could not be written.                     *)
EndsOnce ==
  [][\A r \in RunIds : outcome[r] \in Ended /\ outcome'[r] # outcome[r] =>
        /\ outcome[r] = "success" /\ outcome'[r] = "failed"
        /\ r \in traceFailed' \ traceFailed]_vars

-----------------------------------------------------------------------------
(* The inductive invariant behind the safety properties, by its parts.     *)

(* A call has begun, and nothing but denials has been recorded since.      *)
Pending(r) ==
  \E i \in DOMAIN steps[r] :
    /\ steps[r][i] = "pending"
    /\ \A j \in DOMAIN steps[r] : j > i => steps[r][j] = "guardrail_denied"

(* Row locks are only held by a transaction that may still write, and a    *)
(* call that has begun finds its own event still pending in the trace: no  *)
(* end, interruption or trace failure comes between its two transactions.  *)
ToolInv ==
  /\ \A r \in held : InTransaction(r) /\ MayWrite(r)
  /\ \A r \in RunIds : tool[r] # "idle" => outcome[r] # "absent"
  /\ \A r \in RunIds :
        /\ tool[r] \in {"operate", "fail"}
        /\ r \in held \/ (r \notin closed /\ MayWrite(r))
        => Pending(r)

(* A job that persists an end has closed its executor and knows the end it *)
(* stores; one that exports has stored it.                                 *)
JobInv ==
  \A r \in RunIds :
     /\ jobPc[r] # "none" => outcome[r] # "absent"
     /\ jobPc[r] \in {"prepare", "mark", "export", "flag"} =>
          r \in closed /\ jobResult[r] # "none"
     /\ jobPc[r] \in {"export", "flag"} => outcome[r] \in Ended

(* The same of a client, and one client at most inserts a run.             *)
ClientInv ==
  /\ \A c \in Clients :
        /\ clientPc[c] \in {"mark", "export", "flag", "dispatch"} =>
             clientRun[c] \in Reserved
        /\ clientPc[c] \in {"export", "flag"} /\ clientGoal[c] # "launch" =>
             outcome[clientRun[c]] \in Ended
        /\ clientPc[c] = "insert" =>
             NoActiveRun /\ \A d \in Clients : clientPc[d] = "insert" => c = d

(* Runs are numbered in the order of their reservation.                    *)
ReservedInv == \E n \in 0..MaxRuns : Reserved = 1..n

(* What every step of the system relies on and keeps: who holds a lock may *)
(* write, who exports a run has ended it, who inserts a run is alone       *)
(* (the row locks of `locked`, `finish`, `_export_or_fail`, `reserve`).    *)
RunInv == ToolInv /\ JobInv /\ ClientInv /\ ReservedInv

-----------------------------------------------------------------------------
(* What the runs of a case promise, whoever ends them: RunPromise.         *)

Promise == INSTANCE RunPromise
  WITH sealed <- finalized,
       content <- [r \in RunIds |-> Artifacts(r)]

KeepsPromise == Promise!Spec

-----------------------------------------------------------------------------
(* Liveness.  Fairness: the process runs the steps of its coroutines, an   *)
(* operator restarts a server that is down, time passes, and somebody      *)
(* opens the case screen again while an expired run is there.              *)

Fairness ==
  /\ \A r \in RunIds : /\ WF_vars(ToolStep(r)) /\ WF_vars(JobStep(r))
                       /\ WF_vars(Expire(r))
  /\ \A c \in Clients : WF_vars(ClientStep(c))
  /\ WF_vars(\E c \in Requests : Arrive(c) /\ Recoverable # {})
  /\ WF_vars(StartServer) /\ WF_vars(Exit)

FairSpec == Spec /\ Fairness

(* Whatever crashes, shuts down or fails to be persisted, a run does not   *)
(* stay running for ever, so the case is not blocked for ever either       *)
(* (`recover_expired`, `recover_interrupted`).                             *)
RunEnds == \A r \in RunIds : Running(r) ~> ~Running(r)
=============================================================================
