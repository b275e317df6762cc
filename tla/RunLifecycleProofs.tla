------------------------- MODULE RunLifecycleProofs -------------------------
(***************************************************************************)
(* Proofs about RunLifecycle, for every set of requests and every bound:   *)
(* type correctness, the inductive invariant RunInv, and from it the       *)
(* safety properties of runs and the implementation of RunPromise.         *)
(***************************************************************************)
EXTENDS RunLifecycle, SequenceTheorems, FiniteSetTheorems, TLAPS

-----------------------------------------------------------------------------
(* Trace events.                                                           *)

(* Replacing an event of a trace keeps its length and the others.          *)
LEMMA ReplaceStep ==
  ASSUME NEW S, NEW s \in Seq(S), NEW k, NEW e \in S
  PROVE  LET t == [s EXCEPT ![k] = e] IN
         /\ t \in Seq(S)
         /\ Len(t) = Len(s)
         /\ \A i \in 1..Len(s) : t[i] = IF i = k THEN e ELSE s[i]
<1> DEFINE t == [s EXCEPT ![k] = e]
<1>1. DOMAIN s = 1..Len(s)
  BY LenProperties
<1>2. CASE k \notin 1..Len(s)
  <2>1. t = s
    BY <1>1, <1>2
  <2>2. QED
    BY <1>2, <2>1
<1>3. CASE k \in 1..Len(s)
  BY <1>3, ExceptSeq
<1>4. QED
  BY <1>2, <1>3

(* The step of a pending call is the one before the denials at the end.    *)
LEMMA CallStepPending ==
  ASSUME TypeOK, NEW r \in RunIds, Pending(r)
  PROVE  /\ DOMAIN steps[r] = 1..Len(steps[r]) /\ Len(steps[r]) \in Nat
         /\ CallStep(r) \in 1..Len(steps[r])
         /\ steps[r][CallStep(r)] = "pending"
         /\ \A j \in 1..Len(steps[r]) :
              j > CallStep(r) => steps[r][j] = "guardrail_denied"
<1>1. DOMAIN steps[r] = 1..Len(steps[r]) /\ Len(steps[r]) \in Nat
  BY LenProperties DEF TypeOK
<1>2. PICK i \in DOMAIN steps[r] :
        /\ steps[r][i] = "pending"
        /\ \A j \in DOMAIN steps[r] : j > i => steps[r][j] = "guardrail_denied"
  BY DEF Pending
<1>3. \A j \in DOMAIN steps[r] : steps[r][j] = "pending" => j <= i
  BY <1>1, <1>2
<1>4. /\ CallStep(r) \in DOMAIN steps[r] /\ steps[r][CallStep(r)] = "pending"
      /\ \A j \in DOMAIN steps[r] : steps[r][j] = "pending" => j <= CallStep(r)
  BY <1>2, <1>3 DEF CallStep
<1>5. CallStep(r) = i
  BY <1>1, <1>2, <1>3, <1>4
<1>6. QED
  BY <1>1, <1>2, <1>4, <1>5

-----------------------------------------------------------------------------
(* Type correctness.                                                       *)

(* Every variable keeps its type, whatever the number of runs, requests,   *)
(* faults and stops.                                                       *)
LEMMA InitType == Init => TypeOK
  BY BoundsAssumption
     DEF Init, TypeOK, RunIds, Clients, Outcomes, Events, ServerStates,
         ToolStates, JobStates, Results, ClientStates, Goals, PersistAttempts

(* Appending an event keeps the type of the traces.                        *)
LEMMA RecordType ==
  ASSUME steps \in [RunIds -> Seq(Events)], NEW r \in RunIds,
         NEW e \in Events, Record(r, e)
  PROVE  steps' \in [RunIds -> Seq(Events)]
  BY AppendProperties DEF Record

(* The end of a run stores an outcome.                                     *)
LEMMA FinishType ==
  ASSUME TypeOK, NEW r \in RunIds, NEW result \in Results \ {"none"},
         FinishRun(r, result)
  PROVE  /\ outcome' \in [RunIds -> Outcomes]
         /\ steps' \in [RunIds -> Seq(Events)]
         /\ UNCHANGED <<finalized, traceFailed>>
<1>1. OutcomeOf(r, result) \in Ended
  BY DEF OutcomeOf, Results, Ended
<1>2. CASE Running(r)
  BY <1>1, <1>2, RecordType DEF FinishRun, TypeOK, Events, Ended, Outcomes
<1>3. CASE ~Running(r)
  BY <1>3 DEF FinishRun, TypeOK
<1>4. QED
  BY <1>2, <1>3

LEMMA ReportType ==
  ASSUME TypeOK, NEW r \in RunIds, NEW starting \in BOOLEAN,
         ReportTraceFailure(r, starting)
  PROVE  /\ outcome' \in [RunIds -> Outcomes]
         /\ steps' \in [RunIds -> Seq(Events)]
         /\ traceFailed' \in SUBSET RunIds
         /\ UNCHANGED finalized
<1>1. OutcomeUntraced(r, starting) \in Outcomes
  BY DEF OutcomeUntraced, Outcomes, TypeOK
<1>2. CASE r \in traceFailed
  BY <1>2 DEF ReportTraceFailure, TypeOK
<1>3. CASE r \notin traceFailed
  BY <1>1, <1>3, RecordType DEF ReportTraceFailure, TypeOK, Events
<1>4. QED
  BY <1>2, <1>3

(* A tool call's transaction keeps the types.                              *)
LEMMA ToolType ==
  ASSUME TypeOK, NEW r \in RunIds, ToolStep(r)
  PROVE  TypeOK'
<1>0. \A event \in Events : [steps[r] EXCEPT ![CallStep(r)] = event] \in Seq(Events)
  <2>1. steps[r] \in Seq(Events)
    BY DEF TypeOK
  <2>2. QED
    BY <2>1, ReplaceStep
<1> USE DEF TypeOK, database, jobs, clients, tools, budgets, ToolStates, Events,
            SetTool
<1>1. AfterRefusal(r) \in ToolStates
  BY DEF AfterRefusal
<1>2. ASSUME NEW event \in Events, NEW next \in ToolStates,
             CommitTool(r, event, next), finalized' \in SUBSET RunIds
      PROVE  TypeOK'
  <2>1. steps' \in [RunIds -> Seq(Events)]
    <3>1. CASE tool[r] = "begin"
      BY <1>2, <3>1, RecordType DEF CommitTool
    <3>2. CASE tool[r] # "begin"
      <4>1. [steps[r] EXCEPT ![CallStep(r)] = event] \in Seq(Events)
        BY <1>0
      <4>2. QED
        BY <1>2, <3>2, <4>1 DEF CommitTool
    <3>3. QED
      BY <3>1, <3>2
  <2>2. QED
    BY <1>2, <2>1 DEF CommitTool
<1>3. CASE InvokeTool(r)
  BY <1>3 DEF InvokeTool
<1>4. CASE LockRun(r)
  BY <1>4 DEF LockRun
<1>5. CASE RefuseTool(r)
  BY <1>1, <1>5 DEF RefuseTool
<1>6. CASE RollBack(r)
  BY <1>1, <1>6 DEF RollBack
<1>7. CASE BeginStep(r)
  BY <1>2, <1>7 DEF BeginStep
<1>8. CASE RecordDenial(r)
  BY <1>8, RecordType DEF RecordDenial
<1>9. CASE Operation(r)
  BY <1>2, <1>9 DEF Operation
<1>10. CASE FinalizeDraft(r)
  BY <1>2, <1>10 DEF FinalizeDraft
<1>11. CASE FailStep(r)
  BY <1>2, <1>11 DEF FailStep
<1>12. QED
  BY <1>3, <1>4, <1>5, <1>6, <1>7, <1>8, <1>9, <1>10, <1>11 DEF ToolStep

(* The control variables of a job and of a client are set together.        *)
JobTypes ==
  /\ jobPc \in [RunIds -> JobStates]
  /\ jobResult \in [RunIds -> Results]
  /\ jobAttempt \in [RunIds -> 0..PersistAttempts - 1]

ClientTypes ==
  /\ clientPc \in [Clients -> ClientStates]
  /\ clientRun \in [Clients -> 0..MaxRuns]
  /\ clientGoal \in [Clients -> Goals]

LEMMA SetJobType ==
  ASSUME JobTypes, NEW r \in RunIds, NEW pc \in JobStates,
         NEW result \in Results, NEW attempt \in 0..PersistAttempts - 1,
         SetJob(r, pc, result, attempt)
  PROVE  JobTypes'
  BY DEF SetJob, JobTypes

LEMMA GoToType ==
  ASSUME JobTypes, NEW r \in RunIds, NEW pc \in JobStates,
         GoTo(r, pc) \/ EndJob(r)
  PROVE  JobTypes'
<1>1. 0 \in 0..PersistAttempts - 1 /\ "none" \in Results /\ "over" \in JobStates
  BY DEF PersistAttempts, Results, JobStates
<1>2. jobResult[r] \in Results /\ jobAttempt[r] \in 0..PersistAttempts - 1
  BY DEF JobTypes
<1>3. QED
  BY <1>1, <1>2, SetJobType DEF GoTo, EndJob

LEMMA SetClientType ==
  ASSUME ClientTypes, NEW c \in Clients, NEW pc \in ClientStates,
         NEW r \in 0..MaxRuns, NEW goal \in Goals,
         SetClient(c, pc, r, goal)
  PROVE  ClientTypes'
  BY DEF SetClient, ClientTypes

LEMMA RestType ==
  ASSUME ClientTypes, NEW c \in Clients, Rest(c)
  PROVE  ClientTypes'
<1>1. "idle" \in ClientStates /\ "look" \in Goals /\ 0 \in 0..MaxRuns
  BY BoundsAssumption DEF ClientStates, Goals
<1>2. QED
  BY <1>1, SetClientType DEF Rest

(* What follows an export leaves a client with a well-typed state.         *)
LEMMA ContinueType ==
  ASSUME ClientTypes, server \in ServerStates, NEW c \in Clients, Continue(c)
  PROVE  ClientTypes' /\ server' \in ServerStates
<1>1. clientRun[c] \in 0..MaxRuns /\ 0 \in 0..MaxRuns
  BY BoundsAssumption DEF ClientTypes
<1>2. CASE clientGoal[c] = "start"
  BY <1>1, <1>2, SetClientType DEF Continue, ClientStates, Goals
<1>3. CASE clientGoal[c] = "launch"
  BY <1>1, <1>3, SetClientType DEF Continue, ClientStates, Goals
<1>4. CASE clientGoal[c] = "boot"
  BY <1>4, RestType DEF Continue, ServerStates
<1>5. CASE clientGoal[c] \notin {"start", "launch", "boot"}
  BY <1>5, RestType DEF Continue
<1>6. QED
  BY <1>2, <1>3, <1>4, <1>5

(* So does a step of a job.  A job only persists an end it has been given, *)
(* which is part of JobInv.                                                *)
LEMMA JobType ==
  ASSUME TypeOK, JobInv, NEW r \in RunIds, JobStep(r) \/ PersistFails(r)
  PROVE  TypeOK'
<1> USE DEF database, jobs, clients, tools, budgets
<1>1. JobTypes
  BY DEF TypeOK, JobTypes
<1>2. ASSUME NEW result \in Results, StopWork(r, result)
      PROVE  TypeOK'
  <2>1. JobTypes'
    BY <1>1, <1>2, SetJobType DEF StopWork, JobStates, PersistAttempts
  <2>2. QED
    BY <1>2, <2>1 DEF StopWork, SetTool, ToolStates, TypeOK, JobTypes
<1>3. CASE WorkerReturns(r)
  BY <1>2, <1>3 DEF WorkerReturns, Results
<1>4. CASE WorkerTimesOut(r)
  BY <1>2, <1>4 DEF WorkerTimesOut, Results
<1>5. CASE PrepareFinish(r)
  <2>1. steps' \in [RunIds -> Seq(Events)]
    BY <1>5, RecordType DEF PrepareFinish, Events, TypeOK
  <2>2. JobTypes'
    BY <1>1, <1>5, GoToType DEF PrepareFinish, JobStates
  <2>3. QED
    BY <1>5, <2>1, <2>2 DEF PrepareFinish, TypeOK, JobTypes
<1>6. CASE JobFinish(r)
  <2>1. jobResult[r] \in Results \ {"none"}
    BY <1>6 DEF JobFinish, JobInv, TypeOK
  <2>2. JobTypes'
    BY <1>1, <1>6, GoToType DEF JobFinish, JobStates
  <2>3. QED
    BY <1>6, <2>1, <2>2, FinishType DEF JobFinish, TypeOK, JobTypes
<1>7. CASE JobExport(r)
  <2>1. JobTypes'
    BY <1>1, <1>7, GoToType DEF JobExport, JobStates
  <2>2. file' \in [RunIds -> Seq(Events)]
    BY <1>7 DEF JobExport, WriteTrace, TypeOK
  <2>3. QED
    BY <1>7, <2>1, <2>2 DEF JobExport, TypeOK, JobTypes
<1>8. CASE JobReportTraceFailure(r)
  <2>1. JobTypes'
    BY <1>1, <1>8, GoToType DEF JobReportTraceFailure, JobStates
  <2>2. QED
    BY <1>8, <2>1, ReportType DEF JobReportTraceFailure, TypeOK, JobTypes
<1>9. CASE PersistFails(r)
  <2>1. AttemptsLeft(r) => jobAttempt[r] + 1 \in 0..PersistAttempts - 1
    BY <1>1 DEF AttemptsLeft, PersistAttempts, JobTypes
  <2>2. jobResult[r] \in Results /\ "prepare" \in JobStates
    BY <1>1 DEF JobTypes, JobStates
  <2>3. JobTypes'
    BY <1>1, <1>9, <2>1, <2>2, SetJobType, GoToType DEF PersistFails
  <2>4. QED
    BY <1>9, <2>3, BoundsAssumption DEF PersistFails, TypeOK, JobTypes
<1>10. QED
  BY <1>3, <1>4, <1>5, <1>6, <1>7, <1>8, <1>9 DEF JobStep

(* So does a step of a request or of the startup hook.                     *)
LEMMA ClientType ==
  ASSUME TypeOK, ClientInv, NEW c \in Clients,
         Arrive(c) \/ ClientStep(c) \/ ClientFails(c)
  PROVE  TypeOK'
<1> USE DEF database, jobs, clients, tools, budgets
<1>1. ClientTypes /\ JobTypes
  BY DEF TypeOK, ClientTypes, JobTypes
<1>2. clientPc[c] \in {"mark", "export", "flag", "dispatch"} =>
        clientRun[c] \in RunIds
  BY DEF ClientInv, Reserved
<1>3. RunIds \subseteq 0..MaxRuns /\ 0 \in 0..MaxRuns
  BY BoundsAssumption DEF RunIds
<1>4. clientGoal[c] \in Goals /\ clientRun[c] \in 0..MaxRuns
  BY <1>1 DEF ClientTypes
<1>5. CASE Arrive(c)
  <2>1. ClientTypes'
    <3>1. ASSUME NEW r \in Recoverable, NEW goal \in {"look", "start"},
                 SetClient(c, "mark", r, goal)
          PROVE  ClientTypes'
      BY <1>1, <1>3, <3>1, SetClientType DEF Recoverable, ClientStates, Goals
    <3>2. ASSUME SetClient(c, "reserve", 0, "start")
          PROVE  ClientTypes'
      BY <1>1, <1>3, <3>2, SetClientType DEF ClientStates, Goals
    <3>3. QED
      BY <1>5, <3>1, <3>2 DEF Arrive
  <2>2. QED
    BY <1>5, <2>1 DEF Arrive, TypeOK, ClientTypes
<1>6. CASE LockCase(c)
  <2>1. ClientTypes'
    BY <1>1, <1>3, <1>6, SetClientType, RestType DEF LockCase, ClientStates, Goals
  <2>2. QED
    BY <1>6, <2>1 DEF LockCase, TypeOK, ClientTypes
<1>7. CASE Reserve(c)
  <2> DEFINE r == Cardinality(Reserved) + 1
  <2> HIDE DEF r
  <2>1. CASE Rest(c) /\ UNCHANGED <<outcome, steps>>
    <3>1. ClientTypes'
      BY <1>1, <2>1, RestType
    <3>2. QED
      BY <1>7, <2>1, <3>1 DEF Reserve, TypeOK, ClientTypes
  <2>2. CASE /\ r \in RunIds
             /\ outcome' = [outcome EXCEPT ![r] = "running"]
             /\ Record(r, "job_start")
             /\ SetClient(c, "export", r, "launch")
    <3>1. ClientTypes'
      BY <1>1, <1>3, <2>2, SetClientType DEF ClientStates, Goals
    <3>2. steps' \in [RunIds -> Seq(Events)]
      BY <2>2, RecordType DEF Events, TypeOK
    <3>3. outcome' \in [RunIds -> Outcomes]
      BY <2>2 DEF TypeOK, Outcomes
    <3>4. QED
      BY <1>7, <3>1, <3>2, <3>3 DEF Reserve, TypeOK, ClientTypes
  <2>3. QED
    BY <1>7, <2>1, <2>2 DEF Reserve, r
<1>8. CASE ClientFinish(c)
  <2>1. ClientResult(c) \in Results \ {"none"}
    BY DEF ClientResult, Results
  <2>2. ClientTypes'
    BY <1>1, <1>4, <1>8, SetClientType DEF ClientFinish, ClientStates
  <2>3. QED
    BY <1>2, <1>8, <2>1, <2>2, FinishType DEF ClientFinish, TypeOK, ClientTypes
<1>9. CASE ClientExport(c)
  <2>1. ClientTypes' /\ server' \in ServerStates
    BY <1>1, <1>4, <1>9, SetClientType, ContinueType
       DEF ClientExport, ClientStates, TypeOK
  <2>2. file' \in [RunIds -> Seq(Events)]
    BY <1>2, <1>9 DEF ClientExport, WriteTrace, TypeOK
  <2>3. QED
    BY <1>9, <2>1, <2>2 DEF ClientExport, TypeOK, ClientTypes
<1>10. CASE ClientReportTraceFailure(c)
  <2>1. ClientTypes' /\ server' \in ServerStates
    BY <1>1, <1>10, ContinueType DEF ClientReportTraceFailure, TypeOK
  <2>2. QED
    BY <1>2, <1>10, <2>1, ReportType
       DEF ClientReportTraceFailure, TypeOK, ClientTypes
<1>11. CASE Dispatch(c)
  <2>1. ClientTypes'
    BY <1>1, <1>4, <1>11, SetClientType, RestType DEF Dispatch, ClientStates, Goals
  <2>2. JobTypes'
    <3>1. CASE UNCHANGED jobs
      BY <1>1, <3>1 DEF JobTypes
    <3>2. CASE SetJob(clientRun[c], "work", "none", 0)
      BY <1>1, <1>2, <1>11, <3>2, SetJobType
         DEF Dispatch, JobStates, Results, PersistAttempts
    <3>3. QED
      BY <1>11, <3>1, <3>2 DEF Dispatch
  <2>3. QED
    BY <1>11, <2>1, <2>2 DEF Dispatch, TypeOK, ClientTypes, JobTypes
<1>12. CASE ClientFails(c)
  <2>1. ClientTypes'
    BY <1>1, <1>12, RestType DEF ClientFails
  <2>2. QED
    BY <1>12, <2>1, BoundsAssumption
       DEF ClientFails, ServerStates, TypeOK, ClientTypes
<1>13. QED
  BY <1>5, <1>6, <1>7, <1>8, <1>9, <1>10, <1>11, <1>12 DEF ClientStep

(* So do the server and the clock.                                         *)
LEMMA ServerType ==
  ASSUME TypeOK,
         StartServer \/ Crash \/ Shutdown \/ Exit \/ \E r \in RunIds : Expire(r)
  PROVE  TypeOK'
<1> USE BoundsAssumption
    DEF TypeOK, database, jobs, clients, tools, budgets, ServerStates
<1>1. ASSUME LoseProcess, stops' \in 0..MaxStops, UNCHANGED faults
      PROVE  TypeOK'
  BY <1>1 DEF LoseProcess, ToolStates, JobStates, Results, ClientStates, Goals,
              PersistAttempts
<1>2. CASE StartServer
  <2>1. ClientTypes'
    <3>1. ClientTypes
      BY DEF ClientTypes
    <3>2. CASE UNCHANGED clients
      BY <3>1, <3>2 DEF ClientTypes
    <3>3. ASSUME NEW r \in Recoverable, SetClient(Boot, "mark", r, "boot")
          PROVE  ClientTypes'
      <4>1. r \in 0..MaxRuns /\ Boot \in Clients
        BY DEF Recoverable, RunIds, Clients
      <4>2. QED
        BY <3>1, <3>3, <4>1, SetClientType DEF ClientStates, Goals
    <3>4. QED
      BY <1>2, <3>2, <3>3 DEF StartServer
  <2>2. QED
    BY <1>2, <2>1 DEF StartServer, ClientTypes
<1>3. CASE Crash
  BY <1>1, <1>3 DEF Crash
<1>4. CASE Shutdown
  BY <1>4 DEF Shutdown, JobStates, Results, ToolStates, PersistAttempts
<1>5. CASE Exit
  BY <1>1, <1>5 DEF Exit
<1>6. CASE \E r \in RunIds : Expire(r)
  BY <1>6 DEF Expire
<1>7. QED
  BY <1>2, <1>3, <1>4, <1>5, <1>6

(* Every step of the specification is one of those.                        *)
LEMMA StepType ==
  ASSUME TypeOK, JobInv, ClientInv, [Next]_vars
  PROVE  TypeOK'
<1>1. CASE UNCHANGED vars
  BY <1>1 DEF TypeOK, vars, database, jobs, clients, tools, budgets
<1>2. CASE Next
  BY <1>2, ToolType, JobType, ClientType, ServerType DEF Next
<1>3. QED
  BY <1>1, <1>2

-----------------------------------------------------------------------------
(* The invariant RunInv.  All actions but Reserve leave the outcomes alone *)
(* or end one reserved run whose rows are not locked.                      *)

Advances ==
  \/ UNCHANGED outcome
  \/ \E r \in RunIds \ held, o \in Ended :
        outcome[r] # "absent" /\ outcome' = [outcome EXCEPT ![r] = o]

LEMMA AdvancesKeeps ==
  ASSUME TypeOK, Advances
  PROVE  /\ Reserved' = Reserved
         /\ \A r \in RunIds :
              /\ outcome[r] \in Ended => outcome'[r] \in Ended
              /\ outcome[r] # "absent" => outcome'[r] # "absent"
              /\ Running(r)' => Running(r)
              /\ r \in held => outcome'[r] = outcome[r]
         /\ NoActiveRun => NoActiveRun'
<1>1. CASE UNCHANGED outcome
  BY <1>1 DEF Reserved, Running, NoActiveRun
<1>2. ASSUME NEW r \in RunIds \ held, NEW o \in Ended, outcome[r] # "absent",
             outcome' = [outcome EXCEPT ![r] = o]
      PROVE  /\ Reserved' = Reserved
             /\ \A q \in RunIds :
                  /\ outcome[q] \in Ended => outcome'[q] \in Ended
                  /\ outcome[q] # "absent" => outcome'[q] # "absent"
                  /\ Running(q)' => Running(q)
                  /\ q \in held => outcome'[q] = outcome[q]
             /\ NoActiveRun => NoActiveRun'
  BY <1>2 DEF TypeOK, Reserved, Running, NoActiveRun, Ended
<1>3. QED
  BY <1>1, <1>2 DEF Advances

(* After `finish` the run has ended; if it was running before, its trace   *)
(* has one event more and its rows were free.                              *)
LEMMA FinishEffect ==
  ASSUME TypeOK, NEW r \in RunIds, outcome[r] # "absent",
         NEW result \in Results \ {"none"}, FinishRun(r, result)
  PROVE  /\ Advances
         /\ outcome'[r] \in Ended
         /\ \A q \in RunIds \ {r} : steps'[q] = steps[q] /\ outcome'[q] = outcome[q]
         /\ r \notin held
<1>1. OutcomeOf(r, result) \in Ended
  BY DEF OutcomeOf, Results, Ended
<1>2. outcome[r] \in Ended \cup {"running"}
  BY DEF TypeOK, Outcomes, Ended
<1>3. QED
  BY <1>1, <1>2
     DEF FinishRun, Advances, RunUnlocked, Running, Record, TypeOK

(* After a trace failure is reported the run has ended, unless it had not  *)
(* and was not starting.                                                   *)
LEMMA ReportEffect ==
  ASSUME TypeOK, NEW r \in RunIds, NEW starting \in BOOLEAN,
         outcome[r] # "absent", starting \/ outcome[r] \in Ended,
         ReportTraceFailure(r, starting)
  PROVE  /\ Advances
         /\ r \notin traceFailed => outcome'[r] \in Ended
         /\ outcome[r] \in Ended => outcome'[r] \in Ended
         /\ r \in traceFailed => UNCHANGED <<outcome, steps>>
         /\ \A q \in RunIds \ {r} : steps'[q] = steps[q] /\ outcome'[q] = outcome[q]
         /\ r \notin held
<1>1. OutcomeUntraced(r, starting) \in Ended
  BY DEF OutcomeUntraced, Running, TypeOK, Outcomes, Ended
<1>2. CASE r \in traceFailed
  BY <1>2 DEF ReportTraceFailure, Advances, RunUnlocked
<1>3. CASE r \notin traceFailed
  BY <1>1, <1>3 DEF ReportTraceFailure, Advances, RunUnlocked, Record, TypeOK
<1>4. QED
  BY <1>2, <1>3

(* What another part of the system may do to a tool call: close its        *)
(* executor, and add to the trace of a run that may not be written to.     *)
LEMMA ToolFrame ==
  ASSUME TypeOK, ToolInv,
         UNCHANGED <<finalized, held>>, closed \subseteq closed',
         \A q \in RunIds :
            /\ tool'[q] = tool[q] \/ (tool[q] = "finalized" /\ tool'[q] = "idle")
            /\ outcome[q] # "absent" => outcome'[q] # "absent"
            /\ \/ steps'[q] = steps[q] /\ outcome'[q] = outcome[q]
               \/ /\ q \notin held
                  /\ q \in closed' \/ ~MayWrite(q)' \/ tool[q] = "idle"
  PROVE  ToolInv'
<1>1. \A q \in held' : InTransaction(q)' /\ MayWrite(q)'
  BY DEF ToolInv, InTransaction, MayWrite, Running, TypeOK
<1>2. \A q \in RunIds : tool'[q] # "idle" => outcome'[q] # "absent"
  BY DEF ToolInv
<1>3. ASSUME NEW q \in RunIds, tool'[q] \in {"operate", "fail"},
             q \in held' \/ (q \notin closed' /\ MayWrite(q)')
      PROVE  Pending(q)'
  <2>1. steps'[q] = steps[q] /\ outcome'[q] = outcome[q] /\ tool'[q] = tool[q]
    BY <1>3
  <2>2. MayWrite(q)' = MayWrite(q)
    BY <2>1 DEF MayWrite, Running
  <2>3. Pending(q)
    BY <1>3, <2>1, <2>2 DEF ToolInv
  <2>4. QED
    BY <2>1, <2>3 DEF Pending
<1>4. QED
  BY <1>1, <1>2, <1>3 DEF ToolInv

(* What a step that ends no job and no run may do to the jobs.             *)
LEMMA JobFrame ==
  ASSUME TypeOK, JobInv, Advances, closed \subseteq closed', UNCHANGED jobs
  PROVE  JobInv'
  BY AdvancesKeeps DEF JobInv, jobs

LEMMA ClientFrame ==
  ASSUME TypeOK, ClientInv, Advances, UNCHANGED clients
  PROVE  ClientInv'
  BY AdvancesKeeps DEF ClientInv, clients, Reserved

(* A client moves on to a run it knows, having ended it if it exports it.  *)
LEMMA ClientMoves ==
  ASSUME TypeOK, ClientInv, Advances,
         NEW c \in Clients, NEW pc, NEW r, NEW goal, SetClient(c, pc, r, goal),
         pc \in {"mark", "export", "flag", "dispatch"} => r \in Reserved,
         pc \in {"export", "flag"} /\ goal # "launch" => outcome'[r] \in Ended,
         pc # "insert"
  PROVE  ClientInv'
<1>1. \A d \in Clients \ {c} : /\ clientPc'[d] = clientPc[d]
                               /\ clientRun'[d] = clientRun[d]
                               /\ clientGoal'[d] = clientGoal[d]
  BY DEF SetClient, TypeOK
<1>2. clientPc'[c] = pc /\ clientRun'[c] = r /\ clientGoal'[c] = goal
  BY DEF SetClient, TypeOK
<1>3. \A d \in Clients \ {c} :
        clientPc[d] \in {"mark", "export", "flag", "dispatch"} =>
          clientRun[d] \in RunIds
  BY DEF ClientInv, Reserved
<1>4. QED
  BY <1>1, <1>2, <1>3, AdvancesKeeps DEF ClientInv

LEMMA ReservedFrame ==
  ASSUME TypeOK, ReservedInv, Advances
  PROVE  ReservedInv'
  BY AdvancesKeeps DEF ReservedInv

-----------------------------------------------------------------------------
(* A denial leaves a pending call pending.                                 *)
LEMMA DenialKeepsPending ==
  ASSUME TypeOK, NEW r \in RunIds, Record(r, "guardrail_denied"), Pending(r)
  PROVE  Pending(r)'
<1>1. PICK i \in DOMAIN steps[r] :
        /\ steps[r][i] = "pending"
        /\ \A j \in DOMAIN steps[r] : j > i => steps[r][j] = "guardrail_denied"
  BY DEF Pending
<1>2. steps'[r] = Append(steps[r], "guardrail_denied") /\ steps[r] \in Seq(Events)
  BY DEF Record, TypeOK
<1>3. DOMAIN steps[r] = 1..Len(steps[r]) /\ Len(steps[r]) \in Nat
  BY <1>2, LenProperties
<1>4. /\ steps'[r] \in Seq(Events) /\ Len(steps'[r]) = Len(steps[r]) + 1
      /\ \A j \in 1..Len(steps[r]) : steps'[r][j] = steps[r][j]
      /\ steps'[r][Len(steps[r]) + 1] = "guardrail_denied"
  BY <1>2, AppendProperties DEF Events
<1>5. DOMAIN steps'[r] = 1..(Len(steps[r]) + 1)
  BY <1>4, LenProperties
<1>6. i \in DOMAIN steps'[r] /\ steps'[r][i] = "pending"
  BY <1>1, <1>3, <1>4, <1>5
<1>7. ASSUME NEW j \in DOMAIN steps'[r], j > i
      PROVE  steps'[r][j] = "guardrail_denied"
  <2>1. CASE j \in DOMAIN steps[r]
    BY <1>1, <1>3, <1>4, <1>7, <2>1
  <2>2. CASE j = Len(steps[r]) + 1
    BY <1>4, <2>2
  <2>3. QED
    BY <1>3, <1>5, <1>7, <2>1, <2>2
<1>8. QED
  BY <1>6, <1>7 DEF Pending

(* A step of a tool call keeps RunInv.                                     *)
LEMMA ToolKeepsRunInv ==
  ASSUME TypeOK, RunInv, NEW r \in RunIds, ToolStep(r)
  PROVE  RunInv'
<1> USE DEF database, jobs, clients, tools, budgets
<1>1. UNCHANGED <<outcome, closed, jobs, clients>>
  BY DEF ToolStep, InvokeTool, LockRun, RefuseTool, RollBack, BeginStep,
         RecordDenial, Operation, FinalizeDraft, FailStep, CommitTool
<1>2. JobInv' /\ ClientInv' /\ ReservedInv'
  BY <1>1, JobFrame, ClientFrame, ReservedFrame DEF RunInv, Advances
<1> SUFFICES ToolInv'
  BY <1>2 DEF RunInv
<1>3. ASSUME NEW event \in Events, NEW next \in ToolStates,
             next \in {"operate", "idle", "finalized"},
             CommitTool(r, event, next),
             next = "operate" => tool[r] = "begin" /\ event = "pending",
             finalized' \in {finalized, finalized \cup {r}}
      PROVE  ToolInv'
  <2>1. /\ held' = held \ {r}
        /\ \A q \in RunIds \ {r} : tool'[q] = tool[q] /\ steps'[q] = steps[q]
        /\ tool'[r] \in {"idle", next}
    BY <1>3 DEF CommitTool, SetTool, Record, TypeOK
  <2>2. tool'[r] = "operate" => Pending(r)'
    <3>1. CASE next = "operate"
      <4>1. steps'[r] = Append(steps[r], "pending")
        BY <1>3, <3>1 DEF CommitTool, Record, TypeOK
      <4>2. steps[r] \in Seq(Events) /\ "pending" \in Events
        BY DEF TypeOK, Events
      <4>3. /\ steps'[r] \in Seq(Events) /\ Len(steps'[r]) = Len(steps[r]) + 1
            /\ steps'[r][Len(steps[r]) + 1] = "pending" /\ Len(steps[r]) \in Nat
        BY <4>1, <4>2, AppendProperties, LenProperties
      <4>4. DOMAIN steps'[r] = 1..(Len(steps[r]) + 1)
        BY <4>3, LenProperties
      <4>5. QED
        BY <4>3, <4>4 DEF Pending
    <3>2. CASE next # "operate"
      BY <1>3, <2>1, <3>2
    <3>3. QED
      BY <3>1, <3>2
  <2>3. outcome[r] # "absent"
    BY <1>3 DEF CommitTool, RunInv, ToolInv, MayWrite, Running
  <2>4. tool'[r] # "fail"
    BY <1>3, <2>1
  <2>5. ASSUME NEW q \in RunIds \ {r}
        PROVE  /\ q \in held' => InTransaction(q)' /\ MayWrite(q)'
               /\ tool'[q] # "idle" => outcome'[q] # "absent"
               /\ /\ tool'[q] \in {"operate", "fail"}
                  /\ q \in held' \/ (q \notin closed' /\ MayWrite(q)')
                  => Pending(q)'
    BY <1>1, <1>3, <2>1
       DEF RunInv, ToolInv, InTransaction, MayWrite, Running, Pending
  <2>6. held' \subseteq RunIds
    BY <2>1 DEF TypeOK
  <2>7. QED
    BY <1>1, <2>1, <2>2, <2>3, <2>4, <2>5, <2>6 DEF ToolInv
<1>4. ASSUME NEW state \in ToolStates, SetTool(r, state),
             UNCHANGED <<finalized, steps>>,
             held' \in {held, held \cup {r}, held \ {r}},
             r \in held' => state \in {"begin", "operate", "fail"} /\ MayWrite(r),
             state # "idle" => outcome[r] # "absent",
             state \in {"operate", "fail"} =>
               Pending(r) \/ (r \notin held' /\ (r \in closed \/ ~MayWrite(r)))
      PROVE  ToolInv'
  <2>1. \A q \in RunIds \ {r} : /\ tool'[q] = tool[q]
                                /\ q \in held' => q \in held
    BY <1>4 DEF SetTool, TypeOK
  <2>2. tool'[r] = state /\ held' \subseteq RunIds
    BY <1>4 DEF SetTool, TypeOK
  <2>3. \A q \in RunIds : MayWrite(q)' = MayWrite(q) /\ Pending(q)' = Pending(q)
    BY <1>1, <1>4 DEF MayWrite, Running, Pending
  <2>4. ASSUME NEW q \in held'
        PROVE  InTransaction(q)' /\ MayWrite(q)'
    <3>1. q \in RunIds
      BY <2>2, <2>4
    <3>2. CASE q = r
      BY <1>1, <1>4, <2>2, <2>4, <3>2 DEF InTransaction, MayWrite, Running
    <3>3. CASE q # r
      <4>1. q \in held /\ tool'[q] = tool[q]
        BY <2>1, <2>4, <3>1, <3>3
      <4>2. InTransaction(q) /\ MayWrite(q)
        BY <4>1 DEF RunInv, ToolInv
      <4>3. QED
        BY <1>1, <1>4, <4>1, <4>2 DEF InTransaction, MayWrite, Running
    <3>4. QED
      BY <3>2, <3>3
  <2>5. ASSUME NEW q \in RunIds
        PROVE  /\ tool'[q] # "idle" => outcome'[q] # "absent"
               /\ /\ tool'[q] \in {"operate", "fail"}
                  /\ q \in held' \/ (q \notin closed' /\ MayWrite(q)')
                  => Pending(q)'
    <3>1. CASE q = r
      BY <1>1, <1>4, <2>2, <2>3, <3>1
         DEF Pending, MayWrite, Running
    <3>2. CASE q # r
      <4>1. tool'[q] = tool[q] /\ (q \in held' => q \in held)
        BY <2>1, <3>2
      <4>2. /\ tool[q] # "idle" => outcome[q] # "absent"
            /\ /\ tool[q] \in {"operate", "fail"}
               /\ q \in held \/ (q \notin closed /\ MayWrite(q))
               => Pending(q)
        BY DEF RunInv, ToolInv
      <4>3. QED
        BY <1>1, <1>4, <4>1, <4>2 DEF Pending, MayWrite, Running
    <3>3. QED
      BY <3>1, <3>2
  <2>6. QED
    BY <2>4, <2>5 DEF ToolInv
<1>5. CASE InvokeTool(r)
  <2>1. outcome[r] # "absent" /\ r \notin held
    BY <1>5 DEF InvokeTool, RunInv, JobInv, ToolInv, InTransaction
  <2>2. QED
    BY <1>4, <1>5, <2>1 DEF InvokeTool, ToolStates
<1>6. CASE LockRun(r)
  <2>1. SetTool(r, tool[r]) /\ tool[r] \in ToolStates
    BY <1>6 DEF LockRun, SetTool, TypeOK
  <2>2. tool[r] \in {"operate", "fail"} => Pending(r)
    BY <1>6 DEF LockRun, RunInv, ToolInv
  <2>3. QED
    BY <1>4, <1>6, <2>1, <2>2 DEF LockRun, InTransaction, MayWrite, Running
<1>7. CASE RefuseTool(r)
  <2>1. AfterRefusal(r) = "fail" => r \notin closed
    BY DEF AfterRefusal
  <2>2. AfterRefusal(r) \in {"idle", "fail"} /\ outcome[r] # "absent"
    BY <1>7 DEF AfterRefusal, RefuseTool, RunInv, ToolInv, InTransaction
  <2>3. QED
    BY <1>4, <1>7, <2>1, <2>2 DEF RefuseTool, ToolStates
<1>8. CASE RollBack(r)
  <2>1. AfterRefusal(r) \in {"idle", "fail"} /\ outcome[r] # "absent"
    BY <1>8 DEF AfterRefusal, RollBack, RunInv, ToolInv, MayWrite, Running
  <2>2. AfterRefusal(r) = "fail" => Pending(r)
    BY <1>8 DEF AfterRefusal, RollBack, RunInv, ToolInv, TypeOK
  <2>3. QED
    BY <1>4, <1>8, <2>1, <2>2 DEF RollBack, ToolStates
<1>9. CASE BeginStep(r)
  BY <1>3, <1>9 DEF BeginStep, Events, ToolStates
<1>10. CASE RecordDenial(r)
  <2>1. Pending(r) => Pending(r)'
    BY <1>10, DenialKeepsPending DEF RecordDenial
  <2>2. \A q \in RunIds \ {r} : steps'[q] = steps[q]
    BY <1>10 DEF RecordDenial, Record, TypeOK
  <2>3. \A q \in RunIds : Pending(q) => Pending(q)'
    BY <2>1, <2>2 DEF Pending
  <2>4. QED
    BY <1>10, <2>3 DEF RecordDenial, RunInv, ToolInv, InTransaction, MayWrite, Running
<1>11. CASE Operation(r)
  BY <1>3, <1>11 DEF Operation, Events, ToolStates
<1>12. CASE FinalizeDraft(r)
  BY <1>3, <1>12 DEF FinalizeDraft, Events, ToolStates
<1>13. CASE FailStep(r)
  BY <1>3, <1>13 DEF FailStep, Events, ToolStates
<1>14. QED
  BY <1>5, <1>6, <1>7, <1>8, <1>9, <1>10, <1>11, <1>12, <1>13 DEF ToolStep

(* A step of a job keeps RunInv: it closes its executor before it writes   *)
(* and stores an end before it exports one.                                *)
LEMMA JobKeepsRunInv ==
  ASSUME TypeOK, RunInv, NEW r \in RunIds, JobStep(r) \/ PersistFails(r)
  PROVE  RunInv'
<1> USE DEF database, jobs, clients, tools, budgets
<1>1. UNCHANGED clients
  BY DEF JobStep, WorkerReturns, WorkerTimesOut, StopWork, PrepareFinish,
         JobFinish, JobExport, JobReportTraceFailure, PersistFails
<1>2. JobInv /\ ToolInv
  BY DEF RunInv
<1>3. ASSUME Advances, JobInv', ToolInv'
      PROVE  RunInv'
  BY <1>1, <1>3, ClientFrame, ReservedFrame DEF RunInv
<1>4. ASSUME Advances, closed \subseteq closed',
             \A q \in RunIds \ {r} : /\ jobPc'[q] = jobPc[q]
                                     /\ jobResult'[q] = jobResult[q],
             outcome[r] # "absent",
             jobPc'[r] \in {"prepare", "mark", "export", "flag"} =>
               r \in closed' /\ jobResult'[r] # "none",
             jobPc'[r] \in {"export", "flag"} => outcome'[r] \in Ended
      PROVE  JobInv'
  BY <1>2, <1>4, AdvancesKeeps DEF JobInv
<1>5. ASSUME NEW pc, NEW result, NEW attempt, SetJob(r, pc, result, attempt)
      PROVE  /\ \A q \in RunIds \ {r} : /\ jobPc'[q] = jobPc[q]
                                        /\ jobResult'[q] = jobResult[q]
             /\ jobPc'[r] = pc /\ jobResult'[r] = result
  BY <1>5 DEF SetJob, TypeOK
<1>6. ASSUME NEW result \in {"completed", "failed", "stopped"},
             StopWork(r, result)
      PROVE  RunInv'
  <2>1. JobInv'
    BY <1>2, <1>4, <1>5, <1>6 DEF StopWork, Advances, JobInv
  <2>2. ToolInv'
    BY <1>2, <1>6, ToolFrame DEF StopWork, SetTool, TypeOK
  <2>3. QED
    BY <1>3, <1>6, <2>1, <2>2 DEF StopWork, Advances
<1>7. CASE WorkerReturns(r)
  BY <1>6, <1>7 DEF WorkerReturns
<1>8. CASE WorkerTimesOut(r)
  BY <1>6, <1>8 DEF WorkerTimesOut
<1>9. CASE PrepareFinish(r)
  <2>1. JobInv'
    BY <1>2, <1>4, <1>5, <1>9 DEF PrepareFinish, GoTo, Advances, JobInv
  <2>2. r \in closed
    BY <1>2, <1>9 DEF PrepareFinish, JobInv
  <2>3. UNCHANGED steps \/ (r \notin held /\ Record(r, "job_interrupted"))
    BY <1>9 DEF PrepareFinish, RunUnlocked
  <2>4. \A q \in RunIds : steps'[q] = steps[q] \/ (q \notin held /\ q \in closed)
    BY <2>2, <2>3 DEF Record, TypeOK
  <2>5. ToolInv'
    BY <1>2, <1>9, <2>4, ToolFrame DEF PrepareFinish
  <2>6. QED
    BY <1>3, <1>9, <2>1, <2>5 DEF PrepareFinish, Advances
<1>10. CASE JobFinish(r)
  <2>1. outcome[r] # "absent" /\ jobResult[r] \in Results \ {"none"} /\ r \in closed
    BY <1>2, <1>10 DEF JobFinish, JobInv, TypeOK
  <2>2. /\ Advances
        /\ outcome'[r] \in Ended
        /\ \A q \in RunIds \ {r} : steps'[q] = steps[q] /\ outcome'[q] = outcome[q]
        /\ r \notin held
    BY <1>10, <2>1, FinishEffect DEF JobFinish
  <2>3. JobInv'
    BY <1>4, <1>5, <1>10, <2>1, <2>2 DEF JobFinish, GoTo
  <2>4. ToolInv'
    BY <1>2, <1>10, <2>1, <2>2, AdvancesKeeps, ToolFrame DEF JobFinish, FinishRun
  <2>5. QED
    BY <1>3, <2>2, <2>3, <2>4
<1>11. CASE JobExport(r)
  <2>1. JobInv'
    BY <1>2, <1>4, <1>5, <1>11
       DEF JobExport, GoTo, EndJob, Advances, JobInv
  <2>2. ToolInv'
    BY <1>2, <1>11, ToolFrame DEF JobExport
  <2>3. QED
    BY <1>3, <1>11, <2>1, <2>2 DEF JobExport, Advances
<1>12. CASE JobReportTraceFailure(r)
  <2>1. outcome[r] \in Ended /\ outcome[r] # "absent" /\ r \in closed
    BY <1>2, <1>12 DEF JobReportTraceFailure, JobInv, Ended
  <2>2. /\ Advances
        /\ \A q \in RunIds \ {r} : steps'[q] = steps[q] /\ outcome'[q] = outcome[q]
        /\ r \notin held
    BY <1>12, <2>1, ReportEffect DEF JobReportTraceFailure
  <2>3. JobInv'
    BY <1>4, <1>5, <1>12, <2>1, <2>2 DEF JobReportTraceFailure, EndJob
  <2>4. ToolInv'
    BY <1>2, <1>12, <2>1, <2>2, AdvancesKeeps, ToolFrame
       DEF JobReportTraceFailure, ReportTraceFailure
  <2>5. QED
    BY <1>3, <2>2, <2>3, <2>4
<1>13. CASE PersistFails(r)
  <2>1. JobInv'
    BY <1>2, <1>4, <1>5, <1>13 DEF PersistFails, EndJob, Advances, JobInv
  <2>2. ToolInv'
    BY <1>2, <1>13, ToolFrame DEF PersistFails
  <2>3. QED
    BY <1>3, <1>13, <2>1, <2>2 DEF PersistFails, Advances
<1>14. QED
  BY <1>7, <1>8, <1>9, <1>10, <1>11, <1>12, <1>13 DEF JobStep

(* The next run to be reserved is new: its number follows the others.      *)
LEMMA NextRunIsNew ==
  ASSUME TypeOK, ReservedInv
  PROVE  LET r == Cardinality(Reserved) + 1 IN
         r \in RunIds => outcome[r] = "absent" /\ Reserved = 1..(r - 1)
<1>1. PICK n \in 0..MaxRuns : Reserved = 1..n
  BY DEF ReservedInv
<1>2. n \in Nat
  BY BoundsAssumption
<1>3. Cardinality(Reserved) = n
  BY <1>1, <1>2, FS_Interval
<1>4. n + 1 \notin Reserved
  BY <1>1, <1>2
<1>5. n + 1 \in RunIds => outcome[n + 1] = "absent"
  BY <1>4 DEF Reserved
<1>6. n + 1 - 1 = n
  BY <1>2
<1>7. QED
  BY <1>1, <1>3, <1>5, <1>6

(* What `reserve` commits: one run more, numbered next, with job_start.    *)
LEMMA ReserveEffect ==
  ASSUME TypeOK, RunInv, NEW r \in RunIds, outcome[r] = "absent",
         Reserved = 1..(r - 1), NoActiveRun,
         outcome' = [outcome EXCEPT ![r] = "running"], Record(r, "job_start"),
         UNCHANGED <<finalized, held, closed, tool, jobPc, jobResult, jobAttempt>>
  PROVE  /\ ToolInv' /\ JobInv' /\ ReservedInv'
         /\ Reserved' = Reserved \cup {r}
         /\ \A q \in RunIds : outcome[q] \in Ended => outcome'[q] \in Ended
<1>1. \A q \in RunIds \ {r} : outcome'[q] = outcome[q] /\ steps'[q] = steps[q]
  BY DEF TypeOK, Record
<1>2. outcome'[r] = "running"
  BY DEF TypeOK
<1>3. tool[r] = "idle" /\ r \notin held /\ jobPc[r] = "none"
  BY DEF RunInv, ToolInv, JobInv, MayWrite, Running
<1>4. ToolInv'
  BY <1>1, <1>2, <1>3, ToolFrame DEF RunInv
<1>5. JobInv'
  BY <1>1, <1>3 DEF RunInv, JobInv
<1>6. Reserved' = Reserved \cup {r}
  BY <1>1, <1>2 DEF Reserved
<1>7. ReservedInv'
  <2>1. r \in Nat \ {0} /\ r \in 0..MaxRuns
    BY BoundsAssumption DEF RunIds
  <2>2. (1..(r - 1)) \cup {r} = 1..r
    BY <2>1
  <2>3. QED
    BY <1>6, <2>1, <2>2 DEF ReservedInv
<1>8. QED
  BY <1>1, <1>4, <1>5, <1>6, <1>7 DEF Ended

(* A step of a request keeps RunInv: the case lock lets one request insert *)
(* at a time, and whoever exports a run has ended it or has just made it.  *)
LEMMA ClientKeepsRunInv ==
  ASSUME TypeOK, RunInv, NEW c \in Clients,
         Arrive(c) \/ ClientStep(c) \/ ClientFails(c)
  PROVE  RunInv'
<1> USE DEF database, jobs, clients, tools, budgets
<1>1. ToolInv /\ JobInv /\ ClientInv /\ ReservedInv
  BY DEF RunInv
<1>2. ASSUME ClientInv', UNCHANGED <<outcome, finalized, steps, tools, jobs>>
      PROVE  RunInv'
  <2>1. Advances
    BY <1>2 DEF Advances
  <2>2. ToolInv'
    BY <1>1, <1>2, ToolFrame
  <2>3. QED
    BY <1>1, <1>2, <2>1, <2>2, JobFrame, ReservedFrame DEF RunInv
<1>3. ASSUME UNCHANGED outcome, Rest(c)
      PROVE  ClientInv'
  BY <1>1, <1>3, ClientMoves DEF Rest, Advances
<1>4. ASSUME UNCHANGED outcome, NEW r \in RunIds, Running(r),
             NEW goal, SetClient(c, "mark", r, goal)
      PROVE  ClientInv'
  BY <1>1, <1>4, ClientMoves DEF Advances, Reserved, Running
<1>5. clientPc[c] \in {"mark", "export", "flag", "dispatch"} =>
        /\ clientRun[c] \in RunIds /\ clientRun[c] \in Reserved
        /\ outcome[clientRun[c]] # "absent"
  BY <1>1 DEF ClientInv, Reserved
<1>6. ASSUME Advances, clientRun[c] \in Reserved, Continue(c)
      PROVE  ClientInv'
  <2>1. CASE clientGoal[c] = "start"
    BY <1>1, <1>6, <2>1, ClientMoves DEF Continue
  <2>2. CASE clientGoal[c] = "launch"
    BY <1>1, <1>6, <2>2, ClientMoves DEF Continue
  <2>3. CASE clientGoal[c] \notin {"start", "launch"}
    BY <1>1, <1>6, <2>3, ClientMoves DEF Continue, Rest
  <2>4. QED
    BY <2>1, <2>2, <2>3
<1>7. CASE Arrive(c)
  <2>1. ASSUME SetClient(c, "reserve", 0, "start"), UNCHANGED outcome
        PROVE  ClientInv'
    BY <1>1, <2>1, ClientMoves DEF Advances
  <2>2. ClientInv'
    BY <1>4, <1>7, <2>1 DEF Arrive, Recoverable
  <2>3. QED
    BY <1>2, <1>7, <2>2 DEF Arrive
<1>8. CASE LockCase(c)
  <2>1. ASSUME NoActiveRun, SetClient(c, "insert", 0, "start"),
               CaseUnlocked, UNCHANGED outcome
        PROVE  ClientInv'
    <3>1. \A d \in Clients \ {c} : /\ clientPc'[d] = clientPc[d]
                                   /\ clientRun'[d] = clientRun[d]
                                   /\ clientGoal'[d] = clientGoal[d]
                                   /\ clientPc[d] # "insert"
      BY <2>1 DEF SetClient, TypeOK, CaseUnlocked
    <3>2. clientPc'[c] = "insert"
      BY <2>1 DEF SetClient, TypeOK
    <3>3. NoActiveRun' /\ Reserved' = Reserved
      BY <2>1 DEF NoActiveRun, Running, Reserved
    <3>4. QED
      BY <1>1, <2>1, <3>1, <3>2, <3>3 DEF ClientInv
  <2>2. ClientInv'
    BY <1>3, <1>8, <2>1 DEF LockCase
  <2>3. QED
    BY <1>2, <1>8, <2>2 DEF LockCase
<1>9. CASE Reserve(c)
  <2> DEFINE r == Cardinality(Reserved) + 1
  <2> HIDE DEF r
  <2>1. ASSUME Rest(c), UNCHANGED <<outcome, steps>>
        PROVE  RunInv'
    BY <1>2, <1>3, <1>9, <2>1 DEF Reserve
  <2>2. ASSUME r \in RunIds, NoActiveRun,
               outcome' = [outcome EXCEPT ![r] = "running"],
               Record(r, "job_start"), SetClient(c, "export", r, "launch")
        PROVE  RunInv'
    <3>1. outcome[r] = "absent" /\ Reserved = 1..(r - 1)
      BY <1>1, <2>2, NextRunIsNew DEF r
    <3>2. /\ ToolInv' /\ JobInv' /\ ReservedInv'
          /\ Reserved' = Reserved \cup {r}
          /\ \A q \in RunIds : outcome[q] \in Ended => outcome'[q] \in Ended
      BY <1>9, <2>2, <3>1, ReserveEffect DEF Reserve
    <3>3. \A d \in Clients \ {c} : /\ clientPc'[d] = clientPc[d]
                                   /\ clientRun'[d] = clientRun[d]
                                   /\ clientGoal'[d] = clientGoal[d]
                                   /\ clientPc[d] # "insert"
      BY <1>1, <1>9, <2>2 DEF Reserve, SetClient, TypeOK, ClientInv
    <3>4. clientPc'[c] = "export" /\ clientRun'[c] = r /\ clientGoal'[c] = "launch"
      BY <2>2 DEF SetClient, TypeOK
    <3>5. \A d \in Clients :
             clientPc[d] \in {"mark", "export", "flag", "dispatch"} =>
               clientRun[d] \in RunIds
      BY <1>1 DEF ClientInv, Reserved
    <3>6. ClientInv'
      BY <1>1, <3>2, <3>3, <3>4, <3>5 DEF ClientInv
    <3>7. QED
      BY <3>2, <3>6 DEF RunInv
  <2>3. QED
    BY <1>9, <2>1, <2>2 DEF Reserve, r
<1>10. CASE ClientFinish(c)
  <2> PICK r \in RunIds : r = clientRun[c]
    BY <1>5, <1>10 DEF ClientFinish
  <2>1. ClientResult(c) \in Results \ {"none"}
    BY DEF ClientResult, Results
  <2>2. /\ Advances
        /\ outcome'[r] \in Ended
        /\ \A q \in RunIds \ {r} : steps'[q] = steps[q] /\ outcome'[q] = outcome[q]
        /\ r \notin held /\ r \in RunIds
    BY <1>5, <1>10, <2>1, FinishEffect DEF ClientFinish
  <2>3. ClientInv'
    BY <1>1, <1>5, <1>10, <2>2, ClientMoves DEF ClientFinish
  <2>4. ~MayWrite(r)'
    BY <2>2 DEF MayWrite, Running, Ended
  <2>5. ToolInv'
    BY <1>1, <1>10, <2>2, <2>4, AdvancesKeeps, ToolFrame DEF ClientFinish, FinishRun
  <2>6. QED
    BY <1>1, <1>10, <2>2, <2>3, <2>5, JobFrame, ReservedFrame
       DEF ClientFinish, RunInv
<1>11. CASE ClientExport(c)
  <2>1. ClientInv'
    <3>1. ASSUME SetClient(c, "flag", clientRun[c], clientGoal[c]), UNCHANGED outcome
          PROVE  ClientInv'
      BY <1>1, <1>5, <1>11, <3>1, ClientMoves
         DEF ClientExport, Advances, ClientInv
    <3>2. QED
      BY <1>5, <1>6, <1>11, <3>1 DEF ClientExport, Advances
  <2>2. QED
    BY <1>2, <1>11, <2>1 DEF ClientExport
<1>12. CASE ClientReportTraceFailure(c)
  <2> PICK r \in RunIds : r = clientRun[c]
    BY <1>5, <1>12 DEF ClientReportTraceFailure
  <2> DEFINE starting == clientGoal[c] = "launch"
  <2>1. /\ r \in RunIds /\ r \in Reserved /\ outcome[r] # "absent"
        /\ starting \in BOOLEAN /\ (starting \/ outcome[r] \in Ended)
        /\ ReportTraceFailure(r, starting)
    BY <1>1, <1>5, <1>12 DEF ClientReportTraceFailure, ClientInv
  <2> HIDE DEF starting
  <2>2. /\ Advances
        /\ r \notin traceFailed => outcome'[r] \in Ended
        /\ r \in traceFailed => UNCHANGED <<outcome, steps>>
        /\ \A q \in RunIds \ {r} : steps'[q] = steps[q] /\ outcome'[q] = outcome[q]
        /\ r \notin held
    BY <2>1, ReportEffect
  <2>3. ClientInv'
    BY <1>6, <1>12, <2>1, <2>2 DEF ClientReportTraceFailure
  <2>4. r \notin traceFailed => ~MayWrite(r)'
    BY <2>2 DEF MayWrite, Running, Ended
  <2>5. ToolInv'
    BY <1>1, <1>12, <2>1, <2>2, <2>4, AdvancesKeeps, ToolFrame
       DEF ClientReportTraceFailure, ReportTraceFailure
  <2>6. QED
    BY <1>1, <1>12, <2>2, <2>3, <2>5, JobFrame, ReservedFrame
       DEF ClientReportTraceFailure, RunInv
<1>13. CASE Dispatch(c)
  <2>1. ClientInv'
    BY <1>3, <1>4, <1>5, <1>13 DEF Dispatch
  <2>2. JobInv'
    <3>1. CASE SetJob(clientRun[c], "work", "none", 0)
      BY <1>1, <1>5, <1>13, <3>1 DEF Dispatch, SetJob, JobInv, TypeOK
    <3>2. QED
      BY <1>1, <1>13, <3>1, JobFrame DEF Dispatch, Advances
  <2>3. ToolInv'
    BY <1>1, <1>13, ToolFrame DEF Dispatch
  <2>4. QED
    BY <1>1, <1>13, <2>1, <2>2, <2>3, ReservedFrame DEF Dispatch, Advances, RunInv
<1>14. CASE ClientFails(c)
  <2>1. ClientInv'
    BY <1>3, <1>14 DEF ClientFails
  <2>2. QED
    BY <1>2, <1>14, <2>1 DEF ClientFails
<1>15. QED
  BY <1>7, <1>8, <1>9, <1>10, <1>11, <1>12, <1>13, <1>14 DEF ClientStep

(* Starting, crashing and stopping the server, and time, keep RunInv: the  *)
(* database only ever sees what a transaction committed.                   *)
LEMMA ServerKeepsRunInv ==
  ASSUME TypeOK, RunInv,
         StartServer \/ Crash \/ Shutdown \/ Exit \/ \E r \in RunIds : Expire(r)
  PROVE  RunInv'
<1> USE DEF database, jobs, clients, tools, budgets
<1>1. ToolInv /\ JobInv /\ ClientInv /\ ReservedInv
  BY DEF RunInv
<1>2. ASSUME UNCHANGED database
      PROVE  Advances /\ ReservedInv'
  BY <1>1, <1>2, ReservedFrame DEF Advances
<1>3. ASSUME LoseProcess
      PROVE  RunInv'
  <2>1. ToolInv'
    BY <1>1, <1>3 DEF LoseProcess, ToolInv, InTransaction, Running
  <2>2. JobInv'
    BY <1>1, <1>3 DEF LoseProcess, JobInv
  <2>3. ClientInv'
    BY <1>1, <1>3 DEF LoseProcess, ClientInv
  <2>4. QED
    BY <1>2, <1>3, <2>1, <2>2, <2>3 DEF LoseProcess, RunInv
<1>4. CASE StartServer
  <2>1. ClientInv'
    <3>1. ASSUME NEW r \in Recoverable, SetClient(Boot, "mark", r, "boot")
          PROVE  ClientInv'
      <4>1. r \in Reserved /\ Boot \in Clients
        BY DEF Recoverable, Running, Reserved, Clients
      <4>2. QED
        BY <1>1, <1>2, <1>4, <3>1, <4>1, ClientMoves DEF StartServer
    <3>2. QED
      BY <1>1, <1>2, <1>4, <3>1, ClientFrame DEF StartServer
  <2>2. ToolInv' /\ JobInv'
    BY <1>1, <1>2, <1>4, ToolFrame, JobFrame DEF StartServer
  <2>3. QED
    BY <1>2, <1>4, <2>1, <2>2 DEF StartServer, RunInv
<1>5. CASE Shutdown
  <2>1. ToolInv'
    BY <1>1, <1>5, ToolFrame DEF Shutdown, TypeOK
  <2>2. JobInv'
    BY <1>1, <1>5 DEF Shutdown, JobInv, TypeOK
  <2>3. ClientInv'
    BY <1>1, <1>2, <1>5, ClientFrame DEF Shutdown
  <2>4. QED
    BY <1>2, <1>5, <2>1, <2>2, <2>3 DEF Shutdown, RunInv
<1>6. CASE \E r \in RunIds : Expire(r)
  <2>1. UNCHANGED <<database, tools, jobs, clients>>
    BY <1>6 DEF Expire
  <2>2. QED
    BY <1>1, <1>2, <2>1, ToolFrame, JobFrame, ClientFrame DEF RunInv
<1>7. QED
  BY <1>3, <1>4, <1>5, <1>6 DEF Crash, Exit

-----------------------------------------------------------------------------
(* RunInv and the type invariant are inductive together.                   *)

LEMMA InitRunInv == Init => RunInv
<1> SUFFICES ASSUME Init PROVE RunInv
  OBVIOUS
<1>1. ToolInv /\ JobInv /\ ClientInv
  BY DEF Init, ToolInv, JobInv, ClientInv
<1>2. Reserved = {} /\ 0 \in 0..MaxRuns /\ 1..0 = {}
  BY BoundsAssumption DEF Init, Reserved
<1>3. QED
  BY <1>1, <1>2 DEF RunInv, ReservedInv

LEMMA StepRunInv ==
  ASSUME TypeOK, RunInv, [Next]_vars
  PROVE  RunInv'
<1>1. CASE UNCHANGED vars
  <2>1. UNCHANGED <<outcome, finalized, steps, tool, held, closed, jobPc,
                    jobResult, jobAttempt, clientPc, clientRun, clientGoal>>
    BY <1>1 DEF vars, database, jobs, clients, tools
  <2>2. Advances
    BY <2>1 DEF Advances
  <2>3. QED
    BY <2>1, <2>2, ToolFrame, JobFrame, ClientFrame, ReservedFrame
       DEF RunInv, jobs, clients
<1>2. CASE Next
  BY <1>2, ToolKeepsRunInv, JobKeepsRunInv, ClientKeepsRunInv,
     ServerKeepsRunInv DEF Next
<1>3. QED
  BY <1>1, <1>2

(* Locks, pending steps, jobs and clients are as RunInv says, and every    *)
(* variable has its type, in every state of every instance.                *)
THEOREM RunInvariant == Spec => [](TypeOK /\ RunInv)
<1>1. Init => TypeOK /\ RunInv
  BY InitType, InitRunInv
<1>2. TypeOK /\ RunInv /\ [Next]_vars => (TypeOK /\ RunInv)'
  BY StepType, StepRunInv DEF RunInv
<1>3. QED
  BY <1>1, <1>2, PTL DEF Spec

(* The types hold in every state.                                          *)
THEOREM TypeCorrect == Spec => []TypeOK
  BY RunInvariant, PTL

-----------------------------------------------------------------------------
(* The artifacts of a version, and RunPromise.                             *)

(* Events that are not artifacts leave the artifacts alone.                *)
LEMMA RecordKeepsArtifacts ==
  ASSUME TypeOK, NEW r \in RunIds, NEW e \in Events \ {"write", "finalize"},
         Record(r, e)
  PROVE  \A q \in RunIds : Artifacts(q)' = Artifacts(q)
<1>1. /\ steps'[r] = Append(steps[r], e)
      /\ \A q \in RunIds \ {r} : steps'[q] = steps[q]
      /\ steps[r] \in Seq(Events)
  BY DEF Record, TypeOK
<1>2. Len(steps[r]) \in Nat
  BY <1>1, LenProperties
<1>3. /\ Len(steps'[r]) = Len(steps[r]) + 1
      /\ \A i \in 1..Len(steps[r]) : steps'[r][i] = steps[r][i]
      /\ steps'[r][Len(steps[r]) + 1] = e
  BY <1>1, AppendProperties
<1>4. 1..(Len(steps[r]) + 1) = 1..Len(steps[r]) \cup {Len(steps[r]) + 1}
  BY <1>2
<1>5. Artifacts(r)' = Artifacts(r)
  BY <1>3, <1>4 DEF Artifacts
<1>6. QED
  BY <1>1, <1>5 DEF Artifacts

(* The second transaction of a call turns its pending event into a new     *)
(* artifact or into something else; it never touches an earlier event.     *)
LEMMA CommitArtifacts ==
  ASSUME TypeOK, RunInv, NEW r \in RunIds, NEW event \in Events, NEW next,
         tool[r] \in {"operate", "fail"}, CommitTool(r, event, next)
  PROVE  /\ \A q \in RunIds \ {r} : Artifacts(q)' = Artifacts(q)
         /\ Artifacts(r)' = Artifacts(r) \cup
              (IF event \in {"write", "finalize"} THEN {CallStep(r)} ELSE {})
         /\ CallStep(r) \notin Artifacts(r)
<1> DEFINE t == [steps[r] EXCEPT ![CallStep(r)] = event]
<1>1. /\ steps'[r] = t
      /\ \A q \in RunIds \ {r} : steps'[q] = steps[q]
      /\ steps[r] \in Seq(Events)
  BY DEF CommitTool, TypeOK
<1>2. /\ Len(t) = Len(steps[r])
      /\ \A i \in 1..Len(steps[r]) :
           t[i] = IF i = CallStep(r) THEN event ELSE steps[r][i]
  BY <1>1, ReplaceStep
<1> HIDE DEF t
<1>3. Pending(r)
  BY DEF CommitTool, RunInv, ToolInv
<1>4. CallStep(r) \in 1..Len(steps[r]) /\ steps[r][CallStep(r)] = "pending"
  BY <1>3, CallStepPending
<1>5. CallStep(r) \notin Artifacts(r)
  BY <1>4 DEF Artifacts
<1>6. Artifacts(r)' = Artifacts(r) \cup
        (IF event \in {"write", "finalize"} THEN {CallStep(r)} ELSE {})
  BY <1>1, <1>2, <1>4 DEF Artifacts
<1>7. \A q \in RunIds \ {r} : Artifacts(q)' = Artifacts(q)
  BY <1>1 DEF Artifacts
<1>8. QED
  BY <1>5, <1>6, <1>7

SameArtifacts == \A q \in RunIds : Artifacts(q)' = Artifacts(q)

(* How the steps of RunLifecycle appear in RunPromise.                     *)
LEMMA PromiseStutter ==
  ASSUME UNCHANGED <<outcome, finalized>>, SameArtifacts
  PROVE  UNCHANGED Promise!promise
  BY DEF SameArtifacts, Promise!promise

LEMMA PromiseReserve ==
  ASSUME NEW r \in RunIds, outcome[r] = "absent", NoActiveRun,
         outcome' = [outcome EXCEPT ![r] = "running"],
         UNCHANGED finalized, SameArtifacts
  PROVE  Promise!Next
  BY DEF SameArtifacts, NoActiveRun, Running, RunIds,
         Promise!Next, Promise!Reserve, Promise!Runs

LEMMA PromiseEnd ==
  ASSUME NEW r \in RunIds, Running(r), NEW o \in Ended,
         o = "success" => r \in finalized,
         outcome' = [outcome EXCEPT ![r] = o],
         UNCHANGED finalized, SameArtifacts
  PROVE  Promise!Next
  BY DEF SameArtifacts, Running, RunIds, Ended,
         Promise!Next, Promise!End, Promise!Runs

LEMMA PromiseWithdraw ==
  ASSUME NEW r \in RunIds, outcome[r] = "success",
         outcome' = [outcome EXCEPT ![r] = "failed"],
         UNCHANGED finalized, SameArtifacts
  PROVE  Promise!Next
  BY DEF SameArtifacts, RunIds, Promise!Next, Promise!Withdraw, Promise!Runs

LEMMA PromiseWrite ==
  ASSUME NEW r \in RunIds, MayWrite(r), NEW i, i \notin Artifacts(r),
         \A q \in RunIds \ {r} : Artifacts(q)' = Artifacts(q),
         Artifacts(r)' = Artifacts(r) \cup {i},
         UNCHANGED outcome,
         finalized' \in {finalized, finalized \cup {r}},
         finalized' # finalized => Artifacts(r) # {}
  PROVE  Promise!Next
<1> DEFINE c == [q \in RunIds |-> Artifacts(q)]
<1>1. c[r] \subseteq c'[r] /\ c'[r] # c[r] /\ c[r] = Artifacts(r)
  OBVIOUS
<1>2. c' = [c EXCEPT ![r] = c'[r]]
  OBVIOUS
<1>3. QED
  BY <1>1, <1>2 DEF MayWrite, Running, RunIds,
     Promise!Next, Promise!Write, Promise!Open, Promise!Runs

(* Ending a run is End in RunPromise, or nothing when it had ended.        *)
LEMMA FinishPromise ==
  ASSUME TypeOK, NEW r \in RunIds, NEW result \in Results \ {"none"},
         FinishRun(r, result)
  PROVE  [Promise!Next]_Promise!promise
<1>1. /\ OutcomeOf(r, result) \in Ended
      /\ OutcomeOf(r, result) = "success" => r \in finalized
  BY DEF OutcomeOf, Results, Ended
<1>2. CASE Running(r)
  <2>1. SameArtifacts
    BY <1>2, RecordKeepsArtifacts DEF FinishRun, Events, SameArtifacts
  <2>2. QED
    BY <1>1, <1>2, <2>1, PromiseEnd DEF FinishRun
<1>3. CASE ~Running(r)
  <2>1. SameArtifacts
    BY <1>3 DEF FinishRun, SameArtifacts, Artifacts
  <2>2. QED
    BY <1>3, <2>1, PromiseStutter DEF FinishRun
<1>4. QED
  BY <1>2, <1>3

(* Reporting a lost trace withdraws a success, ends a run that was         *)
(* starting, or changes nothing RunPromise knows of.                       *)
LEMMA ReportPromise ==
  ASSUME TypeOK, NEW r \in RunIds, NEW starting \in BOOLEAN,
         ReportTraceFailure(r, starting)
  PROVE  [Promise!Next]_Promise!promise
<1>1. SameArtifacts /\ UNCHANGED finalized
  <2>1. CASE UNCHANGED steps
    BY <2>1 DEF ReportTraceFailure, SameArtifacts, Artifacts
  <2>2. CASE Record(r, "job_trace_failure")
    BY <2>2, RecordKeepsArtifacts DEF ReportTraceFailure, Events, SameArtifacts
  <2>3. QED
    BY <2>1, <2>2 DEF ReportTraceFailure
<1>2. CASE UNCHANGED outcome
  BY <1>1, <1>2, PromiseStutter
<1>3. CASE outcome' = [outcome EXCEPT ![r] = OutcomeUntraced(r, starting)]
  <2>1. CASE outcome[r] = "success"
    BY <1>1, <1>3, <2>1, PromiseWithdraw DEF OutcomeUntraced
  <2>2. CASE starting /\ Running(r)
    BY <1>1, <1>3, <2>2, PromiseEnd DEF OutcomeUntraced, Ended
  <2>3. CASE outcome[r] # "success" /\ ~(starting /\ Running(r))
    <3>1. UNCHANGED outcome
      BY <1>3, <2>3 DEF OutcomeUntraced, TypeOK
    <3>2. QED
      BY <1>1, <3>1, PromiseStutter
  <2>4. QED
    BY <2>1, <2>2, <2>3
<1>4. QED
  BY <1>2, <1>3 DEF ReportTraceFailure

(* A tool call writes an artifact, seals the version, or does nothing that *)
(* RunPromise knows of.                                                    *)
LEMMA ToolPromise ==
  ASSUME TypeOK, RunInv, NEW r \in RunIds, ToolStep(r)
  PROVE  [Promise!Next]_Promise!promise
<1> USE DEF database, jobs, clients, tools, budgets
<1>1. ASSUME UNCHANGED <<outcome, finalized, steps>>
      PROVE  [Promise!Next]_Promise!promise
  BY <1>1, PromiseStutter DEF SameArtifacts, Artifacts
<1>2. ASSUME NEW event \in Events \ {"write", "finalize"}, NEW next,
             CommitTool(r, event, next), UNCHANGED finalized,
             tool[r] \in {"begin", "operate", "fail"}
      PROVE  [Promise!Next]_Promise!promise
  <2>1. SameArtifacts
    <3>1. CASE tool[r] = "begin"
      BY <1>2, <3>1, RecordKeepsArtifacts DEF CommitTool, SameArtifacts
    <3>2. CASE tool[r] # "begin"
      <4>1. event \in Events /\ event \notin {"write", "finalize"}
        OBVIOUS
      <4>2. /\ \A q \in RunIds \ {r} : Artifacts(q)' = Artifacts(q)
            /\ Artifacts(r)' = Artifacts(r) \cup
                 (IF event \in {"write", "finalize"} THEN {CallStep(r)} ELSE {})
        BY <1>2, <3>2, <4>1, CommitArtifacts
      <4>3. Artifacts(r)' = Artifacts(r)
        BY <4>1, <4>2
      <4>4. QED
        BY <4>2, <4>3 DEF SameArtifacts
    <3>3. QED
      BY <3>1, <3>2
  <2>2. QED
    BY <1>2, <2>1, PromiseStutter DEF CommitTool
<1>3. ASSUME NEW event \in {"write", "finalize"}, NEW next,
             CommitTool(r, event, next), tool[r] = "operate",
             finalized' \in {finalized, finalized \cup {r}},
             finalized' # finalized => HasItems(r)
      PROVE  [Promise!Next]_Promise!promise
  <2>1. /\ \A q \in RunIds \ {r} : Artifacts(q)' = Artifacts(q)
        /\ Artifacts(r)' = Artifacts(r) \cup {CallStep(r)}
        /\ CallStep(r) \notin Artifacts(r)
    BY <1>3, CommitArtifacts DEF Events
  <2>2. MayWrite(r)
    BY <1>3 DEF CommitTool, RunInv, ToolInv
  <2>3. finalized' # finalized => Artifacts(r) # {}
    BY <1>3 DEF HasItems, Recorded, Artifacts
  <2>4. QED
    BY <1>3, <2>1, <2>2, <2>3, PromiseWrite DEF CommitTool
<1>4. CASE InvokeTool(r) \/ LockRun(r) \/ RefuseTool(r) \/ RollBack(r)
  BY <1>1, <1>4 DEF InvokeTool, LockRun, RefuseTool, RollBack
<1>5. CASE BeginStep(r)
  BY <1>2, <1>5 DEF BeginStep, Events
<1>6. CASE RecordDenial(r)
  <2>1. SameArtifacts
    BY <1>6, RecordKeepsArtifacts DEF RecordDenial, Events, SameArtifacts
  <2>2. QED
    BY <1>6, <2>1, PromiseStutter DEF RecordDenial
<1>7. CASE Operation(r)
  BY <1>2, <1>3, <1>7 DEF Operation, Events
<1>8. CASE FinalizeDraft(r)
  BY <1>3, <1>8 DEF FinalizeDraft
<1>9. CASE FailStep(r)
  BY <1>2, <1>9 DEF FailStep, Events
<1>10. QED
  BY <1>4, <1>5, <1>6, <1>7, <1>8, <1>9 DEF ToolStep

(* Every step of the system is a step of RunPromise or leaves it alone.    *)
LEMMA StepPromise ==
  ASSUME TypeOK, RunInv, [Next]_vars
  PROVE  [Promise!Next]_Promise!promise
<1> USE DEF database, jobs, clients, tools, budgets
<1>1. ASSUME UNCHANGED <<outcome, finalized, steps>>
      PROVE  [Promise!Next]_Promise!promise
  BY <1>1, PromiseStutter DEF SameArtifacts, Artifacts
<1>2. ASSUME NEW r \in RunIds, JobStep(r) \/ PersistFails(r)
      PROVE  [Promise!Next]_Promise!promise
  <2>1. CASE PrepareFinish(r)
    <3>1. SameArtifacts
      BY <2>1, RecordKeepsArtifacts
         DEF PrepareFinish, Events, SameArtifacts, Artifacts
    <3>2. QED
      BY <2>1, <3>1, PromiseStutter DEF PrepareFinish
  <2>2. CASE JobFinish(r)
    BY <2>2, FinishPromise DEF JobFinish, RunInv, JobInv, TypeOK
  <2>3. CASE JobReportTraceFailure(r)
    BY <2>3, ReportPromise DEF JobReportTraceFailure
  <2>4. CASE WorkerReturns(r) \/ WorkerTimesOut(r) \/ JobExport(r) \/ PersistFails(r)
    BY <1>1, <2>4
       DEF WorkerReturns, WorkerTimesOut, StopWork, JobExport, PersistFails
  <2>5. QED
    BY <1>2, <2>1, <2>2, <2>3, <2>4 DEF JobStep
<1>3. ASSUME NEW c \in Clients, Arrive(c) \/ ClientStep(c) \/ ClientFails(c)
      PROVE  [Promise!Next]_Promise!promise
  <2>1. clientPc[c] \in {"mark", "flag"} => clientRun[c] \in RunIds
    BY DEF RunInv, ClientInv, Reserved
  <2>2. CASE Reserve(c)
    <3> DEFINE r == Cardinality(Reserved) + 1
    <3>1. r \in RunIds => outcome[r] = "absent"
      BY NextRunIsNew DEF RunInv
    <3> HIDE DEF r
    <3>2. ASSUME r \in RunIds, NoActiveRun,
                 outcome' = [outcome EXCEPT ![r] = "running"],
                 Record(r, "job_start")
          PROVE  [Promise!Next]_Promise!promise
      <4>1. SameArtifacts
        BY <3>2, RecordKeepsArtifacts DEF Events, SameArtifacts
      <4>2. QED
        BY <2>2, <3>1, <3>2, <4>1, PromiseReserve DEF Reserve
    <3>3. QED
      BY <1>1, <2>2, <3>2 DEF Reserve, r
  <2>3. CASE ClientFinish(c)
    <3>1. ClientResult(c) \in Results \ {"none"}
      BY DEF ClientResult, Results
    <3>2. QED
      BY <2>1, <2>3, <3>1, FinishPromise DEF ClientFinish
  <2>4. CASE ClientReportTraceFailure(c)
    BY <2>1, <2>4, ReportPromise DEF ClientReportTraceFailure
  <2>5. CASE Arrive(c) \/ LockCase(c) \/ ClientExport(c) \/ Dispatch(c) \/ ClientFails(c)
    BY <1>1, <2>5 DEF Arrive, LockCase, ClientExport, Dispatch, ClientFails
  <2>6. QED
    BY <1>3, <2>2, <2>3, <2>4, <2>5 DEF ClientStep
<1>4. ASSUME StartServer \/ Crash \/ Shutdown \/ Exit \/ \E r \in RunIds : Expire(r)
      PROVE  [Promise!Next]_Promise!promise
  BY <1>1, <1>4 DEF StartServer, Crash, Shutdown, Exit, Expire, LoseProcess
<1>5. CASE UNCHANGED vars
  BY <1>1, <1>5 DEF vars
<1>6. CASE Next
  BY <1>2, <1>3, <1>4, <1>6, ToolPromise DEF Next
<1>7. QED
  BY <1>5, <1>6

-----------------------------------------------------------------------------
(* The theorems.                                                           *)

(* RunLifecycle implements RunPromise, for any number of requests, runs,   *)
(* faults and stops.                                                       *)
THEOREM Implements == Spec => KeepsPromise
<1>1. Init => Promise!Init
  <2>1. ASSUME Init, NEW r \in RunIds
        PROVE  Artifacts(r) = {}
    BY <2>1 DEF Init, Artifacts
  <2>2. QED
    BY <2>1 DEF Init, Promise!Init, Promise!Runs, RunIds
<1>2. TypeOK /\ RunInv /\ [Next]_vars => [Promise!Next]_Promise!promise
  BY StepPromise
<1>3. QED
  BY <1>1, <1>2, RunInvariant, PTL DEF Spec, KeepsPromise, Promise!Spec

(* The artifacts of a version change only while its run is running and the *)
(* version is not finalized (`AgentToolGateway.locked`).                   *)
THEOREM Fenced == Spec => WritesAreFenced
<1> DEFINE Fence == \A r \in RunIds :
                      Artifacts(r)' # Artifacts(r) => Running(r) /\ r \notin finalized
<1>1. ASSUME UNCHANGED Promise!promise, NEW r \in RunIds
      PROVE  Artifacts(r)' = Artifacts(r)
  <2> DEFINE c == [q \in RunIds |-> Artifacts(q)]
  <2>1. c' = c
    BY <1>1 DEF Promise!promise
  <2>2. c'[r] = c[r]
    BY <2>1
  <2>3. QED
    BY <2>2
<1>2. ASSUME Promise!Next, NEW r \in RunIds, Artifacts(r)' # Artifacts(r)
      PROVE  Running(r) /\ r \notin finalized
  <2> DEFINE c == [q \in RunIds |-> Artifacts(q)]
  <2>1. c'[r] # c[r]
    BY <1>2
  <2>2. PICK s \in RunIds : \/ Promise!Reserve(s) \/ Promise!Write(s)
                            \/ Promise!End(s) \/ Promise!Withdraw(s)
    BY <1>2 DEF Promise!Next, Promise!Runs, RunIds
  <2>3. c' # c
    BY <2>1
  <2>4. Promise!Write(s)
    BY <2>2, <2>3 DEF Promise!Reserve, Promise!End, Promise!Withdraw
  <2>5. s = r
    BY <2>1, <2>4 DEF Promise!Write
  <2>6. QED
    BY <2>4, <2>5 DEF Promise!Write, Promise!Open, Running
<1>3. TypeOK /\ RunInv /\ [Next]_vars => [Fence]_vars
  BY <1>1, <1>2, StepPromise
<1>4. QED
  BY <1>3, RunInvariant, PTL DEF Spec, WritesAreFenced

(* At most one run of a case is running, and no request reaches the        *)
(* insertion of `reserve` while one is.                                    *)
THEOREM OneRun == Spec => []SingleRunning
<1> DEFINE One == \A r, s \in RunIds : Running(r) /\ Running(s) => r = s
<1>1. Init => One
  BY DEF Init, Running
<1>2. ASSUME TypeOK, One, [Promise!Next]_Promise!promise
      PROVE  One'
  <2>1. CASE UNCHANGED Promise!promise
    BY <1>2, <2>1 DEF Promise!promise, Running
  <2>2. ASSUME NEW s \in RunIds,
               \/ Promise!Reserve(s) \/ Promise!Write(s)
               \/ Promise!End(s) \/ Promise!Withdraw(s)
        PROVE  One'
    BY <1>2, <2>2 DEF Running, TypeOK, RunIds, Promise!Runs,
       Promise!Reserve, Promise!Write, Promise!End, Promise!Withdraw
  <2>3. QED
    BY <1>2, <2>1, <2>2 DEF Promise!Next, Promise!Runs, RunIds
<1>3. TypeOK /\ RunInv /\ One /\ [Next]_vars => One'
  BY <1>2, StepPromise
<1>4. TypeOK /\ RunInv /\ One => SingleRunning
  BY DEF RunInv, ClientInv, SingleRunning
<1>5. QED
  BY <1>1, <1>3, <1>4, RunInvariant, PTL DEF Spec

(* Only a trace failure that is reported for the first time changes the    *)
(* outcome of an ended run, and only from success to failed.               *)
LEMMA EndedChange ==
  ASSUME TypeOK, RunInv, [Next]_vars, NEW r \in RunIds,
         outcome[r] \in Ended, outcome'[r] # outcome[r]
  PROVE  /\ outcome[r] = "success" /\ outcome'[r] = "failed"
         /\ r \in traceFailed' \ traceFailed
<1> USE DEF database, jobs, clients, tools, budgets
<1>1. ASSUME NEW s \in RunIds, NEW starting \in BOOLEAN,
             ReportTraceFailure(s, starting)
      PROVE  /\ outcome[r] = "success" /\ outcome'[r] = "failed"
             /\ r \in traceFailed' \ traceFailed
  BY <1>1 DEF ReportTraceFailure, OutcomeUntraced, Running, Ended, TypeOK
<1>2. ASSUME NEW s \in RunIds, NEW result \in Results, FinishRun(s, result)
      PROVE  FALSE
  BY <1>2 DEF FinishRun, Running, Ended, TypeOK
<1>3. ASSUME NEW s \in RunIds, ToolStep(s)
      PROVE  FALSE
  BY <1>3 DEF ToolStep, InvokeTool, LockRun, RefuseTool, RollBack, BeginStep,
              RecordDenial, Operation, FinalizeDraft, FailStep, CommitTool
<1>4. ASSUME NEW s \in RunIds, JobStep(s) \/ PersistFails(s)
      PROVE  JobReportTraceFailure(s)
  <2>1. ~JobFinish(s)
    BY <1>2 DEF JobFinish, TypeOK
  <2>2. QED
    BY <1>4, <2>1 DEF JobStep, WorkerReturns, WorkerTimesOut, StopWork,
                      PrepareFinish, JobExport, PersistFails
<1>5. ASSUME NEW c \in Clients, Arrive(c) \/ ClientStep(c) \/ ClientFails(c)
      PROVE  ClientReportTraceFailure(c) /\ clientRun[c] \in RunIds
  <2>1. clientPc[c] \in {"mark", "flag"} => clientRun[c] \in RunIds
    BY DEF RunInv, ClientInv, Reserved
  <2>2. ~ClientFinish(c)
    <3>1. ClientResult(c) \in Results
      BY DEF ClientResult, Results
    <3>2. QED
      BY <1>2, <2>1, <3>1 DEF ClientFinish
  <2>3. ~Reserve(c)
    <3> DEFINE s == Cardinality(Reserved) + 1
    <3>1. s \in RunIds => outcome[s] = "absent"
      BY NextRunIsNew DEF RunInv
    <3> HIDE DEF s
    <3>2. s \in RunIds /\ outcome' = [outcome EXCEPT ![s] = "running"] => FALSE
      BY <3>1 DEF TypeOK, Ended
    <3>3. QED
      BY <3>2 DEF Reserve, s
  <2>4. QED
    BY <1>5, <2>1, <2>2, <2>3
       DEF ClientStep, Arrive, LockCase, ClientExport, Dispatch, ClientFails,
           ClientReportTraceFailure
<1>6. ASSUME StartServer \/ Crash \/ Shutdown \/ Exit \/ \E s \in RunIds : Expire(s)
      PROVE  FALSE
  BY <1>6 DEF StartServer, Crash, Shutdown, Exit, Expire, LoseProcess
<1>7. \/ \E s \in RunIds : JobReportTraceFailure(s)
      \/ \E c \in Clients : ClientReportTraceFailure(c) /\ clientRun[c] \in RunIds
  BY <1>3, <1>4, <1>5, <1>6 DEF Next, vars
<1>8. QED
  BY <1>1, <1>7 DEF JobReportTraceFailure, ClientReportTraceFailure

(* A run ends once (`finish`, `_export_or_fail`).                          *)
THEOREM EndedOnce == Spec => EndsOnce
<1> DEFINE Kept == \A r \in RunIds :
                     outcome[r] \in Ended /\ outcome'[r] # outcome[r] =>
                       /\ outcome[r] = "success" /\ outcome'[r] = "failed"
                       /\ r \in traceFailed' \ traceFailed
<1>1. TypeOK /\ RunInv /\ [Next]_vars => [Kept]_vars
  BY EndedChange
<1>2. QED
  BY <1>1, RunInvariant, PTL DEF Spec, EndsOnce
=============================================================================
