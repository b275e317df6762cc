--------------------------- MODULE RunTraceProofs ---------------------------
(***************************************************************************)
(* Proofs about the trace of a run: that it tells when and how the run has *)
(* ended, in a well-formed order, that the file agrees with it, and that a *)
(* success is clean.  RunInv does not say enough: the trace of a run that  *)
(* is being launched is its first event, and a run whose interruption is   *)
(* recorded has no tool call any more that could commit.                   *)
(***************************************************************************)
EXTENDS RunLifecycleProofs

Interrupted(r) == Recorded(r, "job_interrupted")

(* A client that has reserved a run and not yet given it to a job.         *)
Launching(c) ==
  clientPc[c] \in {"export", "flag", "dispatch"} /\ clientGoal[c] = "launch"

Launched(c) ==
  /\ clientPc[c] = "dispatch" => clientGoal[c] = "launch"
  /\ clientPc[c] = "mark" => clientGoal[c] # "launch"
  /\ Launching(c) =>
       /\ jobPc[clientRun[c]] = "none" /\ tool[clientRun[c]] = "idle"
       /\ Running(clientRun[c]) => steps[clientRun[c]] = <<"job_start">>
       /\ \A d \in Clients : Launching(d) /\ clientRun[d] = clientRun[c] => d = c

LaunchInv == \A c \in Clients : Launched(c)

(* A run whose interruption is recorded has no call that could commit.     *)
Stopped(r) ==
  Running(r) /\ Interrupted(r) =>
    /\ r \notin held /\ jobPc[r] # "work" /\ jobResult[r] # "completed"
    /\ r \in closed \/ tool[r] = "idle"

InterruptInv == \A r \in RunIds : Stopped(r)

CtlInv == LaunchInv /\ InterruptInv

(* What is said of the database and the file of one run: the first event,  *)
(* the artifacts of a finalized version, and the four properties.          *)
Begun(r) ==
  /\ outcome[r] = "absent" => steps[r] = <<>> /\ file[r] = <<>>
  /\ outcome[r] # "absent" => steps[r] # <<>> /\ steps[r][1] = "job_start"
  /\ Running(r) => Len(file[r]) <= 1

Sealed(r) == r \in finalized => Recorded(r, "write") /\ Recorded(r, "finalize")

EndRecorded(r) ==
  /\ outcome[r] \in Ended <=>
       Recorded(r, "job_finish") \/ Recorded(r, "job_trace_failure")
  /\ r \in traceFailed <=> Recorded(r, "job_trace_failure")

Ordered(r) ==
  \A i, j \in 1..Len(steps[r]) : i < j => steps[r][j] \in Follows(steps[r][i])

Prefix(r) ==
  /\ Len(file[r]) <= Len(steps[r])
  /\ \A i \in 1..Len(file[r]) : file[r][i] = steps[r][i]

Clean(r) ==
  outcome[r] = "success" =>
    /\ r \in finalized \ traceFailed
    /\ Recorded(r, "write") /\ Recorded(r, "finalize")
    /\ Recorded(r, "job_finish") /\ ~Recorded(r, "job_interrupted")

RunData(r) ==
  Begun(r) /\ Sealed(r) /\ EndRecorded(r) /\ Ordered(r) /\ Prefix(r) /\ Clean(r)

DataInv == \A r \in RunIds : RunData(r)

-----------------------------------------------------------------------------
(* What a step does to the database and the files of one run.              *)

db == <<outcome, finalized, steps, traceFailed>>

Starts(r) ==
  /\ outcome[r] = "absent"
  /\ outcome' = [outcome EXCEPT ![r] = "running"]
  /\ Record(r, "job_start")
  /\ UNCHANGED <<finalized, traceFailed, file>>

Calls(r) ==
  /\ MayWrite(r) /\ ~Interrupted(r)
  /\ \E e \in {"pending", "guardrail_denied"} : Record(r, e)
  /\ UNCHANGED <<outcome, finalized, traceFailed, file>>

Completes(r) ==
  /\ MayWrite(r) /\ ~Interrupted(r) /\ Pending(r)
  /\ \E e \in {"read", "write", "error", "finalize"} :
       /\ steps' = [steps EXCEPT ![r][CallStep(r)] = e]
       /\ finalized' = IF e = "finalize" THEN finalized \cup {r} ELSE finalized
       /\ e = "finalize" => Recorded(r, "write")
  /\ UNCHANGED <<outcome, traceFailed, file>>

Interrupts(r) ==
  /\ Running(r) /\ ~Interrupted(r)
  /\ Record(r, "job_interrupted")
  /\ UNCHANGED <<outcome, finalized, traceFailed, file>>

Ends(r) ==
  /\ Running(r)
  /\ \E o \in Ended :
       /\ o = "success" => r \in finalized /\ ~Interrupted(r)
       /\ outcome' = [outcome EXCEPT ![r] = o]
  /\ Record(r, "job_finish")
  /\ UNCHANGED <<finalized, traceFailed, file>>

LosesTrace(r) ==
  /\ outcome[r] # "absent" /\ r \notin traceFailed
  /\ \E o \in Ended \ {"success"} : outcome' = [outcome EXCEPT ![r] = o]
  /\ traceFailed' = traceFailed \cup {r}
  /\ Record(r, "job_trace_failure")
  /\ UNCHANGED <<finalized, file>>

Exports(r) ==
  /\ outcome[r] # "absent"
  /\ Running(r) => steps[r] = <<"job_start">>
  /\ file' = [file EXCEPT ![r] = steps[r]]
  /\ UNCHANGED db

Effect(r) ==
  \/ Starts(r) \/ Calls(r) \/ Completes(r) \/ Interrupts(r) \/ Ends(r)
  \/ LosesTrace(r) \/ Exports(r)

NoEffect == UNCHANGED <<db, file>>

-----------------------------------------------------------------------------
(* Events recorded and replaced.                                           *)

LEMMA RecordEffect ==
  ASSUME TypeOK, NEW r \in RunIds, NEW e \in Events, Record(r, e)
  PROVE  /\ Len(steps[r]) \in Nat
         /\ Len(steps'[r]) = Len(steps[r]) + 1
         /\ \A i \in 1..Len(steps[r]) : steps'[r][i] = steps[r][i]
         /\ steps'[r][Len(steps[r]) + 1] = e
         /\ \A q \in RunIds \ {r} : steps'[q] = steps[q]
         /\ \A f : Recorded(r, f)' <=> Recorded(r, f) \/ f = e
<1>1. /\ steps'[r] = Append(steps[r], e)
      /\ \A q \in RunIds \ {r} : steps'[q] = steps[q]
      /\ steps[r] \in Seq(Events)
  BY DEF Record, TypeOK
<1>2. Len(steps[r]) \in Nat
  BY <1>1, LenProperties
<1>3. /\ Len(steps'[r]) = Len(steps[r]) + 1
      /\ \A i \in 1..Len(steps[r]) : steps'[r][i] = steps[r][i]
      /\ steps'[r][Len(steps[r]) + 1] = e
  BY <1>1, AppendProperties
<1>4. 1..(Len(steps[r]) + 1) = 1..Len(steps[r]) \cup {Len(steps[r]) + 1}
  BY <1>2
<1>5. ASSUME NEW f
      PROVE  Recorded(r, f)' <=> Recorded(r, f) \/ f = e
  BY <1>3, <1>4 DEF Recorded
<1>6. QED
  BY <1>1, <1>2, <1>3, <1>5

LEMMA CompleteEffect ==
  ASSUME TypeOK, NEW r \in RunIds, NEW e \in Events, Pending(r),
         steps' = [steps EXCEPT ![r][CallStep(r)] = e]
  PROVE  /\ CallStep(r) \in 1..Len(steps[r]) /\ Len(steps[r]) \in Nat
         /\ Len(steps'[r]) = Len(steps[r])
         /\ \A i \in 1..Len(steps[r]) :
              /\ steps'[r][i] = IF i = CallStep(r) THEN e ELSE steps[r][i]
              /\ i > CallStep(r) => steps[r][i] = "guardrail_denied"
         /\ \A q \in RunIds \ {r} : steps'[q] = steps[q]
         /\ \A f : f # "pending" =>
              (Recorded(r, f)' <=> Recorded(r, f) \/ f = e)
<1> DEFINE t == [steps[r] EXCEPT ![CallStep(r)] = e]
<1>1. /\ steps'[r] = t
      /\ \A q \in RunIds \ {r} : steps'[q] = steps[q]
      /\ steps[r] \in Seq(Events)
  BY DEF TypeOK
<1>2. /\ Len(t) = Len(steps[r])
      /\ \A i \in 1..Len(steps[r]) :
           t[i] = IF i = CallStep(r) THEN e ELSE steps[r][i]
  BY <1>1, ReplaceStep
<1> HIDE DEF t
<1>3. /\ CallStep(r) \in 1..Len(steps[r]) /\ Len(steps[r]) \in Nat
      /\ steps[r][CallStep(r)] = "pending"
      /\ \A i \in 1..Len(steps[r]) :
           i > CallStep(r) => steps[r][i] = "guardrail_denied"
  BY CallStepPending
<1>4. ASSUME NEW f, f # "pending"
      PROVE  Recorded(r, f)' <=> Recorded(r, f) \/ f = e
  BY <1>1, <1>2, <1>3, <1>4 DEF Recorded
<1>5. QED
  BY <1>1, <1>2, <1>3, <1>4

-----------------------------------------------------------------------------
(* Every step has one of the effects, or none.                             *)

LEMMA FinishHasEffect ==
  ASSUME TypeOK, NEW r \in RunIds, NEW result \in Results \ {"none"},
         FinishRun(r, result), UNCHANGED file,
         Running(r) /\ Interrupted(r) => result # "completed"
  PROVE  NoEffect \/ Effect(r)
<1>1. CASE ~Running(r)
  BY <1>1 DEF FinishRun, NoEffect, db
<1>2. CASE Running(r)
  <2>1. /\ OutcomeOf(r, result) \in Ended
        /\ OutcomeOf(r, result) = "success" => r \in finalized /\ result = "completed"
    BY DEF OutcomeOf, Results, Ended
  <2>2. Ends(r)
    BY <1>2, <2>1 DEF FinishRun, Ends
  <2>3. QED
    BY <2>2 DEF Effect
<1>3. QED
  BY <1>1, <1>2

LEMMA ReportHasEffect ==
  ASSUME TypeOK, NEW r \in RunIds, NEW starting \in BOOLEAN,
         outcome[r] # "absent", starting \/ outcome[r] \in Ended,
         ReportTraceFailure(r, starting), UNCHANGED file
  PROVE  NoEffect \/ Effect(r)
<1>1. CASE r \in traceFailed
  BY <1>1 DEF ReportTraceFailure, NoEffect, db
<1>2. CASE r \notin traceFailed
  <2>1. OutcomeUntraced(r, starting) \in Ended \ {"success"}
    BY DEF OutcomeUntraced, Running, TypeOK, Outcomes, Ended
  <2>2. LosesTrace(r)
    BY <1>2, <2>1 DEF ReportTraceFailure, LosesTrace
  <2>3. QED
    BY <2>2 DEF Effect
<1>3. QED
  BY <1>1, <1>2

LEMMA ToolHasEffect ==
  ASSUME TypeOK, RunInv, CtlInv, NEW r \in RunIds, ToolStep(r)
  PROVE  NoEffect \/ Effect(r)
<1> USE DEF database, jobs, clients, tools, budgets
<1>1. CASE InvokeTool(r) \/ LockRun(r) \/ RefuseTool(r) \/ RollBack(r)
  BY <1>1 DEF InvokeTool, LockRun, RefuseTool, RollBack, NoEffect, db
<1>2. ASSUME NEW event, NEW next, CommitTool(r, event, next)
      PROVE  MayWrite(r) /\ ~Interrupted(r) /\ UNCHANGED <<outcome, traceFailed, file>>
  BY <1>2 DEF CommitTool, RunInv, ToolInv, CtlInv, InterruptInv, Stopped, MayWrite
<1>3. ASSUME NEW next, CommitTool(r, "pending", next), tool[r] = "begin",
             UNCHANGED finalized
      PROVE  Effect(r)
  <2>1. Calls(r)
    BY <1>2, <1>3 DEF CommitTool, Calls
  <2>2. QED
    BY <2>1 DEF Effect
<1>4. ASSUME NEW event \in {"read", "write", "error", "finalize"}, NEW next,
             CommitTool(r, event, next), tool[r] \in {"operate", "fail"},
             finalized' = IF event = "finalize" THEN finalized \cup {r} ELSE finalized,
             event = "finalize" => Recorded(r, "write")
      PROVE  Effect(r)
  <2>1. Pending(r)
    BY <1>4 DEF CommitTool, RunInv, ToolInv
  <2>2. steps' = [steps EXCEPT ![r][CallStep(r)] = event]
    BY <1>4 DEF CommitTool
  <2>3. Completes(r)
    BY <1>2, <1>4, <2>1, <2>2 DEF Completes
  <2>4. QED
    BY <2>3 DEF Effect
<1>5. CASE BeginStep(r)
  BY <1>3, <1>5 DEF BeginStep
<1>6. CASE RecordDenial(r)
  <2>1. ~Interrupted(r)
    BY <1>6 DEF RecordDenial, CtlInv, InterruptInv, Stopped, MayWrite
  <2>2. Calls(r)
    BY <1>6, <2>1 DEF RecordDenial, Calls
  <2>3. QED
    BY <2>2 DEF Effect
<1>7. CASE Operation(r)
  BY <1>4, <1>7 DEF Operation
<1>8. CASE FinalizeDraft(r)
  BY <1>4, <1>8 DEF FinalizeDraft, HasItems
<1>9. CASE FailStep(r)
  BY <1>4, <1>9 DEF FailStep
<1>10. QED
  BY <1>1, <1>5, <1>6, <1>7, <1>8, <1>9 DEF ToolStep

LEMMA JobHasEffect ==
  ASSUME TypeOK, RunInv, CtlInv, NEW r \in RunIds, JobStep(r) \/ PersistFails(r)
  PROVE  NoEffect \/ Effect(r)
<1> USE DEF database, jobs, clients, tools, budgets
<1>1. CASE WorkerReturns(r) \/ WorkerTimesOut(r) \/ PersistFails(r)
  BY <1>1 DEF WorkerReturns, WorkerTimesOut, StopWork, PersistFails, NoEffect, db
<1>2. CASE PrepareFinish(r)
  <2>1. Interrupts(r) \/ NoEffect
    BY <1>2 DEF PrepareFinish, InterruptionDue, Interrupted, Interrupts, NoEffect, db
  <2>2. QED
    BY <2>1 DEF Effect
<1>3. CASE JobFinish(r)
  <2>1. jobResult[r] \in Results \ {"none"}
    BY <1>3 DEF JobFinish, RunInv, JobInv, TypeOK
  <2>2. Running(r) /\ Interrupted(r) => jobResult[r] # "completed"
    BY DEF CtlInv, InterruptInv, Stopped
  <2>3. QED
    BY <1>3, <2>1, <2>2, FinishHasEffect DEF JobFinish
<1>4. CASE JobExport(r)
  <2>1. outcome[r] \in Ended
    BY <1>4 DEF JobExport, RunInv, JobInv
  <2>2. NoEffect \/ Exports(r)
    BY <1>4, <2>1 DEF JobExport, WriteTrace, NoEffect, Exports, db, Running, Ended
  <2>3. QED
    BY <2>2 DEF Effect
<1>5. CASE JobReportTraceFailure(r)
  <2>1. outcome[r] \in Ended /\ outcome[r] # "absent"
    BY <1>5 DEF JobReportTraceFailure, RunInv, JobInv, Ended
  <2>2. QED
    BY <1>5, <2>1, ReportHasEffect DEF JobReportTraceFailure
<1>6. QED
  BY <1>1, <1>2, <1>3, <1>4, <1>5 DEF JobStep

LEMMA ClientHasEffect ==
  ASSUME TypeOK, RunInv, CtlInv, NEW c \in Clients,
         Arrive(c) \/ ClientStep(c) \/ ClientFails(c)
  PROVE  NoEffect \/ \E r \in RunIds : Effect(r)
<1> USE DEF database, jobs, clients, tools, budgets
<1>1. CASE Arrive(c) \/ LockCase(c) \/ Dispatch(c) \/ ClientFails(c)
  BY <1>1 DEF Arrive, LockCase, Dispatch, ClientFails, NoEffect, db
<1>2. CASE Reserve(c)
  <2> DEFINE r == Cardinality(Reserved) + 1
  <2>1. r \in RunIds => outcome[r] = "absent"
    BY NextRunIsNew DEF RunInv
  <2> HIDE DEF r
  <2>2. NoEffect \/ (r \in RunIds /\ Starts(r))
    BY <1>2, <2>1 DEF Reserve, r, NoEffect, db, Starts
  <2>3. QED
    BY <2>2 DEF Effect
<1>3. clientPc[c] \in {"mark", "export", "flag"} =>
        clientRun[c] \in RunIds /\ outcome[clientRun[c]] # "absent"
  BY DEF RunInv, ClientInv, Reserved
<1>4. CASE ClientFinish(c)
  <2>1. ClientResult(c) \in Results \ {"none", "completed"}
    BY DEF ClientResult, Results
  <2>2. QED
    BY <1>3, <1>4, <2>1, FinishHasEffect DEF ClientFinish
<1>5. CASE ClientExport(c)
  <2>1. Running(clientRun[c]) => steps[clientRun[c]] = <<"job_start">>
    BY <1>5 DEF ClientExport, RunInv, ClientInv, CtlInv, LaunchInv, Launched, Launching,
                Running, Ended
  <2>2. NoEffect \/ Exports(clientRun[c])
    BY <1>3, <1>5, <2>1 DEF ClientExport, WriteTrace, NoEffect, Exports, db
  <2>3. QED
    BY <1>3, <1>5, <2>2 DEF Effect, ClientExport
<1>6. CASE ClientReportTraceFailure(c)
  <2>1. clientGoal[c] = "launch" \/ outcome[clientRun[c]] \in Ended
    BY <1>6 DEF ClientReportTraceFailure, RunInv, ClientInv
  <2>2. QED
    BY <1>3, <1>6, <2>1, ReportHasEffect DEF ClientReportTraceFailure
<1>7. QED
  BY <1>1, <1>2, <1>4, <1>5, <1>6 DEF ClientStep

LEMMA StepHasEffect ==
  ASSUME TypeOK, RunInv, CtlInv, [Next]_vars
  PROVE  NoEffect \/ \E r \in RunIds : Effect(r)
<1> USE DEF database, jobs, clients, tools, budgets, NoEffect, db
<1>1. CASE StartServer \/ Crash \/ Shutdown \/ Exit \/ \E r \in RunIds : Expire(r)
  BY <1>1 DEF StartServer, Crash, Shutdown, Exit, Expire, LoseProcess
<1>2. CASE UNCHANGED vars
  BY <1>2 DEF vars
<1>3. CASE Next
  <2> USE DEF NoEffect
  <2>1. QED
    BY <1>1, <1>3, ToolHasEffect, JobHasEffect, ClientHasEffect DEF Next
<1>4. QED
  BY <1>2, <1>3

-----------------------------------------------------------------------------
(* The effects keep what is said of the database and the files.            *)

(* An effect on one run leaves the others alone.                           *)
LEMMA OthersKeep ==
  ASSUME TypeOK, NEW r \in RunIds, Effect(r), NEW q \in RunIds \ {r}, RunData(q)
  PROVE  RunData(q)'
<1>1. /\ steps'[q] = steps[q] /\ outcome'[q] = outcome[q] /\ file'[q] = file[q]
      /\ (q \in finalized)' = (q \in finalized)
      /\ (q \in traceFailed)' = (q \in traceFailed)
  BY DEF Effect, Starts, Calls, Completes, Interrupts, Ends, LosesTrace, Exports,
         db, Record, TypeOK
<1>2. Begun(q)' /\ EndRecorded(q)' /\ Sealed(q)' /\ Clean(q)'
  BY <1>1 DEF RunData, Begun, EndRecorded, Sealed, Clean, Recorded, Running
<1>3. Ordered(q)' /\ Prefix(q)'
  BY <1>1 DEF RunData, Ordered, Prefix
<1>4. QED
  BY <1>2, <1>3 DEF RunData

(* An event appended where it may follow the others keeps the order; and   *)
(* the file is still a prefix.                                             *)
LEMMA RecordKeepsOrder ==
  ASSUME TypeOK, NEW r \in RunIds, NEW e \in Events, Record(r, e),
         RunData(r), UNCHANGED file,
         \A i \in 1..Len(steps[r]) : e \in Follows(steps[r][i])
  PROVE  Ordered(r)' /\ Prefix(r)'
<1>1. /\ Len(steps[r]) \in Nat
      /\ Len(steps'[r]) = Len(steps[r]) + 1
      /\ \A i \in 1..Len(steps[r]) : steps'[r][i] = steps[r][i]
      /\ steps'[r][Len(steps[r]) + 1] = e
  BY RecordEffect
<1>2. Ordered(r)'
  <2>1. SUFFICES ASSUME NEW i \in 1..Len(steps[r]) + 1, NEW j \in 1..Len(steps[r]) + 1, i < j
                 PROVE  steps'[r][j] \in Follows(steps'[r][i])
    BY <1>1 DEF Ordered, Follows
  <2>2. i \in 1..Len(steps[r]) /\ steps'[r][i] = steps[r][i]
    BY <1>1, <2>1
  <2>3. CASE j = Len(steps[r]) + 1
    BY <1>1, <2>2, <2>3
  <2>4. CASE j # Len(steps[r]) + 1
    <3>1. j \in 1..Len(steps[r]) /\ steps'[r][j] = steps[r][j]
      BY <1>1, <2>4
    <3>2. QED
      BY <2>1, <2>2, <3>1 DEF RunData, Ordered
  <2>5. QED
    BY <2>3, <2>4
<1>3. Len(file[r]) \in Nat
  BY LenProperties DEF TypeOK
<1>4. Prefix(r)'
  BY <1>1, <1>3 DEF RunData, Prefix
<1>5. QED
  BY <1>2, <1>4

(* No event but the first is a start, and an event that is not recorded is *)
(* nowhere.                                                                *)
LEMMA MayFollow ==
  ASSUME NEW r \in RunIds, TypeOK, NEW i \in 1..Len(steps[r])
  PROVE  /\ "job_trace_failure" \in Follows(steps[r][i])
              <=> steps[r][i] # "job_trace_failure"
         /\ ~Recorded(r, "job_trace_failure") /\ ~Recorded(r, "job_finish") =>
              "job_finish" \in Follows(steps[r][i])
         /\ ~Recorded(r, "job_trace_failure") /\ ~Recorded(r, "job_finish")
              /\ ~Recorded(r, "job_interrupted") =>
              \A e \in Events \ {"job_start"} : e \in Follows(steps[r][i])
BY DEF Follows, Recorded, Events

LEMMA StartsKeep ==
  ASSUME TypeOK, NEW r \in RunIds, Starts(r), RunData(r)
  PROVE  RunData(r)'
<1>1. /\ outcome'[r] = "running" /\ steps[r] = <<>> /\ file[r] = <<>>
      /\ file' = file /\ r \notin traceFailed /\ r \notin finalized
      /\ \A f : ~Recorded(r, f)
  BY DEF Starts, RunData, Begun, EndRecorded, Sealed, Recorded, TypeOK
<1>2. /\ steps'[r] = <<"job_start">> /\ Len(steps'[r]) = 1
  BY <1>1 DEF Starts, Record, TypeOK
<1>3. \A f : Recorded(r, f)' <=> f = "job_start"
  BY <1>2 DEF Recorded
<1>4. Begun(r)' /\ EndRecorded(r)' /\ Sealed(r)' /\ Clean(r)'
  BY <1>1, <1>2, <1>3 DEF Begun, EndRecorded, Sealed, Clean, Running, Ended, Starts
<1>5. Ordered(r)' /\ Prefix(r)'
  BY <1>1, <1>2 DEF Ordered, Prefix
<1>6. QED
  BY <1>4, <1>5 DEF RunData

LEMMA RecordKeepsBeginning ==
  ASSUME TypeOK, NEW r \in RunIds, NEW e \in Events, Record(r, e), RunData(r),
         UNCHANGED file, outcome[r] # "absent", outcome'[r] # "absent",
         Running(r)' => Running(r)
  PROVE  Begun(r)'
<1>1. /\ Len(steps[r]) \in Nat /\ Len(steps'[r]) = Len(steps[r]) + 1
      /\ \A i \in 1..Len(steps[r]) : steps'[r][i] = steps[r][i]
  BY RecordEffect
<1>2. Len(steps[r]) \in Nat \ {0} /\ steps[r][1] = "job_start"
  BY <1>1, EmptySeq DEF RunData, Begun, TypeOK
<1>3. steps'[r] # <<>> /\ steps'[r][1] = "job_start"
  BY <1>1, <1>2
<1>4. QED
  BY <1>3 DEF RunData, Begun

LEMMA CallsKeep ==
  ASSUME TypeOK, NEW r \in RunIds, Calls(r), RunData(r)
  PROVE  RunData(r)'
<1>1. PICK e \in {"pending", "guardrail_denied"} : Record(r, e)
  BY DEF Calls
<1>2. e \in Events /\ e # "job_start"
  BY DEF Events
<1>3. \A f : Recorded(r, f)' <=> Recorded(r, f) \/ f = e
  BY <1>1, <1>2, RecordEffect
<1>4. /\ outcome[r] = "running" /\ outcome' = outcome /\ file' = file
      /\ finalized' = finalized /\ traceFailed' = traceFailed /\ ~Interrupted(r)
  BY DEF Calls, MayWrite, Running
<1>5. ~Recorded(r, "job_finish") /\ ~Recorded(r, "job_trace_failure")
  BY <1>4 DEF RunData, EndRecorded, Ended
<1>6. Begun(r)'
  BY <1>1, <1>2, <1>4, RecordKeepsBeginning DEF Running
<1>7. EndRecorded(r)' /\ Sealed(r)' /\ Clean(r)'
  BY <1>3, <1>4 DEF RunData, EndRecorded, Sealed, Clean
<1>8. \A i \in 1..Len(steps[r]) : e \in Follows(steps[r][i])
  BY <1>2, <1>4, <1>5, MayFollow DEF Interrupted
<1>9. QED
  BY <1>1, <1>2, <1>4, <1>6, <1>7, <1>8, RecordKeepsOrder DEF RunData

LEMMA CompletesKeep ==
  ASSUME TypeOK, NEW r \in RunIds, Completes(r), RunData(r)
  PROVE  RunData(r)'
<1>1. PICK e \in {"read", "write", "error", "finalize"} :
        /\ steps' = [steps EXCEPT ![r][CallStep(r)] = e]
        /\ finalized' = IF e = "finalize" THEN finalized \cup {r} ELSE finalized
        /\ e = "finalize" => Recorded(r, "write")
  BY DEF Completes
<1>2. e \in Events \ {"job_start"} /\ Pending(r)
  BY DEF Events, Completes
<1>3. /\ CallStep(r) \in 1..Len(steps[r]) /\ Len(steps[r]) \in Nat
      /\ Len(steps'[r]) = Len(steps[r])
      /\ \A i \in 1..Len(steps[r]) :
           /\ steps'[r][i] = IF i = CallStep(r) THEN e ELSE steps[r][i]
           /\ i > CallStep(r) => steps[r][i] = "guardrail_denied"
      /\ \A f : f # "pending" => (Recorded(r, f)' <=> Recorded(r, f) \/ f = e)
  BY <1>1, <1>2, CompleteEffect
<1>4. /\ outcome[r] = "running" /\ outcome' = outcome /\ file' = file
      /\ traceFailed' = traceFailed /\ ~Interrupted(r)
  BY DEF Completes, MayWrite, Running
<1>5. ~Recorded(r, "job_finish") /\ ~Recorded(r, "job_trace_failure")
  BY <1>4 DEF RunData, EndRecorded, Ended
<1>6. CallStep(r) > 1 /\ Len(file[r]) <= 1 /\ Len(file[r]) \in Nat
  <2>1. steps[r][1] = "job_start" /\ steps[r][CallStep(r)] = "pending"
    BY <1>2, <1>4, CallStepPending DEF RunData, Begun
  <2>2. QED
    BY <1>3, <1>4, <2>1, LenProperties DEF RunData, Begun, Running, TypeOK
<1>7. Begun(r)'
  <2>1. steps'[r] # <<>> /\ steps'[r][1] = steps[r][1]
    BY <1>3, <1>6
  <2>2. QED
    BY <1>4, <2>1 DEF RunData, Begun, Running
<1>8. EndRecorded(r)' /\ Sealed(r)' /\ Clean(r)'
  BY <1>1, <1>3, <1>4 DEF RunData, EndRecorded, Sealed, Clean
<1>9. \A i \in 1..Len(steps[r]) : e \in Follows(steps[r][i])
  BY <1>2, <1>4, <1>5, MayFollow DEF Interrupted
<1>10. Ordered(r)'
  <2>1. "guardrail_denied" \in Follows(e)
    BY DEF Follows, Events
  <2>2. \A i, j \in 1..Len(steps[r]) : i < j => steps[r][j] \in Follows(steps[r][i])
    BY DEF RunData, Ordered
  <2>3. SUFFICES ASSUME NEW i \in 1..Len(steps[r]), NEW j \in 1..Len(steps[r]), i < j
                 PROVE  steps'[r][j] \in Follows(steps'[r][i])
    BY <1>3 DEF Ordered, Follows
  <2>4. CASE i = CallStep(r)
    BY <1>3, <2>1, <2>3, <2>4
  <2>5. CASE i # CallStep(r)
    BY <1>3, <1>9, <2>2, <2>3, <2>5
  <2>6. QED
    BY <2>4, <2>5
<1>11. Prefix(r)'
  BY <1>3, <1>4, <1>6 DEF RunData, Prefix
<1>12. QED
  BY <1>7, <1>8, <1>10, <1>11 DEF RunData

LEMMA InterruptsKeep ==
  ASSUME TypeOK, NEW r \in RunIds, Interrupts(r), RunData(r)
  PROVE  RunData(r)'
<1>1. Record(r, "job_interrupted") /\ "job_interrupted" \in Events \ {"job_start"}
  BY DEF Interrupts, Events
<1>2. \A f : Recorded(r, f)' <=> Recorded(r, f) \/ f = "job_interrupted"
  BY <1>1, RecordEffect
<1>3. /\ outcome[r] = "running" /\ outcome' = outcome /\ file' = file
      /\ finalized' = finalized /\ traceFailed' = traceFailed /\ ~Interrupted(r)
  BY DEF Interrupts, Running
<1>4. ~Recorded(r, "job_finish") /\ ~Recorded(r, "job_trace_failure")
  BY <1>3 DEF RunData, EndRecorded, Ended
<1>5. Begun(r)'
  BY <1>1, <1>3, RecordKeepsBeginning DEF Running
<1>6. EndRecorded(r)' /\ Sealed(r)' /\ Clean(r)'
  BY <1>2, <1>3 DEF RunData, EndRecorded, Sealed, Clean
<1>7. \A i \in 1..Len(steps[r]) : "job_interrupted" \in Follows(steps[r][i])
  BY <1>1, <1>3, <1>4, MayFollow DEF Interrupted
<1>8. QED
  BY <1>1, <1>3, <1>5, <1>6, <1>7, RecordKeepsOrder DEF RunData

LEMMA EndsKeep ==
  ASSUME TypeOK, NEW r \in RunIds, Ends(r), RunData(r)
  PROVE  RunData(r)'
<1>1. Record(r, "job_finish") /\ "job_finish" \in Events
  BY DEF Ends, Events
<1>2. \A f : Recorded(r, f)' <=> Recorded(r, f) \/ f = "job_finish"
  BY <1>1, RecordEffect
<1>3. /\ outcome[r] = "running" /\ outcome'[r] \in Ended /\ file' = file
      /\ finalized' = finalized /\ traceFailed' = traceFailed
      /\ outcome'[r] = "success" => r \in finalized /\ ~Interrupted(r)
  BY DEF Ends, Running, TypeOK
<1>4. ~Recorded(r, "job_finish") /\ ~Recorded(r, "job_trace_failure")
  BY <1>3 DEF RunData, EndRecorded, Ended
<1>5. Begun(r)'
  BY <1>1, <1>3, RecordKeepsBeginning DEF Running, Ended
<1>6. EndRecorded(r)' /\ Sealed(r)' /\ Clean(r)'
  BY <1>2, <1>3, <1>4 DEF RunData, EndRecorded, Sealed, Clean, Interrupted
<1>7. \A i \in 1..Len(steps[r]) : "job_finish" \in Follows(steps[r][i])
  BY <1>4, MayFollow
<1>8. QED
  BY <1>1, <1>3, <1>5, <1>6, <1>7, RecordKeepsOrder DEF RunData

LEMMA LosesTraceKeeps ==
  ASSUME TypeOK, NEW r \in RunIds, LosesTrace(r), RunData(r)
  PROVE  RunData(r)'
<1>1. Record(r, "job_trace_failure") /\ "job_trace_failure" \in Events
  BY DEF LosesTrace, Events
<1>2. \A f : Recorded(r, f)' <=> Recorded(r, f) \/ f = "job_trace_failure"
  BY <1>1, RecordEffect
<1>3. /\ outcome[r] # "absent" /\ outcome'[r] \in Ended /\ outcome'[r] # "success"
      /\ finalized' = finalized /\ traceFailed' = traceFailed \cup {r}
      /\ file' = file /\ r \notin traceFailed
  BY DEF LosesTrace, TypeOK
<1>4. Begun(r)'
  BY <1>1, <1>3, RecordKeepsBeginning DEF Running, Ended
<1>5. EndRecorded(r)' /\ Sealed(r)' /\ Clean(r)'
  BY <1>2, <1>3 DEF RunData, EndRecorded, Sealed, Clean
<1>6. \A i \in 1..Len(steps[r]) : "job_trace_failure" \in Follows(steps[r][i])
  BY <1>3, MayFollow DEF RunData, EndRecorded, Recorded
<1>7. QED
  BY <1>1, <1>3, <1>4, <1>5, <1>6, RecordKeepsOrder DEF RunData

LEMMA ExportsKeep ==
  ASSUME TypeOK, NEW r \in RunIds, Exports(r), RunData(r)
  PROVE  RunData(r)'
<1>1. /\ outcome' = outcome /\ finalized' = finalized /\ traceFailed' = traceFailed
      /\ steps' = steps /\ file'[r] = steps[r] /\ outcome[r] # "absent"
  BY DEF Exports, db, TypeOK
<1>2. Running(r) => Len(steps[r]) = 1
  BY DEF Exports
<1>3. Begun(r)' /\ Sealed(r)' /\ EndRecorded(r)' /\ Clean(r)'
  BY <1>1, <1>2 DEF RunData, Begun, Sealed, EndRecorded, Clean, Recorded, Running
<1>4. Len(steps[r]) \in Nat
  BY LenProperties DEF TypeOK
<1>5. Ordered(r)' /\ Prefix(r)'
  BY <1>1, <1>4 DEF RunData, Ordered, Prefix
<1>6. QED
  BY <1>3, <1>5 DEF RunData

LEMMA StepKeepsData ==
  ASSUME TypeOK, RunInv, CtlInv, DataInv, [Next]_vars
  PROVE  DataInv'
<1>1. CASE NoEffect
  BY <1>1 DEF NoEffect, db, DataInv, RunData, Begun, Sealed, EndRecorded, Ordered,
              Prefix, Clean, Recorded, Running
<1>2. ASSUME NEW r \in RunIds, Effect(r)
      PROVE  DataInv'
  <2>1. RunData(r)
    BY DEF DataInv
  <2>2. RunData(r)'
    BY <1>2, <2>1, StartsKeep, CallsKeep, CompletesKeep, InterruptsKeep, EndsKeep,
       LosesTraceKeeps, ExportsKeep DEF Effect
  <2>3. \A q \in RunIds \ {r} : RunData(q)'
    BY <1>2, OthersKeep DEF DataInv
  <2>4. QED
    BY <2>2, <2>3 DEF DataInv
<1>3. QED
  BY <1>1, <1>2, StepHasEffect

-----------------------------------------------------------------------------
(* The control of jobs, calls and requests keeps what is said of it.       *)

(* What a step may leave alone of one run.                                 *)
Same(q) ==
  /\ steps'[q] = steps[q] /\ outcome'[q] = outcome[q] /\ tool'[q] = tool[q]
  /\ jobPc'[q] = jobPc[q] /\ jobResult'[q] = jobResult[q]
  /\ (q \in held)' = (q \in held) /\ (q \in closed)' = (q \in closed)

LEMMA SameKeepsStopped ==
  ASSUME NEW q \in RunIds, Same(q), Stopped(q)
  PROVE  Stopped(q)'
BY DEF Same, Stopped, Running, Interrupted, Recorded

(* A step of the call of one run keeps every launched run as it is.        *)
LEMMA RunFrame ==
  ASSUME TypeOK, RunInv, LaunchInv, NEW r \in RunIds, UNCHANGED clients,
         \A q \in RunIds \ {r} : Same(q),
         jobPc[r] # "none" \/ tool[r] # "idle"
  PROVE  LaunchInv'
<1>1. \A c \in Clients : Launching(c) => clientRun[c] \in RunIds \ {r}
  BY DEF LaunchInv, Launched, Launching, RunInv, ClientInv, Reserved
<1>2. UNCHANGED clientPc /\ UNCHANGED clientRun /\ UNCHANGED clientGoal
  BY DEF clients
<1>3. \A c \in Clients : Launching(c)' <=> Launching(c)
  BY <1>2 DEF Launching
<1>4. \A c \in Clients : Launching(c) =>
        /\ jobPc'[clientRun[c]] = "none" /\ tool'[clientRun[c]] = "idle"
        /\ outcome'[clientRun[c]] = "running" => steps'[clientRun[c]] = <<"job_start">>
        /\ \A d \in Clients : Launching(d) /\ clientRun[d] = clientRun[c] => d = c
  BY <1>1 DEF LaunchInv, Launched, Same, Running
<1>5. QED
  BY <1>2, <1>3, <1>4 DEF LaunchInv, Launched, Running

LEMMA ToolKeepsCtl ==
  ASSUME TypeOK, RunInv, CtlInv, NEW r \in RunIds, ToolStep(r)
  PROVE  CtlInv'
<1> USE DEF database, jobs, clients, tools, budgets
<1>1. \A q \in RunIds : Stopped(q)
  BY DEF CtlInv, InterruptInv, Stopped
<1>2. /\ jobPc[r] # "none" \/ tool[r] # "idle"
      /\ UNCHANGED <<outcome, jobs, clients, closed>>
  <2>1. CASE InvokeTool(r) \/ LockRun(r) \/ RefuseTool(r)
    BY <2>1 DEF InvokeTool, LockRun, RefuseTool, InTransaction
  <2>2. r \in held => InTransaction(r)
    BY DEF RunInv, ToolInv
  <2>3. CASE RollBack(r)
    BY <2>2, <2>3 DEF RollBack, InTransaction
  <2>4. CASE BeginStep(r) \/ Operation(r) \/ FinalizeDraft(r) \/ FailStep(r)
    BY <2>4 DEF BeginStep, Operation, FinalizeDraft, FailStep, CommitTool
  <2>5. CASE RecordDenial(r)
    BY <2>5 DEF RecordDenial
  <2>6. QED
    BY <2>1, <2>3, <2>4, <2>5 DEF ToolStep
<1>3. \A q \in RunIds \ {r} : Same(q)
  <2>1. CASE InvokeTool(r) \/ LockRun(r) \/ RefuseTool(r) \/ RollBack(r)
    BY <1>2, <2>1 DEF InvokeTool, LockRun, RefuseTool, RollBack, SetTool, Same, TypeOK
  <2>2. ASSUME NEW event, NEW next, CommitTool(r, event, next)
        PROVE  \A q \in RunIds \ {r} : Same(q)
    <3>1. \A q \in RunIds \ {r} : steps'[q] = steps[q]
      BY <2>2 DEF CommitTool, Record, TypeOK
    <3>2. QED
      BY <1>2, <2>2, <3>1 DEF CommitTool, SetTool, Same, TypeOK
  <2>3. CASE RecordDenial(r)
    BY <1>2, <2>3 DEF RecordDenial, Record, Same, TypeOK
  <2>4. QED
    BY <2>1, <2>2, <2>3 DEF ToolStep, BeginStep, Operation, FinalizeDraft, FailStep
<1>4. Stopped(r)'
  <2>1. CASE InvokeTool(r)
    BY <1>1, <2>1 DEF InvokeTool, Stopped, Running, Interrupted, Recorded
  <2>2. CASE LockRun(r)
    BY <1>1, <2>2 DEF LockRun, InTransaction, Stopped, Running, Interrupted, Recorded
  <2>3. CASE RefuseTool(r)
    <3>1. /\ UNCHANGED <<outcome, steps, held, closed, jobs>> /\ InTransaction(r)
          /\ tool'[r] = AfterRefusal(r)
      BY <2>3 DEF RefuseTool, SetTool, TypeOK
    <3>2. QED
      BY <1>1, <3>1 DEF InTransaction, Stopped, Running, Interrupted, Recorded
  <2>4. CASE RollBack(r)
    BY <1>1, <2>4 DEF RollBack, Stopped, Running, Interrupted, Recorded
  <2>5. ASSUME NEW event \in Events \ {"job_interrupted"}, NEW next,
               CommitTool(r, event, next), tool[r] \in {"begin", "operate", "fail"}
        PROVE  Stopped(r)'
    <3>1. Running(r) /\ ~Interrupted(r)
      BY <1>1, <2>5 DEF CommitTool, RunInv, ToolInv, MayWrite, Stopped
    <3>2. CASE tool[r] = "begin"
      <4>1. Interrupted(r)' <=> Interrupted(r)
        BY <2>5, <3>2, RecordEffect DEF CommitTool, Interrupted
      <4>2. QED
        BY <3>1, <4>1 DEF Stopped
    <3>3. CASE tool[r] # "begin"
      <4>1. Pending(r) /\ steps' = [steps EXCEPT ![r][CallStep(r)] = event]
        BY <2>5, <3>3 DEF CommitTool, RunInv, ToolInv
      <4>2. Interrupted(r)' <=> Interrupted(r)
        BY <2>5, <4>1, CompleteEffect DEF Interrupted
      <4>3. QED
        BY <3>1, <4>2 DEF Stopped
    <3>4. QED
      BY <3>2, <3>3
  <2>6. CASE BeginStep(r) \/ Operation(r) \/ FinalizeDraft(r) \/ FailStep(r)
    BY <2>5, <2>6 DEF BeginStep, Operation, FinalizeDraft, FailStep, Events
  <2>7. CASE RecordDenial(r)
    <3>1. Interrupted(r)' <=> Interrupted(r)
      BY <2>7, RecordEffect DEF RecordDenial, Events, Interrupted
    <3>2. QED
      BY <1>1, <2>7, <3>1 DEF RecordDenial, MayWrite, Stopped
  <2>8. QED
    BY <2>1, <2>2, <2>3, <2>4, <2>6, <2>7 DEF ToolStep
<1>5. LaunchInv'
  BY <1>2, <1>3, RunFrame DEF CtlInv
<1>6. InterruptInv'
  BY <1>1, <1>3, <1>4, SameKeepsStopped DEF InterruptInv, Stopped
<1>7. QED
  BY <1>5, <1>6 DEF CtlInv

LEMMA JobKeepsCtl ==
  ASSUME TypeOK, RunInv, CtlInv, NEW r \in RunIds, JobStep(r) \/ PersistFails(r)
  PROVE  CtlInv'
<1> USE DEF database, jobs, clients, tools, budgets
<1>1. \A q \in RunIds : Stopped(q)
  BY DEF CtlInv, InterruptInv, Stopped
<1>2. ASSUME NEW result \in Results, StopWork(r, result)
      PROVE  /\ jobPc[r] = "work" /\ UNCHANGED <<outcome, steps, clients>>
             /\ \A q \in RunIds \ {r} : Same(q)
  BY <1>2 DEF StopWork, SetJob, SetTool, Same, TypeOK
<1>3. ASSUME WorkerReturns(r) \/ WorkerTimesOut(r)
      PROVE  /\ jobPc[r] = "work" /\ UNCHANGED <<outcome, steps, clients>>
             /\ \A q \in RunIds \ {r} : Same(q)
  BY <1>2, <1>3 DEF WorkerReturns, WorkerTimesOut, Results
<1>4. ASSUME PrepareFinish(r)
      PROVE  /\ jobPc[r] = "prepare" /\ UNCHANGED <<outcome, tools, clients>>
             /\ jobPc'[r] = "mark" /\ jobResult'[r] = jobResult[r]
             /\ \A q \in RunIds \ {r} : Same(q)
             /\ steps' = steps \/ (r \notin held /\ jobResult[r] # "completed")
  <2>1. \A q \in RunIds \ {r} : steps'[q] = steps[q]
    BY <1>4 DEF PrepareFinish, Record, TypeOK
  <2>2. QED
    BY <1>4, <2>1 DEF PrepareFinish, RunUnlocked, GoTo, SetJob, Same, TypeOK
<1>5. ASSUME JobFinish(r) \/ JobExport(r) \/ JobReportTraceFailure(r)
      PROVE  /\ jobPc[r] \in {"mark", "export", "flag"}
             /\ UNCHANGED <<tools, clients>> /\ outcome'[r] \in Ended
             /\ \A q \in RunIds \ {r} : Same(q)
  <2>1. CASE JobFinish(r)
    <3>1. jobResult[r] \in Results \ {"none"} /\ outcome[r] # "absent"
      BY <2>1 DEF JobFinish, RunInv, JobInv, TypeOK
    <3>2. /\ outcome'[r] \in Ended
          /\ \A q \in RunIds \ {r} : steps'[q] = steps[q] /\ outcome'[q] = outcome[q]
      BY <2>1, <3>1, FinishEffect DEF JobFinish
    <3>3. QED
      BY <2>1, <3>2 DEF JobFinish, GoTo, SetJob, Same, TypeOK
  <2>2. CASE JobExport(r)
    BY <2>2 DEF JobExport, RunInv, JobInv, EndJob, GoTo, SetJob, Same, TypeOK
  <2>3. CASE JobReportTraceFailure(r)
    <3>1. outcome[r] \in Ended /\ outcome[r] # "absent"
      BY <2>3 DEF JobReportTraceFailure, RunInv, JobInv, Ended
    <3>2. /\ outcome'[r] \in Ended
          /\ \A q \in RunIds \ {r} : steps'[q] = steps[q] /\ outcome'[q] = outcome[q]
      BY <2>3, <3>1, ReportEffect
         DEF JobReportTraceFailure, ReportTraceFailure, Record, TypeOK
    <3>3. QED
      BY <2>3, <3>2 DEF JobReportTraceFailure, EndJob, SetJob, Same, TypeOK
  <2>4. QED
    BY <1>5, <2>1, <2>2, <2>3
<1>6. ASSUME PersistFails(r)
      PROVE  /\ jobPc[r] \in {"prepare", "mark", "export", "flag"}
             /\ UNCHANGED <<outcome, steps, tools, clients>>
             /\ jobPc'[r] \in {"prepare", "over"} /\ jobResult'[r] \in {"none", jobResult[r]}
             /\ \A q \in RunIds \ {r} : Same(q)
  BY <1>6 DEF PersistFails, EndJob, SetJob, Same, TypeOK
<1>7. jobPc[r] # "none" /\ UNCHANGED clients /\ \A q \in RunIds \ {r} : Same(q)
  BY <1>3, <1>4, <1>5, <1>6 DEF JobStep
<1>8. Stopped(r)'
  <2>1. CASE WorkerReturns(r) \/ WorkerTimesOut(r)
    BY <1>1, <1>3, <2>1 DEF Stopped, Running, Interrupted, Recorded
  <2>2. CASE PrepareFinish(r)
    <3>1. r \in closed
      BY <1>4, <2>2 DEF RunInv, JobInv
    <3>2. QED
      BY <1>1, <1>4, <2>2, <3>1 DEF Stopped, Running, Interrupted, Recorded
  <2>3. CASE JobFinish(r) \/ JobExport(r) \/ JobReportTraceFailure(r)
    BY <1>5, <2>3 DEF Stopped, Running, Ended
  <2>4. CASE PersistFails(r)
    BY <1>1, <1>6, <2>4 DEF Stopped, Running, Interrupted, Recorded
  <2>5. QED
    BY <2>1, <2>2, <2>3, <2>4 DEF JobStep
<1>9. LaunchInv'
  BY <1>7, RunFrame DEF CtlInv
<1>10. InterruptInv'
  BY <1>1, <1>7, <1>8, SameKeepsStopped DEF InterruptInv, Stopped
<1>11. QED
  BY <1>9, <1>10 DEF CtlInv

(* A client moves on and the runs the others are launching are as before.  *)
LEMMA LaunchFrame ==
  ASSUME TypeOK, LaunchInv, NEW c \in Clients, NEW pc, NEW run, NEW goal,
         SetClient(c, pc, run, goal),
         pc = "dispatch" => goal = "launch", pc = "mark" => goal # "launch",
         \A d \in Clients \ {c} : Launching(d) =>
           /\ jobPc'[clientRun[d]] = "none" /\ tool'[clientRun[d]] = "idle"
           /\ outcome'[clientRun[d]] = "running" =>
                steps'[clientRun[d]] = <<"job_start">>,
         pc \in {"export", "flag", "dispatch"} /\ goal = "launch" =>
           /\ jobPc'[run] = "none" /\ tool'[run] = "idle"
           /\ outcome'[run] = "running" => steps'[run] = <<"job_start">>
           /\ \A d \in Clients \ {c} : Launching(d) => clientRun[d] # run
  PROVE  LaunchInv'
<1>1. /\ clientPc'[c] = pc /\ clientRun'[c] = run /\ clientGoal'[c] = goal
      /\ \A d \in Clients \ {c} : /\ clientPc'[d] = clientPc[d]
                                  /\ clientRun'[d] = clientRun[d]
                                  /\ clientGoal'[d] = clientGoal[d]
  BY DEF SetClient, TypeOK
<1>2. Launching(c)' <=> pc \in {"export", "flag", "dispatch"} /\ goal = "launch"
  BY <1>1 DEF Launching
<1>3. \A d \in Clients \ {c} : Launching(d)' <=> Launching(d)
  BY <1>1 DEF Launching
<1>4. ASSUME NEW d \in Clients, Launching(d)'
      PROVE  /\ jobPc'[clientRun'[d]] = "none" /\ tool'[clientRun'[d]] = "idle"
             /\ outcome'[clientRun'[d]] = "running" =>
                  steps'[clientRun'[d]] = <<"job_start">>
  <2>1. CASE d = c
    BY <1>1, <1>2, <1>4, <2>1
  <2>2. CASE d # c
    BY <1>1, <1>3, <1>4, <2>2
  <2>3. QED
    BY <2>1, <2>2
<1>5. ASSUME NEW d \in Clients, NEW e \in Clients, Launching(d)', Launching(e)',
             clientRun'[d] = clientRun'[e]
      PROVE  d = e
  <2>1. CASE d # c /\ e # c
    BY <1>1, <1>3, <1>5, <2>1 DEF LaunchInv, Launched
  <2>2. CASE d = c \/ e = c
    BY <1>1, <1>2, <1>3, <1>5, <2>2
  <2>3. QED
    BY <2>1, <2>2
<1>6. ASSUME NEW d \in Clients
      PROVE  Launched(d)'
  <2>1. (/\ clientPc[d] = "dispatch" => clientGoal[d] = "launch"
         /\ clientPc[d] = "mark" => clientGoal[d] # "launch")'
    BY <1>1 DEF LaunchInv, Launched
  <2>2. ASSUME Launching(d)'
        PROVE  (/\ jobPc[clientRun[d]] = "none" /\ tool[clientRun[d]] = "idle"
                /\ Running(clientRun[d]) => steps[clientRun[d]] = <<"job_start">>)'
    BY <1>4, <2>2 DEF Running
  <2>3. ASSUME Launching(d)'
        PROVE  (\A e \in Clients :
                  Launching(e) /\ clientRun[e] = clientRun[d] => e = d)'
    BY <1>5, <2>3
  <2>4. QED
    BY <2>1, <2>2, <2>3 DEF Launched
<1>7. QED
  BY <1>6 DEF LaunchInv

(* No step of a client but a reservation or a dispatch does more to a run  *)
(* than end it.                                                            *)
LEMMA ClientOnlyEnds ==
  ASSUME TypeOK, RunInv, NEW c \in Clients,
         \/ Arrive(c) \/ LockCase(c) \/ ClientFinish(c) \/ ClientExport(c)
         \/ ClientReportTraceFailure(c) \/ ClientFails(c)
  PROVE  /\ UNCHANGED <<jobs, tools>>
         /\ \A q \in RunIds : outcome'[q] = "running" =>
              outcome[q] = "running" /\ steps'[q] = steps[q]
<1> USE DEF database, jobs, tools, budgets
<1>1. CASE Arrive(c) \/ LockCase(c) \/ ClientExport(c) \/ ClientFails(c)
  BY <1>1 DEF Arrive, LockCase, ClientExport, ClientFails
<1>2. clientPc[c] \in {"mark", "flag"} =>
        clientRun[c] \in RunIds /\ outcome[clientRun[c]] # "absent"
  BY DEF RunInv, ClientInv, Reserved
<1>3. CASE ClientFinish(c)
  <2>1. clientRun[c] \in RunIds /\ outcome[clientRun[c]] # "absent"
    BY <1>2, <1>3 DEF ClientFinish
  <2>2. ClientResult(c) \in Results \ {"none"}
    BY DEF ClientResult, Results
  <2>3. /\ outcome'[clientRun[c]] \in Ended
        /\ \A q \in RunIds \ {clientRun[c]} :
             steps'[q] = steps[q] /\ outcome'[q] = outcome[q]
    BY <1>3, <2>1, <2>2, FinishEffect DEF ClientFinish
  <2>4. QED
    BY <1>3, <2>3 DEF ClientFinish, Ended
<1>4. CASE ClientReportTraceFailure(c)
  <2> DEFINE r == clientRun[c]
             starting == clientGoal[c] = "launch"
  <2>1. r \in RunIds /\ outcome[r] # "absent" /\ starting \in BOOLEAN
    BY <1>2, <1>4 DEF ClientReportTraceFailure
  <2>2. starting \/ outcome[r] \in Ended
    BY <1>4 DEF ClientReportTraceFailure, RunInv, ClientInv
  <2>3. ReportTraceFailure(r, starting)
    BY <1>4 DEF ClientReportTraceFailure
  <2> HIDE DEF r, starting
  <2>4. r \notin traceFailed => outcome'[r] \in Ended
    BY <2>1, <2>2, <2>3, ReportEffect
  <2>5. /\ r \in traceFailed => UNCHANGED <<outcome, steps>>
        /\ \A q \in RunIds \ {r} : steps'[q] = steps[q] /\ outcome'[q] = outcome[q]
    BY <2>1, <2>3 DEF ReportTraceFailure, Record, TypeOK
  <2>6. \A q \in RunIds : outcome'[q] = "running" =>
          outcome[q] = "running" /\ steps'[q] = steps[q]
    BY <2>1, <2>4, <2>5 DEF Ended
  <2>7. QED
    BY <1>4, <2>6 DEF ClientReportTraceFailure
<1>5. QED
  BY <1>1, <1>3, <1>4

LEMMA ClientKeepsCtl ==
  ASSUME TypeOK, RunInv, CtlInv, DataInv, NEW c \in Clients,
         Arrive(c) \/ ClientStep(c) \/ ClientFails(c)
  PROVE  CtlInv'
<1>1. \A d \in Clients : Launching(d) => clientRun[d] \in Reserved
  BY DEF Launching, RunInv, ClientInv
<1>2. CASE Reserve(c)
  <2>1. UNCHANGED <<jobs, tools>>
    BY <1>2 DEF Reserve
  <2>2. CASE Rest(c) /\ UNCHANGED <<outcome, steps>>
    <3>1. LaunchInv'
      BY <2>1, <2>2, LaunchFrame DEF Rest, CtlInv, LaunchInv, Launched, jobs, tools, Running
    <3>2. InterruptInv'
      BY <2>1, <2>2 DEF CtlInv, InterruptInv, Stopped, Interrupted, Recorded, Running, jobs, tools
    <3>3. QED
      BY <3>1, <3>2 DEF CtlInv
  <2>3. ASSUME NEW r \in RunIds, outcome[r] = "absent",
               outcome' = [outcome EXCEPT ![r] = "running"],
               Record(r, "job_start"),
               SetClient(c, "export", r, "launch")
        PROVE  CtlInv'
    <3>1. steps'[r] = <<"job_start">> /\ outcome'[r] = "running"
      <4>1. steps[r] = <<>>
        BY <2>3 DEF DataInv, RunData, Begun
      <4>2. QED
        BY <2>3, <4>1 DEF Record, TypeOK
    <3>2. \A q \in RunIds \ {r} : steps'[q] = steps[q] /\ outcome'[q] = outcome[q]
      BY <2>3 DEF Record, TypeOK
    <3>3. jobPc[r] = "none" /\ tool[r] = "idle"
      BY <2>3 DEF RunInv, JobInv, ToolInv
    <3>4. \A d \in Clients : Launching(d) => clientRun[d] \in RunIds \ {r}
      BY <1>1, <2>3 DEF Reserved
    <3>5. LaunchInv'
      <4>1. jobPc' = jobPc /\ tool' = tool
        BY <2>1 DEF jobs, tools
      <4>2. \A d \in Clients : Launching(d) =>
              /\ jobPc'[clientRun[d]] = "none" /\ tool'[clientRun[d]] = "idle"
              /\ outcome'[clientRun[d]] = "running" =>
                   steps'[clientRun[d]] = <<"job_start">>
        BY <3>2, <3>4, <4>1 DEF CtlInv, LaunchInv, Launched, Running
      <4>3. QED
        BY <2>3, <3>1, <3>3, <3>4, <4>1, <4>2, LaunchFrame DEF CtlInv
    <3>6. ~Interrupted(r)'
      <4>1. Len(steps'[r]) = 1 /\ steps'[r][1] = "job_start"
        BY <3>1
      <4>2. QED
        BY <4>1 DEF Interrupted, Recorded
    <3>7. ASSUME NEW q \in RunIds \ {r}, Stopped(q)
          PROVE  Stopped(q)'
      BY <2>1, <3>2, <3>7 DEF Stopped, Interrupted, Recorded, Running, jobs, tools
    <3>8. InterruptInv'
      BY <2>3, <3>6, <3>7 DEF CtlInv, InterruptInv, Stopped
    <3>9. QED
      BY <3>5, <3>8 DEF CtlInv
  <2>4. QED
    <3> DEFINE r == Cardinality(Reserved) + 1
    <3>1. r \in RunIds => outcome[r] = "absent"
      BY NextRunIsNew DEF RunInv
    <3>2. \/ Rest(c) /\ UNCHANGED <<outcome, steps>>
          \/ /\ r \in RunIds
             /\ outcome' = [outcome EXCEPT ![r] = "running"]
             /\ Record(r, "job_start")
             /\ SetClient(c, "export", r, "launch")
      BY <1>2 DEF Reserve
    <3> HIDE DEF r
    <3>3. QED
      BY <2>2, <2>3, <3>1, <3>2
<1>3. CASE Dispatch(c)
  <2> DEFINE r == clientRun[c]
  <2>1. /\ Launching(c) /\ r \in RunIds
        /\ \A d \in Clients \ {c} : Launching(d) => clientRun[d] \in RunIds \ {r}
    BY <1>1, <1>3 DEF Dispatch, Launching, CtlInv, LaunchInv, Launched, Reserved
  <2>2. UNCHANGED <<outcome, steps, tools>>
    BY <1>3 DEF Dispatch, database
  <2>3. \/ UNCHANGED jobs
        \/ Running(r) /\ Rest(c) /\ SetJob(r, "work", "none", 0)
    BY <1>3 DEF Dispatch
  <2>4. Rest(c) \/ SetClient(c, "mark", r, "abort")
    BY <1>3 DEF Dispatch
  <2> HIDE DEF r
  <2>5. \A q \in RunIds \ {r} : jobPc'[q] = jobPc[q] /\ jobResult'[q] = jobResult[q]
    BY <2>3 DEF jobs, SetJob, TypeOK
  <2>6. LaunchInv'
    BY <2>1, <2>2, <2>4, <2>5, LaunchFrame
       DEF Rest, CtlInv, LaunchInv, Launched, tools, Running
  <2>7. Running(r) => ~Interrupted(r)
    <3>1. Running(r) => steps[r] = <<"job_start">>
      BY <2>1 DEF CtlInv, LaunchInv, Launched, r
    <3>2. steps[r] = <<"job_start">> => Len(steps[r]) = 1 /\ steps[r][1] = "job_start"
      OBVIOUS
    <3>3. QED
      BY <3>1, <3>2 DEF Interrupted, Recorded
  <2>8. InterruptInv'
    BY <2>1, <2>2, <2>3, <2>5, <2>7
       DEF CtlInv, InterruptInv, Stopped, Interrupted, Recorded, Running, jobs, tools
  <2>9. QED
    BY <2>6, <2>8 DEF CtlInv
<1>4. CASE \/ Arrive(c) \/ LockCase(c) \/ ClientFinish(c) \/ ClientExport(c)
           \/ ClientReportTraceFailure(c) \/ ClientFails(c)
  <2>1. /\ UNCHANGED <<jobPc, jobResult, tool, held, closed>>
        /\ \A q \in RunIds : outcome'[q] = "running" =>
             outcome[q] = "running" /\ steps'[q] = steps[q]
    BY <1>4, ClientOnlyEnds DEF jobs, tools
  <2>2. InterruptInv'
    BY <2>1 DEF CtlInv, InterruptInv, Stopped, Interrupted, Recorded, Running
  <2>3. \A d \in Clients : Launching(d) =>
          /\ clientRun[d] \in RunIds
          /\ jobPc'[clientRun[d]] = "none" /\ tool'[clientRun[d]] = "idle"
          /\ outcome'[clientRun[d]] = "running" =>
               steps'[clientRun[d]] = <<"job_start">>
    BY <1>1, <2>1 DEF CtlInv, LaunchInv, Launched, Running, Reserved
  <2>4. ASSUME NEW pc, NEW run, NEW goal, SetClient(c, pc, run, goal),
               pc # "dispatch", pc = "mark" => goal # "launch",
               ~(pc \in {"export", "flag", "dispatch"} /\ goal = "launch")
        PROVE  LaunchInv'
    BY <2>3, <2>4, LaunchFrame DEF CtlInv
  <2>5. ASSUME Launching(c), NEW pc \in {"flag", "dispatch"},
               SetClient(c, pc, clientRun[c], "launch")
        PROVE  LaunchInv'
    <3>1. \A d \in Clients \ {c} : Launching(d) => clientRun[d] # clientRun[c]
      BY <2>5 DEF CtlInv, LaunchInv, Launched
    <3>2. QED
      BY <2>3, <2>5, <3>1, LaunchFrame DEF CtlInv
  <2>6. Rest(c) => LaunchInv'
    BY <2>4 DEF Rest
  <2>7. Arrive(c) \/ LockCase(c) \/ ClientFails(c) => LaunchInv'
    BY <2>4, <2>6 DEF Arrive, LockCase, ClientFails
  <2>8. ClientFinish(c) => LaunchInv'
    BY <2>4 DEF ClientFinish, CtlInv, LaunchInv, Launched
  <2>9. ASSUME clientPc[c] \in {"export", "flag"}, Continue(c)
        PROVE  LaunchInv'
    BY <2>4, <2>5, <2>6, <2>9 DEF Continue, Launching
  <2>10. ClientExport(c) => LaunchInv'
    <3>1. CASE clientGoal[c] = "launch"
      BY <2>5, <2>9, <3>1 DEF ClientExport, Launching
    <3>2. CASE clientGoal[c] # "launch"
      BY <2>4, <2>9, <3>2 DEF ClientExport
    <3>3. QED
      BY <3>1, <3>2
  <2>11. ClientReportTraceFailure(c) => LaunchInv'
    BY <2>9 DEF ClientReportTraceFailure
  <2>12. QED
    BY <1>4, <2>2, <2>7, <2>8, <2>10, <2>11 DEF CtlInv
<1>5. QED
  BY <1>2, <1>3, <1>4 DEF ClientStep

LEMMA ServerKeepsCtl ==
  ASSUME TypeOK, RunInv, CtlInv,
         StartServer \/ Crash \/ Shutdown \/ Exit \/ \E r \in RunIds : Expire(r)
  PROVE  CtlInv'
<1>1. CASE LoseProcess
  BY <1>1 DEF LoseProcess, CtlInv, LaunchInv, Launched, Launching, InterruptInv, Stopped
<1>2. CASE StartServer
  <2>1. UNCHANGED <<outcome, steps, tool, held, closed, jobPc, jobResult>>
    BY <1>2 DEF StartServer, database, jobs, tools
  <2>2. InterruptInv'
    BY <2>1 DEF CtlInv, InterruptInv, Stopped, Interrupted, Recorded, Running
  <2>3. CASE UNCHANGED clients
    BY <2>1, <2>2, <2>3 DEF CtlInv, LaunchInv, Launched, Launching, Running, clients
  <2>4. ASSUME NEW r \in Recoverable, SetClient(Boot, "mark", r, "boot")
        PROVE  LaunchInv'
    <3>1. \A d \in Clients \ {Boot} : Launching(d) =>
            /\ jobPc'[clientRun[d]] = "none" /\ tool'[clientRun[d]] = "idle"
            /\ outcome'[clientRun[d]] = "running" =>
                 steps'[clientRun[d]] = <<"job_start">>
      BY <2>1 DEF CtlInv, LaunchInv, Launched, Running
    <3>2. QED
      BY <2>4, <3>1, LaunchFrame DEF CtlInv, Clients
  <2>5. QED
    BY <1>2, <2>2, <2>3, <2>4 DEF StartServer, CtlInv
<1>3. CASE \E r \in RunIds : Expire(r)
  <2>1. UNCHANGED <<outcome, steps, tool, held, closed, jobPc, jobResult,
                    clientPc, clientRun, clientGoal>>
    BY <1>3 DEF Expire, database, jobs, tools, clients
  <2>2. QED
    BY <2>1 DEF CtlInv, LaunchInv, Launched, Launching, InterruptInv, Stopped, Interrupted, Recorded, Running
<1>4. CASE Shutdown
  <2>1. LaunchInv'
    BY <1>4 DEF Shutdown, clients, LaunchInv, Launched, Launching
  <2>2. ASSUME NEW r \in RunIds, Stopped(r)
        PROVE  Stopped(r)'
    <3>1. /\ UNCHANGED <<outcome, steps, held>> /\ closed \subseteq closed'
          /\ jobPc'[r] = IF jobPc[r] = "work" THEN "prepare" ELSE jobPc[r]
          /\ jobResult'[r] = IF jobPc[r] = "work" THEN "failed" ELSE jobResult[r]
          /\ tool[r] = "idle" => tool'[r] = "idle"
      BY <1>4 DEF Shutdown, database, TypeOK
    <3>2. QED
      BY <2>2, <3>1 DEF Stopped, Running, Interrupted, Recorded
  <2>3. InterruptInv'
    BY <2>2 DEF CtlInv, InterruptInv, Stopped
  <2>4. QED
    BY <2>1, <2>3 DEF CtlInv
<1>5. QED
  BY <1>1, <1>2, <1>3, <1>4 DEF Crash, Exit

LEMMA StepKeepsCtl ==
  ASSUME TypeOK, RunInv, CtlInv, DataInv, [Next]_vars
  PROVE  CtlInv'
<1>1. CASE UNCHANGED vars
  BY <1>1 DEF vars, database, jobs, tools, clients, CtlInv, LaunchInv, Launched, Launching,
              InterruptInv, Stopped, Interrupted, Recorded, Running
<1>2. CASE Next
  BY <1>2, ToolKeepsCtl, JobKeepsCtl, ClientKeepsCtl, ServerKeepsCtl DEF Next
<1>3. QED
  BY <1>1, <1>2

LEMMA InitTrace == Init => CtlInv /\ DataInv
<1> SUFFICES ASSUME Init PROVE CtlInv /\ DataInv
  OBVIOUS
<1>1. CtlInv
  BY DEF Init, CtlInv, LaunchInv, Launched, Launching, InterruptInv, Stopped, Running
<1>2. \A r \in RunIds : Len(steps[r]) = 0 /\ Len(file[r]) = 0 /\ outcome[r] = "absent"
  BY DEF Init
<1>3. DataInv
  BY <1>2 DEF Init, DataInv, RunData, Begun, Sealed, EndRecorded, Ordered, Prefix,
              Clean, Recorded, Running, Ended
<1>4. QED
  BY <1>1, <1>3

-----------------------------------------------------------------------------
(* The theorems.                                                           *)

(* A launching run has nothing but its first event, an interrupted one no  *)
(* call that may commit, and database and files say of every run what the  *)
(* parts of RunData say (`reserve`, `prepare_finish`, `locked`).           *)
THEOREM TraceInvariant == Spec => [](CtlInv /\ DataInv)
<1>1. Init => CtlInv /\ DataInv
  BY InitTrace
<1>2. TypeOK /\ RunInv /\ CtlInv /\ DataInv /\ [Next]_vars => (CtlInv /\ DataInv)'
  BY StepKeepsCtl, StepKeepsData
<1>3. QED
  BY <1>1, <1>2, TypeCorrect, RunInvariant, PTL DEF Spec

(* A success has a finalized version with items in it, was not interrupted *)
(* and lost no trace (`finish`, `finalize`, `_export_or_fail`).            *)
THEOREM SuccessesAreClean == Spec => []SuccessIsClean
<1>1. DataInv => SuccessIsClean
  BY DEF DataInv, RunData, Clean, SuccessIsClean
<1>2. QED
  BY <1>1, TraceInvariant, PTL

(* Nothing but the end follows an interruption, nothing but the loss of    *)
(* the trace the end, and nothing that: the retries of `finish` and of     *)
(* `prepare_finish` are idempotent and no call slips in behind them.       *)
THEOREM StepsAreOrdered == Spec => []WellOrderedSteps
<1>1. DataInv => WellOrderedSteps
  BY DEF DataInv, RunData, Ordered, WellOrderedSteps
<1>2. QED
  BY <1>1, TraceInvariant, PTL

(* The trace file says nothing that is not committed, whatever crashed in  *)
(* between (`RunTraceStore.sync`).                                         *)
THEOREM FilesArePrefixes == Spec => []TracePrefix
<1>1. DataInv => TracePrefix
  BY DEF DataInv, RunData, Prefix, TracePrefix
<1>2. QED
  BY <1>1, TraceInvariant, PTL

(* A run has ended exactly when its trace says so (`finish`,               *)
(* `_export_or_fail`).                                                     *)
THEOREM EndsAreRecorded == Spec => []EndIsRecorded
<1>1. DataInv => EndIsRecorded
  BY DEF DataInv, RunData, EndRecorded, EndIsRecorded
<1>2. QED
  BY <1>1, TraceInvariant, PTL
=============================================================================
