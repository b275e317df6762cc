----------------------------- MODULE RunnerLoop -----------------------------
(***************************************************************************)
(* The worker of a run (runner.py): it asks the policy for a call,         *)
(* executes it, hands the reply back and asks again, until a limit, the    *)
(* policy or the clock stops it.  The policy is claude_policy.py: messages *)
(* and tool requests of the SDK pass through one queue, and a request      *)
(* waits for its reply on a future.  (The local policy yields its calls    *)
(* itself; to the worker it is a queue that never lets it wait.)           *)
(*                                                                         *)
(* The worker never sleeps on an item that is there: asyncio.wait lets the *)
(* task it has just created run once before a timeout of zero is noticed.  *)
(* A tool begun past the deadline, which goes to the database first, is    *)
(* not done by then.                                                       *)
(***************************************************************************)
EXTENDS Naturals, Sequences, FiniteSets

CONSTANTS Calls,            (* records of a name and its arguments          *)
          Codes,            (* of errors                                    *)
          Violations,       (* digests of what a validation found           *)
          Reasons,          (* a policy ends for                            *)
          MaxTurns, RepeatLimit, ValidationLimit,
          Inner, Inactivity, Cleanup,    (* in ticks                        *)
          MaxWaiting,       (* bound: requests not yet executed              *)
          MaxMessages       (* bound: messages of the SDK                   *)

ASSUME LimitsAssumption ==
  /\ {MaxTurns, RepeatLimit, ValidationLimit} \subseteq Nat \ {0}
  /\ {Inner, Inactivity, Cleanup, MaxWaiting, MaxMessages} \subseteq Nat

VARIABLES now,
          pc,           (* "created", "ask", "tool", "close" or "ended"     *)
          deadline,     (* the inner one                                    *)
          since,        (* the wait at hand counts from here: last_message  *)
          turns,
          repetitions, validation_repetitions, error_repetitions,
                        (* [key, count]: what came last, how often in a row *)
          result,       (* [stop_reason, detail], or NoResult               *)
          queue,        (* of the policy                                    *)
          requests,     (* [call, answer] of the SDK, in order              *)
          pending,      (* the one whose call the policy has yielded, or 0  *)
          talking,      (* whether the SDK is still running                 *)
          messages,     (* how many it has sent                             *)
          heard,        (* when it sent the last                            *)
          executed      (* the calls so far, each with its reply            *)

counters == <<turns, repetitions, validation_repetitions, error_repetitions>>
policy == <<queue, requests, pending, talking, messages, heard>>
loop_vars == <<now, pc, deadline, since, counters, result, policy, executed>>

None == [stop_reason |-> "none", detail |-> "none"]
Stopped(reason) == [stop_reason |-> reason, detail |-> "none"]
Failed(detail) == [stop_reason |-> "failed", detail |-> detail]
Cancelled == Failed("cancelled")    (* no result: CancelledError            *)

Ok(data) == [data |-> data, is_error |-> FALSE]
Error(code) == [data |-> code, is_error |-> TRUE]
Clean == "clean"                    (* the digest of no violation           *)
Replies(call) ==
  {Error(code) : code \in Codes}
  \cup (IF call.name = "validate_draft"
          THEN {Ok(data) : data \in Violations \cup {Clean}} ELSE {Ok("data")})

(* The states of a future that has no reply.                               *)
Waiting == [data |-> "waiting", is_error |-> FALSE]
Dropped == [data |-> "dropped", is_error |-> FALSE]

Fresh == [key |-> <<>>, count |-> 0]
Again(counter, key) ==
  [key |-> key, count |-> IF counter.key = key THEN counter.count + 1 ELSE 1]

LoopInit ==
  /\ now = 0 /\ pc = "created" /\ deadline = 0 /\ since = 0
  /\ turns = 0 /\ repetitions = Fresh
  /\ validation_repetitions = Fresh /\ error_repetitions = Fresh
  /\ result = None
  /\ queue = <<>> /\ requests = <<>> /\ pending = 0
  /\ talking = TRUE /\ messages = 0 /\ heard = 0
  /\ executed = <<>>

-----------------------------------------------------------------------------
(* The SDK's side of the queue.                                            *)

Listening == pc \in {"ask", "tool"}
WaitingRequests == {id \in DOMAIN requests : requests[id].answer = Waiting}

Heartbeat(time) == [kind |-> "heartbeat", at |-> time]
Requested(id) == [kind |-> "call", id |-> id]
End(reason) == [kind |-> "end", reason |-> reason]

(* A message of any kind, also a part of one. *)
Message ==
  /\ Listening /\ talking /\ messages < MaxMessages
  /\ queue' = Append(queue, Heartbeat(now))
  /\ messages' = messages + 1 /\ heard' = now
  /\ UNCHANGED <<now, pc, deadline, since, counters, result, requests, pending,
                 talking, executed>>

(* A handler of a tool runs: refused once the executor is closed.          *)
Request(call) ==
  /\ Listening /\ talking /\ Len(requests) < Len(executed) + MaxWaiting
  /\ requests' = Append(requests, [call |-> call, answer |-> Waiting])
  /\ queue' = Append(queue, Requested(Len(requests) + 1))
  /\ UNCHANGED <<now, pc, deadline, since, counters, result, pending, talking,
                 messages, heard, executed>>

(* The SDK gives up a handler; its call stays in the queue.                *)
Abandon(id) ==
  /\ Listening /\ id \in WaitingRequests
  /\ requests' = [requests EXCEPT ![id] = [@ EXCEPT !.answer = Dropped]]
  /\ UNCHANGED <<now, pc, deadline, since, counters, result, queue, pending,
                 talking, messages, heard, executed>>

(* consume ends; its reason is the last thing in the queue.                *)
EndOfTalk(reason) ==
  /\ Listening /\ talking
  /\ talking' = FALSE
  /\ queue' = Append(queue, End(reason))
  /\ UNCHANGED <<now, pc, deadline, since, counters, result, requests, pending,
                 messages, heard, executed>>

-----------------------------------------------------------------------------
(* The worker.                                                             *)

Start ==
  /\ pc = "created"
  /\ pc' = "ask" /\ deadline' = now + Inner /\ since' = now /\ heard' = now
  /\ UNCHANGED <<now, counters, result, queue, requests, pending, talking,
                 messages, executed>>

(* The outcome is chosen; the executor is closed, the SDK is cancelled and *)
(* its handlers with it.                                                   *)
Stop(outcome) ==
  /\ pc' = "close" /\ result' = outcome /\ since' = now
  /\ requests' = [id \in DOMAIN requests |->
                    IF id \in WaitingRequests
                    THEN [requests[id] EXCEPT !.answer = Dropped]
                    ELSE requests[id]]
  /\ talking' = FALSE
  /\ UNCHANGED <<now, deadline, messages, heard>>

(* A message only moves the clock of silence, to when it was received.     *)
TakeHeartbeat_Fault ==
  /\ pc = "ask" /\ queue # <<>> /\ Head(queue).kind = "heartbeat"
  /\ queue' = Tail(queue)
  /\ UNCHANGED <<now, pc, deadline, since, counters, result, requests, pending,
                 talking, messages, heard, executed>>
TakeHeartbeat ==
  /\ pc = "ask" /\ queue # <<>> /\ Head(queue).kind = "heartbeat"
  /\ since' = Head(queue).at
  /\ queue' = Tail(queue)
  /\ UNCHANGED <<now, pc, deadline, counters, result, requests, pending,
                 talking, messages, heard, executed>>

TakeCall ==
  /\ pc = "ask" /\ queue # <<>> /\ Head(queue).kind = "call"
  /\ pc' = "tool" /\ since' = now /\ turns' = turns + 1
  /\ pending' = Head(queue).id
  /\ queue' = Tail(queue)
  /\ UNCHANGED <<now, deadline, repetitions, validation_repetitions,
                 error_repetitions, result, requests, talking, messages, heard,
                 executed>>

StopOf(reason) ==
  CASE reason = "exhausted" -> Failed("draft_not_finalized")
    [] reason \in {"max_turns", "no_readable_document"} -> Stopped(reason)
    [] reason \in {"model_error", "local_dummy_unsupported"} -> Failed(reason)
    [] OTHER -> Failed("validation_unresolved")

TakeEnd ==
  /\ pc = "ask" /\ queue # <<>> /\ Head(queue).kind = "end"
  /\ Stop(StopOf(Head(queue).reason))
  /\ queue' = Tail(queue)
  /\ UNCHANGED <<counters, pending, executed>>

(* After a call: why the loop ends, or None.  The order is the code's.     *)
Limit_Fault(call, reply, errors, validations, repeats) ==
  IF errors.count >= RepeatLimit THEN Failed("tool_rejected")
  ELSE IF call.name = "finalize_draft" /\ ~reply.is_error THEN Stopped("completed")
  ELSE IF validations.count >= ValidationLimit THEN Stopped("validation_loop")
  ELSE IF repeats.count >= RepeatLimit THEN Stopped("repeated_call")
  ELSE IF turns > MaxTurns THEN Stopped("max_turns")
  ELSE None
Limit(call, reply, errors, validations, repeats) ==
  IF errors.count >= RepeatLimit THEN Failed("tool_rejected")
  ELSE IF call.name = "finalize_draft" /\ ~reply.is_error THEN Stopped("completed")
  ELSE IF validations.count >= ValidationLimit THEN Stopped("validation_loop")
  ELSE IF repeats.count >= RepeatLimit THEN Stopped("repeated_call")
  ELSE IF turns >= MaxTurns THEN Stopped("max_turns")
  ELSE None

Errors(call, reply) ==
  IF reply.is_error THEN Again(error_repetitions, <<call.name, reply.data>>)
  ELSE Fresh

Validations_Fault(call, reply) ==
  IF call.name # "validate_draft" \/ reply.is_error THEN Fresh
  ELSE IF reply.data = Clean THEN [key |-> <<Clean>>, count |-> 0]
  ELSE Again(validation_repetitions, <<reply.data>>)
Validations(call, reply) ==
  IF call.name # "validate_draft" \/ reply.is_error THEN validation_repetitions
  ELSE IF reply.data = Clean THEN [key |-> <<Clean>>, count |-> 0]
  ELSE Again(validation_repetitions, <<reply.data>>)

(* The policy goes on: it hands the reply to the request it has yielded,   *)
(* unless that was given up.                                               *)
Answer_Fault(reply) ==
  requests' = [requests EXCEPT ![Len(requests)].answer = reply]
Answer(reply) ==
  requests' = IF pending \in WaitingRequests
              THEN [requests EXCEPT ![pending] = [@ EXCEPT !.answer = reply]]
              ELSE requests

(* The reply has counted: the loop stops, or asks again.                   *)
ToolDone(reply) ==
  LET call == requests[pending].call
      limit == Limit(call, reply, error_repetitions', validation_repetitions',
                     repetitions')
  IN
  /\ since < deadline
  /\ error_repetitions' = Errors(call, reply)
  /\ validation_repetitions' = Validations(call, reply)
  /\ repetitions' = Again(repetitions, <<call>>)
  /\ executed' = Append(executed, [call |-> call, reply |-> reply])
  /\ \/ limit # None /\ Stop(limit)
     \/ /\ limit = None
        /\ pc' = "ask" /\ since' = now
        /\ Answer(reply)
        /\ UNCHANGED <<now, deadline, result, talking, messages, heard>>
  /\ UNCHANGED <<turns, queue, pending>>

Overdue == now >= deadline \/ now >= since + Inactivity

Timeout ==
  /\ pc = "tool" \/ (pc = "ask" /\ queue = <<>>)
  /\ Overdue
  /\ Stop(Stopped(IF now >= deadline THEN "inner_timeout" ELSE "inactivity_timeout"))
  /\ UNCHANGED <<counters, queue, pending, executed>>

(* The clean-up of the policy is over, is given up after Cleanup, or       *)
(* cancels the worker itself: the result stands, its variables are gone.   *)
Close ==
  /\ pc = "close"
  /\ pc' = "ended"
  /\ deadline' = 0 /\ since' = 0 /\ turns' = 0
  /\ repetitions' = Fresh /\ validation_repetitions' = Fresh
  /\ error_repetitions' = Fresh
  /\ queue' = <<>> /\ requests' = <<>> /\ pending' = 0
  /\ talking' = FALSE /\ messages' = 0 /\ heard' = 0
  /\ executed' = <<>>
  /\ UNCHANGED <<now, result>>

(* The job cancels the worker. *)
Cancel ==
  \/ /\ pc \in {"ask", "tool"}
     /\ Stop(Cancelled)
     /\ UNCHANGED <<counters, queue, pending, executed>>
  \/ Close
  \/ pc = "ended" /\ UNCHANGED loop_vars

(* What the worker would do now. *)
Due_Fault ==
  \/ pc = "ask" /\ (queue # <<>> \/ Overdue)
  \/ pc = "tool" /\ Overdue
Due ==
  \/ pc = "ask" /\ (queue # <<>> \/ Overdue)
  \/ pc = "tool" /\ Overdue
  \/ pc = "close" /\ now >= since + Cleanup

Talk ==
  \/ Message
  \/ \E call \in Calls : Request(call)
  \/ \E id \in DOMAIN requests : Abandon(id)
  \/ \E reason \in Reasons : EndOfTalk(reason)

Reply == pc = "tool" /\ \E reply \in Replies(requests[pending].call) : ToolDone(reply)
Step == TakeHeartbeat \/ TakeCall \/ TakeEnd \/ Timeout \/ Close
-----------------------------------------------------------------------------
(* Properties.                                                             *)

Counter(keys, count) == [key : {<<>>} \cup keys, count : 0..count]
LoopTypeOK ==
  /\ now \in Nat /\ {deadline, since, heard} \subseteq Nat
  /\ pc \in {"created", "ask", "tool", "close", "ended"}
  /\ turns \in 0..MaxTurns
  /\ repetitions \in Counter({<<call>> : call \in Calls}, RepeatLimit)
  /\ validation_repetitions
       \in Counter({<<data>> : data \in Violations \cup {Clean}}, ValidationLimit)
  /\ error_repetitions \in Counter({c.name : c \in Calls} \X Codes, RepeatLimit)
  /\ \A id \in DOMAIN requests :
       /\ requests[id].call \in Calls
       /\ requests[id].answer \in Replies(requests[id].call) \cup {Waiting, Dropped}
  /\ pending \in 0..Len(requests)
  /\ messages \in 0..MaxMessages

(* The last so many of the places of a history that have a key have the    *)
(* same one, which is not empty.                                           *)
InARow(key, count) ==
  \E first \in DOMAIN key :
    /\ Cardinality({k \in DOMAIN key : k >= first}) >= count
    /\ \A k \in DOMAIN key : k >= first => key[k] = key[first] /\ key[k] # <<>>

CallKey == [k \in DOMAIN executed |-> <<executed[k].call>>]
ErrorKey ==
  [k \in DOMAIN executed |->
     LET entry == executed[k] IN
     IF entry.reply.is_error THEN <<entry.call.name, entry.reply.data>> ELSE <<>>]
Validated(entry) == entry.call.name = "validate_draft" /\ ~entry.reply.is_error
ViolationKey ==
  [k \in {k \in DOMAIN executed : Validated(executed[k])} |->
     LET data == executed[k].reply.data IN
     IF data = Clean THEN <<>> ELSE <<data>>]

Rejected == InARow(ErrorKey, RepeatLimit)
Repeated == InARow(CallKey, RepeatLimit)
Circling == InARow(ViolationKey, ValidationLimit)
Finalized ==
  \E k \in DOMAIN executed :
    executed[k].call.name = "finalize_draft" /\ ~executed[k].reply.is_error

(* A run completes if and only if its finalize_draft succeeded; and the    *)
(* history bears out every other limit it was stopped for, none of which   *)
(* it had met while it still went on: the same call, the same rejection,   *)
(* or the same violations so often in a row, whatever was called between.  *)
StopIsWarranted ==
  /\ pc \in {"ask", "tool"} =>
       ~Rejected /\ ~Repeated /\ ~Circling /\ ~Finalized
  /\ pc = "close" =>
       /\ result = Stopped("completed") <=> Finalized
       /\ result = Failed("tool_rejected") <=> Rejected
       /\ result = Stopped("validation_loop") <=> Circling
       /\ result = Stopped("repeated_call")
            <=> Repeated /\ ~Rejected /\ ~Circling /\ ~Finalized
       /\ result = Stopped("max_turns") =>
            turns = MaxTurns \/ "max_turns" \in Reasons

(* Calls are executed in the order the SDK made them, each once, and each  *)
(* request gets the reply of its own call, or is dropped: no handler is    *)
(* left waiting when the loop has stopped.                                 *)
RepliesMatch ==
  \A id \in DOMAIN requests :
    IF id <= Len(executed)
    THEN /\ executed[id].call = requests[id].call
         /\ requests[id].answer \in {executed[id].reply, Dropped}
    ELSE requests[id].answer \in (IF pc = "close" THEN {Dropped}
                                  ELSE {Waiting, Dropped})

(* A policy is stopped for its silence only if the SDK has sent nothing    *)
(* for as long as that takes, however late the worker reads its messages.  *)
SilenceIsReal ==
  [][pc = "ask" /\ pc' = "close" /\ result' = Stopped("inactivity_timeout")
       => now >= heard + Inactivity]_loop_vars
=============================================================================
