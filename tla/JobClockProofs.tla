--------------------------- MODULE JobClockProofs ---------------------------
(***************************************************************************)
(* Proofs about JobClock and the worker it waits for.  Of the worker and   *)
(* its queue: every request gets the reply of its own call, a silence the  *)
(* worker ends a run for is one of the SDK, and the history bears out the  *)
(* limit a run was stopped for.  Of the job: what its clocks guarantee,    *)
(* for all limits.                                                         *)
(***************************************************************************)
EXTENDS JobClock, SequenceTheorems, FiniteSetTheorems, TLAPS

-----------------------------------------------------------------------------
(***************************************************************************)
(* What the queue holds, and in which order.                               *)
(***************************************************************************)

Items ==
  {Heartbeat(time) : time \in Nat} \cup {Requested(id) : id \in Nat}
  \cup {End(reason) : reason \in Reasons}

(* A queue that holds the requests after the first n, up to r, in order.   *)
Fifo(q, n, r) ==
  /\ \A id \in n + 1..r : \E k \in 1..Len(q) : q[k] = Requested(id)
  /\ \A k \in 1..Len(q) : q[k].kind = "call" => q[k].id \in n + 1..r
  /\ \A j, k \in 1..Len(q) :
       j < k /\ q[j].kind = "call" /\ q[k].kind = "call" => q[j].id < q[k].id

(* A queue without a message, and one whose last message is of that time.  *)
NoBeat(q) == \A k \in 1..Len(q) : q[k].kind # "heartbeat"
LastBeat(q, time) ==
  \E k \in 1..Len(q) :
    /\ q[k] = Heartbeat(time)
    /\ \A j \in k + 1..Len(q) : q[j].kind # "heartbeat"

LEMMA Kinds ==
  ASSUME NEW item \in Items
  PROVE  /\ item.kind \in {"heartbeat", "call", "end"}
         /\ item.kind = "heartbeat" => item.at \in Nat /\ item = Heartbeat(item.at)
         /\ item.kind = "call" => item.id \in Nat /\ item = Requested(item.id)
         /\ item.kind = "end" => item.reason \in Reasons
BY DEF Items, Heartbeat, Requested, End

LEMMA Appended ==
  ASSUME NEW q \in Seq(Items), NEW item \in Items
  PROVE  /\ Append(q, item) \in Seq(Items)
         /\ Len(q) \in Nat /\ Len(Append(q, item)) = Len(q) + 1
         /\ \A k \in 1..Len(q) : Append(q, item)[k] = q[k]
         /\ Append(q, item)[Len(q) + 1] = item
BY AppendProperties, LenProperties

LEMMA FifoWaits ==
  ASSUME NEW q \in Seq(Items), NEW item \in Items, item.kind # "call",
         NEW n \in Nat, NEW r \in Nat, Fifo(q, n, r)
  PROVE  Fifo(Append(q, item), n, r)
<1> DEFINE t == Append(q, item)
<1>1. /\ Len(q) \in Nat /\ Len(t) = Len(q) + 1
      /\ \A k \in 1..Len(q) : t[k] = q[k]
      /\ t[Len(q) + 1] = item
  BY Appended
<1> HIDE DEF t
<1>2. \A k \in 1..Len(t) : t[k].kind = "call" => k \in 1..Len(q) /\ t[k] = q[k]
  BY <1>1
<1>3. 1..Len(q) \subseteq 1..Len(t)
  BY <1>1
<1>4. Fifo(t, n, r)
  BY <1>1, <1>2, <1>3 DEF Fifo
<1> QED BY <1>4 DEF t

LEMMA FifoGrows ==
  ASSUME NEW q \in Seq(Items), NEW n \in Nat, NEW r \in Nat, n <= r, Fifo(q, n, r)
  PROVE  Fifo(Append(q, Requested(r + 1)), n, r + 1)
<1> DEFINE t == Append(q, Requested(r + 1))
<1>1. /\ Requested(r + 1) \in Items /\ Requested(r + 1).id = r + 1
      /\ Requested(r + 1).kind = "call"
  BY DEF Items, Requested
<1>2. /\ Len(q) \in Nat /\ Len(t) = Len(q) + 1
      /\ \A k \in 1..Len(q) : t[k] = q[k]
      /\ t[Len(q) + 1] = Requested(r + 1)
  BY <1>1, Appended
<1> HIDE DEF t
<1>3. \A id \in n + 1..r + 1 : \E k \in 1..Len(t) : t[k] = Requested(id)
  <2> TAKE id \in n + 1..r + 1
  <2>1. CASE id = r + 1
    BY <1>2, <2>1
  <2>2. CASE id # r + 1
    <3>1. PICK k \in 1..Len(q) : q[k] = Requested(id)
      BY <2>2 DEF Fifo
    <3>2. k \in 1..Len(t) /\ t[k] = Requested(id)
      BY <1>2, <3>1
    <3> QED BY <3>2
  <2> QED BY <2>1, <2>2
<1>4. \A k \in 1..Len(t) : t[k].kind = "call" => t[k].id \in n + 1..r + 1
  <2> TAKE k \in 1..Len(t)
  <2>1. CASE k = Len(q) + 1
    BY <1>1, <1>2, <2>1
  <2>2. CASE k # Len(q) + 1
    BY <1>2, <2>2 DEF Fifo
  <2> QED BY <2>1, <2>2
<1>5. ASSUME NEW j \in 1..Len(t), NEW k \in 1..Len(t), j < k,
             t[j].kind = "call", t[k].kind = "call"
      PROVE  t[j].id < t[k].id
  <2>1. j \in 1..Len(q) /\ t[j] = q[j]
    BY <1>2, <1>5
  <2>2. CASE k = Len(q) + 1
    <3>1. q[j].id \in n + 1..r
      BY <1>5, <2>1 DEF Fifo
    <3>2. t[k].id = r + 1
      BY <1>1, <1>2, <2>2
    <3> QED BY <2>1, <3>1, <3>2
  <2>3. CASE k # Len(q) + 1
    <3>1. k \in 1..Len(q) /\ t[k] = q[k]
      BY <1>2, <2>3
    <3> QED BY <1>5, <2>1, <3>1 DEF Fifo
  <2> QED BY <2>2, <2>3
<1>6. Fifo(t, n, r + 1)
  BY <1>3, <1>4, <1>5 DEF Fifo
<1> QED BY <1>6 DEF t

LEMMA Shortened ==
  ASSUME NEW q \in Seq(Items), q # <<>>
  PROVE  /\ Tail(q) \in Seq(Items) /\ Head(q) \in Items /\ Head(q) = q[1]
         /\ Len(q) \in Nat \ {0} /\ Len(Tail(q)) = Len(q) - 1
         /\ \A k \in 1..Len(Tail(q)) : Tail(q)[k] = q[k + 1]
BY HeadTailProperties, EmptySeq, LenProperties

LEMMA FifoTakes ==
  ASSUME NEW q \in Seq(Items), q # <<>>, NEW n \in Nat, NEW r \in Nat, Fifo(q, n, r)
  PROVE  /\ Head(q).kind # "call" => Fifo(Tail(q), n, r)
         /\ Head(q).kind = "call" =>
              Head(q).id = n + 1 /\ n + 1 <= r /\ Fifo(Tail(q), n + 1, r)
<1> DEFINE t == Tail(q)
           h == Head(q)
<1>1. /\ h \in Items /\ h = q[1]
      /\ Len(q) \in Nat \ {0} /\ Len(t) = Len(q) - 1
      /\ \A k \in 1..Len(t) : t[k] = q[k + 1]
  BY Shortened
<1> HIDE DEF t, h
<1>2. \A k \in 1..Len(t) : k + 1 \in 1..Len(q)
  BY <1>1
<1>3. \A k \in 1..Len(q) : k # 1 => k - 1 \in 1..Len(t) /\ t[k - 1] = q[k]
  BY <1>1
<1>4. \A j, k \in 1..Len(t) :
        j < k /\ t[j].kind = "call" /\ t[k].kind = "call" => t[j].id < t[k].id
  <2> SUFFICES ASSUME NEW j \in 1..Len(t), NEW k \in 1..Len(t), j < k,
                      t[j].kind = "call", t[k].kind = "call"
               PROVE  t[j].id < t[k].id
    OBVIOUS
  <2>1. /\ j + 1 \in 1..Len(q) /\ k + 1 \in 1..Len(q) /\ j + 1 < k + 1
        /\ t[j] = q[j + 1] /\ t[k] = q[k + 1]
    BY <1>1, <1>2
  <2>2. \A a, b \in 1..Len(q) :
          a < b /\ q[a].kind = "call" /\ q[b].kind = "call" => q[a].id < q[b].id
    BY DEF Fifo
  <2>3. q[j + 1].id < q[k + 1].id
    BY <2>1, <2>2
  <2> QED BY <2>1, <2>3
<1>5. ASSUME h.kind # "call"
      PROVE  Fifo(t, n, r)
  <2>1. ASSUME NEW id \in n + 1..r
        PROVE  \E k \in 1..Len(t) : t[k] = Requested(id)
    <3>1. PICK k \in 1..Len(q) : q[k] = Requested(id)
      BY DEF Fifo
    <3>2. k # 1
      BY <1>1, <1>5, <3>1 DEF Requested
    <3> QED BY <1>3, <3>1, <3>2
  <2> QED BY <1>1, <1>2, <1>4, <2>1 DEF Fifo
<1>6. ASSUME h.kind = "call"
      PROVE  h.id = n + 1 /\ n + 1 <= r /\ Fifo(t, n + 1, r)
  <2>1. 1 \in 1..Len(q) /\ h.id \in n + 1..r
    BY <1>1, <1>6 DEF Fifo
  <2>2. \A k \in 1..Len(q) : k # 1 /\ q[k].kind = "call" => h.id < q[k].id
    BY <1>1, <1>6, <2>1 DEF Fifo
  <2>3. PICK k \in 1..Len(q) : q[k] = Requested(n + 1)
    BY <2>1 DEF Fifo
  <2>4. q[k].kind = "call" /\ q[k].id = n + 1
    BY <2>3 DEF Requested
  <2>5. h.id = n + 1
    BY <1>1, <2>1, <2>2, <2>4
  <2>6. ASSUME NEW id \in n + 2..r
        PROVE  \E m \in 1..Len(t) : t[m] = Requested(id)
    <3>1. PICK m \in 1..Len(q) : q[m] = Requested(id)
      BY <2>6 DEF Fifo
    <3>2. m # 1
      BY <1>1, <2>5, <2>6, <3>1 DEF Requested
    <3> QED BY <1>3, <3>1, <3>2
  <2>7. \A m \in 1..Len(t) : t[m].kind = "call" => t[m].id \in n + 2..r
    <3> TAKE m \in 1..Len(t)
    <3>1. m + 1 \in 1..Len(q) /\ m + 1 # 1 /\ t[m] = q[m + 1]
      BY <1>1, <1>2
    <3> QED BY <2>2, <2>5, <3>1 DEF Fifo
  <2> QED BY <1>4, <2>1, <2>5, <2>6, <2>7 DEF Fifo
<1> QED BY <1>5, <1>6 DEF t, h

LEMMA BeatsGrow ==
  ASSUME NEW q \in Seq(Items), NEW item \in Items, NEW time \in Nat
  PROVE  /\ item.kind # "heartbeat" /\ NoBeat(q) => NoBeat(Append(q, item))
         /\ item.kind # "heartbeat" /\ LastBeat(q, time) => LastBeat(Append(q, item), time)
         /\ item = Heartbeat(time) => LastBeat(Append(q, item), time)
<1> DEFINE t == Append(q, item)
<1>1. /\ Len(q) \in Nat /\ Len(t) = Len(q) + 1
      /\ \A k \in 1..Len(q) : t[k] = q[k]
      /\ t[Len(q) + 1] = item
  BY Appended
<1> HIDE DEF t
<1>2. item.kind # "heartbeat" /\ NoBeat(q) => NoBeat(t)
  BY <1>1 DEF NoBeat
<1>3. ASSUME item.kind # "heartbeat", LastBeat(q, time)
      PROVE  LastBeat(t, time)
  <2>1. PICK k \in 1..Len(q) : /\ q[k] = Heartbeat(time)
                               /\ \A j \in k + 1..Len(q) : q[j].kind # "heartbeat"
    BY <1>3 DEF LastBeat
  <2>2. k \in 1..Len(t) /\ t[k] = Heartbeat(time)
    BY <1>1, <2>1
  <2>3. \A j \in k + 1..Len(t) : t[j].kind # "heartbeat"
    BY <1>1, <1>3, <2>1
  <2> QED BY <2>2, <2>3 DEF LastBeat
<1>4. ASSUME item = Heartbeat(time)
      PROVE  LastBeat(t, time)
  <2>1. Len(t) \in 1..Len(t) /\ t[Len(t)] = item /\ Len(t) + 1..Len(t) = {}
    BY <1>1
  <2> QED BY <1>4, <2>1 DEF LastBeat
<1> QED BY <1>2, <1>3, <1>4 DEF t

LEMMA BeatsShrink ==
  ASSUME NEW q \in Seq(Items), q # <<>>, NEW time \in Nat
  PROVE  /\ NoBeat(q) => NoBeat(Tail(q)) /\ Head(q).kind # "heartbeat"
         /\ LastBeat(q, time) =>
              \/ LastBeat(Tail(q), time)
              \/ NoBeat(Tail(q)) /\ Head(q) = Heartbeat(time)
<1> DEFINE t == Tail(q)
           h == Head(q)
<1>1. /\ h = q[1] /\ Len(q) \in Nat \ {0} /\ Len(t) = Len(q) - 1
      /\ \A k \in 1..Len(t) : t[k] = q[k + 1]
  BY Shortened
<1> HIDE DEF t, h
<1>2. NoBeat(q) => NoBeat(t) /\ h.kind # "heartbeat"
  BY <1>1 DEF NoBeat
<1>3. ASSUME LastBeat(q, time)
      PROVE  LastBeat(t, time) \/ (NoBeat(t) /\ h = Heartbeat(time))
  <2>1. PICK k \in 1..Len(q) : /\ q[k] = Heartbeat(time)
                               /\ \A j \in k + 1..Len(q) : q[j].kind # "heartbeat"
    BY <1>3 DEF LastBeat
  <2>2. CASE k = 1
    BY <1>1, <2>1, <2>2 DEF NoBeat
  <2>3. CASE k # 1
    <3>1. k - 1 \in 1..Len(t) /\ t[k - 1] = Heartbeat(time)
      BY <1>1, <2>1, <2>3
    <3>2. \A j \in (k - 1) + 1..Len(t) : t[j].kind # "heartbeat"
      BY <1>1, <2>1, <2>3
    <3> QED BY <3>1, <3>2 DEF LastBeat
  <2> QED BY <2>2, <2>3
<1> QED BY <1>2, <1>3 DEF t, h

-----------------------------------------------------------------------------
(***************************************************************************)
(* The invariant.                                                          *)
(***************************************************************************)

AllReplies == UNION {Replies(call) : call \in Calls}
Asked == [call : Calls, answer : AllReplies \cup {Waiting, Dropped}]
Done == [call : Calls, reply : AllReplies]

LoopTypes ==
  /\ now \in Nat /\ since \in Nat /\ heard \in Nat /\ heard <= now
  /\ queue \in Seq(Items) /\ requests \in Seq(Asked) /\ executed \in Seq(Done)
  /\ pc \in {"created", "ask", "tool", "close", "ended"}

(* The worker has taken the requests up to this one from the queue; only   *)
(* the last of them, while it is with a tool, has not been executed.       *)
Taken == IF pc = "tool" THEN Len(executed) + 1 ELSE Len(executed)

QueueIsFifo ==
  /\ Listening => Taken <= Len(requests) /\ Fifo(queue, Taken, Len(requests))
  /\ pc = "tool" => pending = Taken
  /\ pc \in {"created", "ended"} =>
       queue = <<>> /\ requests = <<>> /\ executed = <<>>

(* The last message is in the queue, or the wait at hand counts from it.   *)
SilenceIsKnown ==
  Listening => \/ LastBeat(queue, heard)
               \/ NoBeat(queue) /\ (pc = "ask" => since >= heard)

LoopInv == LoopTypes /\ QueueIsFifo /\ SilenceIsKnown /\ RepliesMatch

LEMMA EmptyQueue ==
  /\ <<>> \in Seq(Items) /\ <<>> \in Seq(Asked) /\ <<>> \in Seq(Done)
  /\ Len(<<>>) = 0 /\ DOMAIN <<>> = {}
  /\ NoBeat(<<>>) /\ \A time : ~LastBeat(<<>>, time)
  /\ Fifo(<<>>, 0, 0)
BY DEF NoBeat, LastBeat, Fifo

LEMMA LoopStarts == Init => LoopInv
<1> SUFFICES ASSUME Init PROVE LoopInv
  OBVIOUS
<1> USE EmptyQueue DEF Init, LoopInit
<1>1. LoopTypes
  BY DEF LoopTypes
<1>2. QueueIsFifo
  BY DEF QueueIsFifo, Listening
<1>3. SilenceIsKnown
  BY DEF SilenceIsKnown, Listening
<1>4. RepliesMatch
  BY DEF RepliesMatch
<1> QED BY <1>1, <1>2, <1>3, <1>4 DEF LoopInv

LEMMA Lengths ==
  ASSUME LoopTypes
  PROVE  /\ Len(requests) \in Nat /\ DOMAIN requests = 1..Len(requests)
         /\ Len(executed) \in Nat /\ Len(queue) \in Nat
         /\ Taken \in Nat
         /\ \A id \in DOMAIN requests : requests[id] \in Asked
BY LenProperties, ElementOfSeq DEF LoopTypes, Taken

LEMMA MessageKeeps ==
  ASSUME LoopInv, Message
  PROVE  LoopInv'
<1> DEFINE item == Heartbeat(now)
<1>1. item \in Items /\ item.kind # "call"
  BY DEF LoopInv, LoopTypes, Items, Heartbeat
<1>2. /\ queue' = Append(queue, item) /\ heard' = now /\ Listening
      /\ UNCHANGED <<now, pc, since, requests, pending, executed>>
  BY DEF Message, Listening, policy
<1> HIDE DEF item
<1>3. LoopTypes'
  BY <1>1, <1>2, Appended DEF LoopInv, LoopTypes
<1>4. QueueIsFifo'
  <2>1. Fifo(queue, Taken, Len(requests)) => Fifo(queue', Taken, Len(requests))
    BY <1>1, <1>2, FifoWaits, Lengths DEF LoopInv, LoopTypes
  <2> QED BY <1>2, <2>1 DEF LoopInv, QueueIsFifo, Taken, Listening
<1>5. SilenceIsKnown'
  <2>1. LastBeat(Append(queue, item), now)
    BY <1>1, BeatsGrow DEF LoopInv, LoopTypes, item
  <2> QED BY <1>2, <2>1 DEF SilenceIsKnown
<1>6. RepliesMatch'
  BY <1>2 DEF LoopInv, RepliesMatch
<1> QED BY <1>3, <1>4, <1>5, <1>6 DEF LoopInv

LEMMA RequestKeeps ==
  ASSUME LoopInv, NEW call \in Calls, Request(call)
  PROVE  LoopInv'
<1> DEFINE item == Requested(Len(requests) + 1)
           ask == [call |-> call, answer |-> Waiting]
<1>1. /\ Len(requests) \in Nat /\ item \in Items /\ item.kind # "heartbeat"
      /\ ask \in Asked /\ ask.call = call /\ ask.answer = Waiting
  BY Lengths DEF LoopInv, Items, Requested, Asked
<1>2. /\ queue' = Append(queue, item) /\ requests' = Append(requests, ask)
      /\ Listening
      /\ UNCHANGED <<now, pc, since, heard, pending, executed>>
  BY DEF Request, Listening
<1>3. /\ requests' \in Seq(Asked) /\ Len(requests') = Len(requests) + 1
      /\ \A id \in 1..Len(requests) : requests'[id] = requests[id]
      /\ requests'[Len(requests) + 1] = ask
  BY <1>1, <1>2, AppendProperties, LenProperties DEF LoopInv, LoopTypes
<1> HIDE DEF item, ask
<1>4. LoopTypes'
  BY <1>1, <1>2, <1>3, Appended DEF LoopInv, LoopTypes
<1>5. QueueIsFifo'
  <2>1. Taken <= Len(requests) /\ Fifo(queue, Taken, Len(requests))
    BY <1>2 DEF LoopInv, QueueIsFifo
  <2>2. Fifo(queue', Taken, Len(requests) + 1)
    BY <1>2, <2>1, FifoGrows, Lengths DEF LoopInv, LoopTypes, item
  <2>3. Taken' = Taken
    BY <1>2 DEF Taken
  <2> QED BY <1>1, <1>2, <1>3, <2>1, <2>2, <2>3, Lengths
          DEF LoopInv, QueueIsFifo, Listening
<1>6. SilenceIsKnown'
  BY <1>1, <1>2, BeatsGrow DEF LoopInv, LoopTypes, SilenceIsKnown
<1>7. RepliesMatch'
  <2>1. DOMAIN requests' = 1..Len(requests) + 1 /\ DOMAIN requests = 1..Len(requests)
    BY <1>3, <1>4, Lengths, LenProperties DEF LoopInv, LoopTypes
  <2>2. Len(executed) <= Len(requests) /\ Len(executed) \in Nat
    BY <1>2, Lengths DEF LoopInv, QueueIsFifo, Taken
  <2> QED BY <1>1, <1>2, <1>3, <2>1, <2>2 DEF LoopInv, RepliesMatch, Listening
<1> QED BY <1>4, <1>5, <1>6, <1>7 DEF LoopInv

LEMMA AbandonKeeps ==
  ASSUME LoopInv, NEW id \in DOMAIN requests, Abandon(id)
  PROVE  LoopInv'
<1> DEFINE dropped == [requests[id] EXCEPT !.answer = Dropped]
<1>1. /\ requests[id] \in Asked /\ requests[id].answer = Waiting /\ Listening
      /\ Len(requests) \in Nat /\ DOMAIN requests = 1..Len(requests)
  BY Lengths DEF LoopInv, Abandon, WaitingRequests, Listening
<1>2. dropped \in Asked /\ dropped.call = requests[id].call /\ dropped.answer = Dropped
  BY <1>1 DEF Asked
<1>3. requests' = [requests EXCEPT ![id] = dropped]
  BY DEF Abandon
<1> HIDE DEF dropped
<1>4. UNCHANGED <<now, pc, since, heard, queue, pending, executed>>
  BY DEF Abandon
<1>5. requests' \in Seq(Asked) /\ Len(requests') = Len(requests)
  BY <1>1, <1>2, <1>3, ExceptSeq DEF LoopInv, LoopTypes
<1>6. LoopTypes'
  BY <1>4, <1>5 DEF LoopInv, LoopTypes
<1>7. QueueIsFifo'
  <2>1. requests # <<>> /\ Taken' = Taken
    BY <1>1, <1>4 DEF Taken
  <2>2. Taken <= Len(requests) /\ Fifo(queue, Taken, Len(requests))
    BY <1>1 DEF LoopInv, QueueIsFifo
  <2>3. Fifo(queue', Taken', Len(requests'))
    BY <1>4, <1>5, <2>1, <2>2
  <2>4. pc \notin {"created", "ended"}
    BY <1>1 DEF Listening
  <2>5. pc = "tool" => pending = Taken
    BY DEF LoopInv, QueueIsFifo
  <2> QED BY <1>4, <1>5, <2>1, <2>2, <2>3, <2>4, <2>5 DEF QueueIsFifo
<1>8. SilenceIsKnown'
  BY <1>4 DEF LoopInv, SilenceIsKnown, Listening
<1>9. RepliesMatch'
  <2>1. DOMAIN requests' = DOMAIN requests /\ UNCHANGED <<executed, pc>>
    BY <1>3, <1>4
  <2>2. ASSUME NEW k \in DOMAIN requests
        PROVE  IF k <= Len(executed)
               THEN /\ executed[k].call = requests'[k].call
                    /\ requests'[k].answer \in {executed[k].reply, Dropped}
               ELSE requests'[k].answer \in (IF pc = "close" THEN {Dropped}
                                             ELSE {Waiting, Dropped})
    <3>1. CASE k = id
      BY <1>1, <1>2, <1>3, <3>1 DEF LoopInv, RepliesMatch
    <3>2. CASE k # id
      BY <1>3, <3>2 DEF LoopInv, RepliesMatch
    <3> QED BY <3>1, <3>2
  <2> QED BY <2>1, <2>2 DEF RepliesMatch
<1> QED BY <1>6, <1>7, <1>8, <1>9 DEF LoopInv

LEMMA EndOfTalkKeeps ==
  ASSUME LoopInv, NEW reason \in Reasons, EndOfTalk(reason)
  PROVE  LoopInv'
<1> DEFINE item == End(reason)
<1>1. item \in Items /\ item.kind # "call" /\ item.kind # "heartbeat"
  BY DEF Items, End
<1>2. /\ queue' = Append(queue, item) /\ Listening
      /\ UNCHANGED <<now, pc, since, heard, requests, pending, executed>>
  BY DEF EndOfTalk, Listening
<1> HIDE DEF item
<1>3. LoopTypes'
  BY <1>1, <1>2, Appended DEF LoopInv, LoopTypes
<1>4. QueueIsFifo'
  <2>1. Fifo(queue, Taken, Len(requests)) => Fifo(queue', Taken, Len(requests))
    BY <1>1, <1>2, FifoWaits, Lengths DEF LoopInv, LoopTypes
  <2> QED BY <1>2, <2>1 DEF LoopInv, QueueIsFifo, Taken, Listening
<1>5. SilenceIsKnown'
  BY <1>1, <1>2, BeatsGrow DEF LoopInv, LoopTypes, SilenceIsKnown
<1>6. RepliesMatch'
  BY <1>2 DEF LoopInv, RepliesMatch
<1> QED BY <1>3, <1>4, <1>5, <1>6 DEF LoopInv

LEMMA TakeHeartbeatKeeps ==
  ASSUME LoopInv, TakeHeartbeat
  PROVE  LoopInv'
<1>1. /\ pc = "ask" /\ queue # <<>> /\ queue' = Tail(queue)
      /\ Head(queue).kind = "heartbeat" /\ since' = Head(queue).at
      /\ UNCHANGED <<now, pc, heard, requests, pending, executed>>
  BY DEF TakeHeartbeat
<1>2. /\ Tail(queue) \in Seq(Items) /\ Head(queue) \in Items
      /\ Head(queue).at \in Nat
  BY <1>1, Shortened, Kinds DEF LoopInv, LoopTypes
<1>3. LoopTypes'
  BY <1>1, <1>2 DEF LoopInv, LoopTypes
<1>4. QueueIsFifo'
  <2>1. Taken <= Len(requests) /\ Fifo(queue, Taken, Len(requests))
    BY <1>1 DEF LoopInv, QueueIsFifo, Listening
  <2>2. Fifo(queue', Taken, Len(requests))
    BY <1>1, <2>1, FifoTakes, Lengths DEF LoopInv, LoopTypes
  <2> QED BY <1>1, <2>1, <2>2 DEF QueueIsFifo, Taken, Listening
<1>5. SilenceIsKnown'
  <2>1. CASE LastBeat(queue, heard)
    <3>1. LastBeat(queue', heard) \/ (NoBeat(queue') /\ Head(queue) = Heartbeat(heard))
      BY <1>1, <2>1, BeatsShrink DEF LoopInv, LoopTypes
    <3>2. Heartbeat(heard).at = heard
      BY DEF Heartbeat
    <3>3. heard' = heard /\ heard \in Nat
      BY <1>1 DEF LoopInv, LoopTypes
    <3>4. NoBeat(queue') /\ Head(queue) = Heartbeat(heard) => since' >= heard'
      BY <1>1, <3>2, <3>3
    <3>5. LastBeat(queue', heard') \/ (NoBeat(queue') /\ since' >= heard')
      BY <3>1, <3>3, <3>4
    <3> QED BY <3>5 DEF SilenceIsKnown
  <2>2. ~NoBeat(queue)
    BY <1>1, BeatsShrink DEF LoopInv, LoopTypes
  <2> QED BY <1>1, <2>1, <2>2 DEF LoopInv, SilenceIsKnown, Listening
<1>6. RepliesMatch'
  BY <1>1 DEF LoopInv, RepliesMatch
<1> QED BY <1>3, <1>4, <1>5, <1>6 DEF LoopInv

LEMMA TakeCallKeeps ==
  ASSUME LoopInv, TakeCall
  PROVE  LoopInv'
<1>1. /\ pc = "ask" /\ queue # <<>> /\ queue' = Tail(queue)
      /\ Head(queue).kind = "call"
      /\ pc' = "tool" /\ since' = now /\ pending' = Head(queue).id
      /\ UNCHANGED <<now, heard, requests, executed>>
  BY DEF TakeCall
<1>2. Tail(queue) \in Seq(Items)
  BY <1>1, Shortened DEF LoopInv, LoopTypes
<1>3. LoopTypes'
  BY <1>1, <1>2 DEF LoopInv, LoopTypes
<1>4. QueueIsFifo'
  <2>1. Taken = Len(executed) /\ Taken' = Taken + 1 /\ Taken \in Nat
    BY <1>1, Lengths DEF Taken, LoopInv
  <2>2. Fifo(queue, Taken, Len(requests))
    BY <1>1 DEF LoopInv, QueueIsFifo, Listening
  <2>3. /\ Head(queue).id = Taken + 1 /\ Taken + 1 <= Len(requests)
        /\ Fifo(queue', Taken + 1, Len(requests))
    BY <1>1, <2>1, <2>2, FifoTakes, Lengths DEF LoopInv, LoopTypes
  <2> QED BY <1>1, <2>1, <2>3 DEF QueueIsFifo, Listening
<1>5. SilenceIsKnown'
  <2>1. Head(queue) # Heartbeat(heard)
    BY <1>1 DEF Heartbeat
  <2> QED BY <1>1, <2>1, BeatsShrink DEF LoopInv, LoopTypes, SilenceIsKnown, Listening
<1>6. RepliesMatch'
  BY <1>1 DEF LoopInv, RepliesMatch
<1> QED BY <1>3, <1>4, <1>5, <1>6 DEF LoopInv

(* What stopping does to the requests: those that wait are dropped. *)
LEMMA StopDrops ==
  ASSUME LoopTypes, NEW limit, Stop(limit)
  PROVE  /\ requests' \in Seq(Asked) /\ DOMAIN requests' = DOMAIN requests
         /\ \A id \in DOMAIN requests :
              /\ requests'[id].call = requests[id].call
              /\ requests[id].answer = Waiting => requests'[id].answer = Dropped
              /\ requests[id].answer # Waiting
                   => requests'[id].answer = requests[id].answer
<1>1. requests' = [id \in DOMAIN requests |->
                     IF id \in WaitingRequests
                     THEN [requests[id] EXCEPT !.answer = Dropped]
                     ELSE requests[id]]
  BY DEF Stop
<1>2. /\ Len(requests) \in Nat /\ DOMAIN requests = 1..Len(requests)
      /\ \A id \in DOMAIN requests : requests[id] \in Asked
  BY Lengths
<1>3. DOMAIN requests' = DOMAIN requests
  BY <1>1
<1>4. ASSUME NEW id \in DOMAIN requests
      PROVE  /\ requests'[id] \in Asked /\ requests'[id].call = requests[id].call
             /\ requests'[id].answer =
                  IF requests[id].answer = Waiting THEN Dropped ELSE requests[id].answer
  BY <1>1, <1>2 DEF Asked, WaitingRequests
<1>5. requests' \in Seq(Asked)
  <2>1. requests' \in [1..Len(requests) -> Asked]
    BY <1>1, <1>2, <1>3, <1>4
  <2> QED BY <1>2, <2>1, SeqDef
<1> QED BY <1>3, <1>4, <1>5

(* The loop stops while no reply is counted, or at once after one. *)
LEMMA StopKeeps ==
  ASSUME LoopInv, Listening, NEW limit, Stop(limit),
         executed' = executed, queue' \in Seq(Items)
  PROVE  LoopInv'
<1>1. pc # "close" /\ pc' = "close" /\ since' = now /\ UNCHANGED <<now, heard>>
  BY DEF Stop, Listening
<1>2. LoopTypes'
  BY <1>1, StopDrops DEF LoopInv, LoopTypes
<1>3. QueueIsFifo' /\ SilenceIsKnown'
  BY <1>1 DEF QueueIsFifo, SilenceIsKnown, Listening
<1>4. ASSUME NEW id \in DOMAIN requests
      PROVE  IF id <= Len(executed)
             THEN /\ executed[id].call = requests'[id].call
                  /\ requests'[id].answer \in {executed[id].reply, Dropped}
             ELSE requests'[id].answer \in {Dropped}
  <2>1. IF id <= Len(executed)
        THEN /\ executed[id].call = requests[id].call
             /\ requests[id].answer \in {executed[id].reply, Dropped}
        ELSE requests[id].answer \in {Waiting, Dropped}
    BY <1>1 DEF LoopInv, RepliesMatch
  <2> QED BY <2>1, StopDrops DEF LoopInv
<1>5. RepliesMatch'
  BY <1>1, <1>4, StopDrops DEF LoopInv, RepliesMatch
<1> QED BY <1>2, <1>3, <1>5 DEF LoopInv

LEMMA StopAfterReplyKeeps ==
  ASSUME LoopInv, pc = "tool", NEW reply \in Replies(requests[pending].call),
         executed' = Append(executed,
                            [call |-> requests[pending].call, reply |-> reply]),
         NEW limit, Stop(limit), UNCHANGED queue
  PROVE  LoopInv'
<1> DEFINE call == requests[pending].call
           entry == [call |-> call, reply |-> reply]
<1>1. pc' = "close" /\ since' = now /\ UNCHANGED <<now, heard>>
  BY DEF Stop
<1>2. /\ Len(executed) \in Nat /\ pending = Len(executed) + 1
      /\ pending \in 1..Len(requests) /\ DOMAIN requests = 1..Len(requests)
      /\ Len(requests) \in Nat /\ requests[pending] \in Asked
  BY Lengths DEF LoopInv, QueueIsFifo, Taken, Listening
<1>3. entry \in Done /\ entry.call = call
  BY <1>2 DEF Done, Asked, AllReplies
<1>4. /\ executed' \in Seq(Done) /\ Len(executed') = Len(executed) + 1
      /\ \A k \in 1..Len(executed) : executed'[k] = executed[k]
      /\ executed'[pending] = entry
  BY <1>2, <1>3, AppendProperties DEF LoopInv, LoopTypes
<1> HIDE DEF entry, call
<1>5. LoopTypes'
  BY <1>1, <1>4, StopDrops DEF LoopInv, LoopTypes
<1>6. QueueIsFifo' /\ SilenceIsKnown'
  BY <1>1 DEF QueueIsFifo, SilenceIsKnown, Listening
<1>7. ASSUME NEW id \in DOMAIN requests
      PROVE  IF id <= pending
             THEN /\ executed'[id].call = requests'[id].call
                  /\ requests'[id].answer \in {executed'[id].reply, Dropped}
             ELSE requests'[id].answer \in {Dropped}
  <2>1. CASE id < pending
    <3>1. id \in 1..Len(executed)
      BY <1>2, <2>1
    <3>2. /\ executed[id].call = requests[id].call
          /\ requests[id].answer \in {executed[id].reply, Dropped}
      BY <3>1 DEF LoopInv, RepliesMatch
    <3>3. id <= pending
      BY <1>2, <2>1
    <3> QED BY <1>4, <3>1, <3>2, <3>3, StopDrops DEF LoopInv
  <2>2. CASE id >= pending
    <3>1. requests[id].answer \in {Waiting, Dropped}
      BY <1>2, <2>2 DEF LoopInv, RepliesMatch
    <3>2. requests'[id].answer = Dropped /\ requests'[id].call = requests[id].call
      BY <3>1, StopDrops DEF LoopInv
    <3>3. id = pending => executed'[id].call = requests[id].call
      BY <1>3, <1>4 DEF call
    <3> QED BY <1>2, <2>2, <3>2, <3>3
  <2> QED BY <1>2, <2>1, <2>2
<1>8. RepliesMatch'
  <2>1. Len(executed') = pending /\ DOMAIN requests' = DOMAIN requests
    BY <1>2, <1>4, StopDrops DEF LoopInv
  <2> QED BY <1>1, <1>7, <2>1 DEF RepliesMatch
<1> QED BY <1>5, <1>6, <1>8 DEF LoopInv

(* A reply has come, and the worker asks again. *)
LEMMA AnswerKeeps ==
  ASSUME LoopInv, pc = "tool", NEW reply \in Replies(requests[pending].call),
         executed' = Append(executed,
                            [call |-> requests[pending].call, reply |-> reply]),
         pc' = "ask", since' = now, Answer(reply), UNCHANGED <<now, heard, queue>>
  PROVE  LoopInv'
<1> DEFINE call == requests[pending].call
           entry == [call |-> call, reply |-> reply]
           answered == [requests[pending] EXCEPT !.answer = reply]
<1>1. /\ Len(executed) \in Nat /\ pending = Len(executed) + 1
      /\ pending \in 1..Len(requests) /\ Fifo(queue, pending, Len(requests))
      /\ Len(requests) \in Nat /\ DOMAIN requests = 1..Len(requests)
      /\ requests[pending] \in Asked
  BY Lengths DEF LoopInv, QueueIsFifo, Taken, Listening
<1>2. reply \in AllReplies /\ call \in Calls
  BY <1>1 DEF AllReplies, Asked
<1>3. /\ entry \in Done /\ entry.call = call /\ entry.reply = reply
      /\ answered \in Asked /\ answered.call = call /\ answered.answer = reply
  BY <1>1, <1>2 DEF Done, Asked
<1>4. /\ executed' \in Seq(Done) /\ Len(executed') = Len(executed) + 1
      /\ \A k \in 1..Len(executed) : executed'[k] = executed[k]
      /\ executed'[pending] = entry
  BY <1>1, <1>3, AppendProperties DEF LoopInv, LoopTypes
<1>5. \/ requests' = requests /\ requests[pending].answer # Waiting
      \/ requests' = [requests EXCEPT ![pending] = answered]
  BY <1>1 DEF Answer, WaitingRequests
<1> HIDE DEF entry, answered, call
<1>6. /\ requests' \in Seq(Asked) /\ Len(requests') = Len(requests)
      /\ DOMAIN requests' = DOMAIN requests
  <2>1. requests \in Seq(Asked)
    BY DEF LoopInv, LoopTypes
  <2>2. /\ [requests EXCEPT ![pending] = answered] \in Seq(Asked)
        /\ Len([requests EXCEPT ![pending] = answered]) = Len(requests)
    BY <1>1, <1>3, <2>1, ExceptSeq
  <2>3. DOMAIN [requests EXCEPT ![pending] = answered] = DOMAIN requests
    OBVIOUS
  <2> QED BY <1>5, <2>1, <2>2, <2>3
<1>7. LoopTypes'
  BY <1>4, <1>6 DEF LoopInv, LoopTypes
<1>8. QueueIsFifo'
  <2>1. Taken' = pending
    BY <1>1, <1>4 DEF Taken
  <2>2. Fifo(queue', Taken', Len(requests')) /\ Taken' <= Len(requests')
    BY <1>1, <1>6, <2>1
  <2> QED BY <2>2 DEF QueueIsFifo
<1>9. SilenceIsKnown'
  <2>1. LastBeat(queue, heard) \/ NoBeat(queue)
    BY DEF LoopInv, SilenceIsKnown, Listening
  <2>2. now >= heard
    BY DEF LoopInv, LoopTypes
  <2> QED BY <2>1, <2>2 DEF SilenceIsKnown
<1>10. RepliesMatch'
  <2>1. ASSUME NEW id \in DOMAIN requests
        PROVE  IF id <= pending
               THEN /\ executed'[id].call = requests'[id].call
                    /\ requests'[id].answer \in {executed'[id].reply, Dropped}
               ELSE requests'[id].answer \in {Waiting, Dropped}
    <3>1. CASE id < pending
      <4>1. id \in 1..Len(executed) /\ requests'[id] = requests[id]
        BY <1>1, <1>5, <3>1
      <4>2. /\ executed[id].call = requests[id].call
            /\ requests[id].answer \in {executed[id].reply, Dropped}
        BY <4>1 DEF LoopInv, RepliesMatch
      <4>3. id <= pending
        BY <1>1, <3>1
      <4> QED BY <1>4, <4>1, <4>2, <4>3
    <3>2. CASE id = pending
      <4>1. requests[id].answer \in {Waiting, Dropped}
        BY <1>1, <3>2 DEF LoopInv, RepliesMatch
      <4>2. requests'[id].call = call /\ requests'[id].answer \in {reply, Dropped}
        BY <1>1, <1>3, <1>5, <3>2, <4>1 DEF call
      <4> QED BY <1>1, <1>3, <1>4, <3>2, <4>2
    <3>3. CASE id > pending
      <4>1. requests'[id] = requests[id] /\ ~(id <= Len(executed)) /\ ~(id <= pending)
        BY <1>1, <1>5, <3>3
      <4> QED BY <4>1 DEF LoopInv, RepliesMatch
    <3> QED BY <1>1, <3>1, <3>2, <3>3
  <2>2. Len(executed') = pending
    BY <1>1, <1>4
  <2> QED BY <1>6, <2>1, <2>2 DEF RepliesMatch
<1> QED BY <1>7, <1>8, <1>9, <1>10 DEF LoopInv

LEMMA ReplyKeeps ==
  ASSUME LoopInv, Reply
  PROVE  LoopInv'
<1>1. PICK reply \in Replies(requests[pending].call) : pc = "tool" /\ ToolDone(reply)
  BY DEF Reply
<1>2. /\ executed' = Append(executed,
                            [call |-> requests[pending].call, reply |-> reply])
      /\ UNCHANGED queue
      /\ \/ \E limit : Stop(limit)
         \/ pc' = "ask" /\ since' = now /\ Answer(reply) /\ UNCHANGED <<now, heard>>
  BY <1>1 DEF ToolDone
<1>3. CASE pc' = "ask" /\ since' = now /\ Answer(reply) /\ UNCHANGED <<now, heard>>
  BY <1>1, <1>2, <1>3, AnswerKeeps
<1>4. ASSUME NEW limit, Stop(limit)
      PROVE  LoopInv'
  BY <1>1, <1>2, <1>4, StopAfterReplyKeeps
<1> QED BY <1>2, <1>3, <1>4

LEMMA TakeEndKeeps ==
  ASSUME LoopInv, TakeEnd
  PROVE  LoopInv'
<1>1. /\ Listening /\ Stop(StopOf(Head(queue).reason)) /\ executed' = executed
      /\ queue' = Tail(queue) /\ queue # <<>>
  BY DEF TakeEnd, Listening
<1>2. Tail(queue) \in Seq(Items)
  BY <1>1, Shortened DEF LoopInv, LoopTypes
<1> QED BY <1>1, <1>2, StopKeeps

LEMMA TimeoutKeeps ==
  ASSUME LoopInv, Timeout
  PROVE  LoopInv'
<1>1. PICK limit : Stop(limit)
  BY DEF Timeout
<1>2. Listening /\ executed' = executed /\ queue' = queue
  BY DEF Timeout, Listening, policy
<1> QED BY <1>1, <1>2, StopKeeps DEF LoopInv, LoopTypes

LEMMA StartKeeps ==
  ASSUME LoopInv, Start
  PROVE  LoopInv'
<1>1. /\ pc = "created" /\ pc' = "ask" /\ since' = now /\ heard' = now
      /\ UNCHANGED <<now, queue, requests, executed>>
      /\ queue = <<>> /\ requests = <<>> /\ executed = <<>>
  BY DEF Start, LoopInv, QueueIsFifo
<1> USE EmptyQueue
<1>2. LoopTypes'
  BY <1>1 DEF LoopInv, LoopTypes
<1>3. QueueIsFifo'
  BY <1>1 DEF QueueIsFifo, Taken
<1>4. SilenceIsKnown'
  BY <1>1 DEF SilenceIsKnown, LoopInv, LoopTypes
<1>5. RepliesMatch'
  BY <1>1 DEF RepliesMatch
<1> QED BY <1>2, <1>3, <1>4, <1>5 DEF LoopInv

LEMMA CloseKeeps ==
  ASSUME LoopInv, Close
  PROVE  LoopInv'
<1>1. /\ pc' = "ended" /\ since' = 0 /\ heard' = 0 /\ now' = now
      /\ queue' = <<>> /\ requests' = <<>> /\ executed' = <<>>
  BY DEF Close
<1> USE EmptyQueue
<1>2. LoopTypes'
  BY <1>1 DEF LoopInv, LoopTypes
<1>3. QueueIsFifo' /\ SilenceIsKnown' /\ RepliesMatch'
  BY <1>1 DEF QueueIsFifo, SilenceIsKnown, RepliesMatch, Listening
<1> QED BY <1>2, <1>3 DEF LoopInv

LEMMA UnchangedKeeps ==
  ASSUME LoopInv, UNCHANGED loop_vars
  PROVE  LoopInv'
<1>1. UNCHANGED <<now, pc, since, queue, requests, pending, heard, executed>>
  BY DEF loop_vars, policy
<1> QED BY <1>1 DEF LoopInv, LoopTypes, QueueIsFifo, SilenceIsKnown, RepliesMatch,
                    Taken, Listening

LEMMA TickKeeps ==
  ASSUME LoopInv, Tick
  PROVE  LoopInv'
<1>1. /\ now' = now + 1
      /\ UNCHANGED <<pc, since, queue, requests, pending, heard, executed>>
  BY DEF Tick, policy
<1> QED BY <1>1 DEF LoopInv, LoopTypes, QueueIsFifo, SilenceIsKnown, RepliesMatch,
                    Taken, Listening

LEMMA CancelKeeps ==
  ASSUME LoopInv, Cancel
  PROVE  LoopInv'
<1>1. CASE /\ pc \in {"ask", "tool"} /\ Stop(Cancelled)
           /\ UNCHANGED <<counters, queue, pending, executed>>
  BY <1>1, StopKeeps DEF LoopInv, LoopTypes, Listening
<1>2. CASE Close
  BY <1>2, CloseKeeps
<1>3. CASE UNCHANGED loop_vars
  BY <1>3, UnchangedKeeps
<1> QED BY <1>1, <1>2, <1>3 DEF Cancel

LEMMA LoopStep ==
  ASSUME LoopInv, [Next]_clock_vars
  PROVE  LoopInv'
<1>1. CASE Talk
  BY <1>1, MessageKeeps, RequestKeeps, AbandonKeeps, EndOfTalkKeeps DEF Talk
<1>2. CASE Reply
  BY <1>2, ReplyKeeps
<1>3. CASE Step
  BY <1>3, TakeHeartbeatKeeps, TakeCallKeeps, TakeEndKeeps, TimeoutKeeps, CloseKeeps
     DEF Step
<1>4. CASE JobStep \/ Saved \/ SaveFails \/ stop_jobs
  <2>1. Start \/ Cancel \/ UNCHANGED loop_vars
    BY <1>4 DEF JobStep, StartJob, Collect, OuterTimeout, GiveUp, SaveTimeout, Unsaved,
                Resume, Saved, SaveFails, Retry, stop_jobs, cancel_with_grace
  <2> QED BY <2>1, StartKeeps, CancelKeeps, UnchangedKeeps
<1>5. CASE Tick
  BY <1>5, TickKeeps
<1>6. CASE UNCHANGED clock_vars
  BY <1>6, UnchangedKeeps DEF clock_vars
<1> QED BY <1>1, <1>2, <1>3, <1>4, <1>5, <1>6 DEF Next

LEMMA LoopInvariant == Spec => []LoopInv
BY LoopStarts, LoopStep, PTL DEF Spec

(* Whatever the SDK asks for, abandons or is told, and however many of its *)
(* calls wait at once: they are executed in its order, each once, and no   *)
(* request gets the reply of another one.                                  *)
THEOREM RepliesAreMatched == Spec => []RepliesMatch
<1>1. LoopInv => RepliesMatch
  BY DEF LoopInv
<1> QED BY <1>1, LoopInvariant, PTL

(* Only a wait on an empty queue ends in silence, and it has lasted since  *)
(* the last message: for all limits, stalls and lengths of the queue.      *)
LEMMA SilentStep ==
  ASSUME LoopInv, [Next]_clock_vars, pc = "ask", pc' = "close",
         result' = Stopped("inactivity_timeout")
  PROVE  now >= heard + Inactivity
<1>1. Timeout
  <2>1. ~UNCHANGED <<pc, now>> /\ pc' # pc
    OBVIOUS
  <2>2. CASE Talk
    BY <2>2, <2>1 DEF Talk, Message, Request, Abandon, EndOfTalk
  <2>3. CASE Step
    <3>1. CASE TakeEnd
      BY <3>1 DEF TakeEnd, Stop, StopOf, Stopped, Failed
    <3> QED BY <2>3, <3>1 DEF Step, TakeHeartbeat, TakeCall, Close
  <2>4. CASE JobStep \/ Saved \/ SaveFails \/ stop_jobs
    <3>1. Start \/ Cancel \/ UNCHANGED loop_vars
      BY <2>4 DEF JobStep, StartJob, Collect, OuterTimeout, GiveUp, SaveTimeout,
                  Unsaved, Resume, Saved, SaveFails, Retry, stop_jobs, cancel_with_grace
    <3> QED BY <3>1, <2>1
            DEF Start, Cancel, Stop, Cancelled, Failed, Stopped, Close, loop_vars
  <2> QED BY <2>1, <2>2, <2>3, <2>4 DEF Next, Reply, Tick, clock_vars, loop_vars
<1>2. queue = <<>> /\ Overdue /\ ~(now >= deadline)
  BY <1>1 DEF Timeout, Stop, Stopped
<1>3. since >= heard
  BY <1>2, EmptyQueue DEF LoopInv, SilenceIsKnown, Listening
<1> QED BY <1>2, <1>3, LimitsAssumption DEF Overdue, LoopInv, LoopTypes

(* A run ends as silent only if the SDK has sent nothing for that long,    *)
(* however late the worker comes to its messages.                          *)
THEOREM SilencesAreReal == Spec => SilenceIsReal
<1>1. LoopInv /\ [Next]_clock_vars =>
        [pc = "ask" /\ pc' = "close" /\ result' = Stopped("inactivity_timeout")
           => now >= heard + Inactivity]_loop_vars
  BY SilentStep
<1> QED BY <1>1, LoopInvariant, PTL DEF Spec, SilenceIsReal

-----------------------------------------------------------------------------
(***************************************************************************)
(* What the counters of the worker say of its history.                     *)
(***************************************************************************)

(* The places from first on have the counter's key, and there are as many  *)
(* as it has counted; the place before them has another key, or none.      *)
From(key, first) == {k \in DOMAIN key : k >= first}
Differs(key, k, counter) ==
  key[k] = <<>> \/ (counter.count > 0 /\ key[k] # counter.key)
CountsFrom(counter, key, first) ==
  /\ counter.count = Cardinality(From(key, first))
  /\ \A k \in From(key, first) : key[k] = counter.key
  /\ counter.count > 0 => first \in DOMAIN key
  /\ \A k \in DOMAIN key : k < first =>
       \E j \in DOMAIN key : k <= j /\ j < first /\ Differs(key, j, counter)
Counts(counter, key) ==
  /\ counter.count > 0 => counter.key # <<>>
  /\ \E first \in Nat : CountsFrom(counter, key, first)

(* A history is long, but it has an end. *)
Places(key) == DOMAIN key \subseteq Nat /\ IsFiniteSet(DOMAIN key)

LEMMA FromIsFinite ==
  ASSUME NEW key, Places(key), NEW first
  PROVE  IsFiniteSet(From(key, first)) /\ Cardinality(From(key, first)) \in Nat
BY FS_Subset, FS_CardinalityType DEF Places, From

LEMMA CountIsNatural ==
  ASSUME NEW key, Places(key), NEW counter, Counts(counter, key)
  PROVE  counter.count \in Nat
BY FromIsFinite DEF Counts, CountsFrom

(* The counter reaches a limit exactly if the history bears it out. *)
LEMMA CountIsWarranted ==
  ASSUME NEW key, Places(key), NEW counter, Counts(counter, key),
         NEW limit \in Nat \ {0}
  PROVE  InARow(key, limit) <=> counter.count >= limit
<1>1. PICK first \in Nat : CountsFrom(counter, key, first)
  BY DEF Counts
<1>2. /\ counter.count = Cardinality(From(key, first)) /\ counter.count \in Nat
      /\ counter.count > 0 => first \in DOMAIN key /\ counter.key # <<>>
  BY <1>1, FromIsFinite DEF CountsFrom, Counts
<1>3. ASSUME counter.count >= limit
      PROVE  InARow(key, limit)
  <2>1. first \in DOMAIN key /\ counter.key # <<>>
    BY <1>2, <1>3
  <2>2. first \in From(key, first)
    BY <1>1, <2>1 DEF From
  <2>3. \A k \in DOMAIN key : k >= first => key[k] = key[first] /\ key[k] # <<>>
    BY <1>1, <2>1, <2>2 DEF CountsFrom, From
  <2> QED BY <1>2, <1>3, <2>1, <2>3 DEF InARow, From
<1>4. ASSUME InARow(key, limit)
      PROVE  counter.count >= limit
  <2>1. PICK f \in DOMAIN key :
          /\ Cardinality(From(key, f)) >= limit
          /\ \A k \in DOMAIN key : k >= f => key[k] = key[f] /\ key[k] # <<>>
    BY <1>4 DEF InARow, From
  <2>2. ~(f < first)
    <3> SUFFICES ASSUME f < first PROVE FALSE
      OBVIOUS
    <3>1. PICK j \in DOMAIN key : f <= j /\ j < first /\ Differs(key, j, counter)
      BY <1>1 DEF CountsFrom
    <3>2. DOMAIN key \subseteq Nat
      BY DEF Places
    <3>3. key[j] = key[f] /\ key[j] # <<>>
      BY <2>1, <3>1, <3>2
    <3>4. counter.count > 0 /\ key[j] # counter.key
      BY <3>1, <3>3 DEF Differs
    <3>5. first \in DOMAIN key /\ first >= f
      BY <1>2, <3>2, <3>4
    <3>6. key[first] = key[f] /\ key[first] = counter.key
      BY <1>1, <2>1, <3>5 DEF CountsFrom, From
    <3> QED BY <3>3, <3>4, <3>6
  <2>3. From(key, f) \subseteq From(key, first)
    BY <2>2 DEF From, Places
  <2>4. /\ Cardinality(From(key, f)) <= Cardinality(From(key, first))
        /\ Cardinality(From(key, f)) \in Nat
    BY <2>3, FS_Subset, FromIsFinite
  <2> QED BY <1>2, <2>1, <2>4
<1> QED BY <1>3, <1>4

(* One more place: the counter starts again, or counts on. *)
LEMMA CountGoesOn ==
  ASSUME NEW key, Places(key), NEW counter, Counts(counter, key),
         NEW longer, NEW n \in Nat, DOMAIN longer = DOMAIN key \cup {n},
         \A k \in DOMAIN key : k < n /\ longer[k] = key[k],
         NEW next,
         IF longer[n] = <<>> THEN next.count = 0
         ELSE /\ next = Again(counter, longer[n])
              /\ counter.key = longer[n] => counter.count > 0
  PROVE  Counts(next, longer) /\ Places(longer)
<1>1. Places(longer)
  BY FS_AddElement DEF Places
<1>2. PICK first \in Nat : CountsFrom(counter, key, first)
  BY DEF Counts
<1>3. counter.count = Cardinality(From(key, first)) /\ counter.count \in Nat
  BY <1>2, FromIsFinite DEF CountsFrom
<1>4. DOMAIN key \subseteq Nat /\ n \notin DOMAIN key
  BY DEF Places
<1>5. CASE longer[n] = <<>>
  <2>1. next.count = 0
    BY <1>5
  <2>2. From(longer, n + 1) = {}
    BY <1>4 DEF From
  <2>3. \A k \in DOMAIN longer : k <= n
    BY <1>4
  <2>4. n \in DOMAIN longer /\ n < n + 1 /\ Differs(longer, n, next)
    BY <1>5 DEF Differs
  <2>5. next.count = Cardinality(From(longer, n + 1))
    BY <2>1, <2>2, FS_EmptySet
  <2>6. CountsFrom(next, longer, n + 1)
    BY <2>1, <2>2, <2>3, <2>4, <2>5 DEF CountsFrom
  <2> QED BY <1>1, <2>1, <2>6 DEF Counts
<1>6. CASE longer[n] # <<>> /\ counter.key = longer[n]
  <2>1. /\ next = [key |-> longer[n], count |-> counter.count + 1]
        /\ counter.count > 0 /\ first \in DOMAIN key
    BY <1>2, <1>6 DEF Again, CountsFrom
  <2>2. From(longer, first) = From(key, first) \cup {n} /\ n \notin From(key, first)
    BY <1>4, <2>1 DEF From
  <2>3. next.count = Cardinality(From(longer, first))
    BY <1>3, <2>1, <2>2, FromIsFinite, FS_AddElement
  <2>4. \A k \in From(longer, first) : longer[k] = next.key
    BY <1>2, <1>6, <2>1, <2>2 DEF CountsFrom, From
  <2>5. ASSUME NEW k \in DOMAIN longer, k < first
        PROVE  \E j \in DOMAIN longer :
                 k <= j /\ j < first /\ Differs(longer, j, next)
    <3>1. k \in DOMAIN key
      BY <1>4, <2>1, <2>5
    <3>2. PICK j \in DOMAIN key : k <= j /\ j < first /\ Differs(key, j, counter)
      BY <1>2, <2>5, <3>1 DEF CountsFrom
    <3>3. Differs(longer, j, next)
      BY <1>3, <1>6, <2>1, <3>2 DEF Differs
    <3> QED BY <3>2, <3>3
  <2>6. CountsFrom(next, longer, first)
    BY <2>1, <2>3, <2>4, <2>5 DEF CountsFrom
  <2> QED BY <1>1, <1>6, <2>1, <2>6 DEF Counts
<1>7. CASE longer[n] # <<>> /\ counter.key # longer[n]
  <2>1. next = [key |-> longer[n], count |-> 1]
    BY <1>7 DEF Again
  <2>2. From(longer, n) = {n}
    BY <1>4 DEF From
  <2>3. ASSUME NEW k \in DOMAIN longer, k < n
        PROVE  \E j \in DOMAIN longer : k <= j /\ j < n /\ Differs(longer, j, next)
    <3>1. k \in DOMAIN key
      BY <2>3
    <3>2. CASE k < first
      <4>1. PICK j \in DOMAIN key : k <= j /\ j < first /\ Differs(key, j, counter)
        BY <1>2, <3>1, <3>2 DEF CountsFrom
      <4>2. CASE key[j] = <<>>
        BY <4>1, <4>2 DEF Differs
      <4>3. CASE counter.count > 0
        <5>1. first \in DOMAIN key /\ key[first] = counter.key
          BY <1>2, <4>3 DEF CountsFrom, From
        <5>2. Differs(longer, first, next) /\ k <= first /\ first < n
          BY <1>4, <1>7, <2>1, <3>1, <3>2, <5>1 DEF Differs
        <5> QED BY <5>1, <5>2
      <4> QED BY <4>1, <4>2, <4>3 DEF Differs
    <3>3. CASE k >= first
      <4>1. key[k] = counter.key
        BY <1>2, <3>1, <3>3 DEF CountsFrom, From
      <4>2. Differs(longer, k, next) /\ k <= k
        BY <1>4, <1>7, <2>1, <3>1, <4>1 DEF Differs
      <4> QED BY <2>3, <4>2
    <3> QED BY <1>4, <3>1, <3>2, <3>3
  <2>4. CountsFrom(next, longer, n)
    BY <2>1, <2>2, <2>3, FS_Singleton DEF CountsFrom
  <2> QED BY <1>1, <1>7, <2>1, <2>4 DEF Counts
<1> QED BY <1>5, <1>6, <1>7

-----------------------------------------------------------------------------
(* The counters, as the worker keeps them. *)

(* A counter that starts again has a key that no call has.                 *)
CountersMatch ==
  /\ Counts(repetitions, CallKey)
  /\ Counts(error_repetitions, ErrorKey)
  /\ Counts(validation_repetitions, ViolationKey)
  /\ repetitions.count = 0 => repetitions.key = <<>>
  /\ error_repetitions.count = 0 => error_repetitions.key = <<>>
  /\ validation_repetitions.count = 0 =>
       validation_repetitions.key \in {<<>>, <<Clean>>}

(* Every reply is one of its call's.                                       *)
RepliesFit ==
  \A k \in DOMAIN executed : executed[k].reply \in Replies(executed[k].call)

LEMMA HistoryIsFinite ==
  ASSUME NEW history \in Seq(Done), NEW key, DOMAIN key \subseteq DOMAIN history
  PROVE  Places(key)
<1>1. Len(history) \in Nat /\ DOMAIN history = 1..Len(history)
  BY LenProperties
<1>2. IsFiniteSet(DOMAIN history) /\ DOMAIN history \subseteq Nat
  BY <1>1, FS_Interval
<1> QED BY <1>2, FS_Subset DEF Places

LEMMA KeysHavePlaces ==
  /\ DOMAIN CallKey = DOMAIN executed /\ DOMAIN ErrorKey = DOMAIN executed
  /\ DOMAIN ViolationKey \subseteq DOMAIN executed
BY DEF CallKey, ErrorKey, ViolationKey

LEMMA CountersStart ==
  ASSUME executed = <<>>, repetitions = Fresh, error_repetitions = Fresh,
         validation_repetitions = Fresh
  PROVE  CountersMatch
<1>1. ASSUME NEW key, DOMAIN key = {}
      PROVE  Counts(Fresh, key)
  <2>1. From(key, 0) = {} /\ Cardinality({}) = 0
    BY <1>1, FS_EmptySet DEF From
  <2>2. CountsFrom(Fresh, key, 0)
    BY <1>1, <2>1 DEF CountsFrom, Fresh
  <2> QED BY <2>2 DEF Counts, Fresh
<1>2. DOMAIN CallKey = {} /\ DOMAIN ErrorKey = {} /\ DOMAIN ViolationKey = {}
  BY DEF CallKey, ErrorKey, ViolationKey
<1> QED BY <1>1, <1>2 DEF CountersMatch, Fresh

(* A call is executed, and counts.                                         *)
LEMMA CountersGoOn ==
  ASSUME CountersMatch, executed \in Seq(Done),
         NEW call \in Calls, NEW reply \in Replies(call),
         executed' = Append(executed, [call |-> call, reply |-> reply]),
         error_repetitions' = Errors(call, reply),
         validation_repetitions' = Validations(call, reply),
         repetitions' = Again(repetitions, <<call>>)
  PROVE  CountersMatch'
<1> DEFINE n == Len(executed) + 1
           entry == [call |-> call, reply |-> reply]
<1>1. /\ n \in Nat /\ DOMAIN executed = 1..Len(executed)
      /\ DOMAIN executed' = DOMAIN executed \cup {n}
      /\ \A k \in DOMAIN executed : k < n /\ executed'[k] = executed[k]
      /\ executed'[n] = entry
  <2>1. entry \in Done
    BY DEF Done, AllReplies
  <2> QED BY <2>1, AppendProperties, LenProperties
<1>2. entry.call = call /\ entry.reply = reply
  OBVIOUS
<1> HIDE DEF entry, n
<1>3. Places(CallKey) /\ Places(ErrorKey) /\ Places(ViolationKey)
  BY HistoryIsFinite, KeysHavePlaces
<1>4. Counts(repetitions', CallKey')
  <2> DEFINE new == <<call>>
  <2>1. /\ DOMAIN CallKey' = DOMAIN CallKey \cup {n}
        /\ \A k \in DOMAIN CallKey : k < n /\ CallKey'[k] = CallKey[k]
        /\ CallKey'[n] = new
    BY <1>1, <1>2 DEF CallKey
  <2>2. repetitions.key = new => repetitions.count > 0
    <3>1. repetitions.count \in Nat /\ (repetitions.count = 0 => repetitions.key = <<>>)
      BY <1>3, CountIsNatural DEF CountersMatch
    <3> QED BY <3>1
  <2>3. IF new = <<>> THEN repetitions'.count = 0
        ELSE /\ repetitions' = Again(repetitions, new)
             /\ repetitions.key = new => repetitions.count > 0
    BY <2>2
  <2> HIDE DEF new
  <2> QED BY <1>1, <1>3, <2>1, <2>3, CountGoesOn DEF CountersMatch
<1>5. Counts(error_repetitions', ErrorKey')
  <2> DEFINE new == IF reply.is_error THEN <<call.name, reply.data>> ELSE <<>>
  <2>1. /\ DOMAIN ErrorKey' = DOMAIN ErrorKey \cup {n}
        /\ \A k \in DOMAIN ErrorKey : k < n /\ ErrorKey'[k] = ErrorKey[k]
        /\ ErrorKey'[n] = new
    BY <1>1, <1>2 DEF ErrorKey
  <2>2. IF new = <<>> THEN error_repetitions'.count = 0
        ELSE /\ error_repetitions' = Again(error_repetitions, new)
             /\ error_repetitions.key = new => error_repetitions.count > 0
    <3>1. /\ error_repetitions.count \in Nat
          /\ error_repetitions.count = 0 => error_repetitions.key = <<>>
      BY <1>3, CountIsNatural DEF CountersMatch
    <3>2. CASE reply.is_error
      <4>1. new # <<>> /\ error_repetitions' = Again(error_repetitions, new)
        BY <3>2 DEF Errors
      <4> HIDE DEF new
      <4> QED BY <3>1, <4>1
    <3>3. CASE ~reply.is_error
      BY <3>3 DEF Errors, Fresh
    <3> QED BY <3>2, <3>3
  <2> HIDE DEF new
  <2> QED BY <1>1, <1>3, <2>1, <2>2, CountGoesOn DEF CountersMatch
<1>6. Counts(validation_repetitions', ViolationKey')
  <2>1. CASE ~Validated(entry)
    <3>1. ViolationKey' = ViolationKey
      BY <1>1, <2>1 DEF ViolationKey
    <3>2. validation_repetitions' = validation_repetitions
      BY <1>2, <2>1 DEF Validations, Validated
    <3> QED BY <3>1, <3>2 DEF CountersMatch
  <2>2. CASE Validated(entry)
    <3> DEFINE new == IF reply.data = Clean THEN <<>> ELSE <<reply.data>>
    <3>1. /\ DOMAIN ViolationKey' = DOMAIN ViolationKey \cup {n}
          /\ \A k \in DOMAIN ViolationKey :
               k < n /\ ViolationKey'[k] = ViolationKey[k]
          /\ ViolationKey'[n] = new
      BY <1>1, <1>2, <2>2 DEF ViolationKey
    <3>2. IF new = <<>> THEN validation_repetitions'.count = 0
          ELSE /\ validation_repetitions' = Again(validation_repetitions, new)
               /\ validation_repetitions.key = new
                    => validation_repetitions.count > 0
      BY <1>2, <1>3, <2>2, CountIsNatural DEF CountersMatch, Validations, Validated
    <3> HIDE DEF new
    <3> QED BY <1>1, <1>3, <3>1, <3>2, CountGoesOn DEF CountersMatch
  <2> QED BY <2>1, <2>2
<1>7. /\ repetitions'.count = 0 => repetitions'.key = <<>>
      /\ error_repetitions'.count = 0 => error_repetitions'.key = <<>>
      /\ validation_repetitions'.count = 0 =>
           validation_repetitions'.key \in {<<>>, <<Clean>>}
  BY <1>3, CountIsNatural DEF CountersMatch, Again, Errors, Validations, Fresh
<1> QED BY <1>4, <1>5, <1>6, <1>7 DEF CountersMatch

-----------------------------------------------------------------------------
(***************************************************************************)
(* The invariant: while the worker goes on it has met none of its limits,  *)
(* and what it stops for is what it has met.                               *)
(***************************************************************************)

GoesOn ==
  /\ CountersMatch
  /\ repetitions.count < RepeatLimit /\ error_repetitions.count < RepeatLimit
  /\ validation_repetitions.count < ValidationLimit
  /\ ~Finalized

StopFits ==
  /\ result = Stopped("completed") <=> Finalized
  /\ result = Failed("tool_rejected") <=> Rejected
  /\ result = Stopped("validation_loop") <=> Circling
  /\ result = Stopped("repeated_call")
       <=> Repeated /\ ~Rejected /\ ~Circling /\ ~Finalized
  /\ result = Stopped("max_turns") => turns = MaxTurns \/ "max_turns" \in Reasons

CounterTypes ==
  /\ repetitions \in Counter({<<call>> : call \in Calls}, RepeatLimit)
  /\ validation_repetitions
       \in Counter({<<data>> : data \in Violations \cup {Clean}}, ValidationLimit)
  /\ error_repetitions \in Counter({c.name : c \in Calls} \X Codes, RepeatLimit)

TurnTypes ==
  /\ turns \in 0..MaxTurns /\ (pc \in {"created", "ask"} => turns < MaxTurns)
  /\ pending \in 0..Len(requests)
  /\ messages \in 0..MaxMessages
  /\ pc \in {"close", "ended"} => result # None

HistoryInv ==
  /\ CounterTypes /\ TurnTypes /\ RepliesFit
  /\ pc \in {"created", "ask", "tool"} => GoesOn
  /\ pc = "close" => StopFits

LEMMA NothingMet ==
  ASSUME GoesOn, executed \in Seq(Done)
  PROVE  ~Rejected /\ ~Repeated /\ ~Circling /\ ~Finalized
<1>1. Places(CallKey) /\ Places(ErrorKey) /\ Places(ViolationKey)
  BY HistoryIsFinite, KeysHavePlaces
<1>2. RepeatLimit \in Nat \ {0} /\ ValidationLimit \in Nat \ {0}
  BY LimitsAssumption
<1>3. /\ repetitions.count \in Nat /\ error_repetitions.count \in Nat
      /\ validation_repetitions.count \in Nat
  BY <1>1, CountIsNatural DEF GoesOn, CountersMatch
<1>4. /\ Repeated <=> repetitions.count >= RepeatLimit
      /\ Rejected <=> error_repetitions.count >= RepeatLimit
      /\ Circling <=> validation_repetitions.count >= ValidationLimit
  BY <1>1, <1>2, CountIsWarranted
     DEF GoesOn, CountersMatch, Repeated, Rejected, Circling
<1> QED BY <1>2, <1>3, <1>4 DEF GoesOn

LEMMA HistoryStarts == Init => HistoryInv
<1> SUFFICES ASSUME Init PROVE HistoryInv
  OBVIOUS
<1>1. /\ executed = <<>> /\ requests = <<>> /\ pc = "created"
      /\ repetitions = Fresh /\ error_repetitions = Fresh
      /\ validation_repetitions = Fresh
      /\ turns = 0 /\ pending = 0 /\ messages = 0
  BY DEF Init, LoopInit
<1>2. /\ {RepeatLimit, ValidationLimit, MaxTurns} \subseteq Nat \ {0}
      /\ MaxMessages \in Nat
  BY LimitsAssumption
<1>3. CounterTypes
  BY <1>1, <1>2 DEF CounterTypes, Counter, Fresh
<1>4. TurnTypes
  BY <1>1, <1>2 DEF TurnTypes
<1>5. GoesOn
  BY <1>1, <1>2, CountersStart DEF GoesOn, Finalized, Fresh
<1>6. RepliesFit
  BY <1>1 DEF RepliesFit
<1> QED BY <1>1, <1>3, <1>4, <1>5, <1>6 DEF HistoryInv

(* A step that executes no call and does not stop the worker.              *)
LEMMA GoesOnKeeps ==
  ASSUME HistoryInv, TurnTypes',
         UNCHANGED <<executed, repetitions, validation_repetitions, error_repetitions>>,
         pc \in {"created", "ask", "tool"} /\ pc' \in {"created", "ask", "tool"}
  PROVE  HistoryInv'
<1>1. CounterTypes' /\ RepliesFit'
  BY DEF HistoryInv, CounterTypes, RepliesFit
<1>2. GoesOn'
  BY DEF HistoryInv, GoesOn, CountersMatch, CallKey, ErrorKey, ViolationKey, Finalized
<1> QED BY <1>1, <1>2 DEF HistoryInv

(* A step that does not touch the worker at all.                           *)
LEMMA NothingKeeps ==
  ASSUME HistoryInv,
         UNCHANGED <<pc, turns, result, executed, repetitions, validation_repetitions,
                     error_repetitions, pending, requests, messages>>
  PROVE  HistoryInv'
BY DEF HistoryInv, CounterTypes, TurnTypes, RepliesFit, GoesOn, StopFits,
       CountersMatch, CallKey, ErrorKey, ViolationKey, Finalized, Rejected, Repeated,
       Circling

(* A step that stops it for something else than its history.               *)
LEMMA StopFitsHistory ==
  ASSUME LoopInv, HistoryInv, pc \in {"ask", "tool"}, NEW limit, Stop(limit),
         UNCHANGED <<counters, pending, executed>>,
         limit \notin {None, Stopped("completed"), Failed("tool_rejected"),
                          Stopped("validation_loop"), Stopped("repeated_call")},
         limit = Stopped("max_turns") => "max_turns" \in Reasons
  PROVE  HistoryInv'
<1>1. /\ pc' = "close" /\ result' = limit /\ messages' = messages
      /\ UNCHANGED <<turns, repetitions, validation_repetitions, error_repetitions>>
  BY DEF Stop, counters
<1>2. CounterTypes' /\ RepliesFit'
  BY <1>1 DEF HistoryInv, CounterTypes, RepliesFit
<1>3. Len(requests') = Len(requests)
  BY StopDrops, LenProperties DEF LoopInv, LoopTypes
<1>4. TurnTypes'
  BY <1>1, <1>3 DEF HistoryInv, TurnTypes
<1>5. ~Rejected' /\ ~Repeated' /\ ~Circling' /\ ~Finalized'
  <2>1. ~Rejected /\ ~Repeated /\ ~Circling /\ ~Finalized
    BY NothingMet DEF LoopInv, LoopTypes, HistoryInv
  <2> QED BY <2>1 DEF Rejected, Repeated, Circling, Finalized, CallKey, ErrorKey,
                      ViolationKey
<1>6. StopFits'
  BY <1>1, <1>5 DEF StopFits
<1> QED BY <1>1, <1>2, <1>4, <1>6 DEF HistoryInv

(* A call that counts: the counters tell which limit it has met.           *)
LEMMA LimitsAreMet ==
  ASSUME LoopInv, HistoryInv, pc = "tool",
         NEW reply \in Replies(requests[pending].call), ToolDone(reply)
  PROVE  /\ executed' \in Seq(Done) /\ CountersMatch' /\ CounterTypes'
         /\ RepliesFit'
         /\ Rejected' <=> error_repetitions'.count >= RepeatLimit
         /\ Repeated' <=> repetitions'.count >= RepeatLimit
         /\ Circling' <=> validation_repetitions'.count >= ValidationLimit
         /\ Finalized' <=> /\ requests[pending].call.name = "finalize_draft"
                           /\ ~reply.is_error
<1> DEFINE call == requests[pending].call
           entry == [call |-> call, reply |-> reply]
<1>1. /\ executed' = Append(executed, entry)
      /\ error_repetitions' = Errors(call, reply)
      /\ validation_repetitions' = Validations(call, reply)
      /\ repetitions' = Again(repetitions, <<call>>)
  BY DEF ToolDone
<1>2. call \in Calls /\ reply \in AllReplies
  <2>1. /\ pending \in DOMAIN requests
        /\ \A id \in DOMAIN requests : requests[id] \in Asked
    BY Lengths DEF LoopInv, QueueIsFifo, Listening, Taken
  <2> QED BY <2>1 DEF Asked, AllReplies
<1>3. /\ entry \in Done /\ entry.call = call /\ entry.reply = reply
      /\ executed \in Seq(Done) /\ GoesOn
  BY <1>2 DEF Done, LoopInv, LoopTypes, HistoryInv
<1> HIDE DEF call, entry
<1>4. /\ executed' \in Seq(Done) /\ Len(executed) \in Nat
      /\ DOMAIN executed' = 1..Len(executed) + 1 /\ DOMAIN executed = 1..Len(executed)
      /\ \A k \in 1..Len(executed) : executed'[k] = executed[k]
      /\ executed'[Len(executed) + 1] = entry
  BY <1>1, <1>3, AppendProperties, LenProperties
<1>5. CountersMatch'
  BY <1>1, <1>2, <1>3, CountersGoOn DEF GoesOn, call, entry
<1>6. CounterTypes'
  <2>1. /\ repetitions \in Counter({<<c>> : c \in Calls}, RepeatLimit)
        /\ validation_repetitions
             \in Counter({<<data>> : data \in Violations \cup {Clean}}, ValidationLimit)
        /\ repetitions.count < RepeatLimit /\ error_repetitions.count < RepeatLimit
        /\ validation_repetitions.count < ValidationLimit
        /\ error_repetitions \in Counter({c.name : c \in Calls} \X Codes, RepeatLimit)
    BY <1>3 DEF HistoryInv, CounterTypes, GoesOn
  <2>2. /\ RepeatLimit \in Nat \ {0} /\ ValidationLimit \in Nat \ {0}
    BY LimitsAssumption
  <2>3. ASSUME NEW keys, NEW limit \in Nat \ {0}, NEW counter \in Counter(keys, limit),
               counter.count < limit, NEW key \in keys
        PROVE  Again(counter, key) \in Counter(keys, limit)
    BY <2>3 DEF Counter, Again
  <2>4. repetitions' \in Counter({<<c>> : c \in Calls}, RepeatLimit)
    BY <1>1, <1>2, <2>1, <2>2, <2>3
  <2>5. error_repetitions' \in Counter({c.name : c \in Calls} \X Codes, RepeatLimit)
    <3>1. CASE reply.is_error
      <4>1. reply.data \in Codes
        BY <3>1 DEF Replies, Ok, Error
      <4>2. <<call.name, reply.data>> \in {c.name : c \in Calls} \X Codes
        BY <1>2, <4>1
      <4> QED BY <1>1, <2>1, <2>2, <2>3, <3>1, <4>2 DEF Errors
    <3>2. CASE ~reply.is_error
      BY <1>1, <2>2, <3>2 DEF Errors, Fresh, Counter
    <3> QED BY <3>1, <3>2
  <2>6. validation_repetitions'
          \in Counter({<<data>> : data \in Violations \cup {Clean}}, ValidationLimit)
    <3>1. CASE call.name # "validate_draft" \/ reply.is_error
      BY <1>1, <2>1, <3>1 DEF Validations
    <3>2. CASE call.name = "validate_draft" /\ ~reply.is_error
      <4>1. reply.data \in Violations \cup {Clean}
        BY <3>2 DEF Replies, Ok, Error, call
      <4>2. <<reply.data>> \in {<<data>> : data \in Violations \cup {Clean}}
        BY <4>1
      <4>3. CASE reply.data = Clean
        BY <1>1, <2>2, <3>2, <4>2, <4>3 DEF Validations, Counter
      <4>4. CASE reply.data # Clean
        BY <1>1, <2>1, <2>2, <2>3, <3>2, <4>2, <4>4 DEF Validations
      <4> QED BY <4>3, <4>4
    <3> QED BY <3>1, <3>2
  <2> QED BY <2>4, <2>5, <2>6 DEF CounterTypes
<1>7. RepliesFit'
  BY <1>3, <1>4 DEF RepliesFit, HistoryInv, call
<1>8. /\ Repeated' <=> repetitions'.count >= RepeatLimit
      /\ Rejected' <=> error_repetitions'.count >= RepeatLimit
      /\ Circling' <=> validation_repetitions'.count >= ValidationLimit
  <2>1. Places(CallKey') /\ Places(ErrorKey') /\ Places(ViolationKey')
    <3>1. /\ DOMAIN CallKey' = DOMAIN executed' /\ DOMAIN ErrorKey' = DOMAIN executed'
          /\ DOMAIN ViolationKey' \subseteq DOMAIN executed'
      BY DEF CallKey, ErrorKey, ViolationKey
    <3> QED BY <1>4, <3>1, HistoryIsFinite
  <2>2. RepeatLimit \in Nat \ {0} /\ ValidationLimit \in Nat \ {0}
    BY LimitsAssumption
  <2> QED BY <1>5, <2>1, <2>2, CountIsWarranted
          DEF CountersMatch, Repeated, Rejected, Circling
<1>9. Finalized' <=> call.name = "finalize_draft" /\ ~reply.is_error
  <2>1. ~Finalized
    BY <1>3 DEF GoesOn
  <2> QED BY <1>3, <1>4, <2>1 DEF Finalized
<1> QED BY <1>4, <1>5, <1>6, <1>7, <1>8, <1>9 DEF call

LEMMA ReplyFitsHistory ==
  ASSUME LoopInv, HistoryInv, Reply
  PROVE  HistoryInv'
<1>1. PICK reply \in Replies(requests[pending].call) : pc = "tool" /\ ToolDone(reply)
  BY DEF Reply
<1> DEFINE call == requests[pending].call
           limit == Limit(call, reply, error_repetitions', validation_repetitions',
                          repetitions')
<1>2. /\ CountersMatch' /\ CounterTypes' /\ RepliesFit'
      /\ Rejected' <=> error_repetitions'.count >= RepeatLimit
      /\ Repeated' <=> repetitions'.count >= RepeatLimit
      /\ Circling' <=> validation_repetitions'.count >= ValidationLimit
      /\ Finalized' <=> call.name = "finalize_draft" /\ ~reply.is_error
  BY <1>1, LimitsAreMet
<1>3. /\ turns' = turns /\ pending' = pending
      /\ \/ limit # None /\ Stop(limit)
         \/ /\ limit = None /\ pc' = "ask" /\ Answer(reply)
            /\ UNCHANGED <<result, messages>>
  BY <1>1 DEF ToolDone
<1>4. /\ turns \in 0..MaxTurns /\ pending \in 0..Len(requests)
      /\ messages \in 0..MaxMessages /\ Len(requests) \in Nat
      /\ MaxTurns \in Nat
  BY LimitsAssumption, Lengths DEF HistoryInv, TurnTypes, LoopInv
<1>5. /\ repetitions'.count \in Nat /\ error_repetitions'.count \in Nat
      /\ validation_repetitions'.count \in Nat
      /\ RepeatLimit \in Nat \ {0} /\ ValidationLimit \in Nat \ {0}
  BY <1>2, LimitsAssumption DEF CounterTypes, Counter
<1>6. /\ ~(Rejected' /\ Finalized')
      /\ ~(Rejected' /\ Circling')
      /\ ~(Finalized' /\ Circling')
  <2>1. Rejected' => reply.is_error
    <3>1. ~reply.is_error => error_repetitions'.count = 0
      BY <1>1 DEF ToolDone, Errors, Fresh
    <3> QED BY <1>2, <1>5, <3>1
  <2>2. Circling' => call.name = "validate_draft" /\ ~reply.is_error
    <3>1. call.name # "validate_draft" \/ reply.is_error
            => validation_repetitions' = validation_repetitions
      BY <1>1 DEF ToolDone, Validations
    <3>2. validation_repetitions.count < ValidationLimit
      BY <1>1 DEF HistoryInv, GoesOn
    <3> QED BY <1>2, <1>5, <3>1, <3>2
  <2> QED BY <1>2, <2>1, <2>2
<1> HIDE DEF call, limit
<1>7. CASE limit # None /\ Stop(limit)
  <2>1. /\ pc' = "close" /\ result' = limit /\ messages' = messages
    BY <1>7 DEF Stop
  <2>2. Len(requests') = Len(requests)
    BY <1>7, StopDrops, LenProperties DEF LoopInv, LoopTypes
  <2>3. TurnTypes'
    BY <1>3, <1>4, <1>7, <2>1, <2>2 DEF TurnTypes
  <2>4. StopFits'
    <3>1. limit = IF Rejected' THEN Failed("tool_rejected")
                  ELSE IF Finalized' THEN Stopped("completed")
                  ELSE IF Circling' THEN Stopped("validation_loop")
                  ELSE IF Repeated' THEN Stopped("repeated_call")
                  ELSE IF turns >= MaxTurns THEN Stopped("max_turns")
                  ELSE None
      BY <1>2 DEF limit, Limit
    <3>2. turns >= MaxTurns => turns = MaxTurns
      BY <1>4
    <3>3. /\ result' = Stopped("completed") <=> Finalized'
          /\ result' = Failed("tool_rejected") <=> Rejected'
          /\ result' = Stopped("validation_loop") <=> Circling'
          /\ result' = Stopped("repeated_call")
               <=> Repeated' /\ ~Rejected' /\ ~Circling' /\ ~Finalized'
          /\ result' = Stopped("max_turns") => turns = MaxTurns
      BY <1>6, <2>1, <3>1, <3>2 DEF Stopped, Failed, None
    <3> QED BY <1>3, <3>3 DEF StopFits
  <2> QED BY <1>2, <2>1, <2>3, <2>4 DEF HistoryInv
<1>8. CASE /\ limit = None /\ pc' = "ask" /\ Answer(reply)
           /\ UNCHANGED <<result, messages>>
  <2>1. /\ ~Rejected' /\ ~Finalized' /\ ~Circling' /\ ~Repeated'
        /\ ~(turns >= MaxTurns)
    BY <1>2, <1>8 DEF limit, Limit, Stopped, Failed, None
  <2>2. GoesOn'
    BY <1>2, <1>5, <2>1 DEF GoesOn
  <2>3. Len(requests') = Len(requests)
    <3>1. /\ DOMAIN requests' = DOMAIN requests /\ DOMAIN requests = 1..Len(requests)
          /\ requests' \in Seq(Asked)
      <4>1. requests' = requests \/ DOMAIN requests' = DOMAIN requests
        BY <1>8 DEF Answer
      <4>2. LoopInv'
        BY ReplyKeeps
      <4> QED BY <4>1, <4>2, Lengths DEF LoopInv, LoopTypes
    <3> QED BY <1>4, <3>1, LenProperties
  <2>4. TurnTypes'
    BY <1>3, <1>4, <1>8, <2>1, <2>3 DEF TurnTypes
  <2> QED BY <1>2, <1>8, <2>2, <2>4 DEF HistoryInv
<1> QED BY <1>3, <1>7, <1>8

LEMMA TalkKeepsHistory ==
  ASSUME LoopInv, HistoryInv, Talk
  PROVE  HistoryInv'
<1>1. /\ pc \in {"ask", "tool"} /\ pc' = pc /\ pending' = pending
      /\ UNCHANGED <<turns, executed, repetitions, validation_repetitions,
                     error_repetitions>>
  BY DEF Talk, Message, Request, Abandon, EndOfTalk, Listening, counters
<1>2. messages' \in 0..MaxMessages
  <2>1. \/ messages' = messages
        \/ messages < MaxMessages /\ messages' = messages + 1
    BY DEF Talk, Message, Request, Abandon, EndOfTalk, policy
  <2>2. messages \in 0..MaxMessages /\ MaxMessages \in Nat
    BY LimitsAssumption DEF HistoryInv, TurnTypes
  <2> QED BY <2>1, <2>2
<1>3. Len(requests') >= Len(requests) /\ Len(requests') \in Nat /\ Len(requests) \in Nat
  <2>1. /\ Len(requests) \in Nat /\ DOMAIN requests = 1..Len(requests)
        /\ requests \in Seq(Asked) /\ requests' \in Seq(Asked)
    <3>1. LoopInv'
      BY MessageKeeps, RequestKeeps, AbandonKeeps, EndOfTalkKeeps DEF Talk
    <3> QED BY <3>1, Lengths DEF LoopInv, LoopTypes
  <2>2. CASE \E call \in Calls : Request(call)
    <3>1. PICK call \in Calls :
            requests' = Append(requests, [call |-> call, answer |-> Waiting])
      BY <2>2 DEF Request
    <3>2. [call |-> call, answer |-> Waiting] \in Asked
      BY DEF Asked
    <3> QED BY <2>1, <3>1, <3>2, AppendProperties
  <2>3. CASE \E id \in DOMAIN requests : Abandon(id)
    <3>1. DOMAIN requests' = DOMAIN requests
      BY <2>3 DEF Abandon
    <3> QED BY <2>1, <3>1, LenProperties
  <2>4. CASE Message \/ \E reason \in Reasons : EndOfTalk(reason)
    <3>1. requests' = requests
      BY <2>4 DEF Message, EndOfTalk
    <3> QED BY <2>1, <3>1
  <2> QED BY <2>2, <2>3, <2>4 DEF Talk
<1>4. TurnTypes'
  BY <1>1, <1>2, <1>3 DEF HistoryInv, TurnTypes
<1> QED BY <1>1, <1>4, GoesOnKeeps

LEMMA StartKeepsHistory ==
  ASSUME HistoryInv, Start
  PROVE  HistoryInv'
<1>1. /\ pc = "created" /\ pc' = "ask"
      /\ UNCHANGED <<turns, executed, repetitions, validation_repetitions,
                     error_repetitions, pending, requests, messages>>
  BY DEF Start, counters
<1>2. TurnTypes'
  BY <1>1 DEF HistoryInv, TurnTypes
<1> QED BY <1>1, <1>2, GoesOnKeeps

LEMMA CloseKeepsHistory ==
  ASSUME HistoryInv, Close
  PROVE  HistoryInv'
<1>1. /\ pc = "close" /\ pc' = "ended" /\ result' = result /\ executed' = <<>>
      /\ requests' = <<>> /\ turns' = 0 /\ pending' = 0 /\ messages' = 0
      /\ repetitions' = Fresh /\ validation_repetitions' = Fresh
      /\ error_repetitions' = Fresh
  BY DEF Close
<1>2. /\ {RepeatLimit, ValidationLimit, MaxTurns} \subseteq Nat \ {0}
      /\ MaxMessages \in Nat
  BY LimitsAssumption
<1>3. CounterTypes' /\ RepliesFit'
  BY <1>1, <1>2 DEF CounterTypes, Counter, Fresh, RepliesFit
<1>4. TurnTypes'
  BY <1>1, <1>2 DEF HistoryInv, TurnTypes
<1> QED BY <1>1, <1>3, <1>4 DEF HistoryInv

LEMMA CancelKeepsHistory ==
  ASSUME LoopInv, HistoryInv, Cancel
  PROVE  HistoryInv'
<1>1. CASE /\ pc \in {"ask", "tool"} /\ Stop(Cancelled)
           /\ UNCHANGED <<counters, queue, pending, executed>>
  <2>1. /\ Cancelled \notin {None, Stopped("completed"), Failed("tool_rejected"),
                             Stopped("validation_loop"), Stopped("repeated_call")}
        /\ Cancelled # Stopped("max_turns")
    BY DEF Cancelled, None, Stopped, Failed
  <2> QED BY <1>1, <2>1, StopFitsHistory
<1>2. CASE pc = "ended" /\ UNCHANGED loop_vars
  BY <1>2, NothingKeeps DEF loop_vars, counters, policy
<1> QED BY <1>1, <1>2, CloseKeepsHistory DEF Cancel

LEMMA StepKeepsHistory ==
  ASSUME LoopInv, HistoryInv, Step
  PROVE  HistoryInv'
<1>1. CASE TakeHeartbeat
  <2>1. /\ pc = "ask" /\ pc' = "ask"
        /\ UNCHANGED <<turns, executed, repetitions, validation_repetitions,
                       error_repetitions, pending, requests, messages>>
    BY <1>1 DEF TakeHeartbeat, counters
  <2>2. TurnTypes'
    BY <2>1 DEF HistoryInv, TurnTypes
  <2> QED BY <2>1, <2>2, GoesOnKeeps
<1>2. CASE TakeCall
  <2>1. /\ pc = "ask" /\ pc' = "tool" /\ turns' = turns + 1
        /\ UNCHANGED <<executed, repetitions, validation_repetitions,
                       error_repetitions, requests, messages>>
    BY <1>2 DEF TakeCall
  <2>2. pending' \in 0..Len(requests')
    <3>1. LoopInv'
      BY <1>2, TakeCallKeeps
    <3>2. /\ pending' = Len(executed) + 1 /\ pending' <= Len(requests)
          /\ Len(executed) \in Nat /\ Len(requests) \in Nat
      BY <2>1, <3>1, Lengths DEF LoopInv, QueueIsFifo, Taken, Listening
    <3> QED BY <2>1, <3>2
  <2>3. TurnTypes'
    BY <2>1, <2>2, LimitsAssumption DEF HistoryInv, TurnTypes
  <2> QED BY <2>1, <2>3, GoesOnKeeps
<1>3. CASE TakeEnd
  <2>1. PICK reason \in Reasons :
          /\ pc = "ask" /\ Stop(StopOf(reason))
          /\ UNCHANGED <<counters, pending, executed>>
    <3>1. Head(queue).reason \in Reasons
      BY <1>3, Shortened, Kinds DEF TakeEnd, LoopInv, LoopTypes
    <3> QED BY <1>3, <3>1 DEF TakeEnd
  <2>2. /\ StopOf(reason) \notin {None, Stopped("completed"), Failed("tool_rejected"),
                             Stopped("validation_loop"), Stopped("repeated_call")}
        /\ StopOf(reason) = Stopped("max_turns") => reason = "max_turns"
    BY DEF StopOf, None, Stopped, Failed
  <2> QED BY <2>1, <2>2, StopFitsHistory
<1>4. CASE Timeout
  <2>1. PICK reason \in {"inner_timeout", "inactivity_timeout"} :
          /\ pc \in {"ask", "tool"} /\ Stop(Stopped(reason))
          /\ UNCHANGED <<counters, pending, executed>>
    BY <1>4 DEF Timeout
  <2>2. /\ Stopped(reason) \notin {None, Stopped("completed"), Failed("tool_rejected"),
                             Stopped("validation_loop"), Stopped("repeated_call")}
        /\ Stopped(reason) # Stopped("max_turns")
    BY DEF None, Stopped, Failed
  <2> QED BY <2>1, <2>2, StopFitsHistory
<1> QED BY <1>1, <1>2, <1>3, <1>4, CloseKeepsHistory DEF Step

LEMMA HistoryStep ==
  ASSUME LoopInv, HistoryInv, [Next]_clock_vars
  PROVE  HistoryInv'
<1>1. CASE JobStep \/ Saved \/ SaveFails \/ stop_jobs
  <2>1. Start \/ Cancel \/ UNCHANGED loop_vars
    BY <1>1 DEF JobStep, StartJob, Collect, OuterTimeout, GiveUp, SaveTimeout, Unsaved,
                Resume, Saved, SaveFails, Retry, stop_jobs, cancel_with_grace
  <2> QED BY <2>1, StartKeepsHistory, CancelKeepsHistory, NothingKeeps
          DEF loop_vars, counters, policy
<1>2. CASE Tick \/ UNCHANGED clock_vars
  BY <1>2, NothingKeeps DEF Tick, clock_vars, loop_vars, counters, policy
<1> QED BY <1>1, <1>2, TalkKeepsHistory, ReplyFitsHistory, StepKeepsHistory DEF Next

LEMMA HistoryInvariant == Spec => [](LoopInv /\ HistoryInv)
<1>1. Init => LoopInv /\ HistoryInv
  BY LoopStarts, HistoryStarts
<1>2. LoopInv /\ HistoryInv /\ [Next]_clock_vars => (LoopInv /\ HistoryInv)'
  BY LoopStep, HistoryStep
<1> QED BY <1>1, <1>2, PTL DEF Spec

(* A run completes if and only if its finalize_draft succeeded, and stops  *)
(* for a limit if and only if its history has met it, for all limits: what *)
(* the counters of the worker say is what was executed.                    *)
THEOREM StopsAreWarranted == Spec => []StopIsWarranted
<1>1. LoopInv /\ HistoryInv => StopIsWarranted
  BY NothingMet DEF LoopInv, LoopTypes, HistoryInv, StopFits, StopIsWarranted
<1> QED BY <1>1, HistoryInvariant, PTL

-----------------------------------------------------------------------------
(***************************************************************************)
(* How late a step of the job can be, without the stalls.                  *)
(***************************************************************************)

(* When attempt k begins, at the latest. *)
Begins(k) ==
  IF k = 1 THEN Outer + 2 * Cleanup
  ELSE IF k = 2 THEN Outer + 2 * Cleanup + Finish + Cleanup + Delay[1]
  ELSE Outer + 2 * Cleanup + 2 * (Finish + Cleanup) + Delay[1] + Delay[2]

Latest ==
  CASE job = "created" -> 0
    [] job = "working" -> Outer
    [] job = "cancelling" -> IF stopping THEN Outer + 2 * Cleanup ELSE Outer + Cleanup
    [] job = "saving" -> Begins(attempt) + Finish
    [] job = "unsaving" -> Begins(attempt) + Finish + Cleanup
    [] OTHER -> Begins(attempt)

ClockTypes ==
  /\ now \in Nat /\ deadline \in Nat /\ (pc = "close" => since \in Nat)
  /\ wake \in Nat /\ attempt \in 1..3 /\ stopping \in BOOLEAN
  /\ stalled \in Nat /\ stalled <= Slack
  /\ pc \in {"created", "ask", "tool", "close", "ended"}
  /\ job \in {"created", "working", "cancelling", "saving", "unsaving",
              "sleeping", "saved", "stranded"}

(* A wait of the job ends, and the job is at it, by Latest and the stalls. *)
JobOnTime ==
  /\ ~JobIsDone => /\ now <= Latest + stalled
                   /\ job # "created" => wake <= Latest + stalled
  /\ job \in {"created", "working", "cancelling"} => attempt = 1

(* The worker stops at the inner deadline, and is gone a clean-up later.   *)
WorkerOnTime ==
  /\ job = "created" <=> pc = "created" /\ ~JobIsDone
  /\ result # Stopped("outer_timeout")
  /\ job = "working" =>
       /\ pc # "ended" => wake + Inner = deadline + Outer
       /\ pc \in {"ask", "tool"} => now <= deadline + stalled
       /\ pc = "close" => /\ since <= deadline + stalled
                          /\ now <= deadline + Cleanup + stalled

ClockInv == ClockTypes /\ JobOnTime /\ WorkerOnTime /\ OuterIsLastResort
USE LimitsAssumption, ClockAssumption, GraceAssumption

-----------------------------------------------------------------------------
(* What a step of the worker or of its policy may do to the clocks.        *)

Active(p) == p \in {"ask", "tool"}

LoopMoves ==
  /\ now' = now
  /\ result' # Stopped("outer_timeout")
  /\ \/ /\ Active(pc) /\ Active(pc') /\ deadline' = deadline
     \/ /\ Active(pc) /\ pc' = "close" /\ deadline' = deadline /\ since' = now
     \/ /\ pc = "close" /\ pc' = "ended" /\ deadline' = 0

LEMMA OutcomesOfLoop ==
  /\ \A reason \in Reasons : StopOf(reason) # Stopped("outer_timeout")
  /\ \A c, r, e, v, p : Limit(c, r, e, v, p) # Stopped("outer_timeout")
  /\ Cancelled # Stopped("outer_timeout")
  /\ None # Stopped("outer_timeout")
  /\ \A detail : Failed(detail) # Stopped("outer_timeout")
<1>1. \A reason : StopOf(reason) # Stopped("outer_timeout")
  BY DEF StopOf, Stopped, Failed
<1>2. \A c, r, e, v, p : Limit(c, r, e, v, p) # Stopped("outer_timeout")
  BY DEF Limit, Stopped, Failed, None
<1> QED BY <1>1, <1>2 DEF Stopped, Failed, None, Cancelled

LEMMA TalkMoves ==
  ASSUME WorkerOnTime, Talk
  PROVE  LoopMoves
<1> USE DEF Listening, Active, LoopMoves, WorkerOnTime
<1>1. CASE Message
  BY <1>1 DEF Message
<1>2. ASSUME NEW call \in Calls, Request(call)
      PROVE  LoopMoves
  BY <1>2 DEF Request
<1>3. ASSUME NEW id \in DOMAIN requests, Abandon(id)
      PROVE  LoopMoves
  BY <1>3 DEF Abandon
<1>4. ASSUME NEW reason \in Reasons, EndOfTalk(reason)
      PROVE  LoopMoves
  BY <1>4 DEF EndOfTalk
<1> QED BY <1>1, <1>2, <1>3, <1>4 DEF Talk

LEMMA ReplyMoves ==
  ASSUME WorkerOnTime, Reply
  PROVE  LoopMoves
<1> PICK reply : ToolDone(reply)
  BY DEF Reply
<1> pc = "tool"
  BY DEF Reply
<1>1. ASSUME NEW limit, limit # Stopped("outer_timeout"), Stop(limit)
      PROVE  LoopMoves
  BY <1>1 DEF Stop, LoopMoves, Active
<1>2. CASE /\ pc' = "ask" /\ since' = now
           /\ UNCHANGED <<now, deadline, result>>
  BY <1>2 DEF LoopMoves, Active, WorkerOnTime
<1> QED BY <1>1, <1>2, OutcomesOfLoop DEF ToolDone

LEMMA StepMoves ==
  ASSUME WorkerOnTime, Step
  PROVE  LoopMoves
<1>1. CASE TakeHeartbeat
  BY <1>1 DEF TakeHeartbeat, LoopMoves, Active, WorkerOnTime
<1>2. CASE TakeCall
  BY <1>2 DEF TakeCall, LoopMoves, Active, WorkerOnTime
<1>3. CASE TakeEnd
  <2> StopOf(Head(queue).reason) # Stopped("outer_timeout")
    BY DEF StopOf, Stopped, Failed
  <2> QED BY <1>3 DEF TakeEnd, Stop, LoopMoves, Active
<1>4. CASE Timeout
  <2> Stopped(IF now >= deadline THEN "inner_timeout" ELSE "inactivity_timeout")
        # Stopped("outer_timeout")
    BY DEF Stopped
  <2> QED BY <1>4 DEF Timeout, Stop, LoopMoves, Active
<1>5. CASE Close
  BY <1>5 DEF Close, LoopMoves, Active, WorkerOnTime
<1> QED BY <1>1, <1>2, <1>3, <1>4, <1>5 DEF Step

(* The job cancels the worker: it stops, or goes on to its end.            *)
LEMMA CancelMoves ==
  ASSUME WorkerOnTime, Cancel
  PROVE  LoopMoves \/ (pc = "ended" /\ UNCHANGED <<now, pc, deadline, since, result>>)
<1>1. CASE Active(pc) /\ Stop(Cancelled)
  BY <1>1, OutcomesOfLoop DEF Stop, LoopMoves, Active
<1>2. CASE Close
  BY <1>2 DEF Close, LoopMoves, Active, WorkerOnTime
<1> QED BY <1>1, <1>2 DEF Cancel, Active, loop_vars

-----------------------------------------------------------------------------
(* The clocks keep to their bounds.                                        *)

LEMMA Sizes ==
  /\ Outer \in Nat /\ Inner \in Nat /\ Cleanup \in Nat /\ Finish \in Nat
  /\ Slack \in Nat /\ RECOVERY_GRACE \in Nat
  /\ Delay[1] \in Nat /\ Delay[2] \in Nat
BY DEF LimitsAssumption

LEMMA ClockStarts == Init => ClockInv
<1> HAVE Init
<1>1. /\ now = 0 /\ deadline = 0 /\ pc = "created" /\ job = "created" /\ wake = 0
      /\ attempt = 1 /\ stopping \in BOOLEAN /\ stalled = 0
      /\ result = None /\ outcome = None
  BY Zenon DEF Init, LoopInit
<1>2. ClockTypes
  BY <1>1, Sizes DEF ClockTypes
<1>3. Latest = 0 /\ ~JobIsDone
  BY <1>1 DEF Latest, JobIsDone
<1>4. JobOnTime
  BY <1>1, <1>3 DEF JobOnTime
<1>5. WorkerOnTime /\ outcome # Stopped("outer_timeout")
  BY <1>1, <1>3, OutcomesOfLoop DEF WorkerOnTime
<1> QED BY <1>2, <1>4, <1>5 DEF ClockInv, OuterIsLastResort

LEMMA LoopKeepsTime ==
  ASSUME ClockInv, LoopMoves, UNCHANGED <<job_vars, stalled>>
  PROVE  ClockInv'
<1> USE DEF ClockInv
<1>1. UNCHANGED <<now, job, wake, attempt, outcome, stopping, stalled>>
  BY DEF LoopMoves, job_vars
<1>2. ClockTypes'
  BY <1>1 DEF ClockTypes, LoopMoves, Active
<1>3. JobOnTime'
  BY <1>1 DEF JobOnTime, JobIsDone, Latest, Begins
<1>4. WorkerOnTime'
  BY <1>1, Sizes DEF WorkerOnTime, LoopMoves, Active, JobIsDone, ClockTypes
<1> QED BY <1>1, <1>2, <1>3, <1>4 DEF OuterIsLastResort

LEMMA StartKeepsTime == ClockInv /\ StartJob /\ UNCHANGED stalled => ClockInv'
<1> HAVE ClockInv /\ StartJob /\ UNCHANGED stalled
<1> QED BY Sizes
        DEF ClockInv, StartJob, Start, Wait, ClockTypes, JobOnTime, WorkerOnTime,
            Latest, OuterIsLastResort, JobIsDone

(* The job leaves its worker: what is left to show of a step to "saving".  *)
LEMMA SavingKeepsTime ==
  ASSUME ClockInv, UNCHANGED <<loop_vars, stalled, attempt, stopping>>,
         Wait("saving", Finish), job \in {"working", "cancelling", "sleeping"},
         outcome' # Stopped("outer_timeout") \/ outcome' = outcome
  PROVE  ClockInv'
<1>1. UNCHANGED <<now, pc, deadline, since, result>>
  BY DEF loop_vars
<1>2. now <= Begins(attempt) + stalled /\ Begins(attempt) \in Nat
  BY Sizes DEF ClockInv, JobOnTime, JobIsDone, Latest, ClockTypes, Begins
<1>3. ClockTypes'
  BY <1>1, Sizes DEF ClockInv, ClockTypes, Wait
<1>4. JobOnTime'
  <2>1. Latest' = Begins(attempt) + Finish
    BY DEF Latest, Wait, Begins
  <2> QED BY <1>1, <1>2, <2>1, Sizes DEF JobOnTime, Wait, ClockInv, ClockTypes
<1>5. WorkerOnTime'
  BY <1>1 DEF ClockInv, WorkerOnTime, Wait, JobIsDone
<1> QED BY <1>3, <1>4, <1>5 DEF ClockInv, OuterIsLastResort

LEMMA CollectKeepsTime == ClockInv /\ Collect /\ UNCHANGED stalled => ClockInv'
<1> HAVE ClockInv /\ Collect /\ UNCHANGED stalled
<1> outcome' # Stopped("outer_timeout")
  BY OutcomesOfLoop DEF Collect, ClockInv, WorkerOnTime
<1> QED BY SavingKeepsTime DEF Collect

LEMMA WaitsEndInTime ==
  ClockInv /\ (GiveUp \/ Resume) /\ UNCHANGED stalled => ClockInv'
BY SavingKeepsTime DEF GiveUp, Resume

(* A cancelled worker: it was at work for its job until now.               *)
LEMMA CancelKeepsTime ==
  ASSUME ClockInv, NEW next, cancel_with_grace(next), UNCHANGED stalled,
         job \in {"working", "cancelling"}, stopping' \in BOOLEAN,
         job = "cancelling" => stopping', stopping => stopping',
         job = "cancelling" => ~stopping,
         next = Stopped("outer_timeout") => Inner + Cleanup + stalled >= Outer
  PROVE  ClockInv'
<1>1. /\ now' = now /\ result' # Stopped("outer_timeout")
      /\ deadline' \in Nat /\ (pc' = "close" => since' \in Nat)
      /\ pc # "created" /\ pc' \in {"ask", "tool", "close", "ended"}
  BY CancelMoves DEF ClockInv, ClockTypes, WorkerOnTime, cancel_with_grace,
                     LoopMoves, Active, JobIsDone
<1>2. ClockTypes'
  BY <1>1, Sizes DEF ClockInv, ClockTypes, cancel_with_grace, Wait
<1>3. JobOnTime'
  BY <1>1, Sizes DEF ClockInv, ClockTypes, JobOnTime, JobIsDone, Latest,
                     cancel_with_grace, Wait
<1>4. WorkerOnTime'
  BY <1>1 DEF WorkerOnTime, JobIsDone, cancel_with_grace, Wait
<1> QED BY <1>2, <1>3, <1>4 DEF ClockInv, OuterIsLastResort, cancel_with_grace

LEMMA OuterTimeoutKeepsTime ==
  ClockInv /\ OuterTimeout /\ UNCHANGED stalled => ClockInv'
<1> HAVE ClockInv /\ OuterTimeout /\ UNCHANGED stalled
<1> Inner + Cleanup + stalled >= Outer
  BY Sizes DEF OuterTimeout, ClockInv, ClockTypes, WorkerOnTime, JobIsDone
<1> QED BY CancelKeepsTime DEF OuterTimeout, ClockInv, ClockTypes

LEMMA StopKeepsTime == ClockInv /\ stop_jobs /\ UNCHANGED stalled => ClockInv'
<1> HAVE ClockInv /\ stop_jobs /\ UNCHANGED stalled
<1>1. CASE /\ job \in {"working", "cancelling"}
           /\ cancel_with_grace(Failed("process_interrupted"))
  BY <1>1, CancelKeepsTime, OutcomesOfLoop DEF stop_jobs
<1>2. CASE job' = "stranded" /\ UNCHANGED <<loop_vars, wake, attempt, outcome>>
  BY <1>2 DEF stop_jobs, ClockInv, ClockTypes, JobOnTime, WorkerOnTime,
              OuterIsLastResort, JobIsDone, loop_vars
<1> QED BY <1>1, <1>2 DEF stop_jobs

(* A failed attempt, or one that timed out: the next one begins in time.   *)
LEMMA RetryKeepsTime ==
  ASSUME ClockInv, Retry, job \in {"saving", "unsaving"}, UNCHANGED stalled
  PROVE  ClockInv'
<1>1. UNCHANGED <<now, pc, deadline, since, result, outcome, stopping>>
  BY DEF Retry, loop_vars
<1>2. now <= Begins(attempt) + Finish + Cleanup + stalled
  BY Sizes DEF ClockInv, JobOnTime, JobIsDone, Latest, ClockTypes, Begins
<1>3. CASE attempt = 3
  BY <1>1, <1>3 DEF Retry, ClockInv, ClockTypes, JobOnTime, WorkerOnTime,
                    OuterIsLastResort, JobIsDone
<1>4. CASE attempt \in 1..2
  <2>1. /\ job' = "sleeping" /\ attempt' = attempt + 1
        /\ wake' = now + Delay[attempt]
    BY <1>4 DEF Retry, Wait
  <2>2. Begins(attempt) + Finish + Cleanup + Delay[attempt] = Begins(attempt + 1)
    BY <1>4, Sizes DEF Begins
  <2>3. Begins(attempt) \in Nat /\ Delay[attempt] \in Nat
    BY <1>4, Sizes DEF Begins
  <2>4. Latest' = Begins(attempt + 1)
    BY <2>1 DEF Latest, Begins
  <2>5. ClockTypes'
    BY <1>1, <1>4, <2>1, <2>3 DEF ClockInv, ClockTypes
  <2>6. JobOnTime'
    <3>1. now + Delay[attempt] <= Begins(attempt + 1) + stalled
      BY <1>2, <2>2, <2>3, Sizes DEF ClockInv, ClockTypes
    <3>2. now <= now + Delay[attempt] /\ now + Delay[attempt] \in Nat
      BY <2>3 DEF ClockInv, ClockTypes
    <3>3. now <= Begins(attempt + 1) + stalled
      BY <3>1, <3>2, <2>2, <2>3, Sizes DEF ClockInv, ClockTypes
    <3> QED BY <1>1, <2>1, <2>4, <3>1, <3>3 DEF JobOnTime
  <2>7. WorkerOnTime'
    BY <1>1, <2>1 DEF ClockInv, WorkerOnTime, JobIsDone
  <2> QED BY <1>1, <2>5, <2>6, <2>7 DEF ClockInv, OuterIsLastResort
<1> QED BY <1>3, <1>4 DEF ClockInv, ClockTypes

LEMMA SaveKeepsTime ==
  ClockInv /\ (Saved \/ SaveTimeout) /\ UNCHANGED stalled => ClockInv'
<1> HAVE ClockInv /\ (Saved \/ SaveTimeout) /\ UNCHANGED stalled
<1>1. CASE Saved
  BY <1>1 DEF Saved, loop_vars, ClockInv, ClockTypes, JobOnTime, WorkerOnTime,
              OuterIsLastResort, JobIsDone
<1>2. CASE SaveTimeout
  <2>1. UNCHANGED <<now, pc, deadline, since, result, outcome, attempt, stopping>>
    BY <1>2 DEF SaveTimeout, loop_vars
  <2>2. /\ Begins(attempt) \in Nat /\ now <= Begins(attempt) + Finish + stalled
        /\ Latest' = Begins(attempt) + Finish + Cleanup
    BY <1>2, Sizes DEF SaveTimeout, Wait, ClockInv, JobOnTime, JobIsDone, Latest,
                       ClockTypes, Begins
  <2>3. ClockTypes'
    BY <1>2, <2>1, Sizes DEF SaveTimeout, Wait, ClockInv, ClockTypes
  <2>4. JobOnTime'
    BY <1>2, <2>1, <2>2, Sizes DEF SaveTimeout, Wait, ClockInv, ClockTypes, JobOnTime
  <2>5. WorkerOnTime'
    BY <1>2, <2>1 DEF SaveTimeout, Wait, ClockInv, WorkerOnTime, JobIsDone
  <2> QED BY <2>1, <2>3, <2>4, <2>5 DEF ClockInv, OuterIsLastResort
<1> QED BY <1>1, <1>2

(* Time goes on only where nothing is due, or at the cost of a stall.      *)
LEMMA TickKeepsTime == ClockInv /\ Tick => ClockInv'
<1> HAVE ClockInv /\ Tick
<1>1. /\ now' = now + 1 /\ ~JobIsDone
      /\ UNCHANGED <<pc, deadline, since, result, job, wake, attempt, outcome, stopping>>
  BY DEF Tick, job_vars
<1>2. Latest' = Latest /\ Latest \in Nat
  BY <1>1, Sizes DEF Latest, Begins, ClockInv, ClockTypes, JobIsDone
<1>3. CASE Due \/ JobDue
  <2>1. stalled' = stalled + 1 /\ stalled < Slack
    BY <1>3 DEF Tick
  <2>2. ClockTypes'
    BY <1>1, <2>1, Sizes DEF ClockInv, ClockTypes
  <2>3. JobOnTime'
    BY <1>1, <1>2, <2>1, Sizes DEF ClockInv, ClockTypes, JobOnTime
  <2>4. WorkerOnTime'
    BY <1>1, <2>1, Sizes DEF ClockInv, ClockTypes, WorkerOnTime, JobIsDone
  <2> QED BY <1>1, <2>1, <2>2, <2>3, <2>4, Sizes
          DEF ClockInv, ClockTypes, OuterIsLastResort
<1>4. CASE ~Due /\ ~JobDue
  <2>1. stalled' = stalled
    BY <1>4 DEF Tick
  <2>2. ClockTypes'
    BY <1>1, <2>1 DEF ClockInv, ClockTypes
  <2>3. now < wake /\ job # "created"
    BY <1>1, <1>4 DEF JobDue, JobIsDone, ClockInv, ClockTypes
  <2>4. JobOnTime'
    BY <1>1, <1>2, <2>1, <2>3, Sizes DEF ClockInv, ClockTypes, JobOnTime
  <2>5. /\ pc \in {"ask", "tool"} => now < deadline
        /\ pc = "close" => now < since + Cleanup
    <3>1. /\ now \in Nat /\ deadline \in Nat /\ Cleanup \in Nat
          /\ pc = "close" => since \in Nat
      BY Sizes DEF ClockInv, ClockTypes
    <3>2. /\ pc \in {"ask", "tool"} => ~(now >= deadline)
          /\ pc = "close" => ~(now >= since + Cleanup)
      BY <1>4 DEF Due, Overdue
    <3> QED
      BY <3>1, <3>2
  <2>6. WorkerOnTime'
    BY <1>1, <2>1, <2>5, Sizes DEF ClockInv, ClockTypes, WorkerOnTime, JobIsDone
  <2> QED BY <1>1, <2>1, <2>2, <2>4, <2>6 DEF ClockInv, OuterIsLastResort
<1> QED BY <1>3, <1>4

LEMMA ClockHolds == Spec => []ClockInv
<1>1. Init => ClockInv
  BY ClockStarts
<1>2. ClockInv /\ [Next]_clock_vars => ClockInv'
  <2> SUFFICES ASSUME ClockInv, [Next]_clock_vars PROVE ClockInv'
    OBVIOUS
  <2>1. CASE (Talk \/ Reply \/ Step) /\ UNCHANGED <<job_vars, stalled>>
    BY <2>1, LoopKeepsTime, TalkMoves, ReplyMoves, StepMoves DEF ClockInv
  <2>2. CASE JobStep /\ UNCHANGED stalled
    BY <2>2, StartKeepsTime, CollectKeepsTime, WaitsEndInTime, OuterTimeoutKeepsTime,
       SaveKeepsTime, RetryKeepsTime DEF JobStep, Unsaved
  <2>3. CASE (Saved \/ SaveFails \/ stop_jobs) /\ UNCHANGED stalled
    BY <2>3, SaveKeepsTime, RetryKeepsTime, StopKeepsTime DEF SaveFails
  <2>4. CASE Tick
    BY <2>4, TickKeepsTime
  <2>5. CASE UNCHANGED clock_vars
    BY <2>5 DEF clock_vars, loop_vars, job_vars, ClockInv, ClockTypes, JobOnTime,
                WorkerOnTime, OuterIsLastResort, JobIsDone, Latest, Begins
  <2> QED BY <2>1, <2>2, <2>3, <2>4, <2>5 DEF Next
<1> QED BY <1>1, <1>2, PTL DEF Spec

(* Recovery never ends a run whose job is still at work, for all limits    *)
(* that the grace covers.                                                  *)
THEOREM RecoveryWaits == Spec => []JobIsDoneFirst
<1>1. ClockInv => JobIsDoneFirst
  <2> SUFFICES ASSUME ClockInv, ~JobIsDone PROVE now <= Outer + RECOVERY_GRACE
    BY Sizes DEF JobIsDoneFirst, Recoverable, ClockInv, ClockTypes
  <2>1. Begins(attempt) <= Begins(3) /\ Begins(attempt) \in Nat
    BY Sizes DEF Begins, ClockInv, ClockTypes
  <2>2. Latest <= Begins(3) + Finish + Cleanup
    BY <2>1, Sizes DEF Latest, Begins, ClockInv, ClockTypes, JobIsDone
  <2> QED BY <2>2, Sizes, GraceAssumption
          DEF Begins, Latest, ClockInv, ClockTypes, JobOnTime, GraceAssumption
<1> QED BY <1>1, ClockHolds, PTL

(* The outer deadline fires only where the event loop has stalled for what *)
(* lies between the two deadlines, for all limits.                         *)
THEOREM OuterDeadlineIsLast == Spec => []OuterIsLastResort
<1>1. ClockInv => OuterIsLastResort
  BY DEF ClockInv
<1> QED BY <1>1, ClockHolds, PTL

-----------------------------------------------------------------------------
(***************************************************************************)
(* What the job persists.                                                  *)
(***************************************************************************)

OutcomeInv ==
  job \in {"cancelling", "saving", "unsaving", "sleeping", "saved"} =>
    outcome \notin {None, Cancelled}

LEMMA OutcomeStep ==
  ASSUME OutcomeInv, HistoryInv, [Next]_clock_vars
  PROVE  OutcomeInv'
<1>1. CASE UNCHANGED <<job, outcome>>
  BY <1>1 DEF OutcomeInv
<1>2. CASE StartJob
  BY <1>2 DEF StartJob, Wait, OutcomeInv
<1>3. CASE Collect
  <2>1. result # None
    BY <1>3 DEF Collect, HistoryInv, TurnTypes
  <2>2. outcome' \notin {None, Cancelled}
    BY <1>3, <2>1 DEF Collect, None, Cancelled, Failed
  <2> QED BY <2>2 DEF OutcomeInv
<1>4. CASE OuterTimeout
  BY <1>4 DEF OuterTimeout, cancel_with_grace, OutcomeInv, Stopped, None, Cancelled, Failed
<1>5. CASE GiveUp \/ Saved \/ SaveTimeout \/ Resume
  BY <1>5 DEF GiveUp, Saved, SaveTimeout, Resume, Wait, OutcomeInv
<1>6. CASE SaveFails \/ Unsaved
  BY <1>6 DEF SaveFails, Unsaved, Retry, Wait, OutcomeInv
<1>7. CASE stop_jobs
  BY <1>7 DEF stop_jobs, cancel_with_grace, Wait, OutcomeInv, None, Cancelled, Failed
<1>8. CASE ((Talk \/ Reply \/ Step) /\ UNCHANGED <<job_vars, stalled>>)
           \/ Tick \/ UNCHANGED clock_vars
  BY <1>1, <1>8 DEF Tick, clock_vars, job_vars
<1> QED BY <1>2, <1>3, <1>4, <1>5, <1>6, <1>7, <1>8 DEF Next, JobStep

(* The types of the worker, of the counters and of the job; what the job   *)
(* persists is an end, never a missing or a cancelled result.              *)
THEOREM JobTypeCorrect == Spec => []TypeOK
<1>1. Init => OutcomeInv
  BY DEF Init, OutcomeInv
<1>2. LoopInv /\ HistoryInv /\ OutcomeInv /\ [Next]_clock_vars => OutcomeInv'
  BY OutcomeStep
<1>3. LoopInv /\ HistoryInv /\ OutcomeInv /\ ClockInv => TypeOK
  <2> SUFFICES ASSUME LoopInv, HistoryInv, OutcomeInv, ClockInv PROVE TypeOK
    OBVIOUS
  <2>1. \A id \in DOMAIN requests :
          /\ requests[id].call \in Calls
          /\ requests[id].answer \in Replies(requests[id].call) \cup {Waiting, Dropped}
    <3> TAKE id \in DOMAIN requests
    <3>1. requests[id].call \in Calls
      BY Lengths DEF LoopInv, Asked
    <3>2. CASE id <= Len(executed)
      <4>1. id \in DOMAIN executed
        <5>1. DOMAIN executed = 1..Len(executed) /\ Len(executed) \in Nat
          BY LenProperties DEF LoopInv, LoopTypes
        <5>2. id \in 1..Len(requests) /\ Len(requests) \in Nat
          BY Lengths DEF LoopInv
        <5> QED BY <3>2, <5>1, <5>2
      <4>2. /\ executed[id].call = requests[id].call
            /\ requests[id].answer \in {executed[id].reply, Dropped}
        BY <3>2 DEF LoopInv, RepliesMatch
      <4>3. executed[id].reply \in Replies(executed[id].call)
        BY <4>1 DEF HistoryInv, RepliesFit
      <4> QED BY <3>1, <4>2, <4>3
    <3>3. CASE ~(id <= Len(executed))
      <4>1. requests[id].answer \in {Waiting, Dropped}
        BY <3>3 DEF LoopInv, RepliesMatch
      <4> QED BY <3>1, <4>1
    <3> QED BY <3>2, <3>3
  <2>2. LoopTypeOK
    BY <2>1 DEF LoopTypeOK, LoopInv, LoopTypes, HistoryInv, CounterTypes, TurnTypes,
                ClockInv, ClockTypes
  <2>3. stalled \in 0..Slack
    BY Sizes DEF ClockInv, ClockTypes
  <2> QED BY <2>2, <2>3 DEF TypeOK, ClockInv, ClockTypes, OutcomeInv, Attempts
<1> QED BY <1>1, <1>2, <1>3, HistoryInvariant, ClockHolds, PTL DEF Spec
=============================================================================
