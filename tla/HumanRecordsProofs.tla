------------------------- MODULE HumanRecordsProofs -------------------------
(***************************************************************************)
(* Proofs about HumanRecords, for any items, drafts, edits and bounds, and *)
(* about CarryOver, for any number of requests beside them (the end).      *)
(* The values of an item matter to the part before that; it rests on what  *)
(* rows added to a table make of an item (LaterRowsApplyLast).             *)
(***************************************************************************)
EXTENDS CarryOver, FiniteSetTheorems, SequenceTheorems,
        WellFoundedInduction, TLAPS

(* The part of TypeOK that speaks of the review.                           *)
ReviewType ==
  /\ current_state \in VersionState
  /\ approvals \in Seq(Events \cup Bounces)

-----------------------------------------------------------------------------
(* What a step can do to the state and to the history.                     *)

AddsEvent(from, to) ==
  /\ current_state = from /\ current_state' = to
  /\ \E n \in Nat : approvals' = Append(approvals,
       [kind |-> "event", from_state |-> from, to_state |-> to,
        unresolved |-> n])

AddsBounce ==
  /\ current_state = "staff_checked" /\ UNCHANGED current_state
  /\ approvals' = Append(approvals, [kind |-> "bounce"])

(* The number of open questions is a number.                               *)
LEMMA OpenQuestions == Cardinality(unresolved_question_ids) \in Nat
<1>1. unresolved_question_ids \subseteq Questions
  BY DEF unresolved_question_ids
<1>2. IsFiniteSet(unresolved_question_ids)
  BY <1>1, FS_Subset, QuestionsAssumption
<1> QED
  BY <1>2, FS_CardinalityType

LEMMA SavedEvent ==
  ASSUME NEW to, save_state_event(to)
  PROVE  AddsEvent(current_state, to)
  BY OpenQuestions DEF save_state_event, AddsEvent

(* Every request leaves state and history alone, adds one of three events, *)
(* or adds a bounce to a version checked by the staff.                     *)
LEMMA Effects ==
  ASSUME [Next]_vars
  PROVE  \/ UNCHANGED <<current_state, approvals>>
         \/ AddsEvent("draft", "staff_checked")
         \/ AddsEvent("staff_checked", "review_checked")
         \/ AddsEvent("review_checked", "staff_checked")
         \/ AddsBounce
<1>1. CASE UNCHANGED vars
  BY <1>1 DEF vars
<1>2. ASSUME NEW i \in Items, NEW in \in Inputs, Edit(i, in)
      PROVE  \/ UNCHANGED <<current_state, approvals>>
             \/ AddsEvent("review_checked", "staff_checked")
  <2>1. Reopen
    BY <1>2 DEF Edit
  <2> QED
    BY <2>1, SavedEvent DEF Reopen
<1>3. ASSUME NEW to \in VersionState \ {"draft"}, Transition(to)
      PROVE  \/ AddsEvent("draft", "staff_checked")
             \/ AddsEvent("staff_checked", "review_checked")
  <2>1. AddsEvent(current_state, to)
    BY <1>3, SavedEvent DEF Transition
  <2>2. <<current_state, to>> \in {<<"draft", "staff_checked">>,
                                   <<"staff_checked", "review_checked">>}
    BY <1>3 DEF Transition, decide_transition
  <2> QED
    BY <2>1, <2>2
<1>4. CASE Bounce
  BY <1>4 DEF Bounce, AddsBounce
<1> QED
  BY <1>1, <1>2, <1>3, <1>4
  DEF Next, UndoEdit, Confirm, UndoConfirmation, Judge, Comment,
      DecideSendoff, ListVersions, ListEvents, ListBounces

(* An entry is added at the end, and the others stay as they are.          *)
LEMMA Appended ==
  ASSUME ReviewType, NEW entry \in Events \cup Bounces,
         approvals' = Append(approvals, entry)
  PROVE  /\ approvals' \in Seq(Events \cup Bounces)
         /\ Len(approvals) \in Nat /\ Len(approvals') = Len(approvals) + 1
         /\ Entries = 1..Len(approvals) /\ Entries' = 1..(Len(approvals) + 1)
         /\ \A k \in 1..Len(approvals) : approvals'[k] = approvals[k]
         /\ approvals'[Len(approvals) + 1] = entry
  BY DEF ReviewType, Entries

LEMMA AddedEvent ==
  ASSUME ReviewType, NEW from \in VersionState,
         NEW to \in VersionState \ {"draft"}, AddsEvent(from, to)
  PROVE  /\ ReviewType'
         /\ Len(approvals) \in Nat /\ Len(approvals') = Len(approvals) + 1
         /\ Entries = 1..Len(approvals) /\ Entries' = 1..(Len(approvals) + 1)
         /\ \A k \in 1..Len(approvals) : approvals'[k] = approvals[k]
         /\ approvals'[Len(approvals) + 1].kind = "event"
         /\ approvals'[Len(approvals) + 1].from_state = from
         /\ approvals'[Len(approvals) + 1].to_state = to
<1>1. PICK n \in Nat : approvals' = Append(approvals,
        [kind |-> "event", from_state |-> from, to_state |-> to,
         unresolved |-> n])
  BY DEF AddsEvent
<1> DEFINE entry == [kind |-> "event", from_state |-> from, to_state |-> to,
                     unresolved |-> n]
<1>2. entry \in Events \cup Bounces
  BY DEF Events
<1>3. /\ entry.kind = "event"
      /\ entry.from_state = from /\ entry.to_state = to
  OBVIOUS
<1> HIDE DEF entry
<1>4. approvals' = Append(approvals, entry)
  BY <1>1 DEF entry
<1>5. current_state' \in VersionState
  BY DEF AddsEvent
<1> QED
  BY <1>2, <1>3, <1>4, <1>5, Appended DEF ReviewType

LEMMA AddedBounce ==
  ASSUME ReviewType, AddsBounce
  PROVE  /\ ReviewType'
         /\ Len(approvals) \in Nat /\ Len(approvals') = Len(approvals) + 1
         /\ Entries = 1..Len(approvals) /\ Entries' = 1..(Len(approvals) + 1)
         /\ \A k \in 1..Len(approvals) : approvals'[k] = approvals[k]
         /\ approvals'[Len(approvals) + 1].kind = "bounce"
<1> DEFINE entry == [kind |-> "bounce"]
<1>1. entry \in Events \cup Bounces /\ entry.kind = "bounce"
  BY DEF Bounces
<1> HIDE DEF entry
<1>2. approvals' = Append(approvals, entry)
  BY DEF AddsBounce, entry
<1> QED
  BY <1>1, <1>2, Appended DEF ReviewType, AddsBounce

-----------------------------------------------------------------------------
(* The state is the latest event, and the history says what it says.       *)

ReviewInv == ReviewType /\ StateIsLatestEvent /\ RecheckIsStaffAfterReview

LEMMA InitReview == Init => ReviewInv
<1> SUFFICES ASSUME Init PROVE ReviewInv
  OBVIOUS
<1>1. approvals = <<>> /\ Len(approvals) = 0 /\ Entries = {}
  BY DEF Init, Entries
<1>2. current_state = "draft"
  BY DEF Init
<1>3. ReviewType
  BY <1>1, <1>2 DEF ReviewType, VersionState
<1>4. StateIsLatestEvent
  BY <1>1, <1>2 DEF StateIsLatestEvent, DraftHasNoEvent, LatestEventIsState,
     EventsChain
<1>5. RecheckIsStaffAfterReview
  BY <1>1 DEF RecheckIsStaffAfterReview, needs_recheck
<1> QED
  BY <1>3, <1>4, <1>5 DEF ReviewInv

(* The event just added is the latest; it starts from where the one before *)
(* it ended, because that is what the state was.                           *)
LEMMA EventKeepsState ==
  ASSUME ReviewInv, NEW from \in VersionState,
         NEW to \in VersionState \ {"draft"}, AddsEvent(from, to)
  PROVE  StateIsLatestEvent'
<1>0. PICK n \in Nat : n = Len(approvals)
  BY DEF ReviewInv, ReviewType
<1>1. /\ n \in Nat
      /\ Entries = 1..n /\ Entries' = 1..(n + 1)
      /\ \A k \in 1..n : approvals'[k] = approvals[k]
      /\ approvals'[n + 1].kind = "event"
      /\ approvals'[n + 1].from_state = from
      /\ approvals'[n + 1].to_state = to
  BY <1>0, AddedEvent DEF ReviewInv
<1>2. current_state = from /\ current_state' = to
  BY DEF AddsEvent
<1>3. StateIsLatestEvent
  BY DEF ReviewInv
<1>4. DraftHasNoEvent'
  BY <1>2 DEF DraftHasNoEvent
<1>5. LatestEventIsState'
  <2>1. LatestEvent(n + 1)'
    BY <1>1 DEF LatestEvent, IsEvent
  <2>2. ASSUME NEW k \in Entries', LatestEvent(k)'
        PROVE  k = n + 1
    BY <1>1, <2>1, <2>2 DEF LatestEvent
  <2> QED
    BY <1>1, <1>2, <2>1, <2>2 DEF LatestEventIsState
<1>6. EventsChain'
  <2> SUFFICES ASSUME NEW k \in Entries', NEW l \in Entries',
                      IsEvent(k)', IsEvent(l)', k < l,
                      \A m \in (k + 1)..(l - 1) : ~IsEvent(m)'
               PROVE  approvals'[l].from_state = approvals'[k].to_state
    BY DEF EventsChain
  <2>1. k \in 1..n /\ IsEvent(k)
    BY <1>1 DEF IsEvent
  <2>2. CASE l \in 1..n
    <3>1. IsEvent(l) /\ \A m \in (k + 1)..(l - 1) : ~IsEvent(m)
      BY <1>1, <2>1, <2>2 DEF IsEvent
    <3> QED
      BY <1>1, <1>3, <2>1, <2>2, <3>1 DEF StateIsLatestEvent, EventsChain
  <2>3. CASE l = n + 1
    <3>1. \A m \in (k + 1)..n : ~IsEvent(m)
      BY <1>1, <2>1, <2>3 DEF IsEvent
    <3>2. LatestEvent(k)
      BY <1>1, <2>1, <3>1 DEF LatestEvent
    <3> QED
      BY <1>1, <1>2, <1>3, <2>1, <2>3, <3>2
      DEF StateIsLatestEvent, LatestEventIsState
  <2> QED
    BY <1>1, <2>2, <2>3
<1> QED
  BY <1>4, <1>5, <1>6 DEF StateIsLatestEvent

LEMMA BounceKeepsState ==
  ASSUME ReviewInv, AddsBounce
  PROVE  StateIsLatestEvent'
<1>0. PICK n \in Nat : n = Len(approvals)
  BY DEF ReviewInv, ReviewType
<1>1. /\ n \in Nat
      /\ Entries = 1..n /\ Entries' = 1..(n + 1)
      /\ \A k \in 1..n : approvals'[k] = approvals[k]
      /\ approvals'[n + 1].kind = "bounce"
  BY <1>0, AddedBounce DEF ReviewInv
<1>2. current_state = "staff_checked" /\ current_state' = "staff_checked"
  BY DEF AddsBounce
<1>3. StateIsLatestEvent
  BY DEF ReviewInv
<1>4. \A k \in Entries' : IsEvent(k)' <=> (k \in Entries /\ IsEvent(k))
  BY <1>1 DEF IsEvent
<1>5. \A k \in Entries' : LatestEvent(k)' <=> (k \in Entries /\ LatestEvent(k))
  BY <1>1, <1>4 DEF LatestEvent
<1>6. LatestEventIsState'
  BY <1>1, <1>2, <1>3, <1>5 DEF StateIsLatestEvent, LatestEventIsState
<1>7. EventsChain'
  <2> SUFFICES ASSUME NEW k \in Entries', NEW l \in Entries',
                      IsEvent(k)', IsEvent(l)', k < l,
                      \A m \in (k + 1)..(l - 1) : ~IsEvent(m)'
               PROVE  approvals'[l].from_state = approvals'[k].to_state
    BY DEF EventsChain
  <2>1. k \in Entries /\ l \in Entries /\ IsEvent(k) /\ IsEvent(l)
    BY <1>4
  <2>2. \A m \in (k + 1)..(l - 1) : ~IsEvent(m)
    BY <1>1, <2>1 DEF IsEvent
  <2> QED
    BY <1>1, <1>3, <2>1, <2>2 DEF StateIsLatestEvent, EventsChain
<1> QED
  BY <1>2, <1>6, <1>7 DEF StateIsLatestEvent, DraftHasNoEvent

(* After an event, the flag says whether that event was a correction.      *)
LEMMA EventSetsRecheck ==
  ASSUME ReviewType, NEW from \in VersionState,
         NEW to \in VersionState \ {"draft"}, AddsEvent(from, to)
  PROVE  needs_recheck(Len(approvals))' <=>
           (from = "review_checked" /\ to = "staff_checked")
<1>0. PICK n \in Nat : n = Len(approvals)
  BY DEF ReviewType
<1>1. /\ Len(approvals') = n + 1
      /\ approvals'[n + 1].kind = "event"
      /\ approvals'[n + 1].from_state = from
      /\ approvals'[n + 1].to_state = to
  BY <1>0, AddedEvent
<1>2. IsEvent(n + 1)'
  BY <1>1 DEF IsEvent
<1> QED
  BY <1>1, <1>2 DEF needs_recheck

(* A bounce is not an event and leaves the flag alone.                     *)
LEMMA BounceKeepsRecheck ==
  ASSUME ReviewType, AddsBounce
  PROVE  needs_recheck(Len(approvals))' <=> needs_recheck(Len(approvals))
<1>0. PICK n \in Nat : n = Len(approvals)
  BY DEF ReviewType
<1>1. /\ Len(approvals') = n + 1
      /\ \A k \in 1..n : approvals'[k] = approvals[k]
      /\ approvals'[n + 1].kind = "bounce"
  BY <1>0, AddedBounce
<1>2. ~IsEvent(n + 1)'
  BY <1>1 DEF IsEvent
<1>3. \A k \in 1..n : IsEvent(k)' <=> IsEvent(k)
  BY <1>1 DEF IsEvent
<1> QED
  BY <1>0, <1>1, <1>2, <1>3 DEF needs_recheck

LEMMA EventKeepsRecheck ==
  ASSUME ReviewInv, NEW from \in VersionState,
         NEW to \in VersionState \ {"draft"}, AddsEvent(from, to),
         <<from, to>> \in {<<"draft", "staff_checked">>,
                           <<"staff_checked", "review_checked">>,
                           <<"review_checked", "staff_checked">>}
  PROVE  RecheckIsStaffAfterReview'
<1>0. PICK n \in Nat : n = Len(approvals)
  BY DEF ReviewInv, ReviewType
<1>1. /\ Entries = 1..n /\ Entries' = 1..(n + 1)
      /\ \A k \in 1..n : approvals'[k] = approvals[k]
      /\ approvals'[n + 1].kind = "event"
      /\ approvals'[n + 1].to_state = to
  BY <1>0, AddedEvent DEF ReviewInv
<1>2. needs_recheck(Len(approvals))' <=>
        (from = "review_checked" /\ to = "staff_checked")
  BY EventSetsRecheck DEF ReviewInv
<1>3. \A k \in 1..n : (IsEvent(k)' <=> IsEvent(k))
                      /\ (IsReview(k)' <=> IsReview(k))
  BY <1>1 DEF IsEvent, IsReview
<1>4. IsEvent(n + 1)' /\ (IsReview(n + 1)' <=> to = "review_checked")
  BY <1>1 DEF IsEvent, IsReview
<1>5. current_state = from
  BY DEF AddsEvent
<1>6. CASE to = "review_checked"
  <2>1. ~needs_recheck(Len(approvals))'
    BY <1>2, <1>6
  <2>2. n + 1 \in Entries' /\ IsReview(n + 1)'
    BY <1>1, <1>4, <1>6
  <2>3. \A s \in Entries' : ~(n + 1 < s)
    BY <1>1
  <2> QED
    BY <2>1, <2>2, <2>3 DEF RecheckIsStaffAfterReview
<1>7. CASE from = "draft" /\ to = "staff_checked"
  <2>1. \A k \in Entries : ~IsEvent(k)
    BY <1>5, <1>7 DEF ReviewInv, StateIsLatestEvent, DraftHasNoEvent
  <2>2. \A k \in Entries' : ~IsReview(k)'
    BY <1>1, <1>3, <1>4, <1>7, <2>1 DEF IsReview
  <2> QED
    BY <1>2, <1>7, <2>2 DEF RecheckIsStaffAfterReview
<1>8. CASE from = "review_checked" /\ to = "staff_checked"
  <2>1. PICK r \in Entries : LatestEvent(r)
    BY <1>5, <1>8 DEF ReviewInv, StateIsLatestEvent, LatestEventIsState
  <2>2. IsReview(r)
    BY <1>5, <1>8, <2>1
    DEF ReviewInv, StateIsLatestEvent, LatestEventIsState, LatestEvent, IsReview
  <2>3. \A later \in Entries' : IsReview(later)' => later < n + 1
    BY <1>1, <1>4, <1>8
  <2>4. r \in Entries' /\ IsReview(r)' /\ n + 1 \in Entries'
    BY <1>1, <1>3, <2>1, <2>2
  <2>5. approvals'[n + 1].to_state = "staff_checked"
    BY <1>1, <1>8
  <2> QED
    BY <1>2, <1>4, <1>8, <2>3, <2>4, <2>5 DEF RecheckIsStaffAfterReview
<1> QED
  BY <1>6, <1>7, <1>8

LEMMA BounceKeepsFlag ==
  ASSUME ReviewInv, AddsBounce
  PROVE  RecheckIsStaffAfterReview'
<1>0. PICK n \in Nat : n = Len(approvals)
  BY DEF ReviewInv, ReviewType
<1>1. /\ Entries = 1..n /\ Entries' = 1..(n + 1)
      /\ \A k \in 1..n : approvals'[k] = approvals[k]
      /\ approvals'[n + 1].kind = "bounce"
  BY <1>0, AddedBounce DEF ReviewInv
<1>2. needs_recheck(Len(approvals))' <=> needs_recheck(Len(approvals))
  BY BounceKeepsRecheck DEF ReviewInv
<1>3. \A k \in Entries' : /\ IsEvent(k)' <=> (k \in Entries /\ IsEvent(k))
                          /\ IsReview(k)' <=> (k \in Entries /\ IsReview(k))
  BY <1>1 DEF IsEvent, IsReview
<1>4. Entries \subseteq Entries'
  BY <1>1
<1> QED
  BY <1>1, <1>2, <1>3, <1>4 DEF ReviewInv, RecheckIsStaffAfterReview

LEMMA StepReview == ReviewInv /\ [Next]_vars => ReviewInv'
<1> SUFFICES ASSUME ReviewInv, [Next]_vars PROVE ReviewInv'
  OBVIOUS
<1>1. CASE UNCHANGED <<current_state, approvals>>
  BY <1>1 DEF ReviewInv, ReviewType, StateIsLatestEvent, DraftHasNoEvent,
     LatestEventIsState, LatestEvent, EventsChain, RecheckIsStaffAfterReview,
     needs_recheck, Entries, IsEvent, IsReview
<1>2. ASSUME NEW from \in VersionState, NEW to \in VersionState \ {"draft"},
             AddsEvent(from, to),
             <<from, to>> \in {<<"draft", "staff_checked">>,
                               <<"staff_checked", "review_checked">>,
                               <<"review_checked", "staff_checked">>}
      PROVE  ReviewInv'
  BY <1>2, AddedEvent, EventKeepsState, EventKeepsRecheck DEF ReviewInv
<1>3. CASE AddsBounce
  BY <1>3, AddedBounce, BounceKeepsState, BounceKeepsFlag DEF ReviewInv
<1> QED
  BY <1>1, <1>2, <1>3, Effects DEF VersionState

(* The state of a version is that of its latest event, events follow on    *)
(* from one another, and the flag needs_recheck, which looks at the latest *)
(* event alone, says what it is documented to say.                         *)
THEOREM StateFollowsEvents == Spec => []ReviewInv
  BY InitReview, StepReview, PTL DEF Spec

THEOREM HistoryIsTrue == Spec => []StateIsLatestEvent
<1>1. ReviewInv => StateIsLatestEvent
  BY DEF ReviewInv
<1> QED
  BY <1>1, StateFollowsEvents, PTL

THEOREM RecheckIsTrue == Spec => []RecheckIsStaffAfterReview
<1>1. ReviewInv => RecheckIsStaffAfterReview
  BY DEF ReviewInv
<1> QED
  BY <1>1, StateFollowsEvents, PTL

-----------------------------------------------------------------------------
(* State and flags implement ReviewPromise.                                *)

LEMMA EventSetsBounced ==
  ASSUME ReviewType, NEW from \in VersionState,
         NEW to \in VersionState \ {"draft"}, AddsEvent(from, to)
  PROVE  bounced(Len(approvals), Len(approvals))' <=>
           /\ to # "review_checked"
           /\ bounced(Len(approvals), Len(approvals))
<1>0. PICK n \in Nat : n = Len(approvals)
  BY DEF ReviewType
<1>1. /\ Len(approvals') = n + 1
      /\ \A k \in 1..n : approvals'[k] = approvals[k]
      /\ approvals'[n + 1].kind = "event"
      /\ approvals'[n + 1].to_state = to
  BY <1>0, AddedEvent
<1>2. ~IsBounce(n + 1)' /\ (IsReview(n + 1)' <=> to = "review_checked")
  BY <1>1 DEF IsBounce, IsEvent, IsReview
<1>3. \A k \in 1..n : (IsBounce(k)' <=> IsBounce(k))
                      /\ (IsReview(k)' <=> IsReview(k))
  BY <1>1 DEF IsBounce, IsEvent, IsReview
<1>4. bounced(Len(approvals), Len(approvals))' <=>
        \E k \in 1..(n + 1) : IsBounce(k)' /\
          \A r \in 1..(n + 1) : IsReview(r)' => r < k
  BY <1>1 DEF bounced
<1>5. bounced(Len(approvals), Len(approvals)) <=>
        \E k \in 1..n : IsBounce(k) /\ \A r \in 1..n : IsReview(r) => r < k
  BY <1>0 DEF bounced
<1>6. CASE to = "review_checked"
  <2>1. ~bounced(Len(approvals), Len(approvals))'
    BY <1>2, <1>4, <1>6
  <2> QED
    BY <1>6, <2>1
<1>7. CASE to # "review_checked"
  <2>1. ASSUME NEW k \in 1..n
        PROVE  (\A r \in 1..(n + 1) : IsReview(r)' => r < k) <=>
                 (\A r \in 1..n : IsReview(r) => r < k)
    BY <1>2, <1>3, <1>7
  <2> QED
    BY <1>2, <1>3, <1>4, <1>5, <1>7, <2>1
<1> QED
  BY <1>6, <1>7

LEMMA BounceSetsBounced ==
  ASSUME ReviewType, AddsBounce
  PROVE  bounced(Len(approvals), Len(approvals))'
<1>0. PICK n \in Nat : n = Len(approvals)
  BY DEF ReviewType
<1>1. Len(approvals') = n + 1 /\ approvals'[n + 1].kind = "bounce"
  BY <1>0, AddedBounce
<1>2. IsBounce(n + 1)' /\ ~IsReview(n + 1)'
  BY <1>1 DEF IsBounce, IsEvent, IsReview
<1> QED
  BY <1>1, <1>2 DEF bounced

LEMMA InitStatus == Init => Status!Init
<1> SUFFICES ASSUME Init PROVE Status!Init
  OBVIOUS
<1>1. Len(approvals) = 0
  BY DEF Init
<1>2. /\ bounced(Len(approvals), Len(approvals)) = FALSE
      /\ needs_recheck(Len(approvals)) = FALSE
  BY <1>1 DEF bounced, needs_recheck
<1> QED
  BY <1>2 DEF Init, Status!Init

LEMMA StepStatus ==
  ReviewInv /\ [Next]_vars => [Status!Next]_(Status!promise)
<1> SUFFICES ASSUME ReviewInv, [Next]_vars
             PROVE  [Status!Next]_(Status!promise)
  OBVIOUS
<1> DEFINE sent == bounced(Len(approvals), Len(approvals))
           again == needs_recheck(Len(approvals))
<1>0. /\ sent \in BOOLEAN /\ again \in BOOLEAN
      /\ sent' \in BOOLEAN /\ again' \in BOOLEAN
  BY DEF bounced, needs_recheck
<1>1. CASE UNCHANGED <<current_state, approvals>>
  <2>1. sent' = sent /\ again' = again
    BY <1>1 DEF bounced, needs_recheck, IsBounce, IsEvent, IsReview
  <2> QED
    BY <1>1, <2>1 DEF Status!promise
<1>2. CASE AddsEvent("draft", "staff_checked")
  <2>1. sent' = sent /\ again' = FALSE
    BY <1>0, <1>2, EventSetsBounced, EventSetsRecheck
    DEF ReviewInv, VersionState
  <2>2. again = FALSE
    <3>1. \A k \in Entries : ~IsEvent(k)
      BY <1>2 DEF AddsEvent, ReviewInv, StateIsLatestEvent, DraftHasNoEvent
    <3>2. Entries = 1..Len(approvals)
      BY DEF ReviewInv, ReviewType, Entries
    <3> QED
      BY <3>1, <3>2 DEF needs_recheck
  <2>3. Status!StaffCheck
    BY <1>2, <2>1, <2>2 DEF Status!StaffCheck, AddsEvent
  <2> QED
    BY <2>3 DEF Status!Next
<1>3. CASE AddsEvent("staff_checked", "review_checked")
  <2>1. sent' = FALSE /\ again' = FALSE
    BY <1>0, <1>3, EventSetsBounced, EventSetsRecheck
    DEF ReviewInv, VersionState
  <2>2. Status!Approve
    BY <1>3, <2>1 DEF Status!Approve, AddsEvent
  <2> QED
    BY <2>2 DEF Status!Next
<1>4. CASE AddsEvent("review_checked", "staff_checked")
  <2>1. sent' = sent /\ again' = TRUE
    BY <1>0, <1>4, EventSetsBounced, EventSetsRecheck
    DEF ReviewInv, VersionState
  <2>2. Status!Correct
    BY <1>4, <2>1 DEF Status!Correct, AddsEvent
  <2> QED
    BY <2>2 DEF Status!Next
<1>5. CASE AddsBounce
  <2>1. sent' = TRUE /\ again' = again
    BY <1>0, <1>5, BounceSetsBounced, BounceKeepsRecheck DEF ReviewInv
  <2>2. Status!SendBack
    BY <1>5, <2>1 DEF Status!SendBack, AddsBounce
  <2> QED
    BY <2>2 DEF Status!Next
<1> QED
  BY <1>1, <1>2, <1>3, <1>4, <1>5, Effects

(* The state column and the two derived flags behave, for any order of the *)
(* requests, as the three variables of ReviewPromise.                      *)
THEOREM ImplementsReview == Spec => KeepsReviewPromise
  BY InitStatus, StepStatus, StateFollowsEvents, PTL
  DEF Spec, KeepsReviewPromise, Status!Spec


-----------------------------------------------------------------------------
(* Comments and bounces.                                                   *)

Comments == Seq([item : Items, bounce_id : Nat])
CommentInv == comments \in Comments /\ BounceHasReason

(* Only a comment and a bounce touch the comments.                         *)
LEMMA CommentEffects ==
  ASSUME [Next]_vars, ReviewType
  PROVE  \/ UNCHANGED <<comments, approvals>>
         \/ /\ UNCHANGED comments
            /\ \E from \in VersionState, to \in VersionState \ {"draft"} :
                 AddsEvent(from, to)
         \/ \E i \in Items : Comment(i)
         \/ Bounce
<1>1. CASE UNCHANGED vars
  BY <1>1 DEF vars
<1>2. ASSUME NEW i \in Items, NEW in \in Inputs, Edit(i, in)
      PROVE  /\ UNCHANGED comments
             /\ \/ UNCHANGED approvals
                \/ AddsEvent(current_state, "staff_checked")
  <2>1. Reopen /\ UNCHANGED comments
    BY <1>2 DEF Edit
  <2> QED
    BY <2>1, SavedEvent DEF Reopen
<1>3. ASSUME NEW to \in VersionState \ {"draft"}, Transition(to)
      PROVE  UNCHANGED comments /\ AddsEvent(current_state, to)
  BY <1>3, SavedEvent DEF Transition, records
<1>4. current_state \in VersionState
      /\ "staff_checked" \in VersionState \ {"draft"}
  BY DEF ReviewType, VersionState
<1> QED
  BY <1>1, <1>2, <1>3, <1>4
  DEF Next, UndoEdit, Confirm, UndoConfirmation, Judge, DecideSendoff,
      ListVersions, ListEvents, ListBounces, records

(* A comment waits, linked to nothing, until a bounce takes it.            *)
LEMMA CommentKeeps ==
  ASSUME CommentInv, ReviewType, NEW i \in Items, Comment(i)
  PROVE  CommentInv' /\ \A c \in DOMAIN comments : comments'[c] = comments[c]
<1> DEFINE new == [item |-> i, bounce_id |-> 0]
<1>0. PICK n \in Nat : n = Len(comments)
  BY DEF CommentInv, Comments
<1>1. new \in [item : Items, bounce_id : Nat] /\ new.bounce_id = 0
  OBVIOUS
<1>2. comments' = Append(comments, new) /\ approvals' = approvals
  BY DEF Comment
<1> HIDE DEF new
<1>3. /\ comments' \in Comments
      /\ DOMAIN comments = 1..n /\ DOMAIN comments' = 1..(n + 1)
      /\ \A c \in 1..n : comments'[c] = comments[c]
      /\ comments'[n + 1] = new
  BY <1>0, <1>1, <1>2 DEF CommentInv, Comments
<1>4. Entries' = Entries /\ \A b : IsBounce(b)' <=> IsBounce(b)
  BY <1>2 DEF Entries, IsBounce
<1>5. BounceHasReason'
  <2>1. ASSUME NEW b \in Entries', IsBounce(b)'
        PROVE  \E c \in DOMAIN comments' : comments'[c].bounce_id = b
    <3>1. PICK c \in DOMAIN comments : comments[c].bounce_id = b
      BY <1>4, <2>1 DEF CommentInv, BounceHasReason
    <3> QED
      BY <1>3, <3>1
  <2>2. ASSUME NEW c \in DOMAIN comments', comments'[c].bounce_id # 0
        PROVE  /\ comments'[c].bounce_id \in Entries'
               /\ approvals'[comments'[c].bounce_id].kind = "bounce"
    <3>1. c \in 1..n /\ comments'[c] = comments[c]
      BY <1>1, <1>3, <2>2
    <3>2. /\ comments[c].bounce_id \in Entries
          /\ approvals[comments[c].bounce_id].kind = "bounce"
      BY <1>3, <2>2, <3>1 DEF CommentInv, BounceHasReason, IsBounce
    <3> QED
      BY <1>2, <1>4, <3>1, <3>2
  <2> QED
    BY <2>1, <2>2 DEF BounceHasReason, IsBounce
<1> QED
  BY <1>3, <1>5 DEF CommentInv

(* A bounce takes the comments that wait, at least one, and no other.      *)
LEMMA BounceTakes ==
  ASSUME CommentInv, ReviewType, Bounce
  PROVE  /\ CommentInv'
         /\ \A c \in DOMAIN comments : comments[c].bounce_id # 0 =>
              comments'[c] = comments[c]
<1>0. PICK n \in Nat : n = Len(approvals)
  BY DEF ReviewType
<1>1. AddsBounce
  BY DEF Bounce, AddsBounce
<1>2. /\ Entries = 1..n /\ Entries' = 1..(n + 1) /\ Len(approvals') = n + 1
      /\ \A k \in 1..n : approvals'[k] = approvals[k]
      /\ approvals'[n + 1].kind = "bounce"
  BY <1>0, <1>1, AddedBounce
<1>3. PICK m \in Nat : m = Len(comments) /\ DOMAIN comments = 1..m
  BY DEF CommentInv, Comments
<1>4. \A k \in 1..m : comments[k] \in [item : Items, bounce_id : Nat]
  <2> DEFINE T == [item : Items, bounce_id : Nat]
  <2>1. comments \in Seq(T)
    BY DEF CommentInv, Comments
  <2> HIDE DEF T
  <2>2. \A k \in 1..m : comments[k] \in T
    BY <1>3, <2>1, ElementOfSeq
  <2> QED
    BY <2>2 DEF T
<1>5. comments' = [k \in 1..m |->
        IF comments[k].bounce_id = 0
        THEN [comments[k] EXCEPT !.bounce_id = n + 1] ELSE comments[k]]
  BY <1>2, <1>3 DEF Bounce, unlinked_bounce_comments
<1>6. /\ comments' \in [1..m -> [item : Items, bounce_id : Nat]]
      /\ \A c \in 1..m : comments'[c].bounce_id =
           IF comments[c].bounce_id = 0 THEN n + 1 ELSE comments[c].bounce_id
      /\ \A c \in 1..m :
           comments[c].bounce_id # 0 => comments'[c] = comments[c]
  BY <1>4, <1>5
<1>7. comments' \in Comments /\ DOMAIN comments' = 1..m
  BY <1>6, SeqDef DEF Comments
<1>8. BounceHasReason'
  <2>1. ASSUME NEW b \in Entries', IsBounce(b)'
        PROVE  \E c \in DOMAIN comments' : comments'[c].bounce_id = b
    <3>1. CASE b = n + 1
      <4>1. PICK c \in 1..m : comments[c].bounce_id = 0
        BY <1>3 DEF Bounce, HasReason, unlinked_bounce_comments
      <4> QED
        BY <1>6, <1>7, <3>1, <4>1
    <3>2. CASE b \in 1..n
      <4>1. b \in Entries /\ IsBounce(b)
        BY <1>2, <2>1, <3>2 DEF IsBounce
      <4>2. PICK c \in 1..m : comments[c].bounce_id = b
        BY <1>3, <4>1 DEF CommentInv, BounceHasReason
      <4> QED
        BY <1>6, <1>7, <3>2, <4>2
    <3> QED
      BY <1>2, <2>1, <3>1, <3>2
  <2>2. ASSUME NEW c \in DOMAIN comments', comments'[c].bounce_id # 0
        PROVE  /\ comments'[c].bounce_id \in Entries'
               /\ approvals'[comments'[c].bounce_id].kind = "bounce"
    <3>1. CASE comments[c].bounce_id = 0
      BY <1>2, <1>6, <1>7, <3>1
    <3>2. CASE comments[c].bounce_id # 0
      <4>1. /\ comments[c].bounce_id \in Entries
            /\ approvals[comments[c].bounce_id].kind = "bounce"
        BY <1>3, <1>7, <3>2 DEF CommentInv, BounceHasReason, IsBounce
      <4> QED
        BY <1>2, <1>6, <1>7, <3>2, <4>1
    <3> QED
      BY <3>1, <3>2
  <2> QED
    BY <2>1, <2>2 DEF BounceHasReason, IsBounce
<1> QED
  BY <1>3, <1>6, <1>7, <1>8 DEF CommentInv

(* An event moves no comment and leaves every bounce where it is.          *)
LEMMA EventKeepsComments ==
  ASSUME CommentInv, ReviewType, UNCHANGED comments,
         NEW from \in VersionState, NEW to \in VersionState \ {"draft"},
         AddsEvent(from, to)
  PROVE  CommentInv'
<1>0. PICK n \in Nat : n = Len(approvals)
  BY DEF ReviewType
<1>1. /\ Entries = 1..n /\ Entries' = 1..(n + 1)
      /\ \A k \in 1..n : approvals'[k] = approvals[k]
      /\ approvals'[n + 1].kind = "event"
  BY <1>0, AddedEvent
<1>2. BounceHasReason'
  <2>1. ASSUME NEW b \in Entries', IsBounce(b)'
        PROVE  \E c \in DOMAIN comments' : comments'[c].bounce_id = b
    <3>1. b \in Entries /\ IsBounce(b)
      BY <1>1, <2>1 DEF IsBounce
    <3> QED
      BY <3>1 DEF CommentInv, BounceHasReason
  <2>2. ASSUME NEW c \in DOMAIN comments', comments'[c].bounce_id # 0
        PROVE  /\ comments'[c].bounce_id \in Entries'
               /\ approvals'[comments'[c].bounce_id].kind = "bounce"
    <3>1. /\ comments[c].bounce_id \in Entries
          /\ approvals[comments[c].bounce_id].kind = "bounce"
      BY <2>2 DEF CommentInv, BounceHasReason, IsBounce
    <3> QED
      BY <1>1, <3>1
  <2> QED
    BY <2>1, <2>2 DEF BounceHasReason, IsBounce
<1> QED
  BY <1>2 DEF CommentInv

LEMMA InitComments == Init => CommentInv
  BY DEF Init, CommentInv, Comments, BounceHasReason, Entries

LEMMA StepComments ==
  ReviewInv /\ CommentInv /\ [Next]_vars =>
    /\ CommentInv'
    /\ \A c \in DOMAIN comments : comments[c].bounce_id # 0 =>
         comments'[c] = comments[c]
<1> SUFFICES ASSUME ReviewInv, CommentInv, [Next]_vars
             PROVE  /\ CommentInv'
                    /\ \A c \in DOMAIN comments : comments[c].bounce_id # 0 =>
                         comments'[c] = comments[c]
  OBVIOUS
<1>1. ReviewType
  BY DEF ReviewInv
<1>2. CASE UNCHANGED <<comments, approvals>>
  BY <1>2 DEF CommentInv, BounceHasReason, Entries, IsBounce
<1>3. CASE /\ UNCHANGED comments
           /\ \E from \in VersionState, to \in VersionState \ {"draft"} :
                AddsEvent(from, to)
  BY <1>1, <1>3, EventKeepsComments
<1>4. CASE \E i \in Items : Comment(i)
  BY <1>1, <1>4, CommentKeeps
<1>5. CASE Bounce
  BY <1>1, <1>5, BounceTakes
<1> QED
  BY <1>1, <1>2, <1>3, <1>4, <1>5, CommentEffects

(* No version is sent back without a comment to say why.                   *)
THEOREM BouncesHaveReasons == Spec => []BounceHasReason
<1>1. CommentInv => BounceHasReason
  BY DEF CommentInv
<1> QED
  BY <1>1, InitReview, StepReview, InitComments, StepComments, PTL DEF Spec

(* The bounce a comment belongs to never changes.                          *)
THEOREM CommentsStay == Spec => CommentTakenOnce
<1>1. ReviewInv /\ CommentInv /\ [Next]_vars =>
        [\A c \in DOMAIN comments : comments[c].bounce_id # 0 =>
           comments'[c] = comments[c]]_vars
  BY StepComments
<1> QED
  BY <1>1, InitReview, StepReview, InitComments, StepComments, PTL
  DEF Spec, CommentTakenOnce

-----------------------------------------------------------------------------
(* The confirmations: they are added and taken back, never removed.        *)

Confirmations == Seq([kind : {"row_match", "coverage"},
                      item : Items \cup {None}, undone : BOOLEAN])
CheckInv == confirmations \in Confirmations /\ CheckWasEarned

(* Every confirmation that was given stays on record.                      *)
ConfirmationsStay ==
  /\ confirmations' \in Confirmations
  /\ DOMAIN confirmations \subseteq DOMAIN confirmations'
  /\ \A k \in DOMAIN confirmations :
       /\ confirmations'[k].kind = confirmations[k].kind
       /\ confirmations'[k].item = confirmations[k].item

LEMMA ConfirmStays ==
  ASSUME confirmations \in Confirmations,
         NEW kind \in {"row_match", "coverage"}, NEW i \in Items \cup {None},
         Confirm(kind, i)
  PROVE  ConfirmationsStay
<1> DEFINE new == [kind |-> kind, item |-> i, undone |-> FALSE]
           T == [kind : {"row_match", "coverage"}, item : Items \cup {None},
                 undone : BOOLEAN]
<1>1. new \in T
  OBVIOUS
<1>2. confirmations \in Seq(T) /\ confirmations' = Append(confirmations, new)
  BY DEF Confirmations, Confirm
<1> HIDE DEF new, T
<1>3. /\ confirmations' \in Seq(T)
      /\ DOMAIN confirmations \subseteq DOMAIN confirmations'
      /\ \A k \in DOMAIN confirmations : confirmations'[k] = confirmations[k]
  BY <1>1, <1>2
<1> QED
  BY <1>3 DEF T, ConfirmationsStay, Confirmations

LEMMA UndoStays ==
  ASSUME confirmations \in Confirmations,
         NEW k \in DOMAIN confirmations, UndoConfirmation(k)
  PROVE  ConfirmationsStay
<1> DEFINE T == [kind : {"row_match", "coverage"}, item : Items \cup {None},
                 undone : BOOLEAN]
           new == [confirmations[k] EXCEPT !.undone = TRUE]
<1>1. confirmations \in Seq(T) /\ k \in 1..Len(confirmations)
  BY DEF Confirmations
<1>2. confirmations[k] \in T
  <2> HIDE DEF T
  <2> QED
    BY <1>1, ElementOfSeq
<1>3. /\ new \in T /\ new.kind = confirmations[k].kind
      /\ new.item = confirmations[k].item
  BY <1>2
<1>4. confirmations' = [confirmations EXCEPT ![k] = new]
  BY DEF UndoConfirmation
<1> HIDE DEF new, T
<1>5. /\ confirmations' \in Seq(T)
      /\ DOMAIN confirmations' = DOMAIN confirmations
      /\ confirmations'[k] = new
      /\ \A l \in DOMAIN confirmations \ {k} :
           confirmations'[l] = confirmations[l]
  BY <1>1, <1>3, <1>4
<1> QED
  BY <1>3, <1>5 DEF T, ConfirmationsStay, Confirmations

(* Who leaves draft has matched every row and the coverage.                *)
LEMMA TransitionEarns ==
  ASSUME CheckInv, NEW to \in VersionState \ {"draft"}, Transition(to)
  PROVE  CheckInv'
<1>1. UNCHANGED confirmations
  BY DEF Transition, records
<1>2. CASE current_state = "draft"
  <2>1. Items \subseteq matched_item_ids /\ coverage_confirmed
    BY <1>2 DEF Transition, decide_transition
  <2>2. \A i \in Items : \E k \in DOMAIN confirmations :
          confirmations[k].kind = "row_match" /\ confirmations[k].item = i
    BY <2>1 DEF matched_item_ids, Active
  <2>3. \E k \in DOMAIN confirmations : confirmations[k].kind = "coverage"
    BY <2>1 DEF coverage_confirmed, Active
  <2> QED
    BY <1>1, <2>2, <2>3 DEF CheckInv, CheckWasEarned
<1>3. CASE current_state # "draft"
  BY <1>1, <1>3 DEF CheckInv, CheckWasEarned
<1> QED
  BY <1>2, <1>3

LEMMA InitCheck == Init => CheckInv
  BY DEF Init, CheckInv, Confirmations, CheckWasEarned

LEMMA StepCheck == CheckInv /\ [Next]_vars => CheckInv'
<1> SUFFICES ASSUME CheckInv, [Next]_vars PROVE CheckInv'
  OBVIOUS
<1>0. confirmations \in Confirmations
  BY DEF CheckInv
<1>1. CASE ConfirmationsStay /\ UNCHANGED current_state
  <2>1. CASE current_state = "draft"
    BY <1>1, <2>1 DEF CheckInv, CheckWasEarned, ConfirmationsStay
  <2>2. CASE current_state # "draft"
    <3>1. ASSUME NEW i \in Items
          PROVE  \E k \in DOMAIN confirmations' :
                   /\ confirmations'[k].kind = "row_match"
                   /\ confirmations'[k].item = i
      BY <1>1, <2>2 DEF CheckInv, CheckWasEarned, ConfirmationsStay
    <3>2. \E k \in DOMAIN confirmations' : confirmations'[k].kind = "coverage"
      BY <1>1, <2>2 DEF CheckInv, CheckWasEarned, ConfirmationsStay
    <3> QED
      BY <1>1, <3>1, <3>2 DEF CheckInv, CheckWasEarned, ConfirmationsStay
  <2> QED
    BY <2>1, <2>2
<1>2. CASE UNCHANGED confirmations /\ UNCHANGED current_state
  BY <1>2 DEF CheckInv, CheckWasEarned
<1>3. ASSUME NEW i \in Items, Confirm("row_match", i)
      PROVE  CheckInv'
  BY <1>0, <1>1, <1>3, ConfirmStays DEF Confirm
<1>4. CASE Confirm("coverage", None)
  BY <1>0, <1>1, <1>4, ConfirmStays DEF Confirm
<1>5. ASSUME NEW k \in DOMAIN confirmations, UndoConfirmation(k)
      PROVE  CheckInv'
  BY <1>0, <1>1, <1>5, UndoStays DEF UndoConfirmation
<1>6. ASSUME NEW to \in VersionState \ {"draft"}, Transition(to)
      PROVE  CheckInv'
  BY <1>6, TransitionEarns
<1>7. ASSUME NEW i \in Items, NEW in \in Inputs, Edit(i, in)
      PROVE  CheckInv'
  <2>1. Reopen /\ UNCHANGED confirmations
    BY <1>7 DEF Edit
  <2>2. current_state' # "draft" => current_state # "draft"
    BY <2>1 DEF Reopen, save_state_event
  <2> QED
    BY <2>1, <2>2 DEF CheckInv, CheckWasEarned
<1> QED
  BY <1>2, <1>3, <1>4, <1>5, <1>6, <1>7
  DEF Next, vars, UndoEdit, Judge, Comment, Bounce, DecideSendoff,
      ListVersions, ListEvents, ListBounces, records

(* No version leaves draft unless each row and the coverage was confirmed. *)
THEOREM ChecksAreEarned == Spec => []CheckWasEarned
<1>1. CheckInv => CheckWasEarned
  BY DEF CheckInv
<1> QED
  BY <1>1, InitCheck, StepCheck, PTL DEF Spec

-----------------------------------------------------------------------------
(* The list of versions, read in three statements.                         *)

(* A reader has seen ever more of the history.                             *)
ReadInOrder(reader, n) ==
  LET read == view[reader]
  IN /\ read.started \in Nat /\ read.events \in Nat /\ read.bounces \in Nat
     /\ read.started <= n
     /\ read.pc \in {"bounces", "done"} =>
          read.started <= read.events /\ read.events <= n
     /\ read.pc = "done" => read.events <= read.bounces /\ read.bounces <= n

ListInv ==
  /\ Len(approvals) \in Nat
  /\ DOMAIN view = Lists
  /\ \A reader \in Lists : ReadInOrder(reader, Len(approvals))

LEMMA InitList == Init => ListInv
  BY DEF Init, ListInv, ReadInOrder

(* One statement of a reader; the others have what they have.              *)
LEMMA StatementRead ==
  ASSUME ListInv, NEW reader \in Lists, UNCHANGED approvals,
         ListVersions(reader) \/ ListEvents(reader) \/ ListBounces(reader)
  PROVE  ListInv'
<1>1. DOMAIN view' = Lists
  BY DEF ListInv, ListVersions, ListEvents, ListBounces
<1>2. ASSUME NEW other \in Lists
      PROVE  ReadInOrder(other, Len(approvals))'
  <2>1. CASE other # reader
    <3>1. view'[other] = view[other]
      BY <2>1 DEF ListInv, ListVersions, ListEvents, ListBounces
    <3> QED
      BY <3>1 DEF ListInv, ReadInOrder
  <2>2. CASE other = reader /\ ListVersions(reader)
    <3>1. view'[reader] = [pc |-> "events", state |-> current_state,
                           started |-> Len(approvals), events |-> 0, bounces |-> 0]
      BY <2>2 DEF ListInv, ListVersions
    <3> QED
      BY <2>2, <3>1 DEF ListInv, ReadInOrder
  <2>3. CASE other = reader /\ ListEvents(reader)
    <3>1. view'[reader] = [pc |-> "bounces", state |-> view[reader].state,
                           started |-> view[reader].started,
                           events |-> Len(approvals), bounces |-> 0]
      BY <2>3 DEF ListInv, ListEvents
    <3> QED
      BY <2>3, <3>1 DEF ListInv, ReadInOrder
  <2>4. CASE other = reader /\ ListBounces(reader)
    <3>1. /\ view'[reader] = [pc |-> "done", state |-> view[reader].state,
                              started |-> view[reader].started,
                              events |-> view[reader].events,
                              bounces |-> Len(approvals)]
          /\ view[reader].pc = "bounces"
      BY <2>4 DEF ListInv, ListBounces
    <3> QED
      BY <2>4, <3>1 DEF ListInv, ReadInOrder
  <2> QED
    BY <2>1, <2>2, <2>3, <2>4
<1> QED
  BY <1>1, <1>2 DEF ListInv

(* The history only grows. *)
LEMMA HistoryGrows ==
  ASSUME ReviewType, ReviewInv, [Next]_vars
  PROVE  Len(approvals') \in Nat /\ Len(approvals) <= Len(approvals')
<1>1. CASE UNCHANGED approvals
  BY <1>1 DEF ReviewType
<1>2. ASSUME NEW from \in VersionState, NEW to \in VersionState \ {"draft"},
             AddsEvent(from, to)
      PROVE  Len(approvals') \in Nat /\ Len(approvals) <= Len(approvals')
  BY <1>2, AddedEvent
<1>3. CASE AddsBounce
  BY <1>3, AddedBounce
<1> QED
  BY <1>1, <1>2, <1>3, Effects DEF VersionState

LEMMA StepList == ReviewInv /\ ListInv /\ [Next]_vars => ListInv'
<1> SUFFICES ASSUME ReviewInv, ListInv, [Next]_vars PROVE ListInv'
  OBVIOUS
<1>1. CASE UNCHANGED view
  <2>1. Len(approvals') \in Nat /\ Len(approvals) <= Len(approvals')
    BY HistoryGrows DEF ReviewInv
  <2>2. ASSUME NEW reader \in Lists
        PROVE  ReadInOrder(reader, Len(approvals))'
    BY <1>1, <2>1, <2>2 DEF ListInv, ReadInOrder
  <2> QED
    BY <1>1, <2>1, <2>2 DEF ListInv
<1>2. ASSUME NEW reader \in Lists,
             ListVersions(reader) \/ ListEvents(reader) \/ ListBounces(reader)
      PROVE  ListInv'
  BY <1>2, StatementRead DEF ListVersions, ListEvents, ListBounces
<1> QED
  BY <1>1, <1>2
  DEF Next, Edit, UndoEdit, Confirm, UndoConfirmation, Judge, Transition,
      Comment, Bounce, DecideSendoff, vars

(* Events read before bounces: the flag is that of the moment its bounce   *)
(* was recorded, or of the moment the events were read.                    *)
LEMMA FlagOfAMoment ==
  ASSUME NEW s \in Nat, NEW e \in Nat, NEW b \in Nat, s <= e, e <= b
  PROVE  \E n \in s..b : SentBack(n) = bounced(e, b)
<1>1. CASE bounced(e, b)
  <2>1. PICK k \in 1..b : IsBounce(k) /\ \A r \in 1..e : IsReview(r) => r < k
    BY <1>1 DEF bounced
  <2>2. CASE k <= e
    <3>1. SentBack(e)
      BY <2>1, <2>2 DEF SentBack
    <3> QED
      BY <1>1, <3>1 DEF SentBack, bounced
  <2>3. CASE k > e
    <3>1. SentBack(k)
      BY <2>1 DEF SentBack
    <3>2. k \in s..b
      BY <2>3
    <3> QED
      BY <1>1, <3>1, <3>2 DEF SentBack, bounced
  <2> QED
    BY <2>2, <2>3
<1>2. CASE ~bounced(e, b)
  <2>1. ~SentBack(e)
    <3> SUFFICES ASSUME NEW k \in 1..e, IsBounce(k),
                        \A l \in (k + 1)..e : ~IsReview(l)
                 PROVE  FALSE
      BY DEF SentBack
    <3>1. k \in 1..b /\ ~IsReview(k)
      BY DEF IsBounce, IsReview, IsEvent
    <3>2. \A r \in 1..e : IsReview(r) => r < k
      BY <3>1
    <3> QED
      BY <1>2, <3>1, <3>2 DEF bounced
  <2> QED
    BY <1>2, <2>1 DEF SentBack, bounced
<1> QED
  BY <1>1, <1>2

(* The flag the list of versions shows was right at some moment of the     *)
(* reading, whatever is recorded between its statements.                   *)
THEOREM ListedFlagsWereTrue == Spec => []ListedFlagWasTrue
<1>1. ListInv => ListedFlagWasTrue
  <2> SUFFICES ASSUME ListInv, NEW reader \in Lists, view[reader].pc = "done"
               PROVE  \E n \in view[reader].started..view[reader].bounces :
                        SentBack(n) = bounced(view[reader].events,
                                              view[reader].bounces)
    BY DEF ListedFlagWasTrue
  <2>1. /\ view[reader].started \in Nat /\ view[reader].events \in Nat
        /\ view[reader].bounces \in Nat
        /\ view[reader].started <= view[reader].events
        /\ view[reader].events <= view[reader].bounces
    BY DEF ListInv, ReadInOrder
  <2> QED
    BY <2>1, FlagOfAMoment
<1>2. Spec => [](ReviewInv /\ ListInv)
  BY InitReview, StepReview, InitList, StepList, PTL DEF Spec
<1> QED
  BY <1>1, <1>2, PTL

-----------------------------------------------------------------------------
(* The values of an item, as the rows of its edits make them.              *)

(* A set of places, if there is any in it, has a latest.                   *)
LEMMA LatestIs ==
  ASSUME NEW n \in Nat, NEW places \in SUBSET (1..n), places # {}
  PROVE  Latest(places) \in places /\ \A l \in places : l <= Latest(places)
<1> DEFINE distances == {n - k : k \in places}
<1>1. distances \subseteq Nat
  <2>1. \A k \in 1..n : n - k \in Nat
    OBVIOUS
  <2>2. \A k \in places : n - k \in Nat
    BY <2>1
  <2> QED
    BY <2>2
<1>2. distances # {}
  BY DEF distances
<1>3. PICK d \in distances :
        \A e \in distances : ~(<<e, d>> \in OpToRel(<, Nat))
  <2> HIDE DEF distances
  <2> QED
    BY <1>1, <1>2, NatLessThanWellFounded, WFMin
<1>4. \A e \in distances : ~(e < d)
  BY <1>1, <1>3 DEF OpToRel
<1>5. PICK k \in places : d = n - k
  OBVIOUS
<1>6. ASSUME NEW l \in places
      PROVE  l <= k
  <2>1. ~(n - l < n - k)
    BY <1>4, <1>5
  <2>2. l \in Nat /\ k \in Nat
    OBVIOUS
  <2> HIDE DEF distances
  <2> QED
    BY <2>1, <2>2
<1> QED
  BY <1>5, <1>6 DEF Latest

(* Two rows that differ in nothing but their item.                         *)
Alike(row, other) ==
  /\ row.field = other.field /\ row.undone = other.undone
  /\ row.new_value = other.new_value /\ row.new_state = other.new_state

LEMMA AlikeSetAlike ==
  ASSUME NEW row, NEW other, NEW c, Alike(row, other)
  PROVE  /\ Sets(row, c) <=> Sets(other, c)
         /\ SetTo(row, c) = SetTo(other, c)
<1>1. Excludes(row) <=> Excludes(other)
  BY DEF Alike, Excludes
<1>2. StateSet(row) = StateSet(other)
  BY DEF Alike, StateSet
<1> QED
  BY <1>1, <1>2 DEF Alike, Sets, SetTo

(* m rows join a table of n, some of which are looked at.                  *)
RowsJoin(before, n, added, m, after) ==
  /\ DOMAIN before \in SUBSET (1..n) /\ DOMAIN added = 1..m
  /\ \A k : k \in DOMAIN after <=>
       k \in DOMAIN before \/ \E l \in 1..m : k = n + l
  /\ \A k \in DOMAIN before : after[k] = before[k]
  /\ \A k \in 1..m : Alike(after[n + k], added[k])

(* The rows added to a table take effect after those it has: what they     *)
(* make of an item is what they make of its values before.                 *)
LEMMA LaterRowsApplyLast ==
  ASSUME NEW item, NEW n \in Nat, NEW m \in Nat,
         NEW before, NEW added, NEW after, RowsJoin(before, n, added, m, after)
  PROVE  apply_edits(item, after) = apply_edits(apply_edits(item, before), added)
<1> USE DEF RowsJoin
<1> SUFFICES ASSUME NEW c \in Columns
             PROVE  apply_edits(item, after)[c]
                      = apply_edits(apply_edits(item, before), added)[c]
  BY DEF apply_edits
<1>0. PICK places \in SUBSET (1..n) : places = DOMAIN before
  OBVIOUS
<1> DEFINE old == Setting(before, c)
           new == Setting(added, c)
           all == Setting(after, c)
<1>1. old \in SUBSET (1..n) /\ new \in SUBSET (1..m) /\ all \in SUBSET (1..(n + m))
  <2>1. all \subseteq places \cup {n + k : k \in 1..m}
    BY <1>0 DEF Setting
  <2>2. \A k \in 1..n : k \in 1..(n + m)
    OBVIOUS
  <2>3. \A k \in 1..m : n + k \in 1..(n + m)
    OBVIOUS
  <2>4. \A k \in places : k \in 1..(n + m)
    BY <2>2
  <2>5. all \subseteq 1..(n + m)
    <3> HIDE DEF all
    <3> QED
      BY <2>1, <2>3, <2>4
  <2> QED
    BY <1>0, <2>5 DEF Setting
<1>2. \A k \in 1..m : n + k \in all <=> k \in new
  BY <1>0, AlikeSetAlike DEF Setting, Alike
<1>3. \A k \in places : k \in all <=> k \in old
  BY <1>0 DEF Setting
<1>4. all \subseteq places \cup {n + k : k \in 1..m} /\ old \subseteq places
  BY <1>0 DEF Setting
<1>5. /\ apply_edits(item, before)[c] =
           IF old = {} THEN item[c] ELSE SetTo(before[Latest(old)], c)
      /\ apply_edits(item, after)[c] =
           IF all = {} THEN item[c] ELSE SetTo(after[Latest(all)], c)
      /\ apply_edits(apply_edits(item, before), added)[c] =
           IF new = {} THEN apply_edits(item, before)[c]
           ELSE SetTo(added[Latest(new)], c)
  BY DEF apply_edits
<1> HIDE DEF old, new, all
<1>6. CASE new = {}
  <2>1. all = old
    BY <1>1, <1>2, <1>3, <1>4, <1>6
  <2>2. old # {} => Latest(old) \in places
    BY <1>1, <1>4, LatestIs
  <2> QED
    BY <1>0, <1>5, <1>6, <2>1, <2>2
<1>7. CASE new # {}
  <2>1. PICK k \in 1..m : k = Latest(new)
    BY <1>1, <1>7, LatestIs
  <2>2. k \in new /\ \A l \in new : l <= k
    BY <1>1, <1>7, <2>1, LatestIs
  <2>3. n + k \in all
    BY <1>2, <2>2
  <2>4. ASSUME NEW l \in all
        PROVE  l <= n + k
    <3>1. CASE l \in places
      BY <3>1
    <3>2. ASSUME NEW j \in 1..m, l = n + j
          PROVE  l <= n + k
      <4>1. j \in new
        BY <1>2, <3>2
      <4> QED
        BY <1>1, <2>2, <3>2, <4>1
    <3> QED
      BY <1>4, <3>1, <3>2
  <2>5. PICK last : last = Latest(all)
    OBVIOUS
  <2>6. last \in all /\ n + k <= last
    <3>1. n + m \in Nat /\ all \in SUBSET (1..(n + m)) /\ all # {}
      BY <1>1, <2>3
    <3> QED
      BY <2>3, <2>5, <3>1, LatestIs
  <2>7. last = n + k
    BY <1>1, <2>4, <2>6
  <2>8. SetTo(after[n + k], c) = SetTo(added[k], c)
    <3>1. Alike(after[n + k], added[k])
      OBVIOUS
    <3> QED
      BY <3>1, AlikeSetAlike
  <2> QED
    BY <1>5, <1>7, <2>1, <2>3, <2>5, <2>7, <2>8
<1> QED
  BY <1>6, <1>7

-----------------------------------------------------------------------------
(* The types of edits and values.  Every row of a field with a state names *)
(* a state, so no state column is ever empty, and a row takes the other    *)
(* half of a quantity from values that are an item.                        *)

ItemEdit == [item : Items, field : EDITABLE_FIELDS,
             new_value : Values \cup {None},
             new_state : EditState \cup {None}, undone : BOOLEAN]
NamesState(row) == STATE_FIELDS[row.field] # None => row.new_state # None
EditTypes ==
  edits \in Seq(ItemEdit) /\ \A k \in DOMAIN edits : NamesState(edits[k])

LEMMA Groups ==
  /\ \A f \in EDITABLE_FIELDS : STATE_FIELDS[f] \in StateColumns \cup {None}
  /\ \A c \in EDITABLE_FIELDS : c \notin StateColumns /\ c # None
  /\ None \notin StateColumns /\ Columns = EDITABLE_FIELDS \cup StateColumns
  /\ "qty_value" \in EDITABLE_FIELDS /\ "qty_unit" \in EDITABLE_FIELDS
  /\ STATE_FIELDS["qty_value"] = "qty_state"
  /\ STATE_FIELDS["qty_unit"] = "qty_state"
  BY DEF EDITABLE_FIELDS, STATE_FIELDS, StateColumns, Columns, None

LEMMA RowSetsTyped ==
  ASSUME NEW row \in ItemEdit, NamesState(row),
         NEW c \in Columns, Sets(row, c)
  PROVE  /\ c \in EDITABLE_FIELDS => SetTo(row, c) \in Values \cup {None}
         /\ c \in StateColumns => SetTo(row, c) \in EditState
<1>1. CASE c \in EDITABLE_FIELDS
  <2>1. c # STATE_FIELDS[row.field] /\ c \notin StateColumns
    BY <1>1, Groups DEF ItemEdit
  <2> QED
    BY <2>1 DEF SetTo, ItemEdit
<1>2. CASE c \in StateColumns
  <2>1. c = STATE_FIELDS[row.field] /\ c \notin EDITABLE_FIELDS /\ c # None
    BY <1>2, Groups DEF Sets, ItemEdit
  <2>2. row.new_state # None /\ row.new_state \in EditState
    BY <2>1 DEF NamesState, ItemEdit
  <2> QED
    BY <2>1, <2>2 DEF SetTo, StateSet
<1> QED
  BY <1>1, <1>2, Groups

LEMMA CurrentIsItem ==
  ASSUME EditTypes, NEW i \in Items
  PROVE  IsItem(Current(i))
<1>1. DOMAIN Current(i) = Columns
  BY DEF Current, apply_edits
<1>2. PICK n \in Nat : n = Len(edits) /\ DOMAIN edits = 1..n
  BY DEF EditTypes
<1>3. \A k \in 1..n : edits[k] \in ItemEdit /\ NamesState(edits[k])
  <2>1. \A k \in 1..n : edits[k] \in ItemEdit
    <3> HIDE DEF ItemEdit
    <3> QED
      BY <1>2, ElementOfSeq DEF EditTypes
  <2> QED
    BY <1>2, <2>1 DEF EditTypes
<1>4. ASSUME NEW c \in Columns
      PROVE  /\ c \in EDITABLE_FIELDS => Current(i)[c] \in Values \cup {None}
             /\ c \in StateColumns => Current(i)[c] \in EditState
  <2> DEFINE places == Setting(EditsOf(i), c)
  <2>1. Current(i)[c] = IF places = {} THEN Drafted[i][c]
                        ELSE SetTo(EditsOf(i)[Latest(places)], c)
    BY DEF Current, apply_edits
  <2>2. places \in SUBSET (1..n)
    BY <1>2 DEF Setting, EditsOf
  <2>3. \A k \in places : EditsOf(i)[k] = edits[k] /\ Sets(edits[k], c)
    BY DEF Setting, EditsOf
  <2> HIDE DEF places
  <2>4. CASE places = {}
    BY <2>1, <2>4, DraftedAssumption, Groups DEF IsItem
  <2>5. CASE places # {}
    <3>1. PICK k \in places : k = Latest(places)
      BY <2>2, <2>5, LatestIs
    <3>2. Current(i)[c] = SetTo(edits[k], c) /\ Sets(edits[k], c)
      BY <2>1, <2>3, <2>5, <3>1
    <3>3. edits[k] \in ItemEdit /\ NamesState(edits[k])
      BY <1>3, <2>2
    <3> QED
      BY <3>2, <3>3, RowSetsTyped
  <2> QED
    BY <2>4, <2>5
<1> QED
  BY <1>1, <1>4, Groups DEF IsItem

(* The rows of a well-formed request.                                      *)
LEMMA RequestRows ==
  ASSUME NEW current, IsItem(current), NEW in \in EditInputs, consistent(in),
         NEW rows, rows = EditRows(current, in)
  PROVE  \E m \in Nat \ {0} : DOMAIN rows = 1..m /\ \A k \in 1..m :
           /\ rows[k].field \in EDITABLE_FIELDS
           /\ rows[k].new_value \in Values \cup {None}
           /\ rows[k].new_state \in EditState \cup {None}
           /\ rows[k].undone = FALSE
           /\ NamesState(rows[k])
<1> DEFINE group == STATE_FIELDS[in.field]
           state == IF group # None /\ in.new_state = None
                    THEN ValueState(in.field) ELSE in.new_state
<1>1. /\ state \in EditState \cup {None}
      /\ group # None => state # None
  BY DEF EditInputs, ValueState, EditState, None
<1>2. /\ in.field \in EDITABLE_FIELDS /\ in.new_value \in Values \cup {None}
      /\ in.qty_unit \in Values \cup {None}
      /\ current["qty_value"] \in Values \cup {None}
  BY Groups DEF EditInputs, IsItem
<1> DEFINE Typed(row) ==
             /\ row.field \in EDITABLE_FIELDS
             /\ row.new_value \in Values \cup {None}
             /\ row.new_state \in EditState \cup {None}
             /\ row.undone = FALSE
             /\ NamesState(row)
<1>3. ASSUME NEW f \in EDITABLE_FIELDS, NEW value \in Values \cup {None},
             STATE_FIELDS[f] = group
      PROVE  Typed(Row(f, value, state))
  <2> HIDE DEF group, state
  <2> QED
    BY <1>1, <1>3 DEF Row, NamesState
<1>4. CASE group # "qty_state"
  <2>1. rows = <<Row(in.field, in.new_value, state)>>
    BY <1>4 DEF EditRows
  <2>2. Typed(Row(in.field, in.new_value, state))
    BY <1>2, <1>3
  <2> HIDE DEF group, state, Typed
  <2>3. DOMAIN rows = 1..1 /\ \A k \in 1..1 : Typed(rows[k])
    BY <2>1, <2>2
  <2> QED
    BY <2>3 DEF Typed
<1>5. CASE group = "qty_state"
  <2>1. \E number \in Values \cup {None}, unit \in Values \cup {None} :
          rows = <<Row("qty_value", number, state), Row("qty_unit", unit, state)>>
    BY <1>2, <1>5 DEF EditRows
  <2>2. PICK number \in Values \cup {None}, unit \in Values \cup {None} :
          rows = <<Row("qty_value", number, state), Row("qty_unit", unit, state)>>
    BY <2>1
  <2>3. /\ Typed(Row("qty_value", number, state))
        /\ Typed(Row("qty_unit", unit, state))
    BY <1>3, <1>5, Groups
  <2> HIDE DEF group, state, Typed
  <2>4. DOMAIN rows = 1..2 /\ \A k \in 1..2 : Typed(rows[k])
    BY <2>2, <2>3
  <2> QED
    BY <2>4 DEF Typed
<1> QED
  BY <1>4, <1>5

(* The rows of a request join the table under their item.                  *)
LEMMA EditJoins ==
  ASSUME EditTypes, NEW i \in Items, NEW in \in Inputs, Edit(i, in)
  PROVE  /\ EditTypes'
         /\ DOMAIN edits \subseteq DOMAIN edits'
         /\ \A k \in DOMAIN edits : edits'[k] = edits[k]
         /\ edits'[Len(edits')].item = i
         /\ Consistent(Current(i)')
         /\ current_state' # "review_checked"
<1> DEFINE rows == EditRows(Current(i), in)
           joined == [k \in DOMAIN rows |->
             [item |-> i, field |-> rows[k].field, undone |-> FALSE,
              new_value |-> rows[k].new_value,
              new_state |-> rows[k].new_state]]
<1>1. /\ edits' = edits \o joined /\ Reopen
      /\ consistent(in) /\ Consistent(apply_edits(Current(i), rows))
  BY DEF Edit, Acceptable
<1>2. PICK m \in Nat \ {0} : DOMAIN rows = 1..m /\ \A k \in 1..m :
        /\ rows[k].field \in EDITABLE_FIELDS
        /\ rows[k].new_value \in Values \cup {None}
        /\ rows[k].new_state \in EditState \cup {None}
        /\ rows[k].undone = FALSE
        /\ NamesState(rows[k])
  <2>1. in \in EditInputs
    BY InputsAssumption
  <2>2. IsItem(Current(i))
    BY CurrentIsItem
  <2> HIDE DEF rows
  <2> QED
    BY <1>1, <2>1, <2>2, RequestRows DEF rows
<1> HIDE DEF rows
<1>3. /\ joined \in [1..m -> ItemEdit]
      /\ \A k \in 1..m :
           joined[k].item = i /\ Alike(joined[k], rows[k]) /\ NamesState(joined[k])
  BY <1>2 DEF ItemEdit, Alike, NamesState
<1> HIDE DEF joined
<1>4. joined \in Seq(ItemEdit) /\ Len(joined) = m
  <2>1. joined \in Seq(ItemEdit)
    BY <1>3, SeqDef
  <2>2. DOMAIN joined = 1..m
    BY <1>3
  <2> HIDE DEF ItemEdit
  <2> QED
    BY <2>1, <2>2
<1>5. PICK n \in Nat : n = Len(edits) /\ DOMAIN edits = 1..n
  BY DEF EditTypes
<1>6. /\ edits' \in Seq(ItemEdit)
      /\ Len(edits') = n + m /\ DOMAIN edits' = 1..(n + m)
      /\ \A k \in 1..n : edits'[k] = edits[k]
      /\ \A k \in 1..m : edits'[n + k] = joined[k]
  <2>1. edits \in Seq(ItemEdit)
    BY DEF EditTypes
  <2> HIDE DEF ItemEdit
  <2>2. /\ edits' \in Seq(ItemEdit) /\ Len(edits') = n + m
        /\ \A k \in 1..n : edits'[k] = edits[k]
        /\ \A k \in 1..m : edits'[n + k] = joined[k]
    <3>1. /\ edits \o joined \in Seq(ItemEdit)
          /\ Len(edits \o joined) = Len(edits) + Len(joined)
          /\ \A k \in 1..Len(edits) : (edits \o joined)[k] = edits[k]
          /\ \A k \in 1..Len(joined) :
               (edits \o joined)[Len(edits) + k] = joined[k]
      <4>1. /\ edits \o joined \in Seq(ItemEdit)
            /\ Len(edits \o joined) = Len(edits) + Len(joined)
        BY <1>4, <2>1
      <4>2. \A k \in 1..Len(edits) : (edits \o joined)[k] = edits[k]
        BY <1>4, <2>1
      <4>3. \A k \in 1..Len(joined) :
              (edits \o joined)[Len(edits) + k] = joined[k]
        BY <1>4, <2>1
      <4> QED
        BY <4>1, <4>2, <4>3
    <3> QED
      BY <1>1, <1>4, <1>5, <3>1
  <2>3. DOMAIN edits' = 1..(n + m)
    BY <2>2
  <2> QED
    BY <2>2, <2>3
<1>7. \A k \in 1..(n + m) : k \in 1..n \/ \E l \in 1..m : k = n + l
  <2> SUFFICES ASSUME NEW k \in 1..(n + m), k \notin 1..n
               PROVE  k - n \in 1..m /\ k = n + (k - n)
    OBVIOUS
  <2> QED
    OBVIOUS
<1>8. EditTypes'
  <2>1. \A k \in 1..(n + m) : NamesState(edits'[k])
    BY <1>3, <1>5, <1>6, <1>7 DEF EditTypes
  <2> QED
    BY <1>6, <2>1 DEF EditTypes
<1>9. edits'[Len(edits')].item = i
  <2>1. m \in 1..m
    OBVIOUS
  <2> QED
    BY <1>3, <1>6, <2>1
<1>10. Current(i)' = apply_edits(Current(i), rows)
  <2> DEFINE places == {l \in 1..n : edits[l].item = i}
             before == [k \in places |-> edits[k]]
             after == [k \in places \cup {n + k : k \in 1..m} |-> edits'[k]]
  <2>1. EditsOf(i) = before
    BY <1>5 DEF EditsOf
  <2>2. {l \in DOMAIN edits' : edits'[l].item = i}
          = places \cup {n + k : k \in 1..m}
    <3>1. \A k \in 1..n : k \in 1..(n + m)
      OBVIOUS
    <3>2. \A k \in 1..m : n + k \in 1..(n + m)
      OBVIOUS
    <3>3. \A k \in 1..m : edits'[n + k].item = i
      BY <1>3, <1>6
    <3>4. \A k \in 1..n : edits'[k].item = edits[k].item
      BY <1>6
    <3>5. \A k \in 1..m : n + k \notin 1..n
      OBVIOUS
    <3>6. ASSUME NEW l \in 1..(n + m)
          PROVE  edits'[l].item = i <=> l \in places \cup {n + k : k \in 1..m}
      BY <1>7, <3>3, <3>4, <3>5
    <3> HIDE DEF places
    <3>7. places \cup {n + k : k \in 1..m} \subseteq 1..(n + m)
      BY <3>1, <3>2 DEF places
    <3> QED
      BY <1>6, <3>6, <3>7
  <2>3. EditsOf(i)' = after
    BY <2>2 DEF EditsOf
  <2>4. \A k \in DOMAIN before : after[k] = before[k]
    BY <1>6
  <2>5. \A k \in 1..m : Alike(after[n + k], rows[k])
    <3>1. \A k \in 1..m : after[n + k] = joined[k]
      BY <1>6
    <3> QED
      BY <1>3, <3>1
  <2>6. /\ DOMAIN before \in SUBSET (1..n)
        /\ \A k : k \in DOMAIN after <=>
             k \in DOMAIN before \/ \E l \in 1..m : k = n + l
    OBVIOUS
  <2> HIDE DEF places, before, after
  <2>7. m \in Nat /\ DOMAIN rows = 1..m
    BY <1>2
  <2>8. RowsJoin(before, n, rows, m, after)
    BY <2>4, <2>5, <2>6, <2>7 DEF RowsJoin
  <2>9. apply_edits(Drafted[i], after)
          = apply_edits(apply_edits(Drafted[i], before), rows)
    BY <2>7, <2>8, LaterRowsApplyLast
  <2> QED
    BY <2>1, <2>3, <2>9 DEF Current
<1>11. DOMAIN edits \subseteq DOMAIN edits'
  <2>1. \A k \in 1..n : k \in 1..(n + m)
    OBVIOUS
  <2> QED
    BY <1>5, <1>6, <2>1
<1>12. current_state' # "review_checked"
  BY <1>1 DEF Reopen, save_state_event
<1> QED
  BY <1>1, <1>5, <1>6, <1>8, <1>9, <1>10, <1>11, <1>12

LEMMA UndoKeepsTypes ==
  ASSUME EditTypes, NEW k \in DOMAIN edits, UndoEdit(k)
  PROVE  EditTypes' /\ Len(edits') = Len(edits)
<1>1. PICK n \in Nat : n = Len(edits) /\ DOMAIN edits = 1..n
  BY DEF EditTypes
<1>2. \A l \in 1..n : edits[l] \in ItemEdit /\ NamesState(edits[l])
  <2>1. \A l \in 1..n : edits[l] \in ItemEdit
    <3> HIDE DEF ItemEdit
    <3> QED
      BY <1>1, ElementOfSeq DEF EditTypes
  <2> QED
    BY <1>1, <2>1 DEF EditTypes
<1> DEFINE new == [edits[k] EXCEPT !.undone = TRUE]
<1>3. new \in ItemEdit /\ NamesState(new)
  BY <1>1, <1>2 DEF ItemEdit, NamesState
<1>4. edits' = [edits EXCEPT ![k] = new]
  BY DEF UndoEdit
<1> HIDE DEF new
<1>5. DOMAIN edits' = 1..n /\ \A l \in 1..n : edits'[l] \in {edits[l], new}
  BY <1>1, <1>4
<1>6. edits' \in [1..n -> ItemEdit]
  <2> HIDE DEF ItemEdit
  <2>1. edits' = [l \in 1..n |-> edits'[l]]
    BY <1>1, <1>4
  <2> QED
    BY <1>2, <1>3, <1>5, <2>1
<1>7. edits' \in Seq(ItemEdit)
  BY <1>6, SeqDef
<1>8. Len(edits') = n
  BY <1>5, <1>7
<1>9. \A l \in DOMAIN edits' : NamesState(edits'[l])
  BY <1>2, <1>3, <1>5
<1> QED
  BY <1>1, <1>7, <1>8, <1>9 DEF EditTypes

LEMMA InitTypes == Init => EditTypes
  BY DEF Init, EditTypes

LEMMA StepTypes ==
  EditTypes /\ [Next]_vars =>
    /\ EditTypes'
    /\ Len(edits') > Len(edits) =>
         /\ current_state' # "review_checked"
         /\ \E i \in Items :
              i = edits'[Len(edits')].item /\ Consistent(Current(i)')
<1> SUFFICES ASSUME EditTypes, [Next]_vars
             PROVE  /\ EditTypes'
                    /\ Len(edits') > Len(edits) =>
                         /\ current_state' # "review_checked"
                         /\ \E i \in Items : /\ i = edits'[Len(edits')].item
                                             /\ Consistent(Current(i)')
  OBVIOUS
<1>1. Len(edits) \in Nat
  <2> HIDE DEF ItemEdit
  <2> QED
    BY DEF EditTypes
<1>2. CASE UNCHANGED edits
  BY <1>1, <1>2 DEF EditTypes
<1>3. CASE \E i \in Items, in \in Inputs : Edit(i, in)
  BY <1>3, EditJoins
<1>4. CASE \E k \in DOMAIN edits : UndoEdit(k)
  BY <1>1, <1>4, UndoKeepsTypes
<1> QED
  BY <1>2, <1>3, <1>4
  DEF Next, vars, Confirm, UndoConfirmation, Judge, Transition, Comment,
      Bounce, DecideSendoff, ListVersions, ListEvents, ListBounces, records

(* However corrections are made and taken back, every column of an item    *)
(* holds a value of its kind, and no state column is empty.                *)
THEOREM ValuesStayTyped == Spec => [](\A i \in Items : IsItem(Current(i)))
<1>1. EditTypes => \A i \in Items : IsItem(Current(i))
  BY CurrentIsItem
<1> QED
  BY <1>1, InitTypes, StepTypes, PTL DEF Spec

(* No correction is added to a version that stays approved.                *)
THEOREM CorrectionsReopen == Spec => CorrectionReopens
<1>1. EditTypes /\ [Next]_vars =>
        [Len(edits') > Len(edits) => current_state' # "review_checked"]_vars
  BY StepTypes
<1> QED
  BY <1>1, InitTypes, StepTypes, PTL DEF Spec, CorrectionReopens

(* A correction leaves its item consistent, whatever was undone before.    *)
THEOREM CorrectionsRepair == Spec => CorrectionRepairs
<1>1. EditTypes /\ [Next]_vars =>
        [Len(edits') > Len(edits) =>
           \E i \in Items :
             i = edits'[Len(edits')].item /\ Consistent(Current(i)')]_vars
  BY StepTypes
<1> QED
  BY <1>1, InitTypes, StepTypes, PTL DEF Spec, CorrectionRepairs

-----------------------------------------------------------------------------
(* The types of the rest.                                                  *)

View == [pc : {"idle", "events", "bounces", "done"}, state : VersionState,
         started : Nat, events : Nat, bounces : Nat]
RestTypes ==
  /\ resolution \in [Questions -> {"none", "unresolved", "resolved"}]
  /\ sendoff \in SendoffState
  /\ view \in [Lists -> View]

LEMMA InitRest == Init => RestTypes
  BY DEF Init, RestTypes, View, VersionState, SendoffState

LEMMA StepRest ==
  ASSUME RestTypes, ReviewType, [Next]_vars
  PROVE  RestTypes'
<1>1. CASE UNCHANGED <<resolution, sendoff, view>>
  BY <1>1 DEF RestTypes
<1>2. ASSUME NEW q \in Questions, NEW outcome \in {"unresolved", "resolved"},
             Judge(q, outcome)
      PROVE  RestTypes'
  BY <1>2 DEF Judge, RestTypes
<1>3. ASSUME NEW decision \in Decisions, DecideSendoff(decision)
      PROVE  RestTypes'
  BY <1>3, DecisionsAssumption DEF DecideSendoff, RestTypes
<1>4. ASSUME NEW reader \in Lists,
             ListVersions(reader) \/ ListEvents(reader) \/ ListBounces(reader)
      PROVE  RestTypes'
  <2>1. Len(approvals) \in Nat /\ current_state \in VersionState
    BY DEF ReviewType
  <2>2. view[reader] \in View
    BY DEF RestTypes
  <2>3. UNCHANGED <<resolution, sendoff>>
    BY <1>4 DEF ListVersions, ListEvents, ListBounces, records
  <2>4. \E new \in View : view' = [view EXCEPT ![reader] = new]
    BY <1>4, <2>1, <2>2 DEF ListVersions, ListEvents, ListBounces, View
  <2> HIDE DEF View
  <2> QED
    BY <2>3, <2>4 DEF RestTypes
<1> QED
  BY <1>1, <1>2, <1>3, <1>4
  DEF Next, vars, records, Edit, UndoEdit, Confirm, UndoConfirmation,
      Transition, Comment, Bounce

RecordsInv == ReviewInv /\ EditTypes /\ CheckInv /\ CommentInv /\ RestTypes

LEMMA InitRecords == Init => RecordsInv
  BY InitReview, InitTypes, InitCheck, InitComments, InitRest DEF RecordsInv

LEMMA StepRecords == RecordsInv /\ [Next]_vars => RecordsInv'
<1> SUFFICES ASSUME RecordsInv, [Next]_vars PROVE RecordsInv'
  OBVIOUS
<1>1. ReviewType
  BY DEF RecordsInv, ReviewInv
<1> QED
  BY <1>1, StepReview, StepTypes, StepCheck, StepComments, StepRest
  DEF RecordsInv

LEMMA RecordsTyped == RecordsInv => TypeOK
  BY DEF RecordsInv, ReviewInv, ReviewType, EditTypes, ItemEdit, CheckInv,
     Confirmations, CommentInv, Comments, RestTypes, View, TypeOK

(* Every record is of its type, through every sequence of requests.        *)
THEOREM RecordsTypeCorrect == Spec => []TypeOK
  BY InitRecords, StepRecords, RecordsTyped, PTL DEF Spec

-----------------------------------------------------------------------------
(* A request for a run while people edit and judge.                        *)

(* No record there when the request began is left in the table.            *)
Gone(table) == \A r \in start.known \cap Records : r[1] # table

RecordsEver ==
  {<<"item_edits", k>> : k \in DOMAIN edits}
  \cup {<<"confirmations", k>> : k \in DOMAIN confirmations}
  \cup {<<"question_judgements", q>> : q \in Judged}

(* What the request has found out, table by table, still holds.            *)
StartInv ==
  /\ DOMAIN resolution = Questions
  /\ start.known \subseteq RecordsEver
  /\ start.pc \in {"idle", "refused", "reserved", "item_edits", "confirmations",
                   "question_judgements"}
  /\ start = [pc |-> start.pc, acknowledged |-> start.acknowledged,
              known |-> start.known]
  /\ start.pc \in {"confirmations", "question_judgements", "reserved"}
     /\ ~start.acknowledged => Gone("item_edits")
  /\ start.pc \in {"question_judgements", "reserved"}
     /\ ~start.acknowledged => Gone("confirmations")
  /\ start.pc = "reserved" /\ ~start.acknowledged => Gone("question_judgements")

RowsInv == EditTypes /\ CheckInv

-----------------------------------------------------------------------------
(* What people do to the records: a row undone stays so.                   *)

LEMMA EditsDoNotReturn ==
  ASSUME RowsInv, [Next]_vars
  PROVE  /\ DOMAIN edits \subseteq DOMAIN edits'
         /\ \A k \in DOMAIN edits : k \in Active(edits)' => k \in Active(edits)
<1>1. CASE UNCHANGED edits
  BY <1>1 DEF Active
<1>2. ASSUME NEW i \in Items, NEW in \in Inputs, Edit(i, in)
      PROVE  /\ DOMAIN edits \subseteq DOMAIN edits'
             /\ \A k \in DOMAIN edits : edits'[k] = edits[k]
  BY <1>2, EditJoins DEF RowsInv
<1>3. ASSUME NEW k \in DOMAIN edits, UndoEdit(k)
      PROVE  /\ DOMAIN edits = DOMAIN edits' /\ k \in Active(edits)
             /\ \A l \in DOMAIN edits \ {k} : edits'[l] = edits[l]
  BY <1>3 DEF UndoEdit
<1> QED
  BY <1>1, <1>2, <1>3
  DEF Next, vars, Confirm, UndoConfirmation, Judge, Transition, Comment, Active,
      Bounce, DecideSendoff, ListVersions, ListEvents, ListBounces, records

LEMMA ConfirmationsDoNotReturn ==
  ASSUME RowsInv, [Next]_vars
  PROVE  /\ DOMAIN confirmations \subseteq DOMAIN confirmations'
         /\ \A k \in DOMAIN confirmations :
              k \in Active(confirmations)' => k \in Active(confirmations)
<1>1. CASE UNCHANGED confirmations
  BY <1>1 DEF Active
<1>2. ASSUME NEW kind \in {"row_match", "coverage"},
             NEW i \in Items \cup {None}, Confirm(kind, i)
      PROVE  /\ DOMAIN confirmations \subseteq DOMAIN confirmations'
             /\ \A k \in DOMAIN confirmations : confirmations'[k] = confirmations[k]
  <2> DEFINE new == [kind |-> kind, item |-> i, undone |-> FALSE]
             T == [kind : {"row_match", "coverage"}, item : Items \cup {None},
                   undone : BOOLEAN]
  <2>1. new \in T
    OBVIOUS
  <2>2. confirmations \in Seq(T) /\ confirmations' = Append(confirmations, new)
    BY <1>2 DEF RowsInv, CheckInv, Confirmations, Confirm
  <2> HIDE DEF new, T
  <2> QED
    BY <2>1, <2>2
<1>3. ASSUME NEW k \in DOMAIN confirmations, UndoConfirmation(k)
      PROVE  /\ DOMAIN confirmations = DOMAIN confirmations'
             /\ k \in Active(confirmations)
             /\ \A l \in DOMAIN confirmations \ {k} :
                  confirmations'[l] = confirmations[l]
  BY <1>3 DEF UndoConfirmation
<1> QED
  BY <1>1, <1>2, <1>3
  DEF Next, vars, Edit, UndoEdit, Judge, Transition, Comment, Active,
      Bounce, DecideSendoff, ListVersions, ListEvents, ListBounces, records

LEMMA JudgementsStay ==
  ASSUME DOMAIN resolution = Questions, [Next]_vars
  PROVE  DOMAIN resolution' = Questions /\ Judged \subseteq Judged'
<1>1. CASE UNCHANGED resolution
  BY <1>1 DEF Judged
<1>2. ASSUME NEW q \in Questions, NEW outcome \in {"unresolved", "resolved"},
             Judge(q, outcome)
      PROVE  DOMAIN resolution' = Questions /\ Judged \subseteq Judged'
  BY <1>2 DEF Judge, Judged
<1> QED
  BY <1>1, <1>2
  DEF Next, vars, Edit, UndoEdit, Confirm, UndoConfirmation, Transition, Comment,
      Bounce, DecideSendoff, ListVersions, ListEvents, ListBounces, records

LEMMA RecordsDoNotReturn ==
  ASSUME RowsInv, StartInv, [Next]_vars
  PROVE  /\ RecordsEver \subseteq RecordsEver'
         /\ start.known \cap Records' \subseteq start.known \cap Records
<1>1. RecordsEver \subseteq RecordsEver'
  BY EditsDoNotReturn, ConfirmationsDoNotReturn, JudgementsStay
  DEF StartInv, RecordsEver
<1>2. ASSUME NEW r \in start.known, r \in Records'
      PROVE  r \in Records
  <2>1. CASE r \in {<<"item_edits", k>> : k \in DOMAIN edits}
    BY <1>2, <2>1, EditsDoNotReturn DEF Records
  <2>2. CASE r \in {<<"confirmations", k>> : k \in DOMAIN confirmations}
    BY <1>2, <2>2, ConfirmationsDoNotReturn DEF Records
  <2>3. CASE r \in {<<"question_judgements", q>> : q \in Judged}
    BY <2>3 DEF Records
  <2> QED
    BY <2>1, <2>2, <2>3 DEF StartInv, RecordsEver
<1> QED
  BY <1>1, <1>2

-----------------------------------------------------------------------------
(* The request. *)

LEMMA InitStart == CarryInit => StartInv
  BY DEF CarryInit, Init, StartInv, RecordsEver

LEMMA BeginKeepsStart ==
  ASSUME StartInv, NEW acknowledged \in BOOLEAN, BeginReserve(acknowledged)
  PROVE  StartInv'
<1>1. /\ start'.known = Records /\ start'.acknowledged = acknowledged
      /\ start'.pc = IF acknowledged THEN "reserved" ELSE "item_edits"
      /\ UNCHANGED <<edits, confirmations, resolution>>
  BY DEF BeginReserve, vars
<1>2. Records \subseteq RecordsEver
  BY DEF Records, RecordsEver, Active
<1>3. RecordsEver' = RecordsEver
  BY <1>1 DEF RecordsEver, Judged
<1> QED
  BY <1>1, <1>2, <1>3 DEF StartInv, BeginReserve

(* A look at one table finds it empty, or the request is refused.          *)
LEMMA LookKeepsStart ==
  ASSUME StartInv, has_records
  PROVE  StartInv'
<1>1. UNCHANGED <<edits, confirmations, resolution>>
  BY DEF has_records, Look, vars
<1>2. /\ start'.known = start.known /\ start'.acknowledged = start.acknowledged
      /\ start' = [pc |-> start'.pc, acknowledged |-> start'.acknowledged,
                   known |-> start'.known]
  BY DEF has_records, Look, StartInv
<1>3. RecordsEver' = RecordsEver /\ Records' = Records
  BY <1>1 DEF RecordsEver, Records, Judged, Active
<1>4. \A table : Gone(table)' <=> Gone(table)
  BY <1>2, <1>3 DEF Gone
<1>5. /\ Active(edits) = {} => Gone("item_edits")
      /\ Active(confirmations) = {} => Gone("confirmations")
      /\ Judged = {} => Gone("question_judgements")
  BY DEF Gone, Records
<1>6. \/ start'.pc = "refused"
      \/ start.pc = "item_edits" /\ start'.pc = "confirmations" /\ Active(edits) = {}
      \/ /\ start.pc = "confirmations" /\ start'.pc = "question_judgements"
         /\ Active(confirmations) = {}
      \/ /\ start.pc = "question_judgements" /\ start'.pc = "reserved"
         /\ Judged = {}
  BY DEF has_records, Look, StartInv
<1> QED
  BY <1>1, <1>2, <1>3, <1>4, <1>5, <1>6 DEF StartInv

LEMMA StepStart ==
  ASSUME RowsInv, StartInv, [CarryNext]_carry_vars
  PROVE  StartInv'
<1>1. CASE [Next]_vars /\ UNCHANGED start
  <2>1. DOMAIN resolution' = Questions
    BY <1>1, JudgementsStay DEF StartInv
  <2>2. start.known \subseteq RecordsEver'
    BY <1>1, RecordsDoNotReturn DEF StartInv
  <2>3. \A table : Gone(table) => Gone(table)'
    BY <1>1, RecordsDoNotReturn DEF Gone
  <2> QED
    BY <1>1, <2>1, <2>2, <2>3 DEF StartInv
<1>2. ASSUME NEW acknowledged \in BOOLEAN, BeginReserve(acknowledged)
      PROVE  StartInv'
  BY <1>2, BeginKeepsStart
<1>3. CASE has_records
  BY <1>3, LookKeepsStart
<1> QED
  BY <1>1, <1>2, <1>3 DEF CarryNext, carry_vars

LEMMA CarryKeepsRecords ==
  [CarryNext]_carry_vars => [Next]_vars
  BY DEF CarryNext, carry_vars, BeginReserve, has_records, Look

LEMMA StepRows ==
  ASSUME RowsInv, [CarryNext]_carry_vars
  PROVE  RowsInv'
  BY CarryKeepsRecords, StepTypes, StepCheck DEF RowsInv

(* A request for a new run records nothing about the version there is: it  *)
(* stays what people alone make of it.                                     *)
THEOREM RequestRecordsNothing == CarrySpec => Spec
<1>1. CarryInit => Init
  BY DEF CarryInit
<1> QED
  BY <1>1, CarryKeepsRecords, PTL DEF CarrySpec, Spec

(* Every record is of its type while runs are requested.                   *)
THEOREM CarryOverTypeCorrect == CarrySpec => []TypeOK
  BY RequestRecordsNothing, RecordsTypeCorrect, PTL

(* A request that does not acknowledge the loss of the records is reserved *)
(* only if none of those there when it began is left.                      *)
THEOREM ExistingRecordsAreNoticed == CarrySpec => []RecordsAreNoticed
<1>1. CarryInit => RowsInv /\ StartInv
  BY InitStart, InitTypes, InitCheck DEF CarryInit, RowsInv
<1>2. RowsInv /\ StartInv /\ [CarryNext]_carry_vars => RowsInv' /\ StartInv'
  BY StepRows, StepStart
<1>3. RowsInv /\ StartInv => RecordsAreNoticed
  <2> SUFFICES ASSUME StartInv, start.pc = "reserved", ~start.acknowledged,
                      NEW r \in start.known \cap Records
               PROVE  FALSE
    BY DEF RecordsAreNoticed
  <2>1. r[1] \in {"item_edits", "confirmations", "question_judgements"}
    BY DEF Records
  <2> QED
    BY <2>1 DEF StartInv, Gone
<1> QED
  BY <1>1, <1>2, <1>3, PTL DEF CarrySpec
=============================================================================
