---------------------------- MODULE HumanRecords ----------------------------
(***************************************************************************)
(* What people record about one finalized version: edits of its items,     *)
(* confirmations, judgements of its questions, checks and approvals,       *)
(* bounces and the send-off decision; and the list of versions, read while *)
(* they do so.                                                             *)
(*                                                                         *)
(* Every request that records something holds the lock of the version row  *)
(* from its first read to its commit (record), so it is one step.  The     *)
(* list takes no lock and is a statement at a time, under READ COMMITTED.  *)
(* recorded_at is set under the lock: the order of the rows of a table, and *)
(* of events and bounces, is the order of the steps.                       *)
(***************************************************************************)
EXTENDS Integers, FiniteSets, Sequences, ItemValues

CONSTANTS Items, Questions,
          Lists,            (* readers of the list of versions              *)
          Drafted,          (* the values the run recorded, by item         *)
          Inputs,           (* the edits people ask for                     *)
          Decisions,        (* the send-off decisions they take             *)
          MaxEdits, MaxConfirmations, MaxComments, MaxApprovals (* bounds   *)

SendoffState == {"undecided", "hold", "approved"}

ASSUME ItemsAssumption == IsFiniteSet(Items) /\ None \notin Items
ASSUME QuestionsAssumption == IsFiniteSet(Questions)
ASSUME DraftedAssumption ==
  DOMAIN Drafted = Items /\ \A i \in Items : IsItem(Drafted[i])
ASSUME InputsAssumption == Inputs \subseteq EditInputs
ASSUME DecisionsAssumption == Decisions \subseteq SendoffState

VARIABLES current_state,   (* versions.current_state                        *)
          approvals,       (* version_state_events and bounces, in order    *)
          edits,           (* item_edits                                    *)
          confirmations,   (* confirmations                                 *)
          comments,        (* bounce_comments                               *)
          resolution,      (* the latest judgement of each question         *)
          sendoff,         (* the latest send-off decision                  *)
          view             (* the list of versions each reader has          *)

vars == <<current_state, approvals, edits, confirmations, comments,
          resolution, sendoff, view>>
records == <<edits, confirmations, comments, resolution, sendoff>>

VersionState == {"draft", "staff_checked", "review_checked"}

Events == [kind : {"event"}, from_state : VersionState,
           to_state : VersionState \ {"draft"}, unresolved : Nat]
Bounces == [kind : {"bounce"}]

-----------------------------------------------------------------------------
(* What the code derives from the tables.                                  *)

Active(rows) == {k \in DOMAIN rows : ~rows[k].undone}

EditsOf(i) ==
  [k \in {l \in DOMAIN edits : edits[l].item = i} |-> edits[k]]
Current(i) == apply_edits(Drafted[i], EditsOf(i))

matched_item_ids ==
  {confirmations[k].item :
     k \in {c \in Active(confirmations) : confirmations[c].kind = "row_match"}}

coverage_confirmed ==
  \E k \in Active(confirmations) : confirmations[k].kind = "coverage"

unresolved_question_ids == {q \in Questions : resolution[q] # "resolved"}

unlinked_bounce_comments_Fault == DOMAIN comments
unlinked_bounce_comments == {k \in DOMAIN comments : comments[k].bounce_id = 0}

(* A bounce needs a comment to make its reason of.                         *)
HasReason == unlinked_bounce_comments # {}

IsBounce(k) == approvals[k].kind = "bounce"
IsEvent(k) == approvals[k].kind = "event"
IsReview(k) == IsEvent(k) /\ approvals[k].to_state = "review_checked"

(* There is a bounce, among the first b entries, later than every review   *)
(* among the first e: the two are read one after the other.                *)
bounced_Fault(e, b) == \E k \in 1..b : IsBounce(k)
bounced(e, b) ==
  \E k \in 1..b : IsBounce(k) /\ \A r \in 1..e : IsReview(r) => r < k

(* The latest event of the first e entries is a correction.                *)
needs_recheck(e) ==
  \E k \in 1..e :
     /\ IsEvent(k)
     /\ \A l \in (k + 1)..e : ~IsEvent(l)
     /\ approvals[k].from_state = "review_checked"
     /\ approvals[k].to_state = "staff_checked"

-----------------------------------------------------------------------------
Init ==
  /\ current_state = "draft"
  /\ approvals = <<>>
  /\ edits = <<>>
  /\ confirmations = <<>>
  /\ comments = <<>>
  /\ resolution = [q \in Questions |-> "none"]
  /\ sendoff = "undecided"
  /\ view = [reader \in Lists |->
       [pc |-> "idle", state |-> "draft",
        started |-> 0, events |-> 0, bounces |-> 0]]

save_state_event_Fault(to) ==
  /\ Len(approvals) < MaxApprovals
  /\ approvals' = Append(approvals,
        [kind |-> "event", from_state |-> current_state, to_state |-> to,
         unresolved |-> Cardinality(unresolved_question_ids)])
  /\ UNCHANGED current_state
save_state_event(to) ==
  /\ Len(approvals) < MaxApprovals
  /\ approvals' = Append(approvals,
        [kind |-> "event", from_state |-> current_state, to_state |-> to,
         unresolved |-> Cardinality(unresolved_question_ids)])
  /\ current_state' = to

(* A correction takes a version that was approved back to its last check.  *)
Reopen_ToDraft ==
  IF current_state = "review_checked" THEN save_state_event("draft")
  ELSE UNCHANGED <<current_state, approvals>>
Reopen ==
  IF current_state = "review_checked" THEN save_state_event("staff_checked")
  ELSE UNCHANGED <<current_state, approvals>>

(* The rows of one edit are added together.                                *)
Edit(i, in) ==
  LET rows == EditRows(Current(i), in)
  IN /\ Acceptable(Current(i), in)
     /\ Len(edits) + Len(rows) <= MaxEdits
     /\ edits' = edits \o [k \in DOMAIN rows |->
           [item |-> i, field |-> rows[k].field, undone |-> FALSE,
            new_value |-> rows[k].new_value, new_state |-> rows[k].new_state]]
     /\ Reopen
     /\ UNCHANGED <<confirmations, comments, resolution, sendoff, view>>

(* Each row is undone on its own, whatever the version has come to.        *)
UndoEdit(k) ==
  /\ k \in Active(edits)
  /\ edits' = [edits EXCEPT ![k].undone = TRUE]
  /\ UNCHANGED <<current_state, approvals, confirmations, comments,
                 resolution, sendoff, view>>

(* A confirmation names an item or covers the version; one is active.      *)
Confirm(kind, i) ==
  /\ (kind = "row_match") = (i # None)
  /\ \A k \in Active(confirmations) :
       ~(confirmations[k].kind = kind /\ confirmations[k].item = i)
  /\ Len(confirmations) < MaxConfirmations
  /\ confirmations' =
       Append(confirmations, [kind |-> kind, item |-> i, undone |-> FALSE])
  /\ UNCHANGED <<current_state, approvals, edits, comments, resolution,
                 sendoff, view>>

UndoConfirmation(k) ==
  /\ k \in Active(confirmations)
  /\ confirmations' = [confirmations EXCEPT ![k].undone = TRUE]
  /\ UNCHANGED <<current_state, approvals, edits, comments, resolution,
                 sendoff, view>>

Judge(q, outcome) ==
  /\ resolution' = [resolution EXCEPT ![q] = outcome]
  /\ UNCHANGED <<current_state, approvals, edits, confirmations, comments,
                 sendoff, view>>

decide_transition_Fault(to) ==
  /\ <<current_state, to>> \in {<<"draft", "staff_checked">>,
                                <<"staff_checked", "review_checked">>}
  /\ current_state = "draft" => Items \subseteq matched_item_ids
decide_transition(to) ==
  /\ <<current_state, to>> \in {<<"draft", "staff_checked">>,
                                <<"staff_checked", "review_checked">>}
  /\ current_state = "draft" =>
       Items \subseteq matched_item_ids /\ coverage_confirmed

(* A person checks or approves the version.                                *)
Transition(to) ==
  /\ decide_transition(to)
  /\ save_state_event(to)
  /\ UNCHANGED <<records, view>>

Comment(i) ==
  /\ Len(comments) < MaxComments
  /\ comments' = Append(comments, [item |-> i, bounce_id |-> 0])
  /\ UNCHANGED <<current_state, approvals, edits, confirmations, resolution,
                 sendoff, view>>

(* A bounce takes every comment no bounce has taken.                       *)
Bounce ==
  /\ current_state = "staff_checked"
  /\ HasReason
  /\ Len(approvals) < MaxApprovals
  /\ approvals' = Append(approvals, [kind |-> "bounce"])
  /\ comments' = [k \in DOMAIN comments |->
       IF k \in unlinked_bounce_comments
       THEN [comments[k] EXCEPT !.bounce_id = Len(approvals')]
       ELSE comments[k]]
  /\ UNCHANGED <<current_state, edits, confirmations, resolution, sendoff,
                 view>>

DecideSendoff(decision) ==
  /\ sendoff' = decision
  /\ UNCHANGED <<current_state, approvals, edits, confirmations, comments,
                 resolution, view>>

(* The list reads the version, then its events, then its bounces.          *)
ListVersions(reader) ==
  /\ view[reader].pc \in {"idle", "done"}
  /\ view' = [view EXCEPT ![reader] =
       [pc |-> "events", state |-> current_state,
        started |-> Len(approvals), events |-> 0, bounces |-> 0]]
  /\ UNCHANGED <<current_state, approvals, records>>

ListEvents(reader) ==
  /\ view[reader].pc = "events"
  /\ view' = [view EXCEPT ![reader] =
       [pc |-> "bounces", state |-> @.state, started |-> @.started,
        events |-> Len(approvals), bounces |-> 0]]
  /\ UNCHANGED <<current_state, approvals, records>>

ListBounces(reader) ==
  /\ view[reader].pc = "bounces"
  /\ view' = [view EXCEPT ![reader] =
       [pc |-> "done", state |-> @.state, started |-> @.started,
        events |-> @.events, bounces |-> Len(approvals)]]
  /\ UNCHANGED <<current_state, approvals, records>>

Next ==
  \/ \E i \in Items, in \in Inputs : Edit(i, in)
  \/ \E k \in DOMAIN edits : UndoEdit(k)
  \/ \E i \in Items : Confirm("row_match", i)
  \/ Confirm("coverage", None)
  \/ \E k \in DOMAIN confirmations : UndoConfirmation(k)
  \/ \E q \in Questions, outcome \in {"unresolved", "resolved"} :
       Judge(q, outcome)
  \/ \E to \in VersionState \ {"draft"} : Transition(to)
  \/ \E i \in Items : Comment(i)
  \/ Bounce
  \/ \E decision \in Decisions : DecideSendoff(decision)
  \/ \E reader \in Lists :
       ListVersions(reader) \/ ListEvents(reader) \/ ListBounces(reader)

Spec == Init /\ [][Next]_vars

-----------------------------------------------------------------------------
(* Properties.                                                             *)

Entries == DOMAIN approvals

TypeOK ==
  /\ current_state \in VersionState
  /\ approvals \in Seq(Events \cup Bounces)
  /\ edits \in Seq([item : Items, field : EDITABLE_FIELDS,
                    new_value : Values \cup {None},
                    new_state : EditState \cup {None}, undone : BOOLEAN])
  /\ confirmations \in Seq([kind : {"row_match", "coverage"},
                            item : Items \cup {None}, undone : BOOLEAN])
  /\ comments \in Seq([item : Items, bounce_id : Nat])
  /\ resolution \in [Questions -> {"none", "unresolved", "resolved"}]
  /\ sendoff \in SendoffState
  /\ view \in [Lists -> [pc : {"idle", "events", "bounces", "done"},
                         state : VersionState, started : Nat,
                         events : Nat, bounces : Nat]]

LatestEvent(k) == IsEvent(k) /\ \A l \in Entries : l > k => ~IsEvent(l)

(* The column current_state is a copy of the latest event (04-db.md, 3.6), *)
(* and each event starts from the state the event before it ended in,      *)
(* though three requests and their order write both.                       *)
DraftHasNoEvent == current_state = "draft" => \A k \in Entries : ~IsEvent(k)

LatestEventIsState ==
  /\ \A k \in Entries :
       LatestEvent(k) => approvals[k].to_state = current_state
  /\ current_state # "draft" => \E k \in Entries : LatestEvent(k)

EventsChain ==
  \A k, l \in Entries :
    (/\ IsEvent(k) /\ IsEvent(l) /\ k < l
     /\ \A m \in (k + 1)..(l - 1) : ~IsEvent(m))
      => approvals[l].from_state = approvals[k].to_state

StateIsLatestEvent == DraftHasNoEvent /\ LatestEventIsState /\ EventsChain

(* needs_recheck looks at the latest event alone; its comment in           *)
(* version_state.py claims that this is the same as a staff event after    *)
(* the latest review, which is what the list of versions is to show.       *)
RecheckIsStaffAfterReview ==
  needs_recheck(Len(approvals)) <=>
    \E s, r \in Entries :
       /\ IsEvent(s) /\ approvals[s].to_state = "staff_checked"
       /\ IsReview(r)
       /\ \A later \in Entries : IsReview(later) => later < s

(* No version left draft without somebody confirming each of its rows and  *)
(* its coverage, even if they took that back since.                        *)
CheckWasEarned ==
  current_state # "draft" =>
    /\ \A i \in Items : \E k \in DOMAIN confirmations :
         confirmations[k].kind = "row_match" /\ confirmations[k].item = i
    /\ \E k \in DOMAIN confirmations : confirmations[k].kind = "coverage"

(* Every bounce has a comment to say why, and every comment taken belongs  *)
(* to a bounce.                                                            *)
BounceHasReason ==
  /\ \A b \in Entries : IsBounce(b) =>
       \E c \in DOMAIN comments : comments[c].bounce_id = b
  /\ \A c \in DOMAIN comments : comments[c].bounce_id # 0 =>
       comments[c].bounce_id \in Entries /\ IsBounce(comments[c].bounce_id)

(* A comment taken by a bounce stays with it, however many bounces follow. *)
CommentTakenOnce ==
  [][\A c \in DOMAIN comments : comments[c].bounce_id # 0 =>
       comments'[c] = comments[c]]_vars

(* The list of versions reads events and bounces in two statements, yet    *)
(* the flag it shows was right at some moment of the reading: it never     *)
(* shows a version as sent back that was not, nor the other way round.     *)
SentBack(n) ==
  \E k \in 1..n : IsBounce(k) /\ \A l \in (k + 1)..n : ~IsReview(l)

ListedFlagWasTrue ==
  \A reader \in Lists : view[reader].pc = "done" =>
    \E n \in view[reader].started..view[reader].bounces :
       SentBack(n) = bounced(view[reader].events, view[reader].bounces)

(* No correction is added to a version that stays approved.                *)
CorrectionReopens ==
  [][Len(edits') > Len(edits) => current_state' # "review_checked"]_vars

(* A correction leaves its item consistent, even one that was not because  *)
(* half a quantity had been undone: the check is of the item as the rows   *)
(* not undone make it, not of what the request changes.                    *)
CorrectionRepairs ==
  [][Len(edits') > Len(edits) =>
       \E i \in Items :
          i = edits'[Len(edits')].item /\ Consistent(Current(i)')]_vars

(* State and derived flags together behave as the review of a version.     *)
Status == INSTANCE ReviewPromise WITH
  state <- current_state,
  sentBack <- bounced(Len(approvals), Len(approvals)),
  recheck <- needs_recheck(Len(approvals))

KeepsReviewPromise == Status!Spec

-----------------------------------------------------------------------------
(* What the documents claim and the code does not keep.                    *)

(* 04-db.md:725, the two rows of a quantity are recorded in one            *)
(* transaction so that no quantity without a unit arises; undo_edit takes  *)
(* back one of the two, and the number stays when that is the unit's.      *)
QuantityHasUnit ==
  \A i \in Items :
    Current(i)["qty_value"] # None => Current(i)["qty_unit"] # None
=============================================================================
