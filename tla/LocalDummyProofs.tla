-------------------------- MODULE LocalDummyProofs --------------------------
(***************************************************************************)
(* Theorems about LocalDummy: what the local policy is refused, and that   *)
(* it publishes all of a case or nothing.                                  *)
(***************************************************************************)
EXTENDS LocalDummy, DraftArtifactsProofs

-----------------------------------------------------------------------------
(* Sequences without repetition.                                           *)

LEMMA Appended ==
  ASSUME NEW s, IsSequence(s), NEW x
  PROVE  /\ IsSequence(Append(s, x))
         /\ Len(Append(s, x)) = Len(s) + 1 /\ Len(s) \in Nat
         /\ DOMAIN s = 1..Len(s) /\ DOMAIN Append(s, x) = 1..(Len(s) + 1)
         /\ \A k \in 1..Len(s) : Append(s, x)[k] = s[k]
         /\ Append(s, x)[Len(s) + 1] = x
         /\ ToSet(Append(s, x)) = ToSet(s) \cup {x}
<1> DEFINE S == ToSet(s) \cup {x}
           t == Append(s, x)
<1>1. s \in Seq(S) /\ x \in S
  <2>1. s \in Seq(ToSet(s)) /\ \A k \in 1..Len(s) : s[k] \in S
    BY SequenceFacts DEF IsSequence
  <2> HIDE DEF S
  <2>2. s \in Seq(S)
    BY <2>1, Retyped
  <2> QED
    BY <2>2 DEF S
<1>2. Len(s) \in Nat /\ DOMAIN s = 1..Len(s)
  BY SequenceFacts
<1> HIDE DEF S
<1>3. /\ t \in Seq(S) /\ Len(t) = Len(s) + 1
      /\ DOMAIN t = 1..(Len(s) + 1)
      /\ \A k \in 1..Len(s) : t[k] = s[k]
      /\ t[Len(s) + 1] = x
  BY <1>1
<1> HIDE DEF t
<1>4. ToSet(t) = S
  <2>1. \A k \in DOMAIN t : t[k] \in S
    BY <1>2, <1>3
  <2>2. \A y \in ToSet(s) : \E k \in 1..Len(s) : y = s[k]
    BY <1>2, SequenceFacts
  <2>3. \A y \in S : \E k \in DOMAIN t : t[k] = y
    BY <1>2, <1>3, <2>2 DEF S
  <2> QED
    BY <2>1, <2>3 DEF ToSet
<1>5. IsSequence(t)
  BY <1>3, <1>4 DEF IsSequence
<1> QED
  BY <1>2, <1>3, <1>4, <1>5 DEF t, S

(* s has each of S once.                                                   *)
Enumerates(s, S) == IsSequence(s) /\ IsInjective(s) /\ ToSet(s) = S

LEMMA Nothing ==
  /\ Enumerates(<<>>, {}) /\ IsSequence(<<>>) /\ Len(<<>>) = 0
  /\ DOMAIN <<>> = {} /\ ToSet(<<>>) = {}
<1>1. IsSequence(<<>>) /\ Len(<<>>) = 0 /\ DOMAIN <<>> = {} /\ ToSet(<<>>) = {}
  BY DEF IsSequence, ToSet
<1> QED
  BY <1>1 DEF Enumerates, IsInjective

LEMMA OneMore ==
  ASSUME NEW S, NEW s, Enumerates(s, S), NEW x, x \notin S
  PROVE  Enumerates(Append(s, x), S \cup {x})
<1> DEFINE t == Append(s, x)
<1>1. /\ IsSequence(t) /\ ToSet(t) = S \cup {x}
      /\ DOMAIN s = 1..Len(s) /\ DOMAIN t = 1..(Len(s) + 1) /\ Len(s) \in Nat
      /\ \A k \in 1..Len(s) : t[k] = s[k]
      /\ t[Len(s) + 1] = x
  BY Appended DEF Enumerates
<1>2. \A k \in 1..Len(s) : s[k] \in S
  BY SequenceFacts DEF Enumerates
<1>3. \A j, k \in 1..Len(s) : s[j] = s[k] => j = k
  BY <1>1 DEF Enumerates, IsInjective
<1> HIDE DEF t
<1>4. \A j, k \in DOMAIN t : t[j] = t[k] => j = k
  BY <1>1, <1>2, <1>3
<1> QED
  BY <1>1, <1>4 DEF Enumerates, IsInjective, t

LEMMA AllOfBoth ==
  ASSUME NEW S, NEW T, NEW s, NEW t, Enumerates(s, S), Enumerates(t, T),
         S \cap T = {}
  PROVE  Enumerates(s \o t, S \cup T)
<1> DEFINE u == s \o t
<1>1. /\ IsSequence(u) /\ ToSet(u) = S \cup T
      /\ \A k \in 1..Len(s) : u[k] = s[k]
      /\ \A k \in DOMAIN u :
           k \in DOMAIN s \/ (k - Len(s) \in DOMAIN t /\ u[k] = t[k - Len(s)])
  BY Joined DEF Enumerates
<1>2. /\ DOMAIN s = 1..Len(s) /\ Len(s) \in Nat /\ DOMAIN t = 1..Len(t) /\ Len(t) \in Nat
      /\ DOMAIN u = 1..Len(u) /\ Len(u) \in Nat
      /\ \A k \in DOMAIN s : s[k] \in S
      /\ \A k \in DOMAIN t : t[k] \in T
  BY <1>1, SequenceFacts DEF Enumerates
<1>3. /\ \A j, k \in DOMAIN s : s[j] = s[k] => j = k
      /\ \A j, k \in DOMAIN t : t[j] = t[k] => j = k
  BY DEF Enumerates, IsInjective
<1> HIDE DEF u
<1>4. ASSUME NEW j \in DOMAIN u, NEW k \in DOMAIN u, u[j] = u[k]
      PROVE  j = k
  <2>1. \/ j \in DOMAIN s /\ u[j] = s[j]
        \/ j - Len(s) \in DOMAIN t /\ u[j] = t[j - Len(s)]
    BY <1>1, <1>2
  <2>2. \/ k \in DOMAIN s /\ u[k] = s[k]
        \/ k - Len(s) \in DOMAIN t /\ u[k] = t[k - Len(s)]
    BY <1>1, <1>2
  <2>3. CASE j \in DOMAIN s /\ u[j] = s[j] /\ k \in DOMAIN s /\ u[k] = s[k]
    BY <1>3, <1>4, <2>3
  <2>4. CASE j - Len(s) \in DOMAIN t /\ u[j] = t[j - Len(s)]
             /\ k - Len(s) \in DOMAIN t /\ u[k] = t[k - Len(s)]
    <3>1. j - Len(s) = k - Len(s)
      BY <1>3, <1>4, <2>4
    <3> QED
      BY <1>2, <3>1
  <2>5. u[j] = s[j] /\ j \in DOMAIN s => u[j] \in S
    BY <1>2
  <2>6. u[k] = s[k] /\ k \in DOMAIN s => u[k] \in S
    BY <1>2
  <2>7. k - Len(s) \in DOMAIN t /\ u[k] = t[k - Len(s)] => u[k] \in T
    BY <1>2
  <2>8. j - Len(s) \in DOMAIN t /\ u[j] = t[j - Len(s)] => u[j] \in T
    BY <1>2
  <2> QED
    BY <1>4, <2>1, <2>2, <2>3, <2>4, <2>5, <2>6, <2>7, <2>8
<1> QED
  BY <1>1, <1>4 DEF Enumerates, IsInjective, u

(* So many elements as the sequence is long.                               *)
LEMMA Counted ==
  ASSUME NEW S, NEW s, Enumerates(s, S)
  PROVE  IsFiniteSet(S) /\ Cardinality(S) = Len(s)
  BY LinkCount DEF Enumerates

-----------------------------------------------------------------------------
(* The lines of a case.                                                    *)

(* The images of an interval are finitely many.                            *)
LEMMA ManyAtMost ==
  ASSUME NEW n \in Nat, NEW f, f = [k \in 1..n |-> f[k]]
  PROVE  IsFiniteSet({f[k] : k \in 1..n})
<1> DEFINE T == {f[k] : k \in 1..n}
<1>1. f \in Surjection(1..n, T)
  BY DEF Surjection
<1>2. IsFiniteSet(1..n)
  BY FS_Interval
<1> HIDE DEF T
<1>3. IsFiniteSet(T)
  BY <1>1, <1>2, FS_Surjection
<1> QED
  BY <1>3 DEF T

LEMMA CaseFacts ==
  ASSUME NEW docs \in Cases
  PROVE  /\ Len(docs) \in Nat /\ DOMAIN docs = 1..Len(docs)
         /\ \A d \in DOMAIN docs :
              /\ Len(docs[d]) \in Nat /\ DOMAIN docs[d] = 1..Len(docs[d])
              /\ docs[d] = <<>> <=> Len(docs[d]) = 0
              /\ \A r \in DOMAIN docs[d] :
                   /\ docs[d][r].role \in Role
                   /\ docs[d][r].lines \in Seq(Line)
                   /\ Len(docs[d][r].lines) \in Nat
                   /\ DOMAIN docs[d][r].lines = 1..Len(docs[d][r].lines)
                   /\ \A l \in DOMAIN docs[d][r].lines : docs[d][r].lines[l] \in Line
<1> DEFINE Ranges == [role : Role, lines : Seq(Line)]
<1>1. docs \in Seq(Seq(Ranges))
  BY CasesAssumption
<1>2. \A part \in Ranges : part.role \in Role /\ part.lines \in Seq(Line)
  OBVIOUS
<1> HIDE DEF Ranges
<1>3. /\ Len(docs) \in Nat /\ DOMAIN docs = 1..Len(docs)
      /\ \A d \in DOMAIN docs : docs[d] \in Seq(Ranges)
  BY <1>1
<1>4. ASSUME NEW d \in DOMAIN docs
      PROVE  /\ Len(docs[d]) \in Nat /\ DOMAIN docs[d] = 1..Len(docs[d])
             /\ docs[d] = <<>> <=> Len(docs[d]) = 0
             /\ \A r \in DOMAIN docs[d] : docs[d][r] \in Ranges
  BY <1>3, <1>4
<1>5. \A lines \in Seq(Line) :
        /\ Len(lines) \in Nat /\ DOMAIN lines = 1..Len(lines)
        /\ \A l \in DOMAIN lines : lines[l] \in Line
  OBVIOUS
<1> QED
  BY <1>2, <1>3, <1>4, <1>5

LEMMA PlaceFacts ==
  ASSUME NEW docs \in Cases, NEW place
  PROVE  place \in Places(docs) <=>
           \E d \in DOMAIN docs : \E r \in DOMAIN docs[d] :
             \E l \in DOMAIN docs[d][r].lines : place = <<d, r, l>>
  BY DEF Places

LEMMA AtPlaces ==
  ASSUME NEW docs \in Cases, NEW place \in Places(docs)
  PROVE  /\ place[1] \in 1..Len(docs)
         /\ place[2] \in 1..Len(docs[place[1]])
         /\ place[3] \in 1..Len(docs[place[1]][place[2]].lines)
         /\ place = <<place[1], place[2], place[3]>>
         /\ LineAt(docs, place) \in Line
<1>1. PICK d \in DOMAIN docs : \E r \in DOMAIN docs[d] :
        \E l \in DOMAIN docs[d][r].lines : place = <<d, r, l>>
  BY PlaceFacts
<1>2. PICK r \in DOMAIN docs[d] : \E l \in DOMAIN docs[d][r].lines :
        place = <<d, r, l>>
  BY <1>1
<1>3. PICK l \in DOMAIN docs[d][r].lines : place = <<d, r, l>>
  BY <1>2
<1>4. place[1] = d /\ place[2] = r /\ place[3] = l
  BY <1>3
<1> QED
  BY <1>1, <1>2, <1>3, <1>4, CaseFacts DEF LineAt

LEMMA FinitelyManyPlaces ==
  ASSUME NEW docs \in Cases
  PROVE  IsFiniteSet(Places(docs)) /\ Cardinality(Places(docs)) \in Nat
<1> DEFINE InRange(d, r) == {<<d, r, l>> : l \in DOMAIN docs[d][r].lines}
           InDocument(d) == UNION {InRange(d, r) : r \in DOMAIN docs[d]}
<1>1. ASSUME NEW d \in DOMAIN docs, NEW r \in DOMAIN docs[d]
      PROVE  IsFiniteSet(InRange(d, r))
  <2> DEFINE n == Len(docs[d][r].lines)
             f == [l \in 1..n |-> <<d, r, l>>]
  <2>1. n \in Nat /\ DOMAIN docs[d][r].lines = 1..n
    BY <1>1, CaseFacts
  <2>2. f = [l \in 1..n |-> f[l]]
    OBVIOUS
  <2>3. InRange(d, r) = {f[l] : l \in 1..n}
    BY <2>1
  <2> HIDE DEF f, n
  <2> QED
    BY <2>1, <2>2, <2>3, ManyAtMost
<1>2. ASSUME NEW d \in DOMAIN docs PROVE IsFiniteSet(InDocument(d))
  <2> DEFINE n == Len(docs[d])
             f == [r \in 1..n |-> InRange(d, r)]
  <2>1. n \in Nat /\ DOMAIN docs[d] = 1..n
    BY <1>2, CaseFacts
  <2>2. f = [r \in 1..n |-> f[r]]
    OBVIOUS
  <2>3. {InRange(d, r) : r \in DOMAIN docs[d]} = {f[r] : r \in 1..n}
    BY <2>1
  <2>4. \A T \in {f[r] : r \in 1..n} : IsFiniteSet(T)
    BY <1>1, <1>2, <2>1
  <2> HIDE DEF f, n
  <2>5. IsFiniteSet({f[r] : r \in 1..n})
    BY <2>1, <2>2, ManyAtMost
  <2>6. IsFiniteSet(UNION {f[r] : r \in 1..n})
    BY <2>4, <2>5, FS_UNION
  <2> QED
    BY <2>3, <2>6
<1>3. IsFiniteSet(UNION {InDocument(d) : d \in DOMAIN docs})
  <2> HIDE DEF InDocument
  <2> DEFINE n == Len(docs)
             f == [d \in 1..n |-> InDocument(d)]
  <2>1. n \in Nat /\ DOMAIN docs = 1..n
    BY CaseFacts
  <2>2. f = [d \in 1..n |-> f[d]]
    OBVIOUS
  <2>3. {InDocument(d) : d \in DOMAIN docs} = {f[d] : d \in 1..n}
    BY <2>1
  <2>4. \A T \in {f[d] : d \in 1..n} : IsFiniteSet(T)
    BY <1>2, <2>1
  <2> HIDE DEF f, n
  <2>5. IsFiniteSet({f[d] : d \in 1..n})
    BY <2>1, <2>2, ManyAtMost
  <2>6. IsFiniteSet(UNION {f[d] : d \in 1..n})
    BY <2>4, <2>5, FS_UNION
  <2> QED
    BY <2>3, <2>6
<1>4. Places(docs) = UNION {InDocument(d) : d \in DOMAIN docs}
  BY DEF Places
<1> HIDE DEF InDocument
<1> QED
  BY <1>3, <1>4, FS_CardinalityType

-----------------------------------------------------------------------------
(* The invariant of the policy, where it drives the run.  First, where it  *)
(* is, and what it has taken of the ranges before.                         *)

PastHeader == {"items", "raised", "evidence", "questions", "inventory", "validate",
               "validation_unresolved", "finalize", "draft_not_finalized", "done"}
PastItems == PastHeader \ {"items", "raised"}
PastEvidence == PastItems \ {"evidence"}
PastQuestions == PastEvidence \ {"questions"}
PastInventory == PastQuestions \ {"inventory"}
Stops == {"no_readable_document", "local_dummy_unsupported"}
Phases == {"reading", "ask", "header"} \cup Stops \cup PastHeader

Before(d, r) == d < document \/ (d = document /\ r < range)
Passed(place) == Before(place[1], place[2])
Here(place) == place[1] = document /\ place[2] = range /\ place[3] < line

RangesKnown ==
  /\ CaseRanges(documents) \subseteq inquiry.ranges
  /\ inquiry.ranges \subseteq CaseRanges(documents) \cup LateRanges

AtPlace ==
  /\ documents \in Cases /\ RangesKnown
  /\ phase \in Phases
  /\ document \in 1..(Len(documents) + 1) /\ range \in Nat /\ line \in Nat
  /\ document > Len(documents) => range = 0
  /\ phase # "reading" => document > Len(documents)
  /\ range = 0 => line = 1 /\ matches = <<>> /\ notes_here = <<>>
  /\ document <= Len(documents) /\ range > Len(documents[document]) =>
       /\ documents[document] = <<>> /\ range = 1
       /\ line = 1 /\ matches = <<>> /\ notes_here = <<>>
  /\ document <= Len(documents) /\ range \in DOMAIN documents[document] =>
       line \in 1..(Len(Part.lines) + 1)

NotesHere == {p \in Places(documents) : Here(p) /\ LineAt(documents, p) = "note"}
OthersHere == {p \in Places(documents) :
                 Here(p) /\ LineAt(documents, p) \notin {"note", "blank"}}
PassedNotes == {p \in Places(documents) : Passed(p) /\ LineAt(documents, p) = "note"}
PassedOthers == {p \in Places(documents) :
                   Passed(p) /\ LineAt(documents, p) \notin {"note", "blank"}}
PassedRows == {p \in Places(documents) : Passed(p) /\ LineAt(documents, p) \in RowLine}

Taken ==
  /\ Enumerates(notes_here, NotesHere)
  /\ Enumerates(matches, OthersHere)
  /\ Enumerates(url_notes, PassedNotes)
  /\ Enumerates(sources, ToSet(sources))
  /\ ToSet(sources) \subseteq PassedRows
  /\ ~unsupported => PassedOthers \subseteq ToSet(sources)

(* What it reports, unless it meets what it cannot interpret, is what has  *)
(* nothing to read.                                                        *)
Gaps == {d \in DOMAIN documents : d < document /\ documents[d] = <<>>}
Hole(d, r) == Before(d, r) /\ ~HasText(documents[d][r])
NoHoles == \A d \in DOMAIN documents : \A r \in DOMAIN documents[d] : ~Hole(d, r)
Scanned ==
  /\ \A d \in DOMAIN documents :
       Before(d, 0) => RangesOf(documents, d) \subseteq scanned
  /\ ~unsupported => (reported = {} <=> Gaps = {} /\ NoHoles)

(* From one range to the next.                                             *)
LEMMA Advances ==
  ASSUME AtPlace, AtRange, Advance, documents' = documents, inquiry' = inquiry,
         phase' = phase
  PROVE  /\ AtPlace'
         /\ \A d \in DOMAIN documents : \A r \in DOMAIN documents[d] :
              Before(d, r)' <=> Before(d, r) \/ (d = document /\ r = range)
         /\ \A d \in DOMAIN documents : Before(d, 0)' => Before(d, 0)
         /\ \A p \in Places(documents) :
              /\ Passed(p)' <=> Passed(p) \/ (p[1] = document /\ p[2] = range)
              /\ ~Here(p)'
         /\ Gaps' = Gaps
<1>1. /\ Len(documents) \in Nat /\ DOMAIN documents = 1..Len(documents)
      /\ document \in DOMAIN documents
      /\ Len(documents[document]) \in Nat
      /\ range \in 1..Len(documents[document])
      /\ documents[document] # <<>>
      /\ document \in Nat /\ document <= Len(documents)
  BY CaseFacts DEF AtPlace, AtRange
<1>2. line' = 1 /\ matches' = <<>> /\ notes_here' = <<>>
  BY DEF Advance
<1>3. \/ range < Len(documents[document]) /\ range' = range + 1 /\ document' = document
      \/ range = Len(documents[document]) /\ range' = 0 /\ document' = document + 1
  BY <1>1 DEF Advance
<1>4. \A d \in DOMAIN documents : Len(documents[d]) \in Nat /\ DOMAIN documents[d] = 1..Len(documents[d])
  BY CaseFacts DEF AtPlace
<1>5. ASSUME NEW d \in DOMAIN documents, NEW r \in DOMAIN documents[d]
      PROVE  Before(d, r)' <=> Before(d, r) \/ (d = document /\ r = range)
  <2>1. d \in Nat /\ r \in 1..Len(documents[d]) /\ r \in Nat
    BY <1>1, <1>4, <1>5
  <2>2. d = document => r \in 1..Len(documents[document])
    BY <2>1
  <2> QED
    BY <1>1, <1>3, <2>1, <2>2 DEF Before
<1>6. \A d \in DOMAIN documents : Before(d, 0)' => Before(d, 0)
  BY <1>1, <1>3 DEF Before
<1>7. ASSUME NEW p \in Places(documents)
      PROVE  /\ Passed(p)' <=> Passed(p) \/ (p[1] = document /\ p[2] = range)
             /\ ~Here(p)'
  <2>1. /\ p[1] \in DOMAIN documents /\ p[2] \in DOMAIN documents[p[1]]
        /\ p[3] \in 1..Len(documents[p[1]][p[2]].lines)
    BY <1>1, <1>4, AtPlaces DEF AtPlace
  <2>2. ~(p[3] < 1)
    BY <2>1
  <2> QED
    BY <1>2, <1>5, <2>1, <2>2 DEF Passed, Here
<1>8. Gaps' = Gaps
  <2>1. \A d \in DOMAIN documents :
          (d < document' /\ documents[d] = <<>>) <=> (d < document /\ documents[d] = <<>>)
    BY <1>1, <1>3
  <2> QED
    BY <2>1 DEF Gaps
<1>9. AtPlace'
  <2>1. phase' = "reading"
    BY DEF AtRange
  <2>2. document' \in 1..(Len(documents) + 1) /\ range' \in Nat /\ line' \in Nat
    BY <1>1, <1>2, <1>3
  <2>3. document' > Len(documents) => range' = 0
    BY <1>1, <1>3
  <2>4. document' <= Len(documents) => ~(range' > Len(documents[document']))
    <3>1. document' <= Len(documents) => document' \in DOMAIN documents
      BY <1>1, <2>2
    <3> QED
      BY <1>1, <1>3, <1>4, <3>1
  <2>5. ASSUME document' <= Len(documents), range' \in DOMAIN documents[document']
        PROVE  line' \in 1..(Len(Part.lines)' + 1)
    <3>1. document' \in DOMAIN documents
      BY <1>1, <2>2, <2>5
    <3>2. Len(documents[document'][range'].lines) \in Nat
      BY <2>5, <3>1, CaseFacts DEF AtPlace
    <3> QED
      BY <1>2, <3>2 DEF Part
  <2> QED
    BY <1>2, <2>1, <2>2, <2>3, <2>4, <2>5 DEF AtPlace, Part, RangesKnown
<1> QED
  BY <1>5, <1>6, <1>7, <1>8, <1>9

TakenAs == <<matches, notes_here, sources, url_notes>>
LEMMA TakenStays ==
  ASSUME Taken, documents' = documents, TakenAs' = TakenAs,
         unsupported => unsupported',
         \A p \in Places(documents) : (Passed(p)' <=> Passed(p)) /\ (Here(p)' <=> Here(p))
  PROVE  Taken'
<1>1. /\ matches' = matches /\ notes_here' = notes_here
      /\ sources' = sources /\ url_notes' = url_notes
  BY DEF TakenAs
<1>2. /\ NotesHere' = NotesHere /\ OthersHere' = OthersHere
      /\ PassedNotes' = PassedNotes /\ PassedOthers' = PassedOthers
      /\ PassedRows' = PassedRows
  BY DEF NotesHere, OthersHere, PassedNotes, PassedOthers, PassedRows
<1> QED
  BY <1>1, <1>2 DEF Taken

(* Off a range nothing is at hand.                                         *)
LEMMA NothingHere ==
  ASSUME AtPlace, range = 0
  PROVE  \A p \in Places(documents) : ~Here(p)
<1> SUFFICES ASSUME NEW p \in Places(documents) PROVE ~Here(p)
  OBVIOUS
<1>1. p[2] \in 1..Len(documents[p[1]]) /\ p[1] \in DOMAIN documents
  BY AtPlaces, CaseFacts DEF AtPlace
<1>2. Len(documents[p[1]]) \in Nat
  BY <1>1, CaseFacts DEF AtPlace
<1> QED
  BY <1>1, <1>2 DEF Here

ReadInv == AtPlace /\ Taken /\ Scanned

LEMMA ReadDocumentKeeps ==
  ASSUME ReadInv, ReadDocument
  PROVE  ReadInv' /\ inquiry' = inquiry /\ RangesOf(documents, document) \subseteq inquiry.ranges
<1>1. /\ phase = "reading" /\ phase' = phase /\ range = 0 /\ range' = 1
      /\ line = 1 /\ line' = 1 /\ matches = <<>> /\ notes_here = <<>>
      /\ document' = document /\ documents' = documents /\ TakenAs' = TakenAs
      /\ document <= Len(documents)
      /\ scanned' = scanned \cup RangesOf(documents, document)
      /\ reported' = reported /\ inquiry' = inquiry
      /\ unsupported => unsupported'
      /\ matches' = matches /\ notes_here' = notes_here
  BY DEF ReadInv, AtPlace, ReadDocument, read, TakenAs
<1>2. /\ Len(documents) \in Nat /\ DOMAIN documents = 1..Len(documents)
      /\ document \in DOMAIN documents /\ document \in Nat
      /\ \A d \in DOMAIN documents :
           /\ Len(documents[d]) \in Nat /\ DOMAIN documents[d] = 1..Len(documents[d])
           /\ documents[d] = <<>> <=> Len(documents[d]) = 0
  BY <1>1, CaseFacts DEF ReadInv, AtPlace
<1>3. \A d \in DOMAIN documents : \A r \in DOMAIN documents[d] :
        Before(d, r)' <=> Before(d, r)
  BY <1>1, <1>2 DEF Before
<1>4. \A p \in Places(documents) : (Passed(p)' <=> Passed(p)) /\ (Here(p)' <=> Here(p))
  <2> TAKE p \in Places(documents)
  <2>1. /\ p[1] \in DOMAIN documents /\ p[2] \in DOMAIN documents[p[1]]
        /\ p[3] \in 1..Len(documents[p[1]][p[2]].lines)
    BY <1>2, AtPlaces DEF ReadInv, AtPlace
  <2>2. ~Here(p)
    BY <1>1, NothingHere DEF ReadInv
  <2>3. ~Here(p)'
    BY <1>1, <2>1 DEF Here
  <2> QED
    BY <1>3, <2>1, <2>2, <2>3 DEF Passed
<1>5. Taken'
  BY <1>1, <1>4, TakenStays DEF ReadInv
<1>6. Scanned'
  <2>1. Gaps' = Gaps
    BY <1>1 DEF Gaps
  <2>2. NoHoles' <=> NoHoles
    BY <1>1, <1>3 DEF NoHoles, Hole
  <2>3. \A d \in DOMAIN documents : Before(d, 0)' <=> Before(d, 0) \/ d = document
    BY <1>1, <1>2 DEF Before
  <2>4. \A d \in DOMAIN documents : Before(d, 0)' => RangesOf(documents, d) \subseteq scanned'
    BY <1>1, <2>3 DEF ReadInv, Scanned
  <2>5. \A d : (RangesOf(documents, d))' = RangesOf(documents, d)
    BY <1>1 DEF RangesOf
  <2> QED
    BY <1>1, <2>1, <2>2, <2>4, <2>5 DEF ReadInv, Scanned
<1>7. AtPlace'
  <2>1. ASSUME range' \in DOMAIN documents[document]
        PROVE  line' \in 1..(Len(documents[document][range'].lines) + 1)
    <3>1. Len(documents[document][range'].lines) \in Nat
      BY <1>2, <2>1, CaseFacts DEF ReadInv, AtPlace
    <3> QED
      BY <1>1, <3>1
  <2>2. range' > Len(documents[document]) => documents[document] = <<>>
    BY <1>1, <1>2
  <2> QED
    BY <1>1, <1>2, <2>1, <2>2 DEF ReadInv, AtPlace, Part, RangesKnown
<1>8. RangesOf(documents, document) \subseteq inquiry.ranges
  BY <1>2 DEF ReadInv, AtPlace, RangesKnown, CaseRanges
<1> QED
  BY <1>1, <1>5, <1>6, <1>7, <1>8 DEF ReadInv

LEMMA ReportDocumentKeeps ==
  ASSUME ReadInv, ReportDocument
  PROVE  ReadInv'
<1>1. /\ phase = "reading" /\ phase' = phase /\ range = 1 /\ range' = 0
      /\ document' = document + 1 /\ documents' = documents /\ TakenAs' = TakenAs
      /\ document <= Len(documents) /\ documents[document] = <<>>
      /\ scanned' = scanned /\ reported' = reported \cup {Null} /\ inquiry' = inquiry
      /\ unsupported' = unsupported
      /\ line' = line /\ matches' = matches /\ notes_here' = notes_here
  BY DEF ReportDocument, report_unreadable, TakenAs
<1>2. /\ Len(documents) \in Nat /\ DOMAIN documents = 1..Len(documents)
      /\ document \in DOMAIN documents /\ document \in Nat
      /\ Len(documents[document]) = 0
      /\ \A d \in DOMAIN documents :
           Len(documents[d]) \in Nat /\ DOMAIN documents[d] = 1..Len(documents[d])
  BY <1>1, CaseFacts DEF ReadInv, AtPlace
<1>3. line = 1 /\ matches = <<>> /\ notes_here = <<>>
  BY <1>1, <1>2 DEF ReadInv, AtPlace
<1>4. \A d \in DOMAIN documents : \A r \in DOMAIN documents[d] :
        /\ Before(d, r)' <=> Before(d, r)
        /\ d # document /\ ~(d = document' /\ r = range')
  <2> TAKE d \in DOMAIN documents
  <2> TAKE r \in DOMAIN documents[d]
  <2>1. d # document /\ d \in Nat /\ r \in Nat /\ r >= 1
    BY <1>2
  <2> QED
    BY <1>1, <1>2, <2>1 DEF Before
<1>5. \A p \in Places(documents) : (Passed(p)' <=> Passed(p)) /\ (Here(p)' <=> Here(p))
  <2> TAKE p \in Places(documents)
  <2>1. p[1] \in DOMAIN documents /\ p[2] \in DOMAIN documents[p[1]]
    BY <1>2, AtPlaces DEF ReadInv, AtPlace
  <2> QED
    BY <1>4, <2>1 DEF Passed, Here
<1>6. Taken'
  BY <1>1, <1>5, TakenStays DEF ReadInv
<1>7. Scanned'
  <2>1. Gaps' # {}
    <3>1. document \in Gaps'
      BY <1>1, <1>2 DEF Gaps
    <3> QED
      BY <3>1
  <2>2. reported' # {}
    BY <1>1
  <2>3. \A d \in DOMAIN documents : Before(d, 0)' => Before(d, 0)
    BY <1>1, <1>2 DEF Before
  <2>4. \A d : (RangesOf(documents, d))' = RangesOf(documents, d)
    BY <1>1 DEF RangesOf
  <2> QED
    BY <1>1, <2>1, <2>2, <2>3, <2>4 DEF ReadInv, Scanned
<1>8. AtPlace'
  <2>1. ASSUME document' <= Len(documents)
        PROVE  Len(documents[document']) \in Nat
               /\ ~(range' > Len(documents[document'])) /\ range' \notin DOMAIN documents[document']
    <3>1. document' \in DOMAIN documents
      BY <1>1, <1>2, <2>1
    <3> QED
      BY <1>1, <1>2, <3>1
  <2> QED
    BY <1>1, <1>2, <1>3, <2>1 DEF ReadInv, AtPlace, RangesKnown
<1> QED
  BY <1>6, <1>7, <1>8 DEF ReadInv

LEMMA ReportBlankKeeps ==
  ASSUME ReadInv, ReportBlank
  PROVE  /\ ReadInv' /\ inquiry' = inquiry
<1>1. /\ phase = "reading" /\ phase' = phase /\ documents' = documents
      /\ AtRange /\ Advance /\ ~HasText(Part)
      /\ sources' = sources /\ url_notes' = url_notes
      /\ scanned' = scanned /\ reported' # {} /\ inquiry' = inquiry
      /\ unsupported' = unsupported
      /\ matches' = <<>> /\ notes_here' = <<>>
  BY DEF ReportBlank, AtRange, report_unreadable, Advance
<1>2. /\ AtPlace'
      /\ \A d \in DOMAIN documents : \A r \in DOMAIN documents[d] :
           Before(d, r)' <=> Before(d, r) \/ (d = document /\ r = range)
      /\ \A d \in DOMAIN documents : Before(d, 0)' => Before(d, 0)
      /\ \A p \in Places(documents) :
           /\ Passed(p)' <=> Passed(p) \/ (p[1] = document /\ p[2] = range)
           /\ ~Here(p)'
      /\ Gaps' = Gaps
  BY <1>1, Advances DEF ReadInv
<1>3. document \in DOMAIN documents /\ range \in DOMAIN documents[document]
  BY <1>1, CaseFacts DEF ReadInv, AtPlace, AtRange
<1>4. \A p \in Places(documents) :
        p[1] = document /\ p[2] = range => LineAt(documents, p) = "blank"
  <2> SUFFICES ASSUME NEW p \in Places(documents), p[1] = document, p[2] = range
               PROVE  LineAt(documents, p) = "blank"
    OBVIOUS
  <2>1. p[3] \in DOMAIN Part.lines /\ LineAt(documents, p) = Part.lines[p[3]]
    BY <1>3, AtPlaces, CaseFacts DEF ReadInv, AtPlace, Part, LineAt
  <2> QED
    BY <1>1, <2>1 DEF HasText, ToSet
<1>5. /\ NotesHere' = {} /\ OthersHere' = {}
      /\ PassedNotes' = PassedNotes /\ PassedOthers' = PassedOthers
      /\ PassedRows' = PassedRows
  BY <1>1, <1>2, <1>4 DEF NotesHere, OthersHere, PassedNotes, PassedOthers, PassedRows, RowLine
<1>6. Taken'
  BY <1>1, <1>5, Nothing DEF ReadInv, Taken
<1>7. Scanned'
  <2>1. \A d \in DOMAIN documents : \A r \in DOMAIN documents[d] :
          d = document /\ r = range => Hole(d, r)'
    BY <1>1, <1>2, <1>3 DEF Hole, Part
  <2>2. ~NoHoles'
    BY <1>1, <1>3, <2>1 DEF NoHoles
  <2>3. \A d : (RangesOf(documents, d))' = RangesOf(documents, d)
    BY <1>1 DEF RangesOf
  <2> QED
    BY <1>1, <1>2, <2>2, <2>3 DEF ReadInv, Scanned
<1> QED
  BY <1>1, <1>2, <1>6, <1>7 DEF ReadInv

LEMMA ReadLineKeeps ==
  ASSUME ReadInv, ReadLine
  PROVE  /\ ReadInv' /\ inquiry' = inquiry
<1> DEFINE here == <<document, range, line>>
<1>1. /\ phase = "reading" /\ phase' = phase /\ documents' = documents
      /\ document' = document /\ range' = range /\ line' = line + 1
      /\ sources' = sources /\ url_notes' = url_notes
      /\ scanned' = scanned /\ reported' = reported /\ inquiry' = inquiry
      /\ unsupported' = unsupported /\ line <= Len(Part.lines) /\ AtRange
  BY DEF ReadLine, AtRange, vars
<1>2. /\ document \in DOMAIN documents /\ range \in DOMAIN documents[document]
      /\ line \in DOMAIN Part.lines /\ line \in Nat
      /\ Len(documents) \in Nat /\ Len(documents[document]) \in Nat
      /\ Len(Part.lines) \in Nat
      /\ DOMAIN documents[document] = 1..Len(documents[document])
  <2>1. document \in DOMAIN documents /\ range \in DOMAIN documents[document]
        /\ document <= Len(documents)
    BY <1>1, CaseFacts DEF ReadInv, AtPlace, AtRange
  <2>2. DOMAIN Part.lines = 1..Len(Part.lines) /\ Len(Part.lines) \in Nat
    BY <2>1, CaseFacts DEF ReadInv, AtPlace, Part
  <2>3. line \in 1..(Len(Part.lines) + 1)
    BY <2>1 DEF ReadInv, AtPlace
  <2> QED
    BY <1>1, <2>1, <2>2, <2>3, CaseFacts DEF ReadInv, AtPlace
<1>3. here \in Places(documents) /\ LineAt(documents, here) = Part.lines[line]
  BY <1>2, PlaceFacts DEF ReadInv, AtPlace, Part, LineAt
<1>4. \A p \in Places(documents) : Passed(p)' <=> Passed(p)
  BY <1>1 DEF Passed, Before
<1>5. \A p \in Places(documents) : Here(p)' <=> Here(p) \/ p = here
  <2> TAKE p \in Places(documents)
  <2>1. p = <<p[1], p[2], p[3]>> /\ p[3] \in Nat
    <3>1. /\ p = <<p[1], p[2], p[3]>>
          /\ p[1] \in DOMAIN documents /\ p[2] \in DOMAIN documents[p[1]]
          /\ p[3] \in 1..Len(documents[p[1]][p[2]].lines)
      BY AtPlaces, CaseFacts DEF ReadInv, AtPlace
    <3> QED
      BY <3>1
  <2>2. p = here <=> p[1] = document /\ p[2] = range /\ p[3] = line
    BY <2>1
  <2>3. p[3] < line + 1 <=> p[3] < line \/ p[3] = line
    BY <1>2, <2>1
  <2> QED
    BY <1>1, <2>2, <2>3 DEF Here
<1>6. ~Here(here)
  BY <1>2 DEF Here
<1> DEFINE text == LineAt(documents, here)
<1>7. /\ PassedNotes' = PassedNotes /\ PassedOthers' = PassedOthers
      /\ PassedRows' = PassedRows
  BY <1>1, <1>4 DEF PassedNotes, PassedOthers, PassedRows
<1>8. /\ NotesHere' = IF text = "note" THEN NotesHere \cup {here} ELSE NotesHere
      /\ OthersHere' = IF text \in {"blank", "note"} THEN OthersHere ELSE OthersHere \cup {here}
      /\ here \notin NotesHere /\ here \notin OthersHere
  <2> HIDE DEF here
  <2> QED
    BY <1>1, <1>3, <1>5, <1>6 DEF NotesHere, OthersHere
<1>9. \/ text = "blank" /\ matches' = matches /\ notes_here' = notes_here
      \/ text = "note" /\ notes_here' = Append(notes_here, here) /\ matches' = matches
      \/ text \notin {"blank", "note"} /\ matches' = Append(matches, here) /\ notes_here' = notes_here
  BY <1>3 DEF ReadLine
<1>10. Enumerates(notes_here, NotesHere) /\ Enumerates(matches, OthersHere)
  BY DEF ReadInv, Taken
<1>11. Enumerates(notes_here', NotesHere') /\ Enumerates(matches', OthersHere')
  <2> HIDE DEF here, text
  <2>1. Enumerates(Append(notes_here, here), NotesHere \cup {here})
    BY <1>8, <1>10, OneMore
  <2>2. Enumerates(Append(matches, here), OthersHere \cup {here})
    BY <1>8, <1>10, OneMore
  <2> QED
    BY <1>8, <1>9, <1>10, <2>1, <2>2
<1>12. Taken'
  BY <1>1, <1>7, <1>11 DEF ReadInv, Taken
<1>13. Scanned'
  <2>1. /\ Gaps' = Gaps /\ NoHoles' = NoHoles
        /\ \A d : (RangesOf(documents, d))' = RangesOf(documents, d)
        /\ \A d : Before(d, 0)' <=> Before(d, 0)
    BY <1>1 DEF Gaps, NoHoles, Hole, Before, RangesOf
  <2> QED
    BY <1>1, <2>1 DEF ReadInv, Scanned
<1>14. AtPlace'
  <2>1. Part' = Part
    BY <1>1 DEF Part
  <2>2. ~(range > Len(documents[document])) /\ range # 0
    BY <1>2
  <2>3. line + 1 \in 1..(Len(Part.lines) + 1) /\ line + 1 \in Nat
    BY <1>1, <1>2
  <2> QED
    BY <1>1, <2>1, <2>2, <2>3 DEF ReadInv, AtPlace, RangesKnown
<1> QED
  BY <1>1, <1>12, <1>13, <1>14 DEF ReadInv

(* At the end of a range its lines are all at hand.                        *)
LEMMA InterpretKeeps ==
  ASSUME ReadInv, Interpret
  PROVE  ReadInv' /\ inquiry' = inquiry
<1>1. /\ phase = "reading" /\ phase' = phase /\ documents' = documents
      /\ AtRange /\ Advance /\ HasText(Part) /\ line > Len(Part.lines)
      /\ url_notes' = url_notes \o notes_here
      /\ scanned' = scanned /\ inquiry' = inquiry
      /\ matches' = <<>> /\ notes_here' = <<>>
  BY DEF Interpret, AtRange, report_unreadable, Advance, vars
<1>2. /\ AtPlace'
      /\ \A d \in DOMAIN documents : \A r \in DOMAIN documents[d] :
           Before(d, r)' <=> Before(d, r) \/ (d = document /\ r = range)
      /\ \A d \in DOMAIN documents : Before(d, 0)' => Before(d, 0)
      /\ \A p \in Places(documents) :
           /\ Passed(p)' <=> Passed(p) \/ (p[1] = document /\ p[2] = range)
           /\ ~Here(p)'
      /\ Gaps' = Gaps
  BY <1>1, Advances DEF ReadInv
<1>3. /\ document \in DOMAIN documents /\ range \in DOMAIN documents[document]
      /\ document \in Nat /\ range \in Nat
  BY <1>1, CaseFacts DEF ReadInv, AtPlace, AtRange
<1>4. \A p \in Places(documents) :
        Here(p) <=> p[1] = document /\ p[2] = range
  <2> TAKE p \in Places(documents)
  <2>1. p[1] = document /\ p[2] = range => p[3] \in 1..Len(Part.lines)
    BY AtPlaces DEF ReadInv, AtPlace, Part
  <2>2. Len(Part.lines) \in Nat /\ line \in Nat
    BY <1>3, CaseFacts DEF ReadInv, AtPlace, Part
  <2> QED
    BY <1>1, <2>1, <2>2 DEF Here
<1>5. \A p \in Places(documents) : ~(Passed(p) /\ Here(p))
  BY <1>3 DEF Passed, Here, Before
<1>6. /\ NotesHere' = {} /\ OthersHere' = {}
      /\ PassedNotes' = PassedNotes \cup NotesHere
      /\ PassedOthers' = PassedOthers \cup OthersHere
      /\ PassedNotes \cap NotesHere = {}
      /\ PassedRows \cap OthersHere = {} /\ PassedRows \subseteq PassedRows'
  BY <1>1, <1>2, <1>4, <1>5
     DEF NotesHere, OthersHere, PassedNotes, PassedOthers, PassedRows, RowLine
<1>7. /\ Enumerates(notes_here, NotesHere) /\ Enumerates(matches, OthersHere)
      /\ Enumerates(url_notes, PassedNotes) /\ Enumerates(sources, ToSet(sources))
      /\ ToSet(sources) \subseteq PassedRows
      /\ ~unsupported => PassedOthers \subseteq ToSet(sources)
  BY DEF ReadInv, Taken
<1>8. Enumerates(url_notes', PassedNotes')
  BY <1>1, <1>6, <1>7, AllOfBoth
<1>9. Enumerates(<<>>, {})
  BY Nothing
<1>10. CASE Interpretable
  <2>1. sources' = sources \o matches /\ unsupported' = unsupported /\ reported' = reported
    BY <1>10 DEF Interpret, vars
  <2>2. Enumerates(sources', ToSet(sources) \cup OthersHere)
    BY <1>6, <1>7, <2>1, AllOfBoth
  <2>3. ToSet(sources') = ToSet(sources) \cup OthersHere
    BY <2>2 DEF Enumerates
  <2>4. OthersHere \subseteq PassedRows'
    <3>1. ToSet(matches) = OthersHere
      BY <1>7 DEF Enumerates
    <3>2. \A p \in OthersHere : LineAt(documents, p) \in RowLine
      BY <1>10, <3>1 DEF Interpretable
    <3>3. OthersHere \subseteq {p \in Places(documents) : Here(p)}
      BY DEF OthersHere
    <3> HIDE DEF OthersHere
    <3> QED
      BY <1>1, <1>2, <1>4, <3>2, <3>3 DEF PassedRows
  <2>5. Taken'
    <3> HIDE DEF OthersHere, PassedRows, PassedOthers, PassedNotes, NotesHere
    <3>1. ToSet(sources') \subseteq PassedRows'
      BY <1>6, <1>7, <2>3, <2>4
    <3>2. ~unsupported' => PassedOthers' \subseteq ToSet(sources')
      BY <1>6, <1>7, <2>1, <2>3
    <3>3. ToSet(sources)' = ToSet(sources')
      OBVIOUS
    <3> QED
      BY <1>1, <1>6, <1>8, <1>9, <2>2, <2>3, <3>1, <3>2, <3>3 DEF Taken
  <2>6. Scanned'
    <3>1. NoHoles' <=> NoHoles
      BY <1>1, <1>2 DEF NoHoles, Hole, Part
    <3>2. \A d : (RangesOf(documents, d))' = RangesOf(documents, d)
      BY <1>1 DEF RangesOf
    <3> QED
      BY <1>1, <1>2, <2>1, <3>1, <3>2 DEF ReadInv, Scanned
  <2> QED
    BY <1>1, <1>2, <2>5, <2>6 DEF ReadInv
<1>11. CASE ~Interpretable
  <2>1. sources' = sources /\ unsupported' = TRUE
    BY <1>11 DEF Interpret
  <2>2. Taken'
    <3> HIDE DEF OthersHere, PassedRows, PassedOthers, PassedNotes, NotesHere
    <3> QED
      BY <1>1, <1>6, <1>7, <1>8, <1>9, <2>1 DEF Taken
  <2>3. Scanned'
    <3>1. \A d : (RangesOf(documents, d))' = RangesOf(documents, d)
      BY <1>1 DEF RangesOf
    <3> QED
      BY <1>1, <1>2, <2>1, <3>1 DEF ReadInv, Scanned
  <2> QED
    BY <1>1, <1>2, <2>2, <2>3 DEF ReadInv
<1> QED
  BY <1>10, <1>11

(* What it has read stays as it is when it does not read.                  *)
LEMMA WritingKeeps ==
  ASSUME ReadInv, UNCHANGED <<documents, reading>>,
         RangesKnown', scanned' = scanned, reported' = reported,
         phase' \in Phases, phase' # "reading" => document > Len(documents)
  PROVE  ReadInv'
<1>1. /\ documents' = documents /\ document' = document /\ range' = range
      /\ line' = line /\ matches' = matches /\ notes_here' = notes_here
      /\ sources' = sources /\ url_notes' = url_notes /\ unsupported' = unsupported
  BY DEF reading
<1>2. AtPlace'
  BY <1>1 DEF ReadInv, AtPlace, Part
<1>3. Taken'
  <2>1. \A p \in Places(documents) : (Passed(p)' <=> Passed(p)) /\ (Here(p)' <=> Here(p))
    BY <1>1 DEF Passed, Here, Before
  <2> QED
    BY <1>1, <2>1, TakenStays DEF ReadInv, TakenAs
<1>4. Scanned'
  <2>1. /\ Gaps' = Gaps /\ NoHoles' = NoHoles
        /\ \A d : (RangesOf(documents, d))' = RangesOf(documents, d)
        /\ \A d : Before(d, 0)' <=> Before(d, 0)
    BY <1>1 DEF Gaps, NoHoles, Hole, Before, RangesOf
  <2> QED
    BY <1>1, <2>1 DEF ReadInv, Scanned
<1> QED
  BY <1>2, <1>3, <1>4 DEF ReadInv

-----------------------------------------------------------------------------
(* Numbers, and texts that no contract changes.                            *)

Numbers == 1..(Len(sources) + Len(url_notes))

LEMMA Numbered ==
  ASSUME ReadInv
  PROVE  /\ Len(sources) \in Nat /\ DOMAIN sources = 1..Len(sources)
         /\ Len(url_notes) \in Nat /\ DOMAIN url_notes = 1..Len(url_notes)
         /\ \A k \in Numbers :
              /\ Id(k) \in Names \cap Numerals
              /\ Code("Q-", k) \in Names /\ Code("URL-", k) \in Names
         /\ \A j, k \in Numbers :
              /\ Code("Q-", j) # Code("URL-", k)
              /\ Id(j) = Id(k) => j = k
              /\ Code("Q-", j) = Code("Q-", k) => j = k
              /\ Code("URL-", j) = Code("URL-", k) => j = k
         /\ \A k \in DOMAIN sources :
              /\ LineAt(documents, sources[k]) \in RowLine
              /\ Id(sources[k][1]) \in Documents \cap Numerals
         /\ \A k \in DOMAIN url_notes : Id(url_notes[k][1]) \in Documents \cap Numerals
<1>1. /\ documents \in Cases
      /\ Enumerates(sources, ToSet(sources)) /\ ToSet(sources) \subseteq PassedRows
      /\ Enumerates(url_notes, PassedNotes)
  BY DEF ReadInv, AtPlace, Taken
<1>2. /\ Len(sources) \in Nat /\ DOMAIN sources = 1..Len(sources)
      /\ Len(url_notes) \in Nat /\ DOMAIN url_notes = 1..Len(url_notes)
      /\ \A k \in DOMAIN sources : sources[k] \in PassedRows
      /\ \A k \in DOMAIN url_notes : url_notes[k] \in PassedNotes
  BY <1>1, SequenceFacts DEF Enumerates
<1> DEFINE both == ToSet(sources) \cup PassedNotes
           places == Places(documents)
<1>3. PassedRows \cap PassedNotes = {} /\ PassedRows \subseteq places /\ PassedNotes \subseteq places
  BY DEF PassedRows, PassedNotes, RowLine
<1>4. Enumerates(sources \o url_notes, both)
  BY <1>1, <1>3, AllOfBoth
<1>5. both \subseteq places /\ IsFiniteSet(places) /\ Cardinality(places) \in Nat
  BY <1>1, <1>3, FinitelyManyPlaces
<1> HIDE DEF both, places
<1>6. Cardinality(both) = Len(sources) + Len(url_notes)
  <2>1. Cardinality(both) = Len(sources \o url_notes)
    BY <1>4, Counted
  <2>2. Len(sources \o url_notes) = Len(sources) + Len(url_notes)
    BY <1>1, Joined DEF Enumerates
  <2> QED
    BY <2>1, <2>2
<1>7. Cardinality(both) <= Cardinality(places)
  BY <1>5, FS_Subset
<1>8. Numbers \subseteq 1..Cardinality(places)
  BY <1>2, <1>5, <1>6, <1>7 DEF Numbers
<1>9. /\ \A k \in 1..Cardinality(places) :
           Id(k) \in Names \cap Numerals /\ Code("Q-", k) \in Names /\ Code("URL-", k) \in Names
      /\ \A j, k \in 1..Cardinality(places) :
           /\ Code("Q-", j) # Code("URL-", k)
           /\ j # k => /\ Id(j) # Id(k)
                       /\ Code("Q-", j) # Code("Q-", k)
                       /\ Code("URL-", j) # Code("URL-", k)
      /\ \A d \in DOMAIN documents : Id(d) \in Documents \cap Numerals
  BY <1>1, NumberingAssumption DEF places
<1>10. \A p \in places : p[1] \in DOMAIN documents
  BY <1>1, AtPlaces, CaseFacts DEF places
<1>11. /\ \A k \in DOMAIN sources : LineAt(documents, sources[k]) \in RowLine
       /\ \A k \in DOMAIN sources : Id(sources[k][1]) \in Documents \cap Numerals
       /\ \A k \in DOMAIN url_notes : Id(url_notes[k][1]) \in Documents \cap Numerals
  BY <1>2, <1>3, <1>9, <1>10 DEF PassedRows
<1> QED
  BY <1>2, <1>8, <1>9, <1>11

Plain == Names \cup Numerals \cup {"text"}

LEMMA PlainStays ==
  /\ \A value \in Plain : Strip(value) = value
  /\ Plain \cap {Null, "blank", "wide", "empty", "padded", "vast"} = {}
  /\ Plain \subseteq Nonblank \cup Positive
<1>1. /\ Names \cap {Null, "blank", "wide", "empty", "padded", "vast"} = {}
      /\ Numerals \cap {Null, "blank", "wide", "empty", "padded", "vast"} = {}
  BY NamesAssumption, NumeralsAssumption DEF Unnamed
<1>2. "text" \notin {Null, "blank", "wide", "empty", "padded", "vast"}
  BY DEF Null
<1>3. Plain \cap {Null, "blank", "wide", "empty", "padded", "vast"} = {}
  BY <1>1, <1>2 DEF Plain
<1> QED
  BY <1>3, StripStays, PositiveNumber DEF Plain, Nonblank

(* Nothing gets too wide by being parsed.                                  *)
LEMMA NarrowParsed ==
  ASSUME NEW contract, NEW payload, \A c \in DOMAIN payload : payload[c] # "vast"
  PROVE  \A c \in DOMAIN Parsed(contract, payload) : Parsed(contract, payload)[c] # "vast"
  BY DEF Parsed, Strip, Default, Null

LEMMA EvidenceFits ==
  ASSUME NEW k, NEW field \in {"kind", "qty"}, Id(k) \in Numerals,
         Id(sources[k][1]) \in Documents \cap Numerals
  PROVE  LET payload == DummyEvidence(k, field)
             row == Parsed(EvidenceInput, payload)
         IN
         /\ WellTyped(EvidenceInput, payload)
         /\ row["item_id"] = Id(k) /\ row["field"] = field
         /\ row["document_id"] = Id(sources[k][1])
         /\ row["locator"] = "text" /\ row["quote"] = "text"
         /\ \A c \in DOMAIN row : row[c] # "vast"
<1> DEFINE payload == DummyEvidence(k, field)
           row == Parsed(EvidenceInput, payload)
           document_id == Id(sources[k][1])
<1>1. field \in Names
  BY FieldsAssumption
<1>2. /\ DOMAIN payload = {"item_id", "document_id"} \cup EvidenceTexts
      /\ payload["item_id"] = Id(k) /\ payload["document_id"] = document_id
      /\ payload["field"] = field
      /\ \A c \in {"raw_value", "adopted_value", "locator", "quote"} : payload[c] = "text"
  BY DEF DummyEvidence, EvidenceTexts
<1> HIDE DEF payload
<1>3. /\ Strip(Id(k)) = Id(k) /\ Strip(document_id) = document_id /\ Strip(field) = field
      /\ Strip("text") = "text"
      /\ Id(k) # "vast" /\ document_id # "vast" /\ field # "vast"
      /\ Id(k) \in Positive /\ document_id \in Positive
      /\ field \in Nonblank /\ "text" \in Nonblank
  BY <1>1, PlainStays, PositiveNumber DEF Plain, Nonblank
<1> HIDE DEF document_id
<1>4. /\ row["item_id"] = Id(k) /\ row["document_id"] = document_id /\ row["field"] = field
      /\ \A c \in {"raw_value", "adopted_value", "locator", "quote"} : row[c] = "text"
      /\ \A c \in EvidenceNotes : row[c] = Null
  BY <1>2, <1>3, EvidenceColumns DEF Parsed, Default, EvidenceTexts, EvidenceNotes
<1> HIDE DEF row
<1>5. WellTyped(EvidenceInput, payload)
  <2>1. \A c \in DOMAIN EvidenceInput : row[c] \in EvidenceInput[c]
    BY <1>3, <1>4, EvidenceColumns DEF EvidenceTexts, EvidenceNotes
  <2> QED
    BY <1>2, <2>1, EvidenceColumns DEF WellTyped, row, EvidenceTexts
<1>6. \A c \in DOMAIN payload : payload[c] # "vast"
  BY <1>2, <1>3 DEF EvidenceTexts
<1>7. \A c \in DOMAIN row : row[c] # "vast"
  BY <1>6, NarrowParsed DEF row
<1> QED
  BY <1>4, <1>5, <1>7 DEF row, payload, document_id

LEMMA QuestionFits ==
  ASSUME NEW payload,
         DOMAIN payload \subseteq {"question_code", "item_id", "target_field", "reason",
                                   "category"},
         {"question_code", "target_field", "reason"} \subseteq DOMAIN payload,
         payload["question_code"] \in Names, payload["target_field"] \in Names,
         payload["reason"] = "text",
         "item_id" \in DOMAIN payload => payload["item_id"] \in Numerals,
         "category" \in DOMAIN payload =>
           payload["category"] \in {"unknown", "reference_missing"}
  PROVE  LET row == Parsed(QuestionInput, payload) IN
         /\ WellTyped(QuestionInput, payload)
         /\ row["question_code"] = payload["question_code"]
         /\ row["item_id"] = IF "item_id" \in DOMAIN payload THEN payload["item_id"] ELSE Null
         /\ row["category"] # "conflict"
         /\ \A c \in DOMAIN row : row[c] # "vast"
<1> DEFINE row == Parsed(QuestionInput, payload)
<1>1. /\ \A c \in {"question_code", "target_field"} :
           Strip(payload[c]) = payload[c] /\ payload[c] \in Nonblank /\ payload[c] # "vast"
      /\ Strip("text") = "text" /\ "text" \in Nonblank
      /\ "item_id" \in DOMAIN payload =>
           /\ Strip(payload["item_id"]) = payload["item_id"]
           /\ payload["item_id"] \in Positive /\ payload["item_id"] # "vast"
      /\ Strip("unknown") = "unknown" /\ Strip("reference_missing") = "reference_missing"
  BY PlainStays, PositiveNumber, StripStays DEF Plain, Nonblank
<1>2. /\ \A c \in {"question_code", "target_field"} : row[c] = payload[c]
      /\ row["reason"] = "text" /\ row["candidates"] = Null
      /\ row["item_id"] = IF "item_id" \in DOMAIN payload THEN payload["item_id"] ELSE Null
      /\ row["category"] = IF "category" \in DOMAIN payload THEN payload["category"] ELSE Null
  BY <1>1, QuestionColumns DEF Parsed, Default
<1> HIDE DEF row
<1>3. row["category"] \in {"unknown", "reference_missing", Null}
  BY <1>2
<1>4. WellTyped(QuestionInput, payload)
  <2>1. \A c \in DOMAIN QuestionInput : row[c] \in QuestionInput[c]
    BY <1>1, <1>2, <1>3, QuestionColumns
  <2> QED
    BY <2>1, QuestionColumns DEF WellTyped, row
<1>5. \A c \in DOMAIN payload : payload[c] # "vast"
  BY <1>1
<1>6. \A c \in DOMAIN row : row[c] # "vast"
  BY <1>5, NarrowParsed DEF row
<1> QED
  BY <1>2, <1>3, <1>4, <1>6 DEF row, Null

LEMMA EntryFits ==
  ASSUME NEW k, NEW place, NEW status, NEW payload,
         status \in {"mapped", "excluded"},
         payload = DummyEntry(k, place, status)
                   ++ IF status = "excluded" THEN [basis |-> "text"] ELSE [source_no |-> "text"],
         Id(k) \in Numerals, Id(place[1]) \in Documents \cap Numerals
  PROVE  LET row == Parsed(InventoryInput, payload) IN
         /\ WellTyped(InventoryInput, payload)
         /\ row["status"] = status /\ row["document_id"] = Id(place[1])
         /\ status = "excluded" => row["basis"] = "text"
         /\ \A c \in DOMAIN row : row[c] # "vast"
<1> DEFINE row == Parsed(InventoryInput, payload)
           document_id == Id(place[1])
           given == {"document_id", "position", "seq", "excerpt", "status"}
<1>1. /\ DOMAIN payload = given \cup {IF status = "excluded" THEN "basis" ELSE "source_no"}
      /\ payload["document_id"] = document_id /\ payload["seq"] = Id(k)
      /\ payload["position"] = "text" /\ payload["excerpt"] = "text"
      /\ payload["status"] = status
      /\ IF status = "excluded" THEN payload["basis"] = "text"
         ELSE payload["source_no"] = "text"
  BY DEF DummyEntry, ++
<1>2. /\ Strip(document_id) = document_id /\ document_id \in Positive /\ document_id # "vast"
      /\ Strip(Id(k)) = Id(k) /\ Id(k) \in Positive /\ Id(k) # "vast"
      /\ Strip("text") = "text" /\ "text" \in Nonblank
      /\ Strip(status) = status /\ status \in {"mapped", "excluded"}
  <2>1. Strip("mapped") = "mapped" /\ Strip("excluded") = "excluded"
    BY StripStays
  <2> QED
    BY <2>1, PlainStays, PositiveNumber DEF Plain, Nonblank
<1> HIDE DEF document_id
<1>3. /\ row["document_id"] = document_id /\ row["seq"] = Id(k)
      /\ row["position"] = "text" /\ row["excerpt"] = "text" /\ row["status"] = status
      /\ row["basis"] = IF status = "excluded" THEN "text" ELSE Null
      /\ row["source_no"] = IF status = "excluded" THEN Null ELSE "text"
      /\ row["status_detail"] = Null
  BY <1>1, <1>2, InventoryColumns DEF Parsed, Default
<1> HIDE DEF row
<1>4. WellTyped(InventoryInput, payload)
  <2>1. \A c \in DOMAIN InventoryInput : row[c] \in InventoryInput[c]
    BY <1>2, <1>3, InventoryColumns
  <2> QED
    BY <1>1, <2>1, InventoryColumns DEF WellTyped, row
<1>5. \A c \in DOMAIN payload : payload[c] # "vast"
  BY <1>1, <1>2
<1>6. \A c \in DOMAIN row : row[c] # "vast"
  BY <1>5, NarrowParsed DEF row
<1> QED
  BY <1>3, <1>4, <1>6 DEF row, document_id

(* A row states nothing but its quantity.                                  *)
LEMMA RowFits ==
  ASSUME NEW k, NEW qty \in RowLine, Id(k) \in Names \cap Numerals
  PROVE  LET row == Parsed(ItemInput, DummyRow(k, qty)) IN
         /\ WellTyped(ItemInput, DummyRow(k, qty))
         /\ consistency_errors(row, <<>>) = {}
         /\ row["row_code"] = Id(k) /\ row["group_code"] = Null
         /\ required(row) \subseteq {"kind", "qty"}
         /\ qty = "vast" => "qty_value" \in DOMAIN row /\ row["qty_value"] = "vast"
         /\ qty # "vast" => \A c \in DOMAIN row : row[c] # "vast"
<1> DEFINE payload == DummyRow(k, qty)
           row == Parsed(ItemInput, payload)
           valued == {"qty_value", "qty_unit"}
           numeric == qty \in {"number", "vast"}
           qty_state == CASE qty \in {"number", "vast"} -> "numeric"
                          [] qty = "TBA" -> "tba"
                          [] qty = "not applicable" -> "not_applicable"
           given == Texts \cup Stated \cup {"seq", "qty_state"}
<1>1. /\ DOMAIN payload = IF numeric THEN given \cup valued ELSE given
      /\ payload["row_code"] = Id(k) /\ payload["seq"] = Id(k)
      /\ \A c \in Texts \ {"row_code"} : payload[c] = "text"
      /\ \A c \in Stated : payload[c] = "not_stated"
      /\ payload["qty_state"] = qty_state
      /\ numeric => payload["qty_value"] = qty /\ payload["qty_unit"] = "text"
  <2>1. DOMAIN StatedBy = Stated
    BY DEF StatedBy, Stated
  <2> DEFINE head == [row_code |-> Id(k), source_no |-> "text", seq |-> Id(k), kind |-> "text",
                      kind_raw |-> "text", grade_raw |-> "text", qty_raw |-> "text",
                      qty_state |-> qty_state]
             states == [state \in DOMAIN StatedBy |-> "not_stated"]
             tail == IF numeric THEN [qty_value |-> qty, qty_unit |-> "text"] ELSE <<>>
  <2>2. payload = head ++ states ++ tail
    BY Zenon DEF DummyRow
  <2> HIDE DEF qty_state
  <2>3. /\ DOMAIN head = Texts \cup {"seq", "qty_state"}
        /\ head["row_code"] = Id(k) /\ head["seq"] = Id(k) /\ head["qty_state"] = qty_state
        /\ \A c \in Texts \ {"row_code"} : head[c] = "text"
    BY DEF Texts
  <2>4. DOMAIN states = Stated /\ \A c \in Stated : states[c] = "not_stated"
    BY <2>1
  <2>5. /\ DOMAIN tail = IF numeric THEN valued ELSE {}
        /\ numeric => tail["qty_value"] = qty /\ tail["qty_unit"] = "text"
    OBVIOUS
  <2>6. Stated \cap (Texts \cup {"seq", "qty_state"}) = {} /\ valued \cap given = {}
    BY DEF Stated, Texts
  <2> HIDE DEF head, states, tail, payload
  <2> QED
    BY <2>2, <2>3, <2>4, <2>5, <2>6 DEF ++, Texts
<1>2. /\ Strip(Id(k)) = Id(k) /\ Id(k) \in Nonblank /\ Id(k) \in Positive /\ Id(k) # "vast"
      /\ Strip("text") = "text" /\ "text" \in Nonblank
      /\ Strip("not_stated") = "not_stated"
      /\ numeric => Strip(qty) = qty
      /\ Strip(qty_state) = qty_state
      /\ qty_state \in {"numeric", "tba", "not_applicable"}
      /\ qty_state = "numeric" <=> numeric
  <2>1. /\ Strip("not_stated") = "not_stated"
        /\ numeric => Strip(qty) = qty
        /\ Strip("numeric") = "numeric" /\ Strip("tba") = "tba"
        /\ Strip("not_applicable") = "not_applicable"
    BY StripStays
  <2>2. /\ qty_state \in {"numeric", "tba", "not_applicable"}
        /\ qty_state = "numeric" <=> numeric
    BY DEF RowLine
  <2>3. /\ Strip(Id(k)) = Id(k) /\ Id(k) \in Nonblank /\ Id(k) \in Positive /\ Id(k) # "vast"
        /\ Strip("text") = "text" /\ "text" \in Nonblank
    BY PlainStays, PositiveNumber DEF Plain, Nonblank
  <2> HIDE DEF qty_state
  <2> QED
    BY <2>1, <2>2, <2>3
<1>0. numeric => qty \in {"number", "vast"}
  OBVIOUS
<1> HIDE DEF payload, qty_state
<1>3. /\ row["row_code"] = Id(k) /\ row["seq"] = Id(k)
      /\ \A c \in Texts \ {"row_code"} : row[c] = "text"
      /\ \A c \in Stated : row[c] = "not_stated"
      /\ row["qty_state"] = qty_state
      /\ row["qty_value"] = IF numeric THEN qty ELSE Null
      /\ row["qty_unit"] = IF numeric THEN "text" ELSE Null
      /\ \A c \in Measured \ {"qty_value"} : row[c] = Null
      /\ \A c \in Notes \ {"qty_unit"} : row[c] = Null
      /\ row["is_inherit_candidate"] = "false"
  <2>1. \A c \in DOMAIN ItemInput :
          row[c] = IF c \in DOMAIN payload THEN Strip(payload[c]) ELSE Default(c)
    BY DEF Parsed
  <2>2. \A c : Default(c) = IF c = "is_inherit_candidate" THEN "false" ELSE Null
    BY DEF Default
  <2>3. /\ Measured \cap given = {} /\ Notes \cap given = {}
        /\ "is_inherit_candidate" \notin given \cup valued \cup Measured \cup Notes
        /\ "qty_value" \in Measured /\ "qty_unit" \in Notes
        /\ "qty_value" \notin Notes /\ "qty_unit" \notin Measured
        /\ "row_code" \in Texts
    BY DEF Measured, Notes, Texts, Stated
  <2>4. given \cup Measured \cup Notes \cup {"is_inherit_candidate"} \subseteq DOMAIN ItemInput
    BY ItemColumns
  <2> HIDE DEF row
  <2>5. \A c \in given : row[c] = Strip(payload[c])
    BY <1>1, <2>1, <2>4
  <2>6. \A c \in (Measured \cup Notes) \ valued : row[c] = Null
    BY <1>1, <2>1, <2>2, <2>3, <2>4
  <2>7. row["is_inherit_candidate"] = "false"
    BY <1>1, <2>1, <2>2, <2>3, <2>4
  <2>8. numeric => row["qty_value"] = qty /\ row["qty_unit"] = "text"
    <3> SUFFICES ASSUME numeric
                 PROVE  row["qty_value"] = qty /\ row["qty_unit"] = "text"
      OBVIOUS
    <3>1. valued \subseteq DOMAIN payload \cap DOMAIN ItemInput
      BY <1>1, <2>3, <2>4
    <3>2. payload["qty_value"] = qty /\ payload["qty_unit"] = "text" /\ Strip(qty) = qty
      BY <1>1, <1>2
    <3> QED
      BY <1>2, <2>1, <3>1, <3>2
  <2>9. ~numeric => row["qty_value"] = Null /\ row["qty_unit"] = Null
    <3> SUFFICES ASSUME ~numeric
                 PROVE  row["qty_value"] = Null /\ row["qty_unit"] = Null
      OBVIOUS
    <3>1. "qty_value" \notin DOMAIN payload /\ "qty_unit" \notin DOMAIN payload
      BY <1>1, <2>3
    <3> QED
      BY <2>1, <2>2, <2>3, <2>4, <3>1
  <2> HIDE DEF numeric
  <2>10. /\ row["qty_value"] = IF numeric THEN qty ELSE Null
         /\ row["qty_unit"] = IF numeric THEN "text" ELSE Null
    BY <2>8, <2>9, Zenon
  <2>11. /\ row["row_code"] = Id(k) /\ row["seq"] = Id(k)
         /\ \A c \in Texts \ {"row_code"} : row[c] = "text"
         /\ \A c \in Stated : row[c] = "not_stated"
         /\ row["qty_state"] = qty_state
    BY <1>1, <1>2, <2>3, <2>5
  <2>12. /\ \A c \in Measured \ {"qty_value"} : row[c] = Null
         /\ \A c \in Notes \ {"qty_unit"} : row[c] = Null
    BY <2>3, <2>6
  <2> QED
    BY <2>7, <2>10, <2>11, <2>12, Zenon
<1> HIDE DEF row
<1>4. \A c \in DOMAIN ItemInput : row[c] \in ItemInput[c]
  <2>1. \A c \in Texts : row[c] \in Nonblank
    BY <1>2, <1>3
  <2>2. \A c \in Notes : row[c] \in Nonblank \cup {Null}
    BY <1>2, <1>3
  <2>3. \A c \in Measured : row[c] \in Number \cup {Null}
    BY <1>0, <1>3 DEF Number
  <2>4. \A c \in Stated : row[c] \in State
    BY <1>3 DEF State
  <2> QED
    BY <1>2, <1>3, <2>1, <2>2, <2>3, <2>4, ItemColumns
<1>5. WellTyped(ItemInput, payload)
  <2>1. given \cup valued \subseteq DOMAIN ItemInput
    BY ItemColumns DEF Measured, Notes
  <2> QED
    BY <1>1, <1>4, <2>1 DEF WellTyped, row
<1>6. DOMAIN row = DOMAIN ItemInput
  BY DEF row, Parsed
<1>7. /\ qty = "vast" => "qty_value" \in DOMAIN row /\ row["qty_value"] = "vast"
      /\ qty # "vast" => \A c \in DOMAIN row : row[c] # "vast"
  <2>1. qty # "vast" => \A c \in DOMAIN payload : payload[c] # "vast"
    BY <1>1, <1>2
  <2>2. qty = "vast" => numeric /\ "qty_value" \in DOMAIN ItemInput
    BY ItemColumns DEF Measured
  <2> QED
    BY <1>3, <1>6, <2>1, <2>2, NarrowParsed DEF row
<1> HIDE DEF payload
<1>8. \A m \in {"od", "wall", "weight", "length"} : row[ValueOf[m]] = Null
  BY <1>3 DEF ValueOf, Measured
<1>9. \A state \in DOMAIN StatedBy :
        row[state] # "stated" /\ ~Given(row, StatedBy[state])
  <2>1. /\ DOMAIN StatedBy = Stated
        /\ \A state \in Stated : StatedBy[state] \subseteq (Measured \cup Notes) \ valued
    BY DEF StatedBy, Stated, Measured, Notes
  <2> QED
    BY <1>3, <2>1 DEF Given, Value, Null
<1>10. consistency_errors(row, <<>>) = {}
  <2>1. {column \in {"qty_state"} :
           (row["qty_state"] = "numeric") # (row["qty_value"] # Null)} = {}
    <3>1. (row["qty_state"] = "numeric") <=> (row["qty_value"] # Null)
      BY <1>0, <1>2, <1>3 DEF Null
    <3> QED
      BY <3>1, Zenon
  <2>2. {column \in {"qty_unit"} :
           row["qty_state"] = "numeric" /\ row["qty_unit"] = Null} = {}
    BY <1>2, <1>3 DEF Null
  <2>3. {UnitOf[name] : name \in {measure \in {"od", "wall", "weight", "length"} :
          row[ValueOf[measure]] # Null /\ row[UnitOf[measure]] = Null}} = {}
    BY <1>8
  <2>4. {state \in DOMAIN StatedBy :
          (row[state] = "stated") # Given(row, StatedBy[state])} = {}
    <3>1. ASSUME NEW state \in DOMAIN StatedBy
          PROVE  ~((row[state] = "stated") # Given(row, StatedBy[state]))
      BY <1>9, <3>1, Zenon DEF Given
    <3> QED
      BY <3>1, Zenon
  <2>5. {column \in {"group_code"} :
          row["candidate_label"] # Null /\ row["group_code"] = Null} = {}
    BY <1>3 DEF Notes
  <2>6. {column \in {"ends"} : ~Unique(<<>>, {"side"})} = {}
    BY DEF Unique, UniqueAmong
  <2> QED
    BY <2>1, <2>2, <2>3, <2>4, <2>5, <2>6, Zenon DEF consistency_errors
<1>11. required(row) \subseteq {"kind", "qty"}
  <2>1. \A name \in DOMAIN StateOf : row[StateOf[name]] \in {"tba", "not_applicable"} => name = "qty"
    BY <1>3 DEF StateOf, Stated
  <2>2. \A name \in DOMAIN ValueOf : row[ValueOf[name]] # Null => name = "qty"
    BY <1>8 DEF ValueOf
  <2>3. \A name \in DOMAIN TextOf : ~Present(row, TextOf[name])
    <3>1. \A name \in DOMAIN TextOf : TextOf[name] \in Notes \ {"qty_unit"}
      BY DEF TextOf, Notes
    <3> QED
      BY <1>3, <3>1 DEF Present, Value
  <2> QED
    BY <2>1, <2>2, <2>3 DEF required
<1>12. row["group_code"] = Null
  BY <1>3 DEF Notes
<1> QED
  BY <1>3, <1>5, <1>7, <1>10, <1>11, <1>12 DEF row, payload

-----------------------------------------------------------------------------
(* What it has drawn up, and what of that is in the tables.                *)

EvidenceOf(rows) == {DummyEvidence(k, field) : k \in rows, field \in {"kind", "qty"}}
QuestionOn(k) == IF k <= Len(sources) THEN TbaQuestion(k) ELSE NoteQuestion(k)
EntryOn(k) == IF k <= Len(sources) THEN MappedEntry(k) ELSE NoteEntry(k)

Sourced == {k \in DOMAIN entries : k <= Len(sources)}
Asked == {k \in DOMAIN entries :
            k > Len(sources) \/ LineAt(documents, sources[k]) = "TBA"}

DrawnUp ==
  /\ phase \notin PastItems => evidences = <<>> /\ questions = <<>> /\ entries = <<>>
  /\ phase \in {"header"} \cup PastHeader => ~unsupported /\ sources # <<>>
  /\ phase \in PastEvidence => Len(entries) = Len(sources) + Len(url_notes)
  /\ IsSequence(entries) /\ Len(entries) <= Len(sources) + Len(url_notes)
  /\ \A k \in DOMAIN entries : entries[k] = EntryOn(k)
  /\ Enumerates(evidences, EvidenceOf(Sourced))
  /\ Enumerates(questions, {QuestionOn(k) : k \in Asked})

(* A quantity wider than its column.                                       *)
Overlong == \E k \in DOMAIN sources : LineAt(documents, sources[k]) = "vast"

Written ==
  /\ draft.case_headers =
       IF phase \in PastHeader THEN <<Parsed(HeaderInput, DummyHeader)>> ELSE <<>>
  /\ draft.items = IF phase \in PastItems THEN ItemRows(DummyRows) ELSE <<>>
  /\ draft.item_ends = IF phase \in PastItems THEN EndRows(DummyRows) ELSE <<>>
  /\ draft.evidences =
       IF phase \in PastEvidence THEN Parse(EvidenceInput, evidences) ELSE <<>>
  /\ draft.questions =
       IF phase \in PastQuestions THEN Parse(QuestionInput, questions)
       ELSE IF phase = "local_dummy_unsupported"
       THEN Parse(QuestionInput, UnsupportedQuestion) ELSE <<>>
  /\ draft.source_inventory_entries =
       IF phase \in PastInventory THEN EntryRows(entries) ELSE <<>>
  /\ draft.inventory_links =
       IF phase \in PastInventory THEN LinkRows(entries) ELSE <<>>
  /\ Fits(draft)
  /\ phase = "raised" => Overlong
  /\ phase \in PastItems => ~Overlong
  /\ aborted = IF phase = "raised" THEN {<<"propose_items", "width">>} ELSE {}
  /\ finalized = IF phase # "done" THEN "open"
                 ELSE IF Issues = {} THEN "complete" ELSE "incomplete"

(* An empty table takes just what is added.                                *)
LEMMA FirstRows ==
  ASSUME NEW rows, IsSequence(rows)
  PROVE  <<>> \o rows = rows
  BY DEF IsSequence

LEMMA HeaderStep ==
  ASSUME DraftOK(draft), Fits(draft), draft.case_headers = <<>>
  PROVE  LET next == WithHeader(draft, DummyHeader) IN
         /\ HeaderAccepted(draft, DummyHeader) /\ DraftOK(next) /\ Fits(next)
         /\ next = [draft EXCEPT !.case_headers = <<Parsed(HeaderInput, DummyHeader)>>]
<1> DEFINE row == Parsed(HeaderInput, DummyHeader)
           next == WithHeader(draft, DummyHeader)
<1>1. DummyHeader = PlainHeader
  BY DEF DummyHeader, PlainHeader
<1>2. /\ WellTyped(HeaderInput, DummyHeader) /\ consistent_values(row)
      /\ \A c \in DOMAIN row : row[c] # "vast"
  BY <1>1, PlainHeaderFits
<1>3. HeaderAccepted(draft, DummyHeader)
  BY <1>2 DEF HeaderAccepted
<1>4. DraftOK(next)
  BY <1>3, HeaderKept
<1> HIDE DEF row
<1>5. Narrow(<<row>>)
  BY <1>2 DEF Narrow, ToSet
<1>6. next = [draft EXCEPT !.case_headers = <<row>>]
  BY DEF WithHeader, row
<1>7. DOMAIN draft = Tables
  BY DEF DraftOK
<1> HIDE DEF next
<1>8. Fits(next)
  <2>1. /\ next.case_headers = <<row>>
        /\ \A table \in Tables \ {"case_headers"} : next[table] = draft[table]
    BY <1>6, <1>7 DEF Tables
  <2> QED
    BY <1>5, <2>1 DEF Fits, Tables
<1> QED
  BY <1>3, <1>4, <1>6, <1>8 DEF next, row

LEMMA DummyItems ==
  ASSUME ReadInv
  PROVE  /\ IsSequence(DummyRows) /\ IsSequence(ItemRows(DummyRows))
         /\ IsSequence(EndRows(DummyRows))
         /\ DOMAIN DummyRows = DOMAIN sources /\ DOMAIN ItemRows(DummyRows) = DOMAIN sources
         /\ DOMAIN EndRows(DummyRows) = DOMAIN sources
         /\ Len(ItemRows(DummyRows)) = Len(sources)
         /\ Ids(ItemRows(DummyRows)) = {Id(k) : k \in DOMAIN sources}
         /\ \A k \in DOMAIN sources :
              LET row == ItemRows(DummyRows)[k] IN
              /\ DummyRows[k].ends = <<>> /\ EndRows(DummyRows)[k] = <<>>
              /\ WellTyped(ItemInput, DummyRows[k].payload)
              /\ consistency_errors(row, <<>>) = {}
              /\ row["row_code"] = Id(k) /\ row["group_code"] = Null
              /\ row = Parsed(ItemInput, DummyRow(k, LineAt(documents, sources[k])))
              /\ required(row) \subseteq {"kind", "qty"}
              /\ LineAt(documents, sources[k]) = "vast" =>
                   "qty_value" \in DOMAIN row /\ row["qty_value"] = "vast"
              /\ LineAt(documents, sources[k]) # "vast" =>
                   \A c \in DOMAIN row : row[c] # "vast"
<1> DEFINE rows == ItemRows(DummyRows)
           ends == EndRows(DummyRows)
           payload(k) == DummyRow(k, LineAt(documents, sources[k]))
<1>1. /\ Len(sources) \in Nat /\ DOMAIN sources = 1..Len(sources)
      /\ IsSequence(sources)
  BY Numbered DEF ReadInv, Taken, Enumerates
<1>2. /\ DOMAIN DummyRows = DOMAIN sources
      /\ \A k \in DOMAIN sources : DummyRows[k].payload = payload(k) /\ DummyRows[k].ends = <<>>
      /\ DummyRows = [k \in DOMAIN sources |-> DummyRows[k]]
  BY DEF DummyRows
<1>3. IsSequence(DummyRows)
  BY <1>1, <1>2, Drawn
<1>4. /\ DOMAIN rows = DOMAIN sources /\ rows = [k \in DOMAIN DummyRows |-> rows[k]]
      /\ \A k \in DOMAIN sources : rows[k] = Parsed(ItemInput, payload(k))
  BY <1>2 DEF ItemRows
<1>5. Parse(EndInput, <<>>) = <<>>
  BY DEF Parse
<1>6. /\ DOMAIN ends = DOMAIN sources /\ ends = [k \in DOMAIN DummyRows |-> ends[k]]
      /\ \A k \in DOMAIN sources : ends[k] = <<>>
  BY <1>2, <1>5 DEF EndRows
<1>7. IsSequence(rows) /\ IsSequence(ends) /\ Len(rows) = Len(sources)
  <2>1. Len(DummyRows) = Len(sources)
    BY <1>1, <1>2, <1>3, SequenceFacts
  <2> HIDE DEF rows, ends
  <2> QED
    BY <1>3, <1>4, <1>6, <2>1, Drawn
<1>8. \A k \in DOMAIN sources :
        LineAt(documents, sources[k]) \in RowLine /\ Id(k) \in Names \cap Numerals
  BY <1>1, Numbered DEF Numbers
<1>9. \A k \in DOMAIN sources :
        LET row == rows[k] IN
        /\ WellTyped(ItemInput, payload(k))
        /\ consistency_errors(row, <<>>) = {}
        /\ row["row_code"] = Id(k) /\ row["group_code"] = Null
        /\ row = Parsed(ItemInput, payload(k))
        /\ required(row) \subseteq {"kind", "qty"}
        /\ LineAt(documents, sources[k]) = "vast" =>
             "qty_value" \in DOMAIN row /\ row["qty_value"] = "vast"
        /\ LineAt(documents, sources[k]) # "vast" =>
             \A c \in DOMAIN row : row[c] # "vast"
  <2> HIDE DEF rows
  <2> TAKE k \in DOMAIN sources
  <2>1. rows[k] = Parsed(ItemInput, DummyRow(k, LineAt(documents, sources[k])))
    BY <1>4
  <2> QED
    BY <1>8, <2>1, RowFits
<1>10. Ids(rows) = {Id(k) : k \in DOMAIN sources}
  BY <1>4 DEF Ids
<1> HIDE DEF rows, ends
<1>11. /\ IsSequence(DummyRows) /\ IsSequence(rows) /\ IsSequence(ends)
       /\ DOMAIN DummyRows = DOMAIN sources /\ DOMAIN rows = DOMAIN sources
       /\ DOMAIN ends = DOMAIN sources /\ Len(rows) = Len(sources)
       /\ Ids(rows) = {Id(k) : k \in DOMAIN sources}
       /\ \A k \in DOMAIN sources :
            DummyRows[k].payload = payload(k) /\ DummyRows[k].ends = <<>> /\ ends[k] = <<>>
  BY <1>2, <1>3, <1>4, <1>6, <1>7, <1>10
<1> QED
  BY <1>9, <1>11, Zenon DEF rows, ends

LEMMA ItemsStep ==
  ASSUME ReadInv, DraftOK(draft), Fits(draft), draft.items = <<>>, draft.item_ends = <<>>
  PROVE  LET next == WithItems(draft, DummyRows) IN
         /\ ItemsAccepted(draft, DummyRows) /\ DraftOK(next) /\ (Fits(next) <=> ~Overlong)
         /\ next = [draft EXCEPT !.items = ItemRows(DummyRows),
                                 !.item_ends = EndRows(DummyRows)]
<1> DEFINE rows == ItemRows(DummyRows)
           ends == EndRows(DummyRows)
           next == WithItems(draft, DummyRows)
<1>1. /\ IsSequence(DummyRows) /\ IsSequence(rows) /\ IsSequence(ends)
      /\ DOMAIN DummyRows = DOMAIN sources /\ DOMAIN rows = DOMAIN sources
      /\ DOMAIN ends = DOMAIN sources
      /\ \A k \in DOMAIN sources :
           /\ DummyRows[k].ends = <<>> /\ ends[k] = <<>>
           /\ WellTyped(ItemInput, DummyRows[k].payload)
           /\ consistency_errors(rows[k], <<>>) = {}
           /\ rows[k]["row_code"] = Id(k)
           /\ LineAt(documents, sources[k]) = "vast" =>
                "qty_value" \in DOMAIN rows[k] /\ rows[k]["qty_value"] = "vast"
           /\ LineAt(documents, sources[k]) # "vast" =>
                \A c \in DOMAIN rows[k] : rows[k][c] # "vast"
  BY DummyItems
<1>2. \A j, k \in DOMAIN sources : Id(j) = Id(k) => j = k
  BY Numbered DEF Numbers
<1>3. draft.items \o rows = rows /\ draft.item_ends \o ends = ends
  BY <1>1, FirstRows
<1>4. ToSet(<<>>) = {}
  BY Nothing
<1>5. Unique(draft.items \o rows, {"row_code"})
  <2> HIDE DEF rows, ends
  <2> QED
    BY <1>1, <1>2, <1>3 DEF Unique, UniqueAmong
<1>6. ItemsAccepted(draft, DummyRows)
  <2>1. \A k \in DOMAIN DummyRows :
          /\ WellTyped(ItemInput, DummyRows[k].payload)
          /\ \A end \in ToSet(DummyRows[k].ends) :
               WellTyped(EndInput, end) /\ unit_required(Parsed(EndInput, end))
          /\ consistency_errors(rows[k], ends[k]) = {}
    <3> HIDE DEF rows, ends
    <3> QED
      BY <1>1, <1>4
  <2> QED
    BY <1>5, <2>1 DEF ItemsAccepted
<1>7. DraftOK(next)
  <2>1. \A item \in ToSet(DummyRows) : IsSequence(item.ends)
    BY <1>1, SequenceFacts, Nothing
  <2> QED
    BY <1>1, <1>6, <2>1, ItemsKept
<1>8. next = [draft EXCEPT !.items = rows, !.item_ends = ends]
  BY <1>3 DEF WithItems
<1> HIDE DEF rows, ends, next
<1>9. Fits(next) <=> ~Overlong
  <2>1. DOMAIN draft = Tables
    BY DEF DraftOK
  <2>2. /\ next.items = rows /\ next.item_ends = ends
        /\ \A table \in Tables \ {"items", "item_ends"} : next[table] = draft[table]
    BY <1>8, <2>1 DEF Tables
  <2>3. Narrow(rows) <=> ~Overlong
    <3>1. Narrow(rows) <=>
            \A k \in DOMAIN rows : \A c \in DOMAIN rows[k] : rows[k][c] # "vast"
      BY DEF Narrow, ToSet
    <3> QED
      BY <1>1, <3>1 DEF Overlong
  <2>4. \A e \in ToSet(ends) : Narrow(e)
    <3>1. \A e \in ToSet(ends) : e = <<>>
      BY <1>1, SequenceFacts
    <3> QED
      BY <1>4, <3>1 DEF Narrow
  <2> QED
    BY <2>2, <2>3, <2>4 DEF Fits, Tables
<1> QED
  BY <1>6, <1>7, <1>8, <1>9 DEF rows, ends, next

(* What it has drawn up is numbered as the lines it is about.              *)
LEMMA DrawnUpNumbers ==
  ASSUME ReadInv, DrawnUp
  PROVE  /\ DOMAIN entries = 1..Len(entries) /\ Len(entries) \in Nat
         /\ DOMAIN entries \subseteq Numbers /\ Asked \subseteq Numbers
         /\ Sourced \subseteq Numbers /\ Sourced \subseteq DOMAIN sources
         /\ \A k \in Asked : k <= Len(sources) => k \in DOMAIN sources
         /\ \A k \in Numbers :
              k > Len(sources) => k - Len(sources) \in DOMAIN url_notes
<1>1. /\ Len(sources) \in Nat /\ DOMAIN sources = 1..Len(sources)
      /\ Len(url_notes) \in Nat /\ DOMAIN url_notes = 1..Len(url_notes)
  BY Numbered
<1>2. DOMAIN entries = 1..Len(entries) /\ Len(entries) \in Nat
  BY SequenceFacts DEF DrawnUp
<1>3. DOMAIN entries \subseteq Numbers
  <2>1. Len(entries) <= Len(sources) + Len(url_notes)
    BY DEF DrawnUp
  <2> QED
    BY <1>1, <1>2, <2>1 DEF Numbers
<1> QED
  BY <1>1, <1>2, <1>3 DEF Asked, Sourced, Numbers

LEMMA EvidencesStep ==
  ASSUME ReadInv, DrawnUp, DraftOK(draft), Fits(draft), draft.evidences = <<>>,
         draft.items = ItemRows(DummyRows)
  PROVE  LET next == WithEvidences(draft, evidences) IN
         /\ EvidencesAccepted(draft, evidences) /\ DraftOK(next) /\ Fits(next)
         /\ next = [draft EXCEPT !.evidences = Parse(EvidenceInput, evidences)]
<1> DEFINE rows == Parse(EvidenceInput, evidences)
           next == WithEvidences(draft, evidences)
<1>1. IsSequence(evidences) /\ IsInjective(evidences)
      /\ ToSet(evidences) = EvidenceOf(Sourced)
  BY DEF DrawnUp, Enumerates
<1>2. /\ DOMAIN rows = DOMAIN evidences /\ rows = [i \in DOMAIN evidences |-> rows[i]]
      /\ \A i \in DOMAIN evidences : rows[i] = Parsed(EvidenceInput, evidences[i])
  BY DEF Parse
<1> HIDE DEF rows
<1>3. IsSequence(rows) /\ draft.evidences \o rows = rows
  BY <1>1, <1>2, Drawn, FirstRows
<1>4. \A i \in DOMAIN evidences : \E k \in Sourced, field \in {"kind", "qty"} :
        evidences[i] = DummyEvidence(k, field)
  <2> TAKE i \in DOMAIN evidences
  <2>1. evidences[i] \in EvidenceOf(Sourced)
    BY <1>1, SequenceFacts
  <2> QED
    BY <2>1 DEF EvidenceOf
<1>5. \A k \in Sourced, field \in {"kind", "qty"} :
        LET row == Parsed(EvidenceInput, DummyEvidence(k, field)) IN
        /\ WellTyped(EvidenceInput, DummyEvidence(k, field))
        /\ row["item_id"] = Id(k) /\ row["field"] = field
        /\ row["document_id"] \in Documents
        /\ Id(k) \in Ids(draft.items)
        /\ \A c \in DOMAIN row : row[c] # "vast"
  <2> TAKE k \in Sourced, field \in {"kind", "qty"}
  <2>1. Id(k) \in Numerals /\ Id(sources[k][1]) \in Documents \cap Numerals
    BY DrawnUpNumbers, Numbered
  <2>2. Id(k) \in Ids(draft.items)
    BY DrawnUpNumbers, DummyItems
  <2> QED
    BY <2>1, <2>2, EvidenceFits
<1>6. \A i \in DOMAIN evidences :
        /\ WellTyped(EvidenceInput, evidences[i])
        /\ item_in_version(draft, rows[i]["item_id"])
        /\ document_in_case(rows[i]["document_id"])
        /\ \A c \in DOMAIN rows[i] : rows[i][c] # "vast"
  <2> TAKE i \in DOMAIN evidences
  <2>1. PICK k \in Sourced, field \in {"kind", "qty"} : evidences[i] = DummyEvidence(k, field)
    BY <1>4
  <2>2. rows[i] = Parsed(EvidenceInput, DummyEvidence(k, field))
    BY <1>2, <2>1
  <2> QED
    BY <1>5, <2>1, <2>2 DEF item_in_version, document_in_case
<1>7. Unique(rows, {"item_id", "field"})
  <2> SUFFICES ASSUME NEW i \in DOMAIN evidences, NEW j \in DOMAIN evidences,
                      rows[i]["item_id"] = rows[j]["item_id"],
                      rows[i]["field"] = rows[j]["field"]
               PROVE  i = j
    BY <1>2 DEF Unique, UniqueAmong
  <2>1. PICK k \in Sourced, field \in {"kind", "qty"} : evidences[i] = DummyEvidence(k, field)
    BY <1>4
  <2>2. PICK l \in Sourced, other \in {"kind", "qty"} : evidences[j] = DummyEvidence(l, other)
    BY <1>4
  <2>3. rows[i]["item_id"] = Id(k) /\ rows[i]["field"] = field
    BY <1>2, <1>5, <2>1
  <2>4. rows[j]["item_id"] = Id(l) /\ rows[j]["field"] = other
    BY <1>2, <1>5, <2>2
  <2>5. k = l
    BY <2>3, <2>4, DrawnUpNumbers, Numbered
  <2>6. evidences[i] = evidences[j]
    BY <2>1, <2>2, <2>3, <2>4, <2>5
  <2> QED
    BY <1>1, <2>6 DEF IsInjective
<1>8. EvidencesAccepted(draft, evidences)
  BY <1>3, <1>6, <1>7 DEF EvidencesAccepted, rows
<1>9. DraftOK(next)
  BY <1>1, <1>8, EvidencesKept
<1>10. next = [draft EXCEPT !.evidences = rows]
  BY <1>3 DEF WithEvidences, rows
<1> HIDE DEF next
<1>11. Fits(next)
  <2>1. DOMAIN draft = Tables
    BY DEF DraftOK
  <2>2. /\ next.evidences = rows
        /\ \A table \in Tables \ {"evidences"} : next[table] = draft[table]
    BY <1>10, <2>1 DEF Tables
  <2>3. Narrow(rows)
    BY <1>2, <1>3, <1>6, SequenceFacts DEF Narrow
  <2> QED
    BY <2>2, <2>3 DEF Fits, Tables
<1> QED
  BY <1>8, <1>9, <1>10, <1>11 DEF rows, next

(* Questions with a code each, of items that are there, can be recorded    *)
(* where there are none yet.                                               *)
LEMMA FirstQuestions ==
  ASSUME NEW batch, IsSequence(batch), DraftOK(draft), Fits(draft), draft.questions = <<>>,
         \A i \in DOMAIN batch :
           LET row == Parsed(QuestionInput, batch[i]) IN
           /\ WellTyped(QuestionInput, batch[i])
           /\ row["item_id"] \in Ids(draft.items) \cup {Null}
           /\ \A c \in DOMAIN row : row[c] # "vast",
         \A i, j \in DOMAIN batch :
           Parsed(QuestionInput, batch[i])["question_code"]
             = Parsed(QuestionInput, batch[j])["question_code"] => i = j
  PROVE  LET next == WithQuestions(draft, batch) IN
         /\ QuestionsAccepted(draft, batch) /\ DraftOK(next) /\ Fits(next)
         /\ next = [draft EXCEPT !.questions = Parse(QuestionInput, batch)]
<1> DEFINE rows == Parse(QuestionInput, batch)
           next == WithQuestions(draft, batch)
<1>1. /\ DOMAIN rows = DOMAIN batch /\ rows = [i \in DOMAIN batch |-> rows[i]]
      /\ \A i \in DOMAIN batch : rows[i] = Parsed(QuestionInput, batch[i])
  BY DEF Parse
<1> HIDE DEF rows
<1>2. IsSequence(rows) /\ draft.questions \o rows = rows
  BY <1>1, Drawn, FirstRows
<1>3. Unique(rows, {"question_code"})
  BY <1>1 DEF Unique, UniqueAmong
<1>4. QuestionsAccepted(draft, batch)
  BY <1>1, <1>2, <1>3 DEF QuestionsAccepted, rows, item_in_version
<1>5. DraftOK(next)
  BY <1>4, QuestionsKept
<1>6. next = [draft EXCEPT !.questions = rows]
  BY <1>2 DEF WithQuestions, rows
<1> HIDE DEF next
<1>7. Fits(next)
  <2>1. DOMAIN draft = Tables
    BY DEF DraftOK
  <2>2. /\ next.questions = rows
        /\ \A table \in Tables \ {"questions"} : next[table] = draft[table]
    BY <1>6, <2>1 DEF Tables
  <2>3. Narrow(rows)
    BY <1>1, <1>2, SequenceFacts DEF Narrow
  <2> QED
    BY <2>2, <2>3 DEF Fits, Tables
<1> QED
  BY <1>4, <1>5, <1>6, <1>7 DEF rows, next

(* The questions it draws up differ in their codes.                        *)
LEMMA QuestionsFit ==
  ASSUME ReadInv, DrawnUp, NEW k \in Asked
  PROVE  LET row == Parsed(QuestionInput, QuestionOn(k)) IN
         /\ WellTyped(QuestionInput, QuestionOn(k))
         /\ row["question_code"] = IF k <= Len(sources) THEN Code("Q-", k) ELSE Code("URL-", k)
         /\ row["item_id"] = IF k <= Len(sources) THEN Id(k) ELSE Null
         /\ row["category"] # "conflict"
         /\ \A c \in DOMAIN row : row[c] # "vast"
<1>1. Id(k) \in Numerals /\ Code("Q-", k) \in Names /\ Code("URL-", k) \in Names
  BY DrawnUpNumbers, Numbered
<1>2. "qty" \in Names /\ "source" \in Names
  BY FieldsAssumption
<1>3. CASE k <= Len(sources)
  <2> DEFINE payload == TbaQuestion(k)
  <2>1. /\ DOMAIN payload = {"question_code", "item_id", "target_field", "reason", "category"}
        /\ payload["question_code"] = Code("Q-", k) /\ payload["item_id"] = Id(k)
        /\ payload["target_field"] = "qty" /\ payload["reason"] = "text"
        /\ payload["category"] = "unknown"
    BY DEF TbaQuestion
  <2> HIDE DEF payload
  <2>2. LET row == Parsed(QuestionInput, payload) IN
        /\ WellTyped(QuestionInput, payload)
        /\ row["question_code"] = Code("Q-", k) /\ row["item_id"] = Id(k)
        /\ row["category"] # "conflict"
        /\ \A c \in DOMAIN row : row[c] # "vast"
    BY <1>1, <1>2, <2>1, QuestionFits
  <2> QED
    BY <1>3, <2>2 DEF QuestionOn, payload
<1>4. CASE ~(k <= Len(sources))
  <2> DEFINE payload == NoteQuestion(k)
  <2>1. /\ DOMAIN payload = {"question_code", "target_field", "reason", "category"}
        /\ payload["question_code"] = Code("URL-", k)
        /\ payload["target_field"] = "source" /\ payload["reason"] = "text"
        /\ payload["category"] = "reference_missing"
    BY DEF NoteQuestion
  <2> HIDE DEF payload
  <2>2. LET row == Parsed(QuestionInput, payload) IN
        /\ WellTyped(QuestionInput, payload)
        /\ row["question_code"] = Code("URL-", k) /\ row["item_id"] = Null
        /\ row["category"] # "conflict"
        /\ \A c \in DOMAIN row : row[c] # "vast"
    BY <1>1, <1>2, <2>1, QuestionFits
  <2> QED
    BY <1>4, <2>2 DEF QuestionOn, payload
<1> QED
  BY <1>3, <1>4

LEMMA QuestionsStep ==
  ASSUME ReadInv, DrawnUp, DraftOK(draft), Fits(draft), draft.questions = <<>>,
         draft.items = ItemRows(DummyRows)
  PROVE  LET next == WithQuestions(draft, questions) IN
         /\ QuestionsAccepted(draft, questions) /\ DraftOK(next) /\ Fits(next)
         /\ next = [draft EXCEPT !.questions = Parse(QuestionInput, questions)]
<1>1. /\ IsSequence(questions) /\ IsInjective(questions)
      /\ \A i \in DOMAIN questions : \E k \in Asked : questions[i] = QuestionOn(k)
  <2>1. /\ IsSequence(questions) /\ IsInjective(questions)
        /\ ToSet(questions) = {QuestionOn(k) : k \in Asked}
    BY DEF DrawnUp, Enumerates
  <2>2. \A i \in DOMAIN questions : questions[i] \in {QuestionOn(k) : k \in Asked}
    BY <2>1, SequenceFacts
  <2> QED
    BY <2>1, <2>2
<1>2. \A i \in DOMAIN questions :
        LET row == Parsed(QuestionInput, questions[i]) IN
        /\ WellTyped(QuestionInput, questions[i])
        /\ row["item_id"] \in Ids(draft.items) \cup {Null}
        /\ \A c \in DOMAIN row : row[c] # "vast"
  <2> TAKE i \in DOMAIN questions
  <2>1. PICK k \in Asked : questions[i] = QuestionOn(k)
    BY <1>1
  <2>2. k <= Len(sources) => Id(k) \in Ids(draft.items)
    BY DrawnUpNumbers, DummyItems
  <2> QED
    BY <2>1, <2>2, QuestionsFit
<1>3. \A i, j \in DOMAIN questions :
        Parsed(QuestionInput, questions[i])["question_code"]
          = Parsed(QuestionInput, questions[j])["question_code"] => i = j
  <2> SUFFICES ASSUME NEW i \in DOMAIN questions, NEW j \in DOMAIN questions,
                      Parsed(QuestionInput, questions[i])["question_code"]
                        = Parsed(QuestionInput, questions[j])["question_code"]
               PROVE  i = j
    OBVIOUS
  <2>1. PICK k \in Asked : questions[i] = QuestionOn(k)
    BY <1>1
  <2>2. PICK l \in Asked : questions[j] = QuestionOn(l)
    BY <1>1
  <2>3. /\ Parsed(QuestionInput, questions[i])["question_code"]
             = IF k <= Len(sources) THEN Code("Q-", k) ELSE Code("URL-", k)
        /\ Parsed(QuestionInput, questions[j])["question_code"]
             = IF l <= Len(sources) THEN Code("Q-", l) ELSE Code("URL-", l)
    BY <2>1, <2>2, QuestionsFit
  <2>4. k \in Numbers /\ l \in Numbers
    BY DrawnUpNumbers
  <2>5. k = l
    BY <2>3, <2>4, Numbered
  <2> QED
    BY <1>1, <2>1, <2>2, <2>5 DEF IsInjective
<1> QED
  BY <1>1, <1>2, <1>3, FirstQuestions

LEMMA UnsupportedStep ==
  ASSUME DraftOK(draft), Fits(draft), draft.questions = <<>>
  PROVE  LET next == WithQuestions(draft, UnsupportedQuestion) IN
         /\ QuestionsAccepted(draft, UnsupportedQuestion) /\ DraftOK(next) /\ Fits(next)
         /\ next = [draft EXCEPT !.questions = Parse(QuestionInput, UnsupportedQuestion)]
<1> DEFINE payload == [question_code |-> "LOCAL-UNSUPPORTED", target_field |-> "items",
                       reason |-> "text"]
<1>1. UnsupportedQuestion = <<payload>>
  BY DEF UnsupportedQuestion
<1>2. /\ DOMAIN payload = {"question_code", "target_field", "reason"}
      /\ payload["question_code"] \in Names /\ payload["target_field"] \in Names
      /\ payload["reason"] = "text"
  BY FieldsAssumption
<1> HIDE DEF payload
<1>3. LET row == Parsed(QuestionInput, payload) IN
      /\ WellTyped(QuestionInput, payload) /\ row["item_id"] = Null
      /\ \A c \in DOMAIN row : row[c] # "vast"
  BY <1>2, QuestionFits
<1>4. IsSequence(<<payload>>) /\ DOMAIN <<payload>> = {1} /\ <<payload>>[1] = payload
  BY DEF IsSequence, ToSet
<1> QED
  BY <1>1, <1>3, <1>4, FirstQuestions

LEMMA EntriesStep ==
  ASSUME ReadInv, DrawnUp, DraftOK(draft), Fits(draft),
         draft.source_inventory_entries = <<>>, draft.inventory_links = <<>>,
         draft.items = ItemRows(DummyRows)
  PROVE  LET next == WithEntries(draft, entries) IN
         /\ EntriesAccepted(draft, entries) /\ DraftOK(next) /\ Fits(next)
         /\ next = [draft EXCEPT !.source_inventory_entries = EntryRows(entries),
                                 !.inventory_links = LinkRows(entries)]
<1> DEFINE rows == EntryRows(entries)
           links == LinkRows(entries)
           next == WithEntries(draft, entries)
<1>1. IsSequence(entries) /\ \A k \in DOMAIN entries : entries[k] = EntryOn(k)
  BY DEF DrawnUp
<1>2. /\ DOMAIN rows = DOMAIN entries /\ rows = [k \in DOMAIN entries |-> rows[k]]
      /\ DOMAIN links = DOMAIN entries /\ links = [k \in DOMAIN entries |-> links[k]]
      /\ \A k \in DOMAIN entries :
           /\ rows[k] = Parsed(InventoryInput, entries[k].payload)
           /\ links[k] = entries[k].item_ids
  BY DEF EntryRows, LinkRows
<1> HIDE DEF rows, links
<1>3. /\ IsSequence(rows) /\ IsSequence(links)
      /\ draft.source_inventory_entries \o rows = rows
      /\ draft.inventory_links \o links = links
  BY <1>1, <1>2, Drawn, FirstRows
<1>4. \A k \in DOMAIN entries :
        /\ WellTyped(InventoryInput, entries[k].payload)
        /\ valid_mapping(rows[k], links[k])
        /\ rows[k]["document_id"] \in Documents
        /\ IsSequence(links[k])
        /\ ToSet(links[k]) \subseteq Ids(draft.items) \cap Numerals
        /\ \A c \in DOMAIN rows[k] : rows[k][c] # "vast"
  <2> TAKE k \in DOMAIN entries
  <2>1. Id(k) \in Numerals /\ k \in Numbers
    BY DrawnUpNumbers, Numbered
  <2>2. CASE k <= Len(sources)
    <3> DEFINE place == sources[k]
               payload == DummyEntry(k, place, "mapped") ++ [source_no |-> "text"]
               row == Parsed(InventoryInput, payload)
    <3>1. entries[k].payload = payload /\ entries[k].item_ids = <<Id(k)>>
      BY <1>1, <2>2 DEF EntryOn, MappedEntry
    <3>2. k \in DOMAIN sources
      BY <2>1, <2>2, Numbered DEF Numbers
    <3>3. Id(place[1]) \in Documents \cap Numerals
      BY <3>2, Numbered
    <3>4. /\ WellTyped(InventoryInput, payload)
          /\ row["status"] = "mapped" /\ row["document_id"] = Id(place[1])
          /\ \A c \in DOMAIN row : row[c] # "vast"
      <4> HIDE DEF place
      <4>1. payload = DummyEntry(k, place, "mapped") ++ [source_no |-> "text"]
        OBVIOUS
      <4> HIDE DEF payload
      <4> QED
        BY <2>1, <3>3, <4>1, EntryFits
    <3> HIDE DEF row, payload, place
    <3>5. rows[k] = row /\ links[k] = <<Id(k)>>
      BY <1>2, <3>1 DEF row
    <3>6. /\ IsSequence(<<Id(k)>>) /\ ToSet(<<Id(k)>>) = {Id(k)} /\ IsInjective(<<Id(k)>>)
          /\ Len(<<Id(k)>>) = 1
      BY DEF IsSequence, ToSet, IsInjective
    <3>7. Id(k) \in Ids(draft.items) /\ Id(k) \in Positive
      BY <2>1, <3>2, DummyItems, PositiveNumber
    <3>8. valid_mapping(row, <<Id(k)>>)
      BY <3>4, <3>6, <3>7 DEF valid_mapping
    <3> QED
      BY <2>1, <3>1, <3>3, <3>4, <3>5, <3>6, <3>7, <3>8
  <2>3. CASE ~(k <= Len(sources))
    <3> DEFINE place == url_notes[k - Len(sources)]
               payload == DummyEntry(k, place, "excluded") ++ [basis |-> "text"]
               row == Parsed(InventoryInput, payload)
    <3>1. entries[k].payload = payload /\ entries[k].item_ids = <<>>
      BY <1>1, <2>3 DEF EntryOn, NoteEntry
    <3>2. k - Len(sources) \in DOMAIN url_notes
      BY <2>1, <2>3, Numbered DEF Numbers
    <3>3. Id(place[1]) \in Documents \cap Numerals
      BY <3>2, Numbered
    <3>4. /\ WellTyped(InventoryInput, payload)
          /\ row["status"] = "excluded" /\ row["document_id"] = Id(place[1])
          /\ row["basis"] = "text"
          /\ \A c \in DOMAIN row : row[c] # "vast"
      <4> HIDE DEF place
      <4>1. payload = DummyEntry(k, place, "excluded") ++ [basis |-> "text"]
        OBVIOUS
      <4> HIDE DEF payload
      <4>2. payload = DummyEntry(k, place, "excluded")
                      ++ IF "excluded" = "excluded" THEN [basis |-> "text"]
                         ELSE [source_no |-> "text"]
        BY <4>1
      <4>3. LET drawn == Parsed(InventoryInput, payload) IN
            /\ WellTyped(InventoryInput, payload)
            /\ drawn["status"] = "excluded" /\ drawn["document_id"] = Id(place[1])
            /\ "excluded" = "excluded" => drawn["basis"] = "text"
            /\ \A c \in DOMAIN drawn : drawn[c] # "vast"
        BY <2>1, <3>3, <4>2, EntryFits
      <4> QED
        BY <4>3, Zenon DEF row
    <3> HIDE DEF row, payload, place
    <3>5. rows[k] = row /\ links[k] = <<>>
      BY <1>2, <3>1 DEF row
    <3>6. /\ IsSequence(<<>>) /\ ToSet(<<>>) = {} /\ IsInjective(<<>>) /\ Len(<<>>) = 0
      BY Nothing DEF Enumerates
    <3>7. valid_mapping(row, <<>>)
      BY <3>4, <3>6 DEF valid_mapping, Null
    <3> QED
      BY <3>1, <3>3, <3>4, <3>5, <3>6, <3>7
  <2> QED
    BY <2>2, <2>3
<1>5. EntriesAccepted(draft, entries)
  BY <1>4 DEF EntriesAccepted, rows, links, LinkRows, document_in_case, item_in_version
<1>6. DraftOK(next)
  <2>1. \A entry \in ToSet(entries) : IsSequence(entry.item_ids)
    BY <1>1, <1>2, <1>4, SequenceFacts
  <2> QED
    BY <1>1, <1>5, <2>1, EntriesKept
<1>7. next = [draft EXCEPT !.source_inventory_entries = rows, !.inventory_links = links]
  BY <1>3 DEF WithEntries, rows, links
<1> HIDE DEF next
<1>8. Fits(next)
  <2>1. DOMAIN draft = Tables
    BY DEF DraftOK
  <2>2. /\ next.source_inventory_entries = rows /\ next.inventory_links = links
        /\ \A table \in Tables \ {"source_inventory_entries", "inventory_links"} :
             next[table] = draft[table]
    BY <1>7, <2>1 DEF Tables
  <2>3. Narrow(rows)
    BY <1>2, <1>3, <1>4, SequenceFacts DEF Narrow
  <2>4. \A item_ids \in ToSet(links) : "vast" \notin ToSet(item_ids)
    BY <1>2, <1>3, <1>4, SequenceFacts, PositiveNumber
  <2> QED
    BY <2>2, <2>3, <2>4 DEF Fits, Tables
<1> QED
  BY <1>5, <1>6, <1>7, <1>8 DEF rows, links, next

(* The final validation finds nothing but what came late: every range of   *)
(* the case was read, every field has its source, and there is nothing     *)
(* else that a row, question or entry of this policy could violate.        *)
LEMMA OnlyTheLateIsAmiss ==
  ASSUME ReadInv, DrawnUp, Written, DraftOK(draft), phase \in PastInventory
  PROVE  Violations = Unread
<1>1. /\ phase \in PastHeader /\ phase \in PastItems /\ phase \in PastEvidence
      /\ phase \in PastQuestions
      /\ phase # "reading"
  BY DEF PastInventory, PastQuestions, PastEvidence, PastItems, PastHeader
<1>2. /\ draft.case_headers = <<Parsed(HeaderInput, DummyHeader)>>
      /\ draft.items = ItemRows(DummyRows) /\ draft.item_ends = EndRows(DummyRows)
      /\ draft.evidences = Parse(EvidenceInput, evidences)
      /\ draft.questions = Parse(QuestionInput, questions)
  BY <1>1 DEF Written, PastInventory
<1>3. unscanned_range(inquiry.ranges, scanned, Issues) = Unread
  <2>1. CaseRanges(documents) = UNION {RangesOf(documents, d) : d \in DOMAIN documents}
    BY DEF CaseRanges
  <2>2. \A d \in DOMAIN documents : Before(d, 0)
    BY <1>1, CaseFacts DEF ReadInv, AtPlace, Before
  <2>3. CaseRanges(documents) \subseteq scanned
    BY <2>1, <2>2 DEF ReadInv, Scanned
  <2>4. inquiry.ranges \ scanned = (inquiry.ranges \ CaseRanges(documents)) \ scanned
    BY <2>3
  <2> QED
    BY <2>4 DEF unscanned_range, Unread
<1> DEFINE header == Parsed(HeaderInput, DummyHeader)
<1>4. /\ ToSet(draft.case_headers) = {header} /\ draft.case_headers # <<>>
      /\ required_of_header(header) = {} /\ header["quote_deadline_raw"] = Null
  <2>1. DummyHeader = PlainHeader
    BY DEF DummyHeader, PlainHeader
  <2>2. required_of_header(header) = {} /\ header["quote_deadline_raw"] = Null
    BY <2>1, PlainHeaderFits
  <2> HIDE DEF header
  <2>3. ToSet(<<header>>) = {header} /\ <<header>> # <<>>
    BY DEF ToSet
  <2> QED
    BY <1>2, <2>2, <2>3 DEF header
<1> HIDE DEF header
<1>5. missing_question(draft) = {}
  BY <1>4 DEF missing_question, Present, Value
<1>6. /\ DOMAIN draft.items = DOMAIN sources /\ DOMAIN draft.item_ends = DOMAIN sources
      /\ \A k \in DOMAIN sources :
           /\ draft.item_ends[k] = <<>>
           /\ draft.items[k]["group_code"] = Null
           /\ required(draft.items[k]) \subseteq {"kind", "qty"}
  BY <1>2, DummyItems
<1>7. orphan_candidate(draft) = {}
  <2>1. \A k \in DOMAIN draft.items : Value(draft.items[k], "group_code") = Null
    BY <1>6 DEF Value
  <2> QED
    BY <2>1 DEF orphan_candidate
<1>8. unsplit_conflict(draft) = {}
  <2>1. \A row \in ToSet(draft.questions) : row["category"] # "conflict"
    <3> TAKE row \in ToSet(draft.questions)
    <3>1. /\ IsSequence(questions) /\ ToSet(questions) = {QuestionOn(k) : k \in Asked}
      BY DEF DrawnUp, Enumerates
    <3>2. PICK i \in DOMAIN questions : row = Parsed(QuestionInput, questions[i])
      BY <1>2 DEF Parse, ToSet
    <3>3. questions[i] \in {QuestionOn(k) : k \in Asked}
      BY <3>1, SequenceFacts
    <3> QED
      BY <3>2, <3>3, QuestionsFit
  <2> QED
    BY <2>1 DEF unsplit_conflict
<1>9. missing_evidence(draft) = {}
  <2>1. ASSUME NEW k \in DOMAIN sources, NEW field \in {"kind", "qty"}
        PROVE  <<Id(k), field>> \in evidence_fields(draft)
    <3>1. k \in DOMAIN entries /\ k \in Sourced
      <4>1. /\ Len(entries) = Len(sources) + Len(url_notes)
        BY <1>1 DEF DrawnUp
      <4>2. /\ DOMAIN entries = 1..Len(entries) /\ DOMAIN sources = 1..Len(sources)
            /\ Len(sources) \in Nat /\ Len(url_notes) \in Nat
        BY DrawnUpNumbers, Numbered
      <4> QED
        BY <2>1, <4>1, <4>2 DEF Sourced
    <3>2. DummyEvidence(k, field) \in ToSet(evidences) /\ IsSequence(evidences)
      BY <2>1, <3>1 DEF DrawnUp, Enumerates, EvidenceOf
    <3>3. PICK i \in DOMAIN evidences : evidences[i] = DummyEvidence(k, field)
      BY <3>2, SequenceFacts
    <3> DEFINE row == Parsed(EvidenceInput, DummyEvidence(k, field))
    <3>4. row \in ToSet(draft.evidences)
      BY <1>2, <3>3 DEF Parse, ToSet
    <3>5. /\ row["item_id"] = Id(k) /\ row["field"] = field
          /\ row["document_id"] = Id(sources[k][1])
          /\ row["locator"] = "text" /\ row["quote"] = "text"
          /\ DOMAIN row = DOMAIN EvidenceInput
          /\ Id(sources[k][1]) \in Numerals
      <4>1. Id(k) \in Numerals /\ Id(sources[k][1]) \in Documents \cap Numerals
        BY <3>1, DrawnUpNumbers, Numbered
      <4>2. DOMAIN row = DOMAIN EvidenceInput
        BY DEF Parsed
      <4> QED
        BY <4>1, <4>2, EvidenceFits
    <3> HIDE DEF row
    <3>6. Present(row, "document_id") /\ Present(row, "locator") /\ Present(row, "quote")
      BY <3>5, EvidenceColumns, PlainStays DEF Present, Value, Plain, EvidenceTexts, Null
    <3> QED
      BY <3>4, <3>5, <3>6 DEF evidence_fields
  <2>2. \A k \in DOMAIN draft.items : Unproven(draft, Id(k), required(draft.items[k])) = {}
    BY <1>6, <2>1 DEF Unproven
  <2>3. \A k \in DOMAIN draft.item_ends : ToSet(draft.item_ends[k]) = {}
    BY <1>6, Nothing
  <2>4. \A h \in ToSet(draft.case_headers) : Unproven(draft, Null, required_of_header(h)) = {}
    BY <1>4 DEF Unproven
  <2> QED
    BY <1>4, <2>2, <2>3, <2>4, EvidenceIsMissing
<1>10. Backstops(draft) = {}
  BY BackstopsIdle
<1> QED
  BY <1>3, <1>5, <1>7, <1>8, <1>9, <1>10, Zenon DEF Violations, validate_snapshot

-----------------------------------------------------------------------------
(* The steps of the policy.                                                *)

Halted == phase \in {"validation_unresolved", "draft_not_finalized"} => Unread # {}
Driven == ReadInv /\ DrawnUp /\ Written /\ Halted

LEMMA NothingDrawn ==
  ASSUME entries = <<>>
  PROVE  Sourced = {} /\ Asked = {} /\ EvidenceOf(Sourced) = {}
         /\ {QuestionOn(k) : k \in Asked} = {}
<1>1. DOMAIN entries = {}
  BY Nothing
<1>2. Sourced = {} /\ Asked = {}
  BY <1>1 DEF Sourced, Asked
<1> QED
  BY <1>2 DEF EvidenceOf

(* Until the reading has ended nothing is drawn up or written.             *)
LEMMA ReadingWritesNothing ==
  ASSUME DrawnUp, Written, ReadInv', phase = "reading",
         phase' \in {"reading", "no_readable_document", "ask", "header"},
         phase' = "header" => ~unsupported' /\ sources' # <<>>,
         drawing' = drawing, draft' = draft, aborted' = aborted, finalized' = finalized
  PROVE  DrawnUp' /\ Written'
<1>1. /\ evidences' = <<>> /\ questions' = <<>> /\ entries' = <<>>
  BY DEF DrawnUp, drawing, PastItems, PastHeader
<1>2. Len(sources') \in Nat /\ Len(url_notes') \in Nat
  BY SequenceFacts DEF ReadInv, Taken, Enumerates
<1>3. /\ phase \notin PastHeader /\ phase \notin PastItems /\ phase \notin PastEvidence
      /\ phase \notin PastQuestions /\ phase \notin PastInventory
      /\ phase' \notin PastHeader /\ phase' \notin PastItems /\ phase' \notin PastEvidence
      /\ phase' \notin PastQuestions /\ phase' \notin PastInventory
      /\ phase # "local_dummy_unsupported" /\ phase' # "local_dummy_unsupported"
      /\ phase # "done" /\ phase' # "done" /\ phase # "raised" /\ phase' # "raised"
  BY DEF PastInventory, PastQuestions, PastEvidence, PastItems, PastHeader
<1>4. /\ EvidenceOf(Sourced)' = {} /\ {QuestionOn(k) : k \in Asked}' = {}
  <2>1. DOMAIN entries' = {}
    BY <1>1, Nothing
  <2>2. Sourced' = {} /\ Asked' = {}
    BY <2>1 DEF Sourced, Asked
  <2> QED
    BY <2>2 DEF EvidenceOf
<1>5. DrawnUp'
  <2>1. /\ IsSequence(entries') /\ Len(entries') = 0 /\ DOMAIN entries' = {}
        /\ Enumerates(evidences', EvidenceOf(Sourced)')
        /\ Enumerates(questions', {QuestionOn(k) : k \in Asked}')
    BY <1>1, <1>4, Nothing
  <2>2. Len(entries') <= Len(sources') + Len(url_notes')
    BY <1>2, <2>1
  <2>3. phase' \in {"header"} \cup PastHeader => ~unsupported' /\ sources' # <<>>
    BY <1>3
  <2>4. \A k \in DOMAIN entries' : entries'[k] = EntryOn(k)'
    BY <2>1
  <2> QED
    BY <1>1, <1>3, <2>1, <2>2, <2>3, <2>4 DEF DrawnUp
<1>6. Written'
  <2>1. Fits(draft)'
    BY DEF Written, Fits, Narrow
  <2> QED
    BY <1>3, <2>1 DEF Written
<1> QED
  BY <1>5, <1>6

LEMMA DrawnUpStays ==
  ASSUME DrawnUp, UNCHANGED <<documents, reading, drawing>>,
         phase \in PastItems => phase' \in PastItems,
         phase' \in {"header"} \cup PastHeader => phase \in {"header"} \cup PastHeader,
         phase' \in PastEvidence => Len(entries) = Len(sources) + Len(url_notes)
  PROVE  DrawnUp' /\ DummyRows' = DummyRows /\ Overlong' = Overlong
<1>1. /\ documents' = documents /\ sources' = sources /\ url_notes' = url_notes
      /\ unsupported' = unsupported
      /\ evidences' = evidences /\ questions' = questions /\ entries' = entries
  BY DEF reading, drawing
<1>2. /\ Sourced' = Sourced /\ Asked' = Asked
      /\ EvidenceOf(Sourced)' = EvidenceOf(Sourced)
      /\ {QuestionOn(k) : k \in Asked}' = {QuestionOn(k) : k \in Asked}
      /\ \A k : EntryOn(k)' = EntryOn(k)
  BY <1>1 DEF Sourced, Asked, EvidenceOf, DummyEvidence, QuestionOn, TbaQuestion,
              NoteQuestion, EntryOn, MappedEntry, NoteEntry
<1>3. DummyRows' = DummyRows /\ Overlong' = Overlong
  BY <1>1 DEF DummyRows, Overlong
<1>4. DrawnUp'
  BY <1>1, <1>2 DEF DrawnUp
<1> QED
  BY <1>3, <1>4

LEMMA DriveReads ==
  ASSUME DraftKept, Driven,
         ReadDocument \/ ReportDocument \/ ReportBlank \/ ReadLine \/ Interpret
  PROVE  DraftKept' /\ Driven' /\ phase' # "agent"
<1>1. ReadInv'
  BY ReadDocumentKeeps, ReportDocumentKeeps, ReportBlankKeeps, ReadLineKeeps,
     InterpretKeeps DEF Driven
<1>2. DraftKept'
  <2>1. CASE ReadDocument
    BY <2>1, ReadDocumentKeeps, ReadKeeps DEF Driven, ReadDocument
  <2>2. CASE ReportDocument
    BY <2>2, ReportKeeps DEF ReportDocument
  <2>3. CASE ReportBlank
    BY <2>3, ReportKeeps DEF ReportBlank
  <2>4. CASE ReadLine
    BY <2>4, StutterKeeps DEF ReadLine
  <2>5. CASE Interpret
    BY <2>5, ReportKeeps, StutterKeeps DEF Interpret
  <2> QED
    BY <2>1, <2>2, <2>3, <2>4, <2>5
<1>3. /\ phase = "reading" /\ phase' = "reading" /\ drawing' = drawing
      /\ draft' = draft /\ aborted' = aborted /\ finalized' = finalized
  BY DEF ReadDocument, ReportDocument, ReportBlank, ReadLine, Interpret, AtRange,
         read, report_unreadable, vars
<1>4. DrawnUp' /\ Written'
  BY <1>1, <1>3, ReadingWritesNothing DEF Driven
<1> QED
  BY <1>1, <1>2, <1>3, <1>4 DEF Driven, Halted

LEMMA DriveDecides ==
  ASSUME DraftKept, Driven, Decide
  PROVE  DraftKept' /\ Driven' /\ phase' # "agent"
<1>1. /\ phase = "reading" /\ document > Len(documents)
      /\ phase' = IF readable = 0 THEN "no_readable_document"
                  ELSE IF unsupported \/ sources = <<>> THEN "ask" ELSE "header"
      /\ UNCHANGED <<documents, reading>> /\ drawing' = drawing /\ UNCHANGED vars
  BY DEF Decide
<1>2. ReadInv'
  BY <1>1, WritingKeeps DEF Driven, ReadInv, AtPlace, RangesKnown, vars, Phases, Stops
<1>3. DraftKept'
  BY <1>1, StutterKeeps
<1>4. DrawnUp' /\ Written'
  BY <1>1, <1>2, ReadingWritesNothing DEF Driven, vars, reading
<1> QED
  BY <1>1, <1>2, <1>3, <1>4 DEF Driven, Halted

(* Every other step leaves what was read alone.                            *)
LEMMA AllIsRead ==
  ASSUME Driven, phase # "reading", UNCHANGED <<documents, reading>>,
         inquiry' = inquiry, scanned' = scanned, reported' = reported, phase' \in Phases
  PROVE  ReadInv'
  BY WritingKeeps DEF Driven, ReadInv, AtPlace, RangesKnown

LEMMA DriveAsks ==
  ASSUME DraftKept, Driven, Ask
  PROVE  DraftKept' /\ Driven' /\ phase' # "agent"
<1> DEFINE next == WithQuestions(draft, UnsupportedQuestion)
<1>1. /\ phase = "ask" /\ phase' = "local_dummy_unsupported"
      /\ UNCHANGED <<documents, reading, drawing>>
      /\ Commit("record_question", next)
  BY DEF Ask, Then, add_questions
<1>2. DraftOK(draft) /\ Fits(draft) /\ draft.questions = <<>> /\ DOMAIN draft = Tables
  BY <1>1 DEF DraftKept, DraftOK, Driven, Written, PastQuestions, PastEvidence, PastItems,
              PastHeader
<1>3. /\ DraftOK(next) /\ Fits(next)
      /\ next = [draft EXCEPT !.questions = Parse(QuestionInput, UnsupportedQuestion)]
  BY <1>2, UnsupportedStep
<1> HIDE DEF next
<1>4. /\ DraftKept' /\ inquiry' = inquiry /\ scanned' = scanned /\ reported' = reported
      /\ finalized' = finalized /\ draft' = next /\ aborted' = aborted
  BY <1>1, <1>3, CommitKeeps
<1>5. ReadInv'
  BY <1>1, <1>4, AllIsRead DEF Phases, Stops
<1>6. DrawnUp' /\ Overlong' = Overlong
  BY <1>1, DrawnUpStays DEF Driven, PastEvidence, PastItems, PastHeader
<1>7. Written'
  <2>1. /\ draft'.questions = Parse(QuestionInput, UnsupportedQuestion)
        /\ \A table \in Tables \ {"questions"} : draft'[table] = draft[table]
    BY <1>2, <1>3, <1>4 DEF Tables
  <2>2. Fits(draft')
    BY <1>3, <1>4
  <2> QED
    BY <1>1, <1>4, <1>6, <2>1, <2>2 DEF Driven, Written, Tables, PastInventory, PastQuestions,
       PastEvidence, PastItems, PastHeader
<1> QED
  BY <1>1, <1>4, <1>5, <1>6, <1>7 DEF Driven, Halted

LEMMA DriveRecordsHeader ==
  ASSUME DraftKept, Driven, RecordHeader
  PROVE  DraftKept' /\ Driven' /\ phase' # "agent"
<1> DEFINE next == WithHeader(draft, DummyHeader)
<1>1. /\ phase = "header" /\ phase' = "items"
      /\ UNCHANGED <<documents, reading, drawing>>
      /\ Commit("record_case_header", next)
  BY DEF RecordHeader, Then, save_header
<1>2. DraftOK(draft) /\ Fits(draft) /\ draft.case_headers = <<>> /\ DOMAIN draft = Tables
  BY <1>1 DEF DraftKept, DraftOK, Driven, Written, PastHeader
<1>3. /\ DraftOK(next) /\ Fits(next)
      /\ next = [draft EXCEPT !.case_headers = <<Parsed(HeaderInput, DummyHeader)>>]
  BY <1>2, HeaderStep
<1> HIDE DEF next
<1>4. /\ DraftKept' /\ inquiry' = inquiry /\ scanned' = scanned /\ reported' = reported
      /\ finalized' = finalized /\ draft' = next /\ aborted' = aborted
  BY <1>1, <1>3, CommitKeeps
<1>5. ReadInv'
  BY <1>1, <1>4, AllIsRead DEF Phases, PastHeader
<1>6. DrawnUp' /\ Overlong' = Overlong
  BY <1>1, DrawnUpStays DEF Driven, PastEvidence, PastItems, PastHeader
<1>7. Written'
  <2>1. /\ draft'.case_headers = <<Parsed(HeaderInput, DummyHeader)>>
        /\ \A table \in Tables \ {"case_headers"} : draft'[table] = draft[table]
    BY <1>2, <1>3, <1>4 DEF Tables
  <2>2. Fits(draft')
    BY <1>3, <1>4
  <2> QED
    BY <1>1, <1>4, <1>6, <2>1, <2>2 DEF Driven, Written, Tables, PastInventory, PastQuestions,
       PastEvidence, PastItems, PastHeader
<1> QED
  BY <1>1, <1>4, <1>5, <1>6, <1>7 DEF Driven, Halted

LEMMA DriveProposesItems ==
  ASSUME DraftKept, Driven, ProposeItems
  PROVE  DraftKept' /\ Driven' /\ phase' # "agent"
<1> DEFINE next == WithItems(draft, DummyRows)
<1>1. /\ phase = "items" /\ aborted = {}
      /\ phase' = IF aborted' = aborted THEN "evidence" ELSE "raised"
      /\ UNCHANGED <<documents, reading, drawing>>
      /\ Commit("propose_items", next)
  BY DEF ProposeItems, Then, add_items, Driven, Written
<1>2. /\ DraftOK(draft) /\ Fits(draft) /\ draft.items = <<>> /\ draft.item_ends = <<>>
      /\ DOMAIN draft = Tables /\ ReadInv
  BY <1>1 DEF DraftKept, DraftOK, Driven, Written, PastItems
<1>3. /\ DraftOK(next) /\ (Fits(next) <=> ~Overlong)
      /\ next = [draft EXCEPT !.items = ItemRows(DummyRows),
                              !.item_ends = EndRows(DummyRows)]
  BY <1>2, ItemsStep
<1> HIDE DEF next
<1>4. /\ DraftKept' /\ inquiry' = inquiry /\ scanned' = scanned /\ reported' = reported
      /\ finalized' = finalized
      /\ IF Overlong
         THEN /\ draft' = draft /\ aborted' = {<<"propose_items", "width">>}
              /\ phase' = "raised"
         ELSE draft' = next /\ aborted' = {} /\ phase' = "evidence"
  <2>1. Fits(next) => draft' = next /\ aborted' = aborted
    BY <1>1, <1>3, CommitKeeps
  <2>2. ~Fits(next) =>
          draft' = draft /\ aborted' = aborted \cup {<<"propose_items", "width">>}
    BY <1>1 DEF Commit
  <2> QED
    BY <1>1, <1>3, <2>1, <2>2, CommitKeeps
<1>5. ReadInv'
  BY <1>1, <1>4, AllIsRead DEF Phases, PastHeader
<1>6. DrawnUp' /\ DummyRows' = DummyRows /\ Overlong' = Overlong
  BY <1>1, DrawnUpStays DEF Driven, PastEvidence, PastItems, PastHeader
<1>7. Written'
  <2>1. CASE Overlong
    BY <1>1, <1>4, <1>6, <2>1 DEF Driven, Written, Fits, Narrow, PastInventory,
       PastQuestions, PastEvidence, PastItems, PastHeader
  <2>2. CASE ~Overlong
    <3>1. /\ draft'.items = ItemRows(DummyRows) /\ draft'.item_ends = EndRows(DummyRows)
          /\ \A table \in Tables \ {"items", "item_ends"} : draft'[table] = draft[table]
      BY <1>2, <1>3, <1>4, <2>2 DEF Tables
    <3>2. Fits(draft')
      BY <1>3, <1>4, <2>2
    <3> QED
      BY <1>1, <1>4, <1>6, <2>2, <3>1, <3>2 DEF Driven, Written, Tables, PastInventory,
         PastQuestions, PastEvidence, PastItems, PastHeader
  <2> QED
    BY <2>1, <2>2
<1> QED
  BY <1>4, <1>5, <1>6, <1>7 DEF Driven, Halted

(* The next line is none of those before it.                               *)
LEMMA NextIsNew ==
  ASSUME ReadInv, DrawnUp, seq <= Len(sources) + Len(url_notes)
  PROVE  /\ seq \in Numbers /\ seq \notin DOMAIN entries
         /\ DummyEvidence(seq, "kind") # DummyEvidence(seq, "qty")
         /\ \A field \in {"kind", "qty"} : DummyEvidence(seq, field) \notin EvidenceOf(Sourced)
         /\ QuestionOn(seq) \notin {QuestionOn(k) : k \in Asked}
<1>1. /\ DOMAIN entries = 1..Len(entries) /\ Len(entries) \in Nat
      /\ DOMAIN entries \subseteq Numbers
      /\ Len(sources) \in Nat /\ Len(url_notes) \in Nat
  BY DrawnUpNumbers, Numbered
<1>2. seq \in Numbers /\ seq \notin DOMAIN entries
  BY <1>1 DEF seq, Numbers
<1>3. \A k \in DOMAIN entries :
        /\ Id(k) # Id(seq)
        /\ Code("Q-", k) # Code("Q-", seq) /\ Code("URL-", k) # Code("URL-", seq)
        /\ Code("Q-", k) # Code("URL-", seq) /\ Code("URL-", k) # Code("Q-", seq)
  BY <1>1, <1>2, Numbered
<1>4. \A k, field : DummyEvidence(k, field).item_id = Id(k) /\ DummyEvidence(k, field).field = field
  BY DEF DummyEvidence
<1>5. \A k : QuestionOn(k).question_code
               = IF k <= Len(sources) THEN Code("Q-", k) ELSE Code("URL-", k)
  BY DEF QuestionOn, TbaQuestion, NoteQuestion
<1>6. Sourced \subseteq DOMAIN entries /\ Asked \subseteq DOMAIN entries
  BY DEF Sourced, Asked
<1>7. \A field \in {"kind", "qty"} : DummyEvidence(seq, field) \notin EvidenceOf(Sourced)
  <2> SUFFICES ASSUME NEW field \in {"kind", "qty"}, NEW k \in Sourced,
                      NEW other \in {"kind", "qty"},
                      DummyEvidence(seq, field) = DummyEvidence(k, other)
               PROVE  FALSE
    BY DEF EvidenceOf
  <2>1. Id(seq) = Id(k)
    BY <1>4
  <2> QED
    BY <1>3, <1>6, <2>1
<1>8. QuestionOn(seq) \notin {QuestionOn(k) : k \in Asked}
  <2> SUFFICES ASSUME NEW k \in Asked, QuestionOn(seq) = QuestionOn(k)
               PROVE  FALSE
    OBVIOUS
  <2>1. QuestionOn(seq).question_code = QuestionOn(k).question_code
    OBVIOUS
  <2> QED
    BY <1>3, <1>5, <1>6, <2>1
<1>9. DummyEvidence(seq, "kind") # DummyEvidence(seq, "qty")
  <2>1. DummyEvidence(seq, "kind").field # DummyEvidence(seq, "qty").field
    BY <1>4
  <2> QED
    BY <2>1
<1> QED
  BY <1>2, <1>7, <1>8, <1>9

LEMMA DriveDraws ==
  ASSUME DraftKept, Driven, DrawSource \/ DrawNote
  PROVE  DraftKept' /\ Driven' /\ phase' # "agent"
<1> DEFINE source == seq <= Len(sources)
           asked == ~source \/ LineAt(documents, sources[seq]) = "TBA"
           new == {DummyEvidence(seq, "kind"), DummyEvidence(seq, "qty")}
<1>1. /\ phase = "evidence" /\ phase' = phase /\ UNCHANGED <<vars, documents, reading>>
      /\ documents' = documents /\ sources' = sources /\ url_notes' = url_notes
      /\ unsupported' = unsupported /\ seq <= Len(sources) + Len(url_notes)
      /\ entries' = Append(entries, EntryOn(seq))
      /\ questions' = IF asked THEN Append(questions, QuestionOn(seq)) ELSE questions
      /\ evidences' = IF source
                      THEN evidences \o <<DummyEvidence(seq, "kind"), DummyEvidence(seq, "qty")>>
                      ELSE evidences
  <2>1. Len(sources) \in Nat /\ Len(url_notes) \in Nat /\ Len(entries) \in Nat /\ seq \in Nat
    BY Numbered, DrawnUpNumbers DEF Driven, seq
  <2>2. CASE DrawSource
    <3>1. source /\ EntryOn(seq) = MappedEntry(seq) /\ QuestionOn(seq) = TbaQuestion(seq)
      BY <2>2 DEF DrawSource, EntryOn, QuestionOn
    <3>2. /\ phase = "evidence" /\ phase' = phase /\ UNCHANGED <<vars, documents, reading>>
          /\ documents' = documents /\ sources' = sources /\ url_notes' = url_notes
          /\ unsupported' = unsupported
      BY <2>2 DEF DrawSource, reading
    <3>3. /\ entries' = Append(entries, EntryOn(seq))
          /\ questions' = IF asked THEN Append(questions, QuestionOn(seq)) ELSE questions
          /\ evidences' = evidences \o <<DummyEvidence(seq, "kind"), DummyEvidence(seq, "qty")>>
      BY <2>2, <3>1, Zenon DEF DrawSource
    <3> HIDE DEF asked
    <3> QED
      BY <2>1, <3>1, <3>2, <3>3
  <2>3. CASE DrawNote
    BY <2>1, <2>3 DEF DrawNote, reading, EntryOn, QuestionOn
  <2> QED
    BY <2>2, <2>3
<1>2. DraftKept'
  BY <1>1, StutterKeeps
<1>3. ReadInv'
  BY <1>1, AllIsRead DEF vars, Phases, PastHeader
<1>4. /\ seq \in Numbers /\ seq \notin DOMAIN entries
      /\ DummyEvidence(seq, "kind") # DummyEvidence(seq, "qty")
      /\ \A field \in {"kind", "qty"} : DummyEvidence(seq, field) \notin EvidenceOf(Sourced)
      /\ QuestionOn(seq) \notin {QuestionOn(k) : k \in Asked}
  BY <1>1, NextIsNew DEF Driven
<1>5. /\ IsSequence(entries') /\ Len(entries') = seq /\ seq \in Nat
      /\ DOMAIN entries = 1..Len(entries) /\ Len(entries) \in Nat
      /\ DOMAIN entries' = 1..seq /\ seq = Len(entries) + 1
      /\ \A k \in 1..Len(entries) : entries'[k] = entries[k]
      /\ entries'[seq] = EntryOn(seq)
  <2>1. IsSequence(entries)
    BY DEF Driven, DrawnUp
  <2> QED
    BY <1>1, <2>1, Appended DEF seq
<1>6. DOMAIN entries' = DOMAIN entries \cup {seq}
  BY <1>5
<1>7. /\ Sourced' = IF source THEN Sourced \cup {seq} ELSE Sourced
      /\ Asked' = IF asked THEN Asked \cup {seq} ELSE Asked
  <2>1. Sourced' = {k \in DOMAIN entries' : k <= Len(sources)}
    BY <1>1 DEF Sourced
  <2>2. Asked' = {k \in DOMAIN entries' :
                    k > Len(sources) \/ LineAt(documents, sources[k]) = "TBA"}
    BY <1>1 DEF Asked
  <2>3. ~source <=> seq > Len(sources)
    BY <1>5, Numbered DEF Driven
  <2> QED
    BY <1>6, <2>1, <2>2, <2>3 DEF Sourced, Asked
<1>8. \A k : /\ EntryOn(k)' = EntryOn(k) /\ QuestionOn(k)' = QuestionOn(k)
             /\ \A field : DummyEvidence(k, field)' = DummyEvidence(k, field)
  BY <1>1 DEF EntryOn, MappedEntry, NoteEntry, QuestionOn, TbaQuestion, NoteQuestion,
              DummyEvidence
<1>9. Enumerates(evidences', EvidenceOf(Sourced)')
  <2>1. EvidenceOf(Sourced)' = EvidenceOf(Sourced')
    BY <1>8 DEF EvidenceOf
  <2>2. Enumerates(evidences, EvidenceOf(Sourced))
    BY DEF Driven, DrawnUp
  <2>3. CASE ~source
    BY <1>1, <1>7, <2>1, <2>2, <2>3
  <2>4. CASE source
    <3>1. EvidenceOf(Sourced \cup {seq}) = EvidenceOf(Sourced) \cup new
      BY DEF EvidenceOf
    <3>2. Enumerates(<<DummyEvidence(seq, "kind"), DummyEvidence(seq, "qty")>>, new)
      <4> DEFINE a == DummyEvidence(seq, "kind")
                 b == DummyEvidence(seq, "qty")
      <4>1. a # b
        BY <1>4
      <4> HIDE DEF a, b
      <4>2. Enumerates(<<a, b>>, {a, b})
        BY <4>1 DEF Enumerates, IsSequence, IsInjective, ToSet
      <4> QED
        BY <4>2 DEF a, b
    <3>3. EvidenceOf(Sourced) \cap new = {}
      BY <1>4
    <3> HIDE DEF new, source
    <3>4. evidences' = evidences \o <<DummyEvidence(seq, "kind"), DummyEvidence(seq, "qty")>>
      BY <1>1, <2>4
    <3>5. Enumerates(evidences', EvidenceOf(Sourced) \cup new)
      BY <2>2, <3>2, <3>3, <3>4, AllOfBoth
    <3> QED
      BY <1>7, <2>1, <2>4, <3>1, <3>5
  <2> QED
    BY <2>3, <2>4
<1>10. Enumerates(questions', {QuestionOn(k) : k \in Asked}')
  <2>1. {QuestionOn(k) : k \in Asked}' = {QuestionOn(k) : k \in Asked'}
    BY <1>8
  <2>2. Enumerates(questions, {QuestionOn(k) : k \in Asked})
    BY DEF Driven, DrawnUp
  <2>3. CASE ~asked
    BY <1>1, <1>7, <2>1, <2>2, <2>3
  <2>4. CASE asked
    <3>1. Enumerates(Append(questions, QuestionOn(seq)),
                     {QuestionOn(k) : k \in Asked} \cup {QuestionOn(seq)})
      BY <1>4, <2>2, OneMore
    <3>2. {QuestionOn(k) : k \in Asked \cup {seq}}
            = {QuestionOn(k) : k \in Asked} \cup {QuestionOn(seq)}
      OBVIOUS
    <3> HIDE DEF asked
    <3> QED
      BY <1>1, <1>7, <2>1, <2>4, <3>1, <3>2
  <2> QED
    BY <2>3, <2>4
<1>11. DrawnUp'
  <2>1. \A k \in DOMAIN entries' : entries'[k] = EntryOn(k)'
    <3>1. \A k \in DOMAIN entries : entries[k] = EntryOn(k)
      BY DEF Driven, DrawnUp
    <3> QED
      BY <1>5, <1>6, <1>8, <3>1
  <2>2. Len(entries') <= Len(sources') + Len(url_notes')
    BY <1>1, <1>5
  <2>3. phase \in PastItems /\ phase \in PastHeader /\ phase \notin PastEvidence
    BY <1>1 DEF PastEvidence, PastItems, PastHeader
  <2>4. ~unsupported' /\ sources' # <<>>
    BY <1>1, <2>3 DEF Driven, DrawnUp
  <2> QED
    BY <1>1, <1>5, <1>9, <1>10, <2>1, <2>2, <2>3, <2>4 DEF DrawnUp
<1>12. Written'
  <2>1. DummyRows' = DummyRows /\ Overlong' = Overlong
    BY <1>1 DEF DummyRows, Overlong
  <2>2. Fits(draft)' /\ draft' = draft /\ aborted' = aborted /\ finalized' = finalized
    BY <1>1 DEF vars, Driven, Written, Fits, Narrow
  <2> QED
    BY <1>1, <2>1, <2>2 DEF Driven, Written, PastInventory, PastQuestions, PastEvidence,
       PastItems, PastHeader
<1> QED
  BY <1>1, <1>2, <1>3, <1>11, <1>12 DEF Driven, Halted

LEMMA DriveRecordsEvidence ==
  ASSUME DraftKept, Driven, RecordEvidence
  PROVE  DraftKept' /\ Driven' /\ phase' # "agent"
<1> DEFINE next == WithEvidences(draft, evidences)
<1>1. /\ phase = "evidence" /\ phase' \in {"inventory", "questions"}
      /\ phase' = "inventory" => questions = <<>>
      /\ AllDrawn /\ UNCHANGED <<documents, reading, drawing>>
      /\ questions' = questions /\ evidences' = evidences
      /\ Commit("record_evidence", next)
  BY DEF RecordEvidence, Then, add_evidences, drawing
<1>2. /\ DraftOK(draft) /\ Fits(draft) /\ draft.evidences = <<>>
      /\ draft.items = ItemRows(DummyRows) /\ DOMAIN draft = Tables /\ ReadInv /\ DrawnUp
  BY <1>1 DEF DraftKept, DraftOK, Driven, Written, PastEvidence, PastItems, PastHeader
<1>3. /\ DraftOK(next) /\ Fits(next)
      /\ next = [draft EXCEPT !.evidences = Parse(EvidenceInput, evidences)]
  BY <1>2, EvidencesStep
<1> HIDE DEF next
<1>4. /\ DraftKept' /\ inquiry' = inquiry /\ scanned' = scanned /\ reported' = reported
      /\ finalized' = finalized /\ draft' = next /\ aborted' = aborted
  BY <1>1, <1>3, CommitKeeps
<1>5. ReadInv'
  BY <1>1, <1>4, AllIsRead DEF Phases, PastHeader
<1>6. Len(entries) = Len(sources) + Len(url_notes)
  <2>1. Len(entries) \in Nat /\ Len(sources) \in Nat /\ Len(url_notes) \in Nat
    BY <1>2, Numbered, DrawnUpNumbers
  <2> QED
    BY <1>1, <1>2, <2>1 DEF AllDrawn, seq, DrawnUp
<1>7. DrawnUp' /\ DummyRows' = DummyRows /\ Overlong' = Overlong
  BY <1>1, <1>6, DrawnUpStays DEF Driven, PastEvidence, PastItems, PastHeader
<1>8. Written'
  <2>1. /\ draft'.evidences = Parse(EvidenceInput, evidences)
        /\ \A table \in Tables \ {"evidences"} : draft'[table] = draft[table]
    BY <1>2, <1>3, <1>4 DEF Tables
  <2>2. Fits(draft')
    BY <1>3, <1>4
  <2>3. Parse(QuestionInput, <<>>) = <<>>
    BY DEF Parse
  <2> QED
    BY <1>1, <1>4, <1>7, <2>1, <2>2, <2>3 DEF Driven, Written, Tables, PastInventory,
       PastQuestions, PastEvidence, PastItems, PastHeader
<1> QED
  BY <1>1, <1>4, <1>5, <1>7, <1>8 DEF Driven, Halted

LEMMA DriveRecordsQuestions ==
  ASSUME DraftKept, Driven, RecordQuestions
  PROVE  DraftKept' /\ Driven' /\ phase' # "agent"
<1> DEFINE next == WithQuestions(draft, questions)
<1>1. /\ phase = "questions" /\ phase' = "inventory"
      /\ UNCHANGED <<documents, reading, drawing>>
      /\ questions' = questions /\ evidences' = evidences
      /\ Commit("record_question", next)
  BY DEF RecordQuestions, Then, add_questions, drawing
<1>2. /\ DraftOK(draft) /\ Fits(draft) /\ draft.questions = <<>>
      /\ draft.items = ItemRows(DummyRows) /\ DOMAIN draft = Tables /\ ReadInv /\ DrawnUp
  BY <1>1 DEF DraftKept, DraftOK, Driven, Written, PastQuestions, PastEvidence, PastItems,
              PastHeader
<1>3. /\ DraftOK(next) /\ Fits(next)
      /\ next = [draft EXCEPT !.questions = Parse(QuestionInput, questions)]
  BY <1>2, QuestionsStep
<1> HIDE DEF next
<1>4. /\ DraftKept' /\ inquiry' = inquiry /\ scanned' = scanned /\ reported' = reported
      /\ finalized' = finalized /\ draft' = next /\ aborted' = aborted
  BY <1>1, <1>3, CommitKeeps
<1>5. ReadInv'
  BY <1>1, <1>4, AllIsRead DEF Phases, PastHeader
<1>6. DrawnUp' /\ DummyRows' = DummyRows /\ Overlong' = Overlong
  <2>1. Len(entries) = Len(sources) + Len(url_notes)
    BY <1>1, <1>2 DEF DrawnUp, PastEvidence, PastItems, PastHeader
  <2> QED
    BY <1>1, <2>1, DrawnUpStays DEF Driven, PastEvidence, PastItems, PastHeader
<1>7. Written'
  <2>1. /\ draft'.questions = Parse(QuestionInput, questions)
        /\ \A table \in Tables \ {"questions"} : draft'[table] = draft[table]
    BY <1>2, <1>3, <1>4 DEF Tables
  <2>2. Fits(draft')
    BY <1>3, <1>4
  <2> QED
    BY <1>1, <1>4, <1>6, <2>1, <2>2 DEF Driven, Written, Tables, PastInventory,
       PastQuestions, PastEvidence, PastItems, PastHeader
<1> QED
  BY <1>1, <1>4, <1>5, <1>6, <1>7 DEF Driven, Halted

LEMMA DriveRecordsInventory ==
  ASSUME DraftKept, Driven, RecordInventory
  PROVE  DraftKept' /\ Driven' /\ phase' # "agent"
<1> DEFINE next == WithEntries(draft, entries)
<1>1. /\ phase = "inventory" /\ phase' = "validate"
      /\ UNCHANGED <<documents, reading, drawing>>
      /\ questions' = questions /\ evidences' = evidences /\ entries' = entries
      /\ Commit("record_source_inventory", next)
  BY DEF RecordInventory, Then, add_inventory, drawing
<1>2. /\ DraftOK(draft) /\ Fits(draft)
      /\ draft.source_inventory_entries = <<>> /\ draft.inventory_links = <<>>
      /\ draft.items = ItemRows(DummyRows) /\ DOMAIN draft = Tables /\ ReadInv /\ DrawnUp
  BY <1>1 DEF DraftKept, DraftOK, Driven, Written, PastInventory, PastQuestions,
              PastEvidence, PastItems, PastHeader
<1>3. /\ DraftOK(next) /\ Fits(next)
      /\ next = [draft EXCEPT !.source_inventory_entries = EntryRows(entries),
                              !.inventory_links = LinkRows(entries)]
  BY <1>2, EntriesStep
<1> HIDE DEF next
<1>4. /\ DraftKept' /\ inquiry' = inquiry /\ scanned' = scanned /\ reported' = reported
      /\ finalized' = finalized /\ draft' = next /\ aborted' = aborted
  BY <1>1, <1>3, CommitKeeps
<1>5. ReadInv'
  BY <1>1, <1>4, AllIsRead DEF Phases, PastHeader
<1>6. DrawnUp' /\ DummyRows' = DummyRows /\ Overlong' = Overlong
  <2>1. Len(entries) = Len(sources) + Len(url_notes)
    BY <1>1, <1>2 DEF DrawnUp, PastEvidence, PastItems, PastHeader
  <2> QED
    BY <1>1, <2>1, DrawnUpStays DEF Driven, PastEvidence, PastItems, PastHeader
<1>7. Written'
  <2>1. /\ draft'.source_inventory_entries = EntryRows(entries)
        /\ draft'.inventory_links = LinkRows(entries)
        /\ \A table \in Tables \ {"source_inventory_entries", "inventory_links"} :
             draft'[table] = draft[table]
    BY <1>2, <1>3, <1>4 DEF Tables
  <2>2. Fits(draft')
    BY <1>3, <1>4
  <2> QED
    BY <1>1, <1>4, <1>6, <2>1, <2>2 DEF Driven, Written, Tables, PastInventory,
       PastQuestions, PastEvidence, PastItems, PastHeader
<1> QED
  BY <1>1, <1>4, <1>5, <1>6, <1>7 DEF Driven, Halted

(* The draft is finalized unless something that came late was not read.    *)
LEMMA DriveFinalizes ==
  ASSUME DraftKept, Driven, Validate \/ Finalize
  PROVE  DraftKept' /\ Driven' /\ phase' # "agent"
<1>1. /\ phase \in PastInventory /\ phase' \in PastInventory
      /\ phase \in {"validate", "finalize"}
      /\ phase' \in {"validation_unresolved", "finalize", "draft_not_finalized", "done"}
      /\ UNCHANGED <<documents, reading, drawing>>
      /\ questions' = questions /\ evidences' = evidences /\ entries' = entries
  BY DEF Validate, Finalize, Then, drawing, PastInventory, PastQuestions, PastEvidence,
     PastItems, PastHeader
<1>2. phase' \in {"validation_unresolved", "draft_not_finalized"} =>
        Violations # {} /\ UNCHANGED vars
  BY DEF Validate, Finalize, Then
<1>3. /\ DraftKept' /\ inquiry' = inquiry /\ scanned' = scanned /\ reported' = reported
      /\ draft' = draft /\ aborted' = aborted
      /\ finalized' = IF phase' # "done" THEN finalized
                      ELSE IF Issues = {} THEN "complete" ELSE "incomplete"
  <2>1. CASE Validate
    BY <2>1, StutterKeeps DEF Validate, Then, vars
  <2>2. CASE Finalize
    <3>1. \/ phase' = "done" /\ finalize
          \/ phase' = "draft_not_finalized" /\ UNCHANGED vars
      BY <2>2 DEF Finalize, Then
    <3> QED
      BY <3>1, FinalizeKeeps, StutterKeeps DEF finalize, vars
  <2> QED
    BY <2>1, <2>2
<1>4. ReadInv'
  BY <1>1, <1>3, AllIsRead DEF Phases, PastHeader
<1>5. DrawnUp' /\ DummyRows' = DummyRows /\ Overlong' = Overlong
  <2>1. Len(entries) = Len(sources) + Len(url_notes)
    BY <1>1 DEF Driven, DrawnUp, PastInventory, PastQuestions, PastEvidence
  <2> QED
    BY <1>1, <2>1, DrawnUpStays DEF Driven, PastInventory, PastQuestions, PastEvidence,
       PastItems, PastHeader
<1>6. Written'
  <2>1. Fits(draft') /\ Issues' = Issues
    BY <1>3 DEF Driven, Written, Issues
  <2> QED
    BY <1>1, <1>3, <1>5, <2>1 DEF Driven, Written, PastInventory, PastQuestions,
       PastEvidence, PastItems, PastHeader
<1>7. Halted'
  <2>1. Violations = Unread
    BY <1>1, OnlyTheLateIsAmiss DEF Driven, DraftKept
  <2>2. documents' = documents
    BY <1>1
  <2>3. Unread' = Unread
    BY <1>3, <2>2 DEF Unread, Issues
  <2> QED
    BY <1>2, <2>1, <2>3 DEF Halted
<1> QED
  BY <1>1, <1>3, <1>4, <1>5, <1>6, <1>7 DEF Driven

(* What is taken in late leaves the work alone.                            *)
LEMMA DriveTakesIn ==
  ASSUME DraftKept, Driven, TakeIn
  PROVE  DraftKept' /\ Driven' /\ phase' # "agent"
<1>1. PICK ranges \in SUBSET (LateRanges \ inquiry.ranges) :
        \E noted \in SUBSET (ranges \cup {Null}) :
          inquiry' = Reading(inquiry.ranges \cup ranges, inquiry.noted \cup noted)
  BY DEF TakeIn
<1>2. PICK noted \in SUBSET (ranges \cup {Null}) :
        inquiry' = Reading(inquiry.ranges \cup ranges, inquiry.noted \cup noted)
  BY <1>1
<1>3. /\ inquiry'.ranges = inquiry.ranges \cup ranges
      /\ inquiry'.noted = inquiry.noted \cup noted
  BY <1>2 DEF Reading
<1>4. /\ UNCHANGED <<draft, scanned, reported, finalized, aborted, calls, documents, phase>>
      /\ UNCHANGED <<documents, reading>> /\ UNCHANGED <<documents, reading, drawing>>
      /\ questions' = questions /\ evidences' = evidences /\ entries' = entries
      /\ finalized = "open" /\ phase # "agent"
  BY DEF TakeIn, drawing
<1>5. DraftKept'
  BY <1>3, <1>4 DEF DraftKept, AcceptedIsStorable, FinalizedIsValid
<1>6. ReadInv'
  <2>1. RangesKnown'
    BY <1>3, <1>4 DEF Driven, ReadInv, AtPlace, RangesKnown
  <2> QED
    BY <1>4, <2>1, WritingKeeps DEF Driven, ReadInv, AtPlace
<1>7. DrawnUp' /\ DummyRows' = DummyRows /\ Overlong' = Overlong
  BY <1>4, DrawnUpStays DEF Driven, DrawnUp
<1>8. Written'
  <2>1. Fits(draft)' /\ phase # "done"
    BY <1>4 DEF Driven, Written, Fits, Narrow
  <2> QED
    BY <1>4, <1>7, <2>1 DEF Driven, Written
<1>9. Halted'
  <2> SUFFICES ASSUME phase \in {"validation_unresolved", "draft_not_finalized"}
               PROVE  Unread' # {}
    BY <1>4 DEF Halted
  <2> DEFINE late(known) == ((known \ CaseRanges(documents)) \ scanned)
  <2>1. PICK missed \in late(inquiry.ranges) : missed \notin Issues
    BY DEF Driven, Halted, Unread, unscanned_range
  <2>2. missed # Null /\ missed \notin ranges
    <3>1. missed \in LateRanges
      BY <2>1 DEF Driven, ReadInv, AtPlace, RangesKnown
    <3> QED
      BY <1>1, <2>1, <3>1, LateRangesAssumption
  <2>3. missed \notin Issues'
    BY <1>2, <1>3, <1>4, <2>1, <2>2 DEF Issues
  <2>4. missed \in late(inquiry'.ranges)
    BY <1>3, <2>1
  <2>5. Violation("unscanned_range", Null, missed) \in Unread'
    BY <1>4, <2>3, <2>4 DEF Unread, unscanned_range
  <2> QED
    BY <2>5
<1> QED
  BY <1>4, <1>5, <1>6, <1>7, <1>8, <1>9 DEF Driven

LEMMA DriveStutters ==
  ASSUME Driven, UNCHANGED dummy_vars
  PROVE  Driven'
<1>1. /\ UNCHANGED vars /\ UNCHANGED <<documents, reading, drawing>> /\ phase' = phase
      /\ questions' = questions /\ evidences' = evidences /\ entries' = entries
  BY DEF dummy_vars, drawing
<1>2. ReadInv'
  BY <1>1, WritingKeeps DEF Driven, ReadInv, AtPlace, RangesKnown, vars
<1>3. DrawnUp' /\ DummyRows' = DummyRows /\ Overlong' = Overlong
  BY <1>1, DrawnUpStays DEF Driven, DrawnUp
<1>4. Written'
  <2>1. Fits(draft)' /\ draft' = draft /\ aborted' = aborted /\ finalized' = finalized
        /\ Issues' = Issues
    BY <1>1 DEF vars, Driven, Written, Fits, Narrow, Issues
  <2> QED
    BY <1>1, <1>3, <2>1 DEF Driven, Written
<1>5. Halted'
  BY <1>1 DEF Driven, Halted, Unread, Issues, vars
<1> QED
  BY <1>2, <1>3, <1>4, <1>5 DEF Driven

-----------------------------------------------------------------------------
(* The invariant: an agent drives the run, of which DraftArtifactsProofs   *)
(* speaks, or this policy does.                                            *)

DummyInv ==
  /\ DraftKept
  /\ phase = "agent" => inquiry \in Inquiries
  /\ phase # "agent" => Driven

LEMMA DummyBegins == DummyInit => DummyInv
<1> SUFFICES ASSUME DummyInit PROVE DummyInv
  OBVIOUS
<1>1. DraftKept
  BY DraftInit DEF DummyInit
<1>2. CASE phase = "agent"
  BY <1>1, <1>2 DEF DummyInit, DummyInv
<1>3. CASE phase # "agent"
  <2>1. /\ documents \in Cases /\ inquiry.ranges = CaseRanges(documents)
        /\ phase = "reading" /\ document = 1 /\ range = 0 /\ line = 1
        /\ matches = <<>> /\ notes_here = <<>> /\ sources = <<>> /\ url_notes = <<>>
        /\ evidences = <<>> /\ questions = <<>> /\ entries = <<>>
        /\ unsupported = FALSE
        /\ draft = [table \in Tables |-> <<>>]
        /\ scanned = {} /\ reported = {} /\ finalized = "open" /\ aborted = {}
    BY <1>3 DEF DummyInit, Untouched, Reading
  <2>2. /\ Len(documents) \in Nat /\ DOMAIN documents = 1..Len(documents)
        /\ \A d \in DOMAIN documents :
             Len(documents[d]) \in Nat /\ DOMAIN documents[d] = 1..Len(documents[d])
    BY <2>1, CaseFacts
  <2>3. AtPlace
    <3>1. document <= Len(documents) =>
            /\ ~(range > Len(documents[document]))
            /\ range \notin DOMAIN documents[document]
      BY <2>1, <2>2
    <3> QED
      BY <2>1, <2>2, <3>1 DEF AtPlace, RangesKnown, Phases
  <2>4. \A d \in DOMAIN documents : ~Before(d, 0) /\ \A r \in DOMAIN documents[d] : ~Before(d, r)
    BY <2>1, <2>2 DEF Before
  <2>5. \A p \in Places(documents) : ~Passed(p) /\ ~Here(p)
    <3> TAKE p \in Places(documents)
    <3>1. p[1] \in DOMAIN documents /\ p[2] \in DOMAIN documents[p[1]]
      BY <2>1, <2>2, AtPlaces
    <3> QED
      BY <2>1, <2>3, <2>4, <3>1, NothingHere DEF Passed
  <2>6. Taken
    <3>1. /\ NotesHere = {} /\ OthersHere = {} /\ PassedNotes = {} /\ PassedOthers = {}
      BY <2>5 DEF NotesHere, OthersHere, PassedNotes, PassedOthers
    <3> QED
      BY <2>1, <3>1, Nothing DEF Taken
  <2>7. Scanned
    <3>1. Gaps = {}
      BY <2>1, <2>2 DEF Gaps
    <3> QED
      BY <2>1, <2>4, <3>1 DEF Scanned, NoHoles, Hole
  <2>8. DrawnUp
    <3>1. /\ phase \notin PastHeader /\ phase \notin PastItems /\ phase \notin PastEvidence
      BY <2>1 DEF PastEvidence, PastItems, PastHeader
    <3>2. /\ IsSequence(entries) /\ Len(entries) = 0 /\ DOMAIN entries = {}
          /\ Len(sources) = 0 /\ Len(url_notes) = 0
          /\ Enumerates(evidences, EvidenceOf(Sourced))
          /\ Enumerates(questions, {QuestionOn(k) : k \in Asked})
      BY <2>1, NothingDrawn, Nothing
    <3>3. phase # "header"
      BY <2>1
    <3> QED
      BY <2>1, <3>1, <3>2, <3>3 DEF DrawnUp
  <2>9. Written
    <3>1. \A table \in Tables : draft[table] = <<>>
      BY <2>1
    <3>2. Fits(draft)
      BY <3>1, Nothing DEF Fits, Narrow, Tables
    <3> QED
      BY <2>1, <3>1, <3>2 DEF Written, Tables, PastInventory, PastQuestions, PastEvidence,
         PastItems, PastHeader
  <2> QED
    BY <1>1, <1>3, <2>1, <2>3, <2>6, <2>7, <2>8, <2>9
       DEF DummyInv, Driven, ReadInv, Halted
<1> QED
  BY <1>2, <1>3

LEMMA DummyStep == DummyInv /\ [Agent \/ DummyNext]_dummy_vars => DummyInv'
<1> SUFFICES ASSUME DummyInv, [Agent \/ DummyNext]_dummy_vars PROVE DummyInv'
  OBVIOUS
<1>1. CASE Agent
  <2>1. phase = "agent" /\ phase' = "agent" /\ Next
    BY <1>1 DEF Agent
  <2>2. DraftInv
    BY <2>1 DEF DummyInv, DraftInv
  <2>3. DraftInv'
    BY <2>1, <2>2, DraftStep
  <2> QED
    BY <2>1, <2>3 DEF DummyInv, DraftInv
<1>2. CASE DummyNext
  <2>1. phase # "agent"
    BY <1>2 DEF DummyNext, ReadDocument, ReportDocument, ReportBlank, ReadLine, Interpret,
       AtRange, Decide, Ask, RecordHeader, ProposeItems, DrawSource, DrawNote,
       RecordEvidence, RecordQuestions, RecordInventory, Validate, Finalize, Then,
       TakeIn
  <2>2. DraftKept /\ Driven
    BY <2>1 DEF DummyInv
  <2>3. DraftKept' /\ Driven' /\ phase' # "agent"
    BY <1>2, <2>2, DriveReads, DriveDecides, DriveAsks, DriveRecordsHeader,
       DriveProposesItems, DriveDraws, DriveRecordsEvidence, DriveRecordsQuestions,
       DriveRecordsInventory, DriveFinalizes, DriveTakesIn DEF DummyNext
  <2> QED
    BY <2>3 DEF DummyInv
<1>3. CASE UNCHANGED dummy_vars
  <2>1. UNCHANGED vars /\ phase' = phase /\ inquiry' = inquiry
    BY <1>3 DEF dummy_vars, vars
  <2> QED
    BY <1>3, <2>1, StutterKeeps, DriveStutters DEF DummyInv
<1> QED
  BY <1>1, <1>2, <1>3

LEMMA DummyInvariant == DummySpec => []DummyInv
  BY DummyBegins, DummyStep, PTL DEF DummySpec

-----------------------------------------------------------------------------
(* The theorems.                                                           *)

(* What local_policy.py and the agents store has the types of the          *)
(* contracts.                                                              *)
THEOREM DummyTypeCorrect == DummySpec => []TypeOK
<1>1. DummyInv => TypeOK
  BY KeptIsTyped DEF DummyInv
<1> QED
  BY <1>1, DummyInvariant, PTL

(* No transaction of the policy's tool calls is aborted by a constraint.   *)
THEOREM DummyAcceptedIsStorable == DummySpec => []AcceptedIsStorable
<1>1. DummyInv => AcceptedIsStorable
  BY DEF DummyInv, DraftKept
<1> QED
  BY <1>1, DummyInvariant, PTL

(* The final validation repeats the contracts in vain.                     *)
THEOREM DummyBackstopsAreIdle == DummySpec => []BackstopsAreIdle
<1>1. DummyInv => BackstopsAreIdle
  BY BackstopsIdle DEF DummyInv, DraftKept, BackstopsAreIdle
<1> QED
  BY <1>1, DummyInvariant, PTL

(* What the policy or an agent finalizes has not one violation, and was    *)
(* read to the end if it is complete.                                      *)
THEOREM DummyFinalizedIsValid == DummySpec => []FinalizedIsValid
<1>1. DummyInv => FinalizedIsValid
  BY DEF DummyInv, DraftKept
<1> QED
  BY <1>1, DummyInvariant, PTL

(* The inventory view agrees with what the policy recorded.                *)
THEOREM DummyInventoryReconciles == DummySpec => []InventoryReconciles
<1>1. DummyInv => InventoryReconciles
  BY Reconciled DEF DummyInv
<1> QED
  BY <1>1, DummyInvariant, PTL

(* A violation on the way can be removed by one more call.                 *)
THEOREM DummyViolationsCanBeRemedied ==
  DummySpec => [](RoomIsLeft => ViolationsCanBeRemedied)
<1>1. DummyInv => (RoomIsLeft => ViolationsCanBeRemedied)
  BY Remediable DEF DummyInv
<1> QED
  BY <1>1, DummyInvariant, PTL

(* Of any case, and whatever is taken in beside it, the policy's calls are *)
(* all accepted by the contracts and the repository; that it never looks   *)
(* at a reply matters where a quantity is too wide for its column, and its *)
(* draft is not valid only where a late range was neither read nor noted.  *)
THEOREM DummyRefusedForCause == DummySpec => []RefusedForCause
<1>1. ASSUME DummyInv PROVE RefusedForCause
  <2>1. CASE phase = "agent"
    BY <2>1 DEF RefusedForCause
  <2>2. CASE phase # "agent"
    <3>1. /\ ReadInv /\ DrawnUp /\ Written /\ Driven /\ DraftOK(draft) /\ Fits(draft)
          /\ Halted /\ phase \in Phases
          /\ aborted = IF phase = "raised" THEN {<<"propose_items", "width">>} ELSE {}
      BY <1>1, <2>2 DEF DummyInv, Driven, DraftKept, Written, ReadInv, AtPlace
    <3>2. phase = "ask" => QuestionsAccepted(draft, UnsupportedQuestion)
      <4>1. phase = "ask" => draft.questions = <<>>
        BY <3>1 DEF Written, PastQuestions, PastEvidence, PastItems, PastHeader
      <4> QED
        BY <3>1, <4>1, UnsupportedStep
    <3>3. phase = "header" => HeaderAccepted(draft, DummyHeader)
      <4>1. phase = "header" => draft.case_headers = <<>>
        BY <3>1 DEF Written, PastHeader
      <4> QED
        BY <3>1, <4>1, HeaderStep
    <3>4. phase = "items" => ItemsAccepted(draft, DummyRows)
      <4>1. phase = "items" => draft.items = <<>> /\ draft.item_ends = <<>>
        BY <3>1 DEF Written, PastItems
      <4> QED
        BY <3>1, <4>1, ItemsStep
    <3>5. phase \in {"evidence", "questions", "inventory"} => draft.items = ItemRows(DummyRows)
      BY <3>1 DEF Written, PastItems, PastHeader
    <3>6. phase = "evidence" => EvidencesAccepted(draft, evidences)
      <4>1. phase = "evidence" => draft.evidences = <<>>
        BY <3>1 DEF Written, PastEvidence
      <4> QED
        BY <3>1, <3>5, <4>1, EvidencesStep
    <3>7. phase = "questions" => QuestionsAccepted(draft, questions)
      <4>1. phase = "questions" => draft.questions = <<>>
        BY <3>1 DEF Written, PastQuestions
      <4> QED
        BY <3>1, <3>5, <4>1, QuestionsStep
    <3>8. phase = "inventory" => EntriesAccepted(draft, entries)
      <4>1. phase = "inventory" =>
              draft.source_inventory_entries = <<>> /\ draft.inventory_links = <<>>
        BY <3>1 DEF Written, PastInventory
      <4> QED
        BY <3>1, <3>5, <4>1, EntriesStep
    <3>9. phase \in {"validate", "finalize"} =>
            Violations = Unread /\ draft.source_inventory_entries # <<>>
      <4> SUFFICES ASSUME phase \in {"validate", "finalize"}
                   PROVE  Violations = Unread /\ draft.source_inventory_entries # <<>>
        OBVIOUS
      <4>1. /\ phase \in PastInventory /\ phase \in PastEvidence /\ phase \in PastHeader
        BY DEF PastInventory, PastQuestions, PastEvidence, PastItems, PastHeader
      <4>2. /\ Len(entries) = Len(sources) + Len(url_notes) /\ sources # <<>>
            /\ draft.source_inventory_entries = EntryRows(entries)
        BY <3>1, <4>1 DEF DrawnUp, Written
      <4>3. /\ Len(sources) \in Nat /\ DOMAIN sources = 1..Len(sources)
            /\ Len(url_notes) \in Nat /\ DOMAIN entries = 1..Len(entries)
        BY <3>1, Numbered, DrawnUpNumbers
      <4>4. Len(sources) # 0
        <5>1. IsSequence(sources)
          BY <3>1 DEF ReadInv, Taken, Enumerates
        <5> QED
          BY <4>2, <5>1 DEF IsSequence
      <4>5. 1 \in DOMAIN entries /\ DOMAIN EntryRows(entries) = DOMAIN entries
        BY <4>2, <4>3, <4>4 DEF EntryRows
      <4> QED
        BY <3>1, <4>1, <4>2, <4>5, Nothing, OnlyTheLateIsAmiss
    <3>10. phase = "raised" =>
             /\ draft.items = <<>>
             /\ \E place \in Places(documents) : LineAt(documents, place) = "vast"
      <4> SUFFICES ASSUME phase = "raised"
                   PROVE  /\ draft.items = <<>>
                          /\ \E place \in Places(documents) : LineAt(documents, place) = "vast"
        OBVIOUS
      <4>1. draft.items = <<>>
        BY <3>1 DEF Written, PastItems
      <4>2. PICK k \in DOMAIN sources : LineAt(documents, sources[k]) = "vast"
        BY <3>1 DEF Written, Overlong
      <4>3. sources[k] \in Places(documents)
        <5>1. sources[k] \in ToSet(sources)
          BY DEF ToSet
        <5> QED
          BY <3>1, <5>1 DEF ReadInv, Taken, PassedRows
      <4> QED
        BY <4>1, <4>2, <4>3
    <3> QED
      BY <3>1, <3>2, <3>3, <3>4, <3>6, <3>7, <3>8, <3>9, <3>10
         DEF RefusedForCause, Halted
  <2> QED
    BY <2>1, <2>2
<1> QED
  BY <1>1, DummyInvariant, PTL

(* A set has as many elements as any that it is mapped onto one to one.    *)
LEMMA AsMany ==
  ASSUME NEW S, IsFiniteSet(S), NEW f, f = [k \in S |-> f[k]],
         \A j, k \in S : f[j] = f[k] => j = k
  PROVE  Cardinality({f[k] : k \in S}) = Cardinality(S)
<1> DEFINE T == {f[k] : k \in S}
<1>1. f \in Bijection(S, T)
  <2>1. f \in [S -> T] /\ \A y \in T : \E k \in S : f[k] = y
    OBVIOUS
  <2> HIDE DEF T
  <2>2. f \in Injection(S, T)
    BY <2>1, Zenon DEF Injection, IsInjective
  <2>3. f \in Surjection(S, T)
    BY <2>1, Zenon DEF Surjection
  <2> QED
    BY <2>2, <2>3 DEF Bijection
<1> HIDE DEF T
<1>2. ExistsBijection(S, T)
  BY <1>1 DEF ExistsBijection
<1>3. Cardinality(T) = Cardinality(S)
  BY <1>2, FS_Bijection
<1> QED
  BY <1>3 DEF T

(* The policy publishes a case whose every line it understood, with a row  *)
(* for each line that is one, a question for each TBA and each note, an    *)
(* entry for each line, and complete unless a part had nothing to read or  *)
(* a reader noted something; or it publishes nothing.                      *)
THEOREM DummyPublishesAllOrNothing == DummySpec => []PublishesAllOrNothing
<1>1. ASSUME DummyInv PROVE PublishesAllOrNothing
  <2> SUFFICES ASSUME phase = "done"
               PROVE  /\ finalized # "open"
                      /\ Count({"prose", "vast"}) = 0
                      /\ Len(draft.items) = Count(RowLine)
                      /\ Len(draft.questions) = Count({"TBA", "note"})
                      /\ Len(draft.source_inventory_entries) = Count(Line \ {"blank"})
                      /\ finalized = "complete" <=>
                           /\ inquiry.noted = {}
                           /\ \A d \in DOMAIN documents :
                                /\ documents[d] # <<>>
                                /\ \A part \in ToSet(documents[d]) : HasText(part)
    BY DEF PublishesAllOrNothing
  <2>1. ReadInv /\ DrawnUp /\ Written
    BY <1>1 DEF DummyInv, Driven
  <2>2. /\ phase \in PastInventory /\ phase \in PastEvidence /\ phase \in PastHeader
        /\ phase \in PastItems /\ phase \in PastQuestions
    BY DEF PastInventory, PastQuestions, PastEvidence, PastItems, PastHeader
  <2>3. /\ documents \in Cases /\ document > Len(documents) /\ document \in Nat
        /\ Len(documents) \in Nat /\ DOMAIN documents = 1..Len(documents)
    BY <2>1, CaseFacts DEF ReadInv, AtPlace
  <2> DEFINE places == Places(documents)
             text(p) == LineAt(documents, p)
  <2>4. /\ \A d \in DOMAIN documents : \A r : Before(d, r)
        /\ \A p \in places : Passed(p) /\ text(p) \in Line
    <3>1. \A d \in DOMAIN documents : \A r : Before(d, r)
      BY <2>3 DEF Before
    <3> QED
      BY <2>3, <3>1, AtPlaces DEF Passed
  <2>5. /\ ~unsupported
        /\ Enumerates(sources, ToSet(sources)) /\ Enumerates(url_notes, PassedNotes)
        /\ ToSet(sources) \subseteq PassedRows /\ PassedOthers \subseteq ToSet(sources)
    BY <2>1, <2>2 DEF DrawnUp, ReadInv, Taken
  <2>6. /\ PassedNotes = {p \in places : text(p) \in {"note"}}
        /\ PassedRows = {p \in places : text(p) \in RowLine}
        /\ PassedOthers = {p \in places : text(p) \notin {"note", "blank"}}
    BY <2>4 DEF PassedNotes, PassedRows, PassedOthers
  <2> HIDE DEF places, text
  <2>7. /\ ToSet(sources) = {p \in places : text(p) \in RowLine}
        /\ {p \in places : text(p) \in {"prose", "vast"}} = {}
        /\ {p \in places : text(p) \in Line \ {"blank"}} = ToSet(sources) \cup PassedNotes
        /\ ToSet(sources) \cap PassedNotes = {}
    <3>1. \A p \in ToSet(sources) : text(p) # "vast"
      <4>1. \A p \in ToSet(sources) : \E k \in DOMAIN sources : p = sources[k]
        BY DEF ToSet
      <4> QED
        BY <2>1, <2>2, <4>1 DEF Written, Overlong, text
    <3> QED
      BY <2>4, <2>5, <2>6, <3>1 DEF RowLine, Line
  <2>8. \A kinds : Count(kinds) = Cardinality({p \in places : text(p) \in kinds})
    BY DEF Count, places, text
  <2>9. Count({"prose", "vast"}) = 0
    BY <2>7, <2>8, FS_EmptySet
  <2>10. Len(draft.items) = Count(RowLine)
    <3>1. Len(draft.items) = Len(sources)
      BY <2>1, <2>2, DummyItems DEF Written
    <3> QED
      BY <2>5, <2>7, <2>8, <3>1, Counted
  <2> DEFINE all == sources \o url_notes
  <2>11. Enumerates(all, ToSet(sources) \cup PassedNotes)
    BY <2>5, <2>7, AllOfBoth
  <2>12. /\ Len(all) = Len(sources) + Len(url_notes)
         /\ \A k \in 1..Len(sources) : all[k] = sources[k]
         /\ \A k \in 1..Len(url_notes) : all[Len(sources) + k] = url_notes[k]
    BY <2>5, Joined DEF Enumerates
  <2> HIDE DEF all
  <2>13. /\ DOMAIN all = 1..Len(all) /\ Len(entries) = Len(all)
         /\ DOMAIN entries = DOMAIN all
         /\ Len(sources) \in Nat /\ Len(url_notes) \in Nat
         /\ DOMAIN sources = 1..Len(sources) /\ DOMAIN url_notes = 1..Len(url_notes)
    BY <2>1, <2>2, <2>11, <2>12, Numbered, DrawnUpNumbers, SequenceFacts
       DEF DrawnUp, Enumerates
  <2>14. Len(draft.source_inventory_entries) = Count(Line \ {"blank"})
    <3>1. draft.source_inventory_entries = EntryRows(entries) /\ IsSequence(entries)
      BY <2>1, <2>2 DEF Written, DrawnUp
    <3>2. Len(EntryRows(entries)) = Len(entries)
      <4> DEFINE rows == EntryRows(entries)
      <4>1. rows = [k \in DOMAIN entries |-> rows[k]]
        BY DEF EntryRows
      <4> HIDE DEF rows
      <4>2. Len(rows) = Len(entries)
        BY <3>1, <4>1, Drawn
      <4> QED
        BY <4>2 DEF rows
    <3>3. Cardinality(ToSet(sources) \cup PassedNotes) = Len(all)
      BY <2>11, Counted
    <3> QED
      BY <2>7, <2>8, <2>13, <3>1, <3>2, <3>3
  <2>15. Len(draft.questions) = Count({"TBA", "note"})
    <3>1. draft.questions = Parse(QuestionInput, questions) /\ IsSequence(questions)
      BY <2>1, <2>2 DEF Written, DrawnUp, Enumerates
    <3>2. Len(draft.questions) = Len(questions)
      <4> DEFINE rows == Parse(QuestionInput, questions)
      <4>1. rows = [k \in DOMAIN questions |-> rows[k]]
        BY DEF Parse
      <4> HIDE DEF rows
      <4>2. Len(rows) = Len(questions)
        BY <3>1, <4>1, Drawn
      <4> QED
        BY <3>1, <4>2 DEF rows
    <3>3. Len(questions) = Cardinality({QuestionOn(k) : k \in Asked})
      BY <2>1, Counted DEF DrawnUp
    <3>4. Asked \subseteq DOMAIN all /\ IsFiniteSet(Asked)
      <4>1. Asked \subseteq 1..Len(all)
        BY <2>13 DEF Asked
      <4>2. IsFiniteSet(1..Len(all))
        BY <2>12, <2>13, FS_Interval
      <4> QED
        BY <2>13, <4>1, <4>2, FS_Subset
    <3>5. Cardinality({QuestionOn(k) : k \in Asked}) = Cardinality(Asked)
      <4> DEFINE f == [k \in Asked |-> QuestionOn(k)]
      <4>1. \A j, k \in Asked : f[j] = f[k] => j = k
        <5> SUFFICES ASSUME NEW j \in Asked, NEW k \in Asked, QuestionOn(j) = QuestionOn(k)
                     PROVE  j = k
          OBVIOUS
        <5>1. \A i : QuestionOn(i).question_code
                       = IF i <= Len(sources) THEN Code("Q-", i) ELSE Code("URL-", i)
          BY DEF QuestionOn, TbaQuestion, NoteQuestion
        <5>2. QuestionOn(j).question_code = QuestionOn(k).question_code
          OBVIOUS
        <5>3. j \in Numbers /\ k \in Numbers
          BY <2>1, DrawnUpNumbers
        <5> QED
          BY <2>1, <5>1, <5>2, <5>3, Numbered
      <4>2. {QuestionOn(k) : k \in Asked} = {f[k] : k \in Asked} /\ f = [k \in Asked |-> f[k]]
        OBVIOUS
      <4> HIDE DEF f
      <4> QED
        BY <3>4, <4>1, <4>2, AsMany
    <3>6. Cardinality({all[k] : k \in Asked}) = Cardinality(Asked)
      <4> DEFINE f == [k \in Asked |-> all[k]]
      <4>1. \A j, k \in Asked : f[j] = f[k] => j = k
        BY <2>11, <3>4 DEF Enumerates, IsInjective
      <4>2. {all[k] : k \in Asked} = {f[k] : k \in Asked} /\ f = [k \in Asked |-> f[k]]
        OBVIOUS
      <4> HIDE DEF f
      <4> QED
        BY <3>4, <4>1, <4>2, AsMany
    <3>7. {all[k] : k \in Asked} = {p \in places : text(p) \in {"TBA", "note"}}
      <4>1. \A k \in DOMAIN all :
              /\ all[k] \in places
              /\ k <= Len(sources) => /\ all[k] = sources[k]
                                      /\ text(all[k]) \in RowLine
              /\ k > Len(sources) => text(all[k]) = "note"
        <5> TAKE k \in DOMAIN all
        <5>1. CASE k <= Len(sources)
          <6>1. k \in DOMAIN sources /\ all[k] = sources[k]
            BY <2>12, <2>13, <5>1
          <6>2. sources[k] \in ToSet(sources)
            BY <2>5, <6>1, SequenceFacts DEF Enumerates
          <6> QED
            BY <2>7, <2>13, <5>1, <6>1, <6>2
        <5>2. CASE k > Len(sources)
          <6>1. /\ k - Len(sources) \in DOMAIN url_notes
                /\ all[k] = url_notes[k - Len(sources)]
            BY <2>12, <2>13, <5>2
          <6>2. url_notes[k - Len(sources)] \in PassedNotes
            BY <2>5, <6>1, SequenceFacts DEF Enumerates
          <6> QED
            BY <2>6, <2>13, <5>2, <6>1, <6>2
        <5> QED
          BY <2>13, <5>1, <5>2
      <4>2. \A k \in DOMAIN all : k \in Asked <=> text(all[k]) \in {"TBA", "note"}
        <5>1. \A k \in DOMAIN all :
                k \in Asked <=> k > Len(sources) \/ LineAt(documents, sources[k]) = "TBA"
          BY <2>13 DEF Asked
        <5>2. \A k \in DOMAIN all : k <= Len(sources) \/ k > Len(sources)
          BY <2>13
        <5> QED
          BY <4>1, <5>1, <5>2 DEF text, RowLine
      <4>3. \A p \in places : text(p) \in {"TBA", "note"} => \E k \in DOMAIN all : all[k] = p
        <5> TAKE p \in places
        <5> HAVE text(p) \in {"TBA", "note"}
        <5>1. p \in {q \in places : text(q) \in Line \ {"blank"}}
          BY DEF Line, RowLine
        <5>2. p \in ToSet(all)
          BY <2>7, <2>11, <5>1 DEF Enumerates
        <5> QED
          BY <2>11, <5>2, SequenceFacts DEF Enumerates
      <4> QED
        BY <3>4, <4>1, <4>2, <4>3
    <3> QED
      BY <2>8, <3>2, <3>3, <3>5, <3>6, <3>7
  <2>16. finalized = "complete" <=> inquiry.noted = {} /\ reported = {}
    BY <2>1 DEF Written, Issues
  <2>17. reported = {} <=>
           \A d \in DOMAIN documents :
             documents[d] # <<>> /\ \A part \in ToSet(documents[d]) : HasText(part)
    <3>1. reported = {} <=> Gaps = {} /\ NoHoles
      BY <2>1, <2>5 DEF ReadInv, Scanned
    <3>2. Gaps = {} <=> \A d \in DOMAIN documents : documents[d] # <<>>
      <4>1. \A d \in DOMAIN documents : d < document
        BY <2>3
      <4> QED
        BY <4>1 DEF Gaps
    <3>3. NoHoles <=> \A d \in DOMAIN documents : \A r \in DOMAIN documents[d] :
                        HasText(documents[d][r])
      BY <2>4 DEF NoHoles, Hole
    <3>4. \A d \in DOMAIN documents :
            (\A part \in ToSet(documents[d]) : HasText(part))
              <=> \A r \in DOMAIN documents[d] : HasText(documents[d][r])
      BY DEF ToSet
    <3> QED
      BY <3>1, <3>2, <3>3, <3>4
  <2>18. finalized # "open"
    BY <2>1 DEF Written
  <2> QED
    BY <2>9, <2>10, <2>14, <2>15, <2>16, <2>17, <2>18
<1> QED
  BY <1>1, DummyInvariant, PTL
=============================================================================
