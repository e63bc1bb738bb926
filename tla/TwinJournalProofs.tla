------------------------- MODULE TwinJournalProofs -------------------------
(***************************************************************************)
(* TwinJournal, for any set of authors, any number of entries and sets and  *)
(* any order of delivery: its journals stay well-formed, an entry id names  *)
(* one entry, a change set lists what its peer recorded while it was open,  *)
(* and under the built-in merge policy peers with the same entries have the *)
(* same head.                                                               *)
(***************************************************************************)
EXTENDS TwinJournal, JournalProofs

----------------------------------------------------------------------------
(* The inductive invariant. *)

\* A peer keeps its author and the common strategy, and a consistent journal of
\* entries that were made.
Kept(p) ==
  LET j == journal[p]
  IN  /\ j.author = p
      /\ j.strategy = Strategy
      /\ j.entries \subseteq made
      /\ Consistent(j)
      /\ Strategy = "default" => HeadIsGreatest(j)

\* Every entry made has an id of its own, and its author holds it.
Made ==
  /\ \A e, f \in made : e.id = f.id => e = f
  /\ \A e \in made : e \in journal[e.id.author].entries
  /\ \A e \in made : \A i \in e.parents : i.lamport < e.id.lamport

IInv == TypeOK /\ (\A p \in Authors : Kept(p)) /\ Made

\* The bound on entries and the sets play no part: Init and every action of a
\* peer keep the invariant.
LEMMA InitIInv == Init => IInv
<1> SUFFICES ASSUME Init
             PROVE  IInv
  OBVIOUS
<1>1. \A p \in Authors : /\ journal[p] \in JournalType
                         /\ Kept(p)
  BY StrategyAssumption, EmptyJournalConsistent DEF Init, Kept
<1>2. TypeOK
  BY <1>1 DEF Init, TypeOK
<1>3. Made
  BY DEF Init, Made
<1> QED
  BY <1>1, <1>2, <1>3 DEF IInv

LEMMA EditIInv ==
  ASSUME IInv, NEW p \in Authors, Edit(p)
  PROVE  IInv'
<1> DEFINE j == journal[p]
           k == AppendLocal(j, p)
           e == LocalEntry(j, p)
<1>1. /\ j \in JournalType /\ j.author = p /\ p \in Ops
      /\ j.strategy = Strategy /\ j.entries \subseteq made /\ Consistent(j)
  BY OpsAssumption DEF IInv, TypeOK, Kept
<1>2. e \in Entry /\ e.id.author = p /\ e.id.lamport = j.clock + 1
  BY <1>1, LocalEntryFields
<1>3. /\ k \in JournalType
      /\ e.id \notin Ids(j)
      /\ \A i \in e.parents : i.lamport < e.id.lamport
      /\ k.entries = j.entries \cup {e}
      /\ k.author = j.author /\ k.strategy = j.strategy
      /\ Consistent(k) /\ HeadIsGreatest(k)
  BY <1>1, AppendLocalConsistent
<1>4. journal' = [journal EXCEPT ![p] = k] /\ made' = made \cup {e}
  BY DEF Edit
<1>5. /\ journal'[p] = k
      /\ \A q \in Authors \ {p} : journal'[q] = journal[q]
  BY <1>4 DEF IInv, TypeOK
<1> HIDE DEF k, e
<1>6. TypeOK'
  BY <1>2, <1>3, <1>4 DEF IInv, TypeOK
<1>7. ASSUME NEW q \in Authors
      PROVE  Kept(q)'
  <2>1. CASE q = p
    BY <1>1, <1>3, <1>4, <1>5, <2>1 DEF Kept
  <2>2. CASE q # p
    BY <1>4, <1>5, <2>2 DEF IInv, Kept
  <2> QED
    BY <2>1, <2>2
<1>8. Made'
  <2>1. \A d \in made : d.id.author \in Authors
    BY DEF IInv, TypeOK, Entry, EntryId
  <2>2. ASSUME NEW d \in made
        PROVE  d.id # e.id
    <3>1. CASE d.id.author = p
      <4>1. d.id \in Ids(j)
        BY <3>1 DEF IInv, Made, Ids
      <4> QED
        BY <1>3, <4>1
    <3>2. CASE d.id.author # p
      BY <1>2, <3>2
    <3> QED
      BY <3>1, <3>2
  <2>3. \A d, f \in made' : d.id = f.id => d = f
    BY <1>4, <2>2 DEF IInv, Made
  <2>4. ASSUME NEW d \in made'
        PROVE  d \in journal'[d.id.author].entries
    <3>1. CASE d = e
      BY <1>2, <1>3, <1>5, <3>1
    <3>2. CASE d \in made
      <4>1. d \in journal[d.id.author].entries
        BY <3>2 DEF IInv, Made
      <4> QED
        BY <1>3, <1>5, <2>1, <3>2, <4>1
    <3> QED
      BY <1>4, <3>1, <3>2
  <2>5. \A d \in made' : \A i \in d.parents : i.lamport < d.id.lamport
    BY <1>3, <1>4 DEF IInv, Made
  <2> QED
    BY <2>3, <2>4, <2>5 DEF Made
<1> QED
  BY <1>6, <1>7, <1>8 DEF IInv

\* A step that leaves `made` alone and turns one peer's journal into another
\* consistent one, of entries made, that has dropped none.
LEMMA PeerStepIInv ==
  ASSUME IInv, NEW p \in Authors, NEW k \in JournalType,
         journal' = [journal EXCEPT ![p] = k], made' = made,
         k.author = journal[p].author, k.strategy = journal[p].strategy,
         journal[p].entries \subseteq k.entries, k.entries \subseteq made, Consistent(k),
         Strategy = "default" => HeadIsGreatest(k)
  PROVE  IInv'
<1>1. /\ journal'[p] = k
      /\ \A q \in Authors \ {p} : journal'[q] = journal[q]
  BY DEF IInv, TypeOK
<1>2. TypeOK'
  BY DEF IInv, TypeOK
<1>3. ASSUME NEW q \in Authors
      PROVE  Kept(q)'
  <2>1. CASE q = p
    BY <1>1, <2>1 DEF IInv, Kept
  <2>2. CASE q # p
    BY <1>1, <2>2 DEF IInv, Kept
  <2> QED
    BY <2>1, <2>2
<1>4. ASSUME NEW e \in made
      PROVE  e \in journal'[e.id.author].entries
  <2>1. e.id.author \in Authors /\ e \in journal[e.id.author].entries
    BY DEF IInv, TypeOK, Made, Entry, EntryId
  <2> QED
    BY <1>1, <2>1
<1>5. Made'
  BY <1>4 DEF IInv, Made
<1> QED
  BY <1>2, <1>3, <1>5 DEF IInv

LEMMA ReceiveIInv ==
  ASSUME IInv, NEW p \in Authors, NEW e \in made, Receive(p, e)
  PROVE  IInv'
<1> DEFINE j == journal[p]
<1>1. /\ j \in JournalType /\ j.strategy = Strategy
      /\ j.entries \subseteq made /\ Consistent(j)
      /\ Strategy = "default" => HeadIsGreatest(j)
  BY DEF IInv, TypeOK, Kept
<1>2. e \in Entry /\ \A i \in e.parents : i.lamport < e.id.lamport
  BY DEF IInv, TypeOK, Made
<1>3. PICK k \in AppendRemote(j, e) : journal' = [journal EXCEPT ![p] = k]
  BY DEF Receive
<1>4. made' = made
  BY DEF Receive
<1>5. CASE e.id \in Ids(j)
  <2>1. k = j
    BY <1>3, <1>5 DEF AppendRemote, Known
  <2> QED
    BY <1>1, <1>3, <1>4, <2>1, PeerStepIInv
<1>6. CASE e.id \notin Ids(j)
  <2>1. /\ k \in JournalType
        /\ k.entries = j.entries \cup {e}
        /\ k.author = j.author /\ k.strategy = j.strategy
        /\ Consistent(k)
        /\ j.strategy = "default" /\ HeadIsGreatest(j) => HeadIsGreatest(k)
    BY <1>1, <1>2, <1>6, AppendRemoteFields
  <2> QED
    BY <1>1, <1>3, <1>4, <2>1, PeerStepIInv
<1> QED
  BY <1>5, <1>6

LEMMA ChangeSetIInv ==
  ASSUME IInv, NEW p \in Authors, OpenSet(p) \/ CloseSet(p)
  PROVE  IInv'
<1> DEFINE j == journal[p]
<1>1. j \in JournalType
  BY DEF IInv, TypeOK
<1>2. /\ j.entries \subseteq made /\ Consistent(j)
      /\ Strategy = "default" => HeadIsGreatest(j)
  BY DEF IInv, Kept
<1>3. PICK k \in {BeginChangeSet(j), EndChangeSet(j)} :
        journal' = [journal EXCEPT ![p] = k] /\ made' = made
  BY DEF OpenSet, CloseSet
<1>4. /\ k \in JournalType
      /\ k.entries = j.entries /\ k.order = j.order
      /\ k.author = j.author /\ k.strategy = j.strategy
      /\ k.clock = j.clock /\ k.head = j.head
  BY <1>1, ChangeSetFields
<1>5. Consistent(k) /\ (Strategy = "default" => HeadIsGreatest(k))
  BY <1>1, <1>2, <1>4, SameJournalContents
<1> QED
  BY <1>1, <1>2, <1>3, <1>4, <1>5, PeerStepIInv

LEMMA StutterIInv ==
  ASSUME IInv, UNCHANGED vars
  PROVE  IInv'
<1>1. journal' = journal /\ made' = made
  BY DEF vars
<1> QED
  BY <1>1 DEF IInv, TypeOK, Kept, Made

LEMMA NextIInv ==
  ASSUME IInv, [Next]_vars
  PROVE  IInv'
<1>1. ASSUME NEW p \in Authors, Edit(p)
      PROVE  IInv'
  BY <1>1, EditIInv
<1>2. ASSUME NEW p \in Authors, NEW e \in made, Receive(p, e)
      PROVE  IInv'
  BY <1>2, ReceiveIInv
<1>3. ASSUME NEW p \in Authors, OpenSet(p) \/ CloseSet(p)
      PROVE  IInv'
  BY <1>3, ChangeSetIInv
<1>4. CASE UNCHANGED vars
  BY <1>4, StutterIInv
<1> QED
  BY <1>1, <1>2, <1>3, <1>4 DEF Next

----------------------------------------------------------------------------
(* The theorems. *)

\* The invariant holds in every state of every behaviour.
THEOREM Invariant == Spec => []IInv
  BY InitIInv, NextIInv, PTL DEF Spec

\* Journals and entries keep their types.
THEOREM TypeCorrect == Spec => []TypeOK
<1>1. IInv => TypeOK
  BY DEF IInv
<1> QED
  BY <1>1, Invariant, PTL

\* Every journal's log, map, parents and clock agree, in any order of delivery
\* and with any repetition (append_local, append_remote).
THEOREM JournalsWellFormed == Spec => []WellFormed
<1>1. IInv => WellFormed
  BY DEF IInv, Kept, Consistent, WellFormed
<1> QED
  BY <1>1, Invariant, PTL

\* Peers that hold the same id hold the same entry, so append_remote's dropping
\* of known ids loses nothing.
THEOREM IdsAreUnique == Spec => []IdsNameOneEntry
<1>1. IInv => IdsNameOneEntry
  BY DEF IInv, Kept, Made, IdsNameOneEntry
<1> QED
  BY <1>1, Invariant, PTL

\* Under the built-in policy, peers with the same entries have the same head,
\* whichever branch of append_remote moved it.
THEOREM HeadsConverge ==
  ASSUME Strategy = "default"
  PROVE  Spec => []SameEntriesSameHead
<1>1. ASSUME IInv
      PROVE  SameEntriesSameHead
  <2>1. SUFFICES ASSUME NEW p \in Authors, NEW q \in Authors,
                        Ids(journal[p]) = Ids(journal[q]),
                        journal[p].head # journal[q].head
                 PROVE  FALSE
    BY DEF SameEntriesSameHead
  <2>2. /\ journal[p] \in JournalType /\ journal[q] \in JournalType
        /\ HeadIsHeld(journal[p]) /\ HeadIsGreatest(journal[p])
        /\ HeadIsHeld(journal[q]) /\ HeadIsGreatest(journal[q])
    BY <1>1 DEF IInv, TypeOK, Kept, Consistent
  <2>3. /\ journal[p].head \in Ids(journal[p]) /\ journal[q].head \in Ids(journal[p])
        /\ Ids(journal[p]) \subseteq EntryId
    BY <2>1, <2>2 DEF HeadIsHeld, Ids, JournalType, Entry
  <2>4. /\ KeyLess(journal[p].head, journal[q].head)
        /\ KeyLess(journal[q].head, journal[p].head)
    BY <2>1, <2>2, <2>3 DEF HeadIsGreatest
  <2> QED
    BY <2>3, <2>4, KeyLessOrder
<1> QED
  BY <1>1, Invariant, PTL

\* A local edit gets an id nobody has used, greater than every id its author
\* had seen, and becomes the author's head (append_local).
THEOREM EditsComeLast == Spec => EditComesLast
<1> DEFINE Lasts ==
      \A p \in Authors : \A i \in Ids(journal[p])' \ Ids(journal[p]) :
        i.author = p => /\ i \notin {e.id : e \in made}
                        /\ \A k \in Ids(journal[p]) : KeyLess(k, i)
                        /\ journal'[p].head = i
<1>1. ASSUME IInv, Next
      PROVE  Lasts
  <2> USE DEF Lasts
  <2>1. ASSUME NEW p \in Authors, Edit(p)
        PROVE  Lasts
    <3> DEFINE j == journal[p]
               k == AppendLocal(j, p)
               e == LocalEntry(j, p)
    <3>1. j \in JournalType /\ j.author = p /\ p \in Ops /\ Consistent(j)
      BY <1>1, OpsAssumption DEF IInv, TypeOK, Kept
    <3>2. /\ e.id \notin Ids(j) /\ \A i \in Ids(j) : KeyLess(i, e.id)
          /\ Ids(k) = Ids(j) \cup {e.id}
      BY <3>1, AppendLocalConsistent
    <3>3. k.head = e.id
      BY <3>1, AppendLocalFields
    <3>4. e.id.author = p
      BY <3>1, LocalEntryFields
    <3> HIDE DEF k, e
    <3>5. /\ journal'[p] = k
          /\ \A q \in Authors \ {p} : journal'[q] = journal[q]
      BY <1>1, <2>1 DEF Edit, IInv, TypeOK, k
    <3>6. e.id \notin {d.id : d \in made}
      <4>1. ASSUME NEW d \in made, d.id = e.id
            PROVE  d.id \in Ids(j)
        BY <1>1, <3>4, <4>1 DEF IInv, Made, Ids
      <4> QED
        BY <3>2, <4>1
    <3>7. ASSUME NEW q \in Authors
          PROVE  q # p => Ids(journal'[q]) = Ids(journal[q])
      BY <3>5
    <3>8. Ids(journal[p])' = Ids(j) \cup {e.id}
      BY <3>2, <3>5 DEF Ids
    <3> QED
      BY <3>2, <3>3, <3>5, <3>6, <3>7, <3>8 DEF Ids
  <2>2. ASSUME NEW p \in Authors, NEW e \in made, Receive(p, e)
        PROVE  Lasts
    <3> DEFINE j == journal[p]
    <3>1. PICK k \in AppendRemote(j, e) : journal' = [journal EXCEPT ![p] = k]
      BY <2>2 DEF Receive
    <3>2. /\ journal'[p] = k
          /\ \A q \in Authors \ {p} : journal'[q] = journal[q]
      BY <1>1, <3>1 DEF IInv, TypeOK
    <3>3. Ids(k) = Ids(j) \/ (Ids(k) = Ids(j) \cup {e.id} /\ e.id.author # p)
      <4>1. CASE e.id \in Ids(j)
        <5>1. k = j
          BY <3>1, <4>1 DEF AppendRemote, Known
        <5> QED
          BY <5>1
      <4>2. CASE e.id \notin Ids(j)
        <5>1. /\ j \in JournalType /\ Consistent(j) /\ e \in Entry
              /\ \A i \in e.parents : i.lamport < e.id.lamport
          BY <1>1 DEF IInv, TypeOK, Kept, Made
        <5>2. Ids(k) = Ids(j) \cup {e.id}
          BY <3>1, <4>2, <5>1, AppendRemoteFields
        <5>3. e.id.author # p
          BY <1>1, <4>2 DEF IInv, Made, Ids
        <5> QED
          BY <5>2, <5>3
      <4> QED
        BY <4>1, <4>2
    <3>4. ASSUME NEW q \in Authors, NEW i \in Ids(journal[q])' \ Ids(journal[q])
          PROVE  i.author # q
      BY <3>2, <3>3, <3>4 DEF Ids
    <3> QED
      BY <3>4
  <2>3. ASSUME NEW p \in Authors, OpenSet(p) \/ CloseSet(p)
        PROVE  Lasts
    <3>1. PICK k \in {BeginChangeSet(journal[p]), EndChangeSet(journal[p])} :
            journal' = [journal EXCEPT ![p] = k]
      BY <2>3 DEF OpenSet, CloseSet
    <3>2. k.entries = journal[p].entries
      BY <1>1, <3>1, ChangeSetFields DEF IInv, TypeOK
    <3>3. /\ journal'[p] = k
          /\ \A q \in Authors \ {p} : journal'[q] = journal[q]
      BY <1>1, <3>1 DEF IInv, TypeOK
    <3> QED
      BY <3>2, <3>3 DEF Ids
  <2> QED
    BY <1>1, <2>1, <2>2, <2>3 DEF Next
<1> QED
  BY <1>1, Invariant, PTL DEF Spec, EditComesLast

----------------------------------------------------------------------------
(* TwinJournal implements SharedHistory. *)

\* A consistent journal whose head is the greatest key has one entry under its
\* head, the latest of its entries, and none when it is empty.
LEMMA HeadIsLatest ==
  ASSUME NEW j \in JournalType, Consistent(j), HeadIsGreatest(j)
  PROVE  HeadEntries(j) = History!Latest(j.entries)
<1>1. \A e \in j.entries : e.id \in Ids(j) /\ e.id \in EntryId
  BY DEF Ids, JournalType, Entry
<1>2. \A d, e \in j.entries : d.id = e.id => d = e
  BY DEF Consistent, LogMatchesMap
<1>3. ASSUME NEW e \in j.entries, e.id = j.head
      PROVE  \A d \in j.entries \ {e} : KeyLess(d.id, e.id)
  BY <1>1, <1>2, <1>3 DEF HeadIsGreatest
<1>4. ASSUME NEW e \in j.entries, \A d \in j.entries \ {e} : KeyLess(d.id, e.id)
      PROVE  e.id = j.head
  <2>1. SUFFICES ASSUME e.id # j.head
                 PROVE  FALSE
    OBVIOUS
  <2>2. j.head \in Ids(j)
    BY <1>1 DEF Consistent, HeadIsHeld
  <2>3. PICK d \in j.entries : d.id = j.head
    BY <2>2 DEF Ids
  <2>4. KeyLess(d.id, e.id)
    BY <1>4, <2>1, <2>3
  <2>5. KeyLess(e.id, d.id)
    BY <1>1, <2>1, <2>3 DEF HeadIsGreatest
  <2> QED
    BY <1>1, <2>4, <2>5, KeyLessOrder
<1> QED
  BY <1>3, <1>4 DEF HeadEntries, History!Latest, EntryLess

LEMMA InitImplements == Init => History!Init
<1> SUFFICES ASSUME Init
             PROVE  History!Init
  OBVIOUS
<1>1. \A p \in Authors : journal[p].entries = {} /\ HeadEntries(journal[p]) = {}
  BY DEF Init, EmptyJournal, HeadEntries
<1> QED
  BY <1>1 DEF Init, History!Init

\* A step that gives one peer an entry and the head that goes with it shows the
\* peer that edit.
LEMMA StepSees ==
  ASSUME IInv, NEW p \in Authors, NEW k \in JournalType, NEW e,
         journal' = [journal EXCEPT ![p] = k],
         k.entries = journal[p].entries \cup {e},
         Consistent(k), HeadIsGreatest(k)
  PROVE  History!See(p, e)
<1>1. /\ journal'[p] = k
      /\ \A q \in Authors \ {p} : journal'[q] = journal[q]
  BY DEF IInv, TypeOK
<1>2. HeadEntries(k) = History!Latest(journal[p].entries \cup {e})
  BY HeadIsLatest
<1> DEFINE view == [q \in Authors |-> journal[q].entries]
           tip  == [q \in Authors |-> HeadEntries(journal[q])]
<1>3. /\ \A q \in Authors : view'[q] = IF q = p THEN view[p] \cup {e} ELSE view[q]
      /\ \A q \in Authors : tip'[q] = IF q = p THEN History!Latest(view[p] \cup {e}) ELSE tip[q]
  <2>1. \A q \in Authors : /\ view[q] = journal[q].entries
                           /\ view'[q] = journal'[q].entries
    OBVIOUS
  <2>2. \A q \in Authors : /\ tip[q] = HeadEntries(journal[q])
                           /\ tip'[q] = HeadEntries(journal'[q])
    BY DEF HeadEntries
  <2>3. History!Latest(view[p] \cup {e}) = HeadEntries(k)
    BY <1>2, <2>1
  <2> HIDE DEF view, tip
  <2>4. \A q \in Authors : view'[q] = IF q = p THEN view[p] \cup {e} ELSE view[q]
    BY <1>1, <2>1
  <2>5. \A q \in Authors : tip'[q] = IF q = p THEN HeadEntries(k) ELSE tip[q]
    BY <1>1, <2>2
  <2> QED
    BY <2>3, <2>4, <2>5
<1>4. /\ view = [q \in Authors |-> view[q]] /\ view' = [q \in Authors |-> view'[q]]
      /\ tip = [q \in Authors |-> tip[q]] /\ tip' = [q \in Authors |-> tip'[q]]
  OBVIOUS
<1> HIDE DEF view, tip
<1>5. /\ view' = [view EXCEPT ![p] = @ \cup {e}]
      /\ tip' = [tip EXCEPT ![p] = History!Latest(view[p] \cup {e})]
  BY <1>3, <1>4
<1> QED
  BY <1>5 DEF History!See, HeadEntries, view, tip

LEMMA EditImplements ==
  ASSUME IInv, Strategy = "default", NEW p \in Authors, Edit(p)
  PROVE  History!Publish(p)
<1> DEFINE j == journal[p]
<1>1. PICK k, e : k = AppendLocal(j, p) /\ e = LocalEntry(j, p)
  OBVIOUS
<1>2. /\ j \in JournalType /\ j.author = p /\ p \in Ops /\ Consistent(j)
  BY OpsAssumption DEF IInv, TypeOK, Kept
<1>3. /\ e \in Entry /\ e.id.author = p
  BY <1>1, <1>2, LocalEntryFields
<1>4. /\ k \in JournalType
      /\ e.id \notin Ids(j)
      /\ \A i \in Ids(j) : KeyLess(i, e.id)
      /\ k.entries = j.entries \cup {e}
      /\ Consistent(k) /\ HeadIsGreatest(k)
  BY <1>1, <1>2, AppendLocalConsistent
<1>5. k.head = e.id
  BY <1>1, <1>2, AppendLocalFields
<1>6. journal' = [journal EXCEPT ![p] = k] /\ made' = made \cup {e}
  BY <1>1 DEF Edit
<1>7. e \notin made
  BY <1>3, <1>4 DEF IInv, Made, Ids
<1>8. \A d \in j.entries : KeyLess(d.id, e.id)
  BY <1>4 DEF Ids
<1>9. History!See(p, e)
  BY <1>4, <1>6, StepSees
<1>10. HeadEntries(journal'[p]) = {e}
  <2>1. journal'[p] = k
    BY <1>6 DEF IInv, TypeOK
  <2>2. \A d, f \in k.entries : d.id = f.id => d = f
    BY <1>4 DEF Consistent, LogMatchesMap
  <2> QED
    BY <1>4, <1>5, <2>1, <2>2 DEF HeadEntries
<1>11. e \in made' \ made
  BY <1>6, <1>7
<1>12. \A d \in [q \in Authors |-> journal[q].entries][p] : EntryLess(d, e)
  BY <1>8 DEF EntryLess
<1>13. [q \in Authors |-> HeadEntries(journal[q])]'[p] = {e}
  BY <1>10 DEF HeadEntries
<1> QED
  BY <1>3, <1>6, <1>9, <1>11, <1>12, <1>13 DEF History!Publish

LEMMA ReceiveImplements ==
  ASSUME IInv, Strategy = "default", NEW p \in Authors, NEW e \in made, Receive(p, e)
  PROVE  History!Learn(p) \/ UNCHANGED vars
<1> DEFINE j == journal[p]
<1>1. /\ j \in JournalType /\ j.strategy = Strategy
      /\ Consistent(j) /\ HeadIsGreatest(j)
  BY DEF IInv, TypeOK, Kept
<1>2. e \in Entry /\ \A i \in e.parents : i.lamport < e.id.lamport
  BY DEF IInv, TypeOK, Made
<1>3. PICK k \in AppendRemote(j, e) : journal' = [journal EXCEPT ![p] = k]
  BY DEF Receive
<1>4. made' = made
  BY DEF Receive
<1>5. CASE e.id \in Ids(j)
  <2>1. k = j
    BY <1>3, <1>5 DEF AppendRemote, Known
  <2>2. journal' = journal
    BY <1>3, <2>1 DEF IInv, TypeOK
  <2> QED
    BY <1>4, <2>2 DEF vars
<1>6. CASE e.id \notin Ids(j)
  <2>1. /\ k \in JournalType
        /\ k.entries = j.entries \cup {e}
        /\ Consistent(k) /\ HeadIsGreatest(k)
    BY <1>1, <1>2, <1>6, AppendRemoteFields
  <2>2. History!See(p, e)
    BY <1>3, <2>1, StepSees
  <2>3. e \in made \ j.entries
    BY <1>6 DEF Ids
  <2>4. e \in made \ [q \in Authors |-> journal[q].entries][p]
    BY <2>3
  <2> QED
    BY <1>4, <2>2, <2>4 DEF History!Learn
<1> QED
  BY <1>5, <1>6

\* Opening and closing a change set shows nobody anything.
LEMMA ChangeSetImplements ==
  ASSUME IInv, NEW p \in Authors, OpenSet(p) \/ CloseSet(p)
  PROVE  UNCHANGED History!vars
<1>1. PICK k \in {BeginChangeSet(journal[p]), EndChangeSet(journal[p])} :
        journal' = [journal EXCEPT ![p] = k] /\ made' = made
  BY DEF OpenSet, CloseSet
<1>2. k.entries = journal[p].entries /\ k.head = journal[p].head
  BY <1>1, ChangeSetFields DEF IInv, TypeOK
<1>3. \A q \in Authors : /\ journal'[q].entries = journal[q].entries
                         /\ journal'[q].head = journal[q].head
  BY <1>1, <1>2 DEF IInv, TypeOK
<1>4. \A q \in Authors : HeadEntries(journal'[q]) = HeadEntries(journal[q])
  BY <1>3 DEF HeadEntries
<1> QED
  BY <1>1, <1>3, <1>4 DEF History!vars, HeadEntries

\* Under the built-in policy what the peers share is one history: every step of
\* a peer publishes an edit after all it had seen, shows it an edit of another
\* with the latest of its view as its head, or shows nobody anything.
THEOREM HistoryImplemented ==
  ASSUME Strategy = "default"
  PROVE  Spec => ImplementsSharedHistory
<1>1. ASSUME IInv, [Next]_vars
      PROVE  [History!Next]_(History!vars)
  <2>1. ASSUME NEW p \in Authors, Edit(p)
        PROVE  History!Next
    BY <1>1, <2>1, EditImplements DEF History!Next
  <2>2. UNCHANGED vars => UNCHANGED History!vars
    BY DEF vars, History!vars, HeadEntries
  <2>3. ASSUME NEW p \in Authors, NEW e \in made, Receive(p, e)
        PROVE  [History!Next]_(History!vars)
    BY <1>1, <2>2, <2>3, ReceiveImplements DEF History!Next
  <2>4. ASSUME NEW p \in Authors, OpenSet(p) \/ CloseSet(p)
        PROVE  [History!Next]_(History!vars)
    BY <1>1, <2>4, ChangeSetImplements
  <2> QED
    BY <1>1, <2>1, <2>2, <2>3, <2>4 DEF Next
<1> QED
  BY <1>1, InitImplements, Invariant, PTL DEF Spec, ImplementsSharedHistory, History!Spec
----------------------------------------------------------------------------
(* Change sets: a set lists what its peer recorded while it was open.       *)

\* The ids p recorded in its n-th change set.
OwnOf(j, p, n) == {e.id : e \in {f \in j.entries : f.id.author = p /\ f.changeSet = n}}

Lists(j, p, n) ==
  /\ \A i \in OwnOf(j, p, n) : \E k \in DOMAIN j.sets[n] : j.sets[n][k] = i
  /\ \A k, m \in DOMAIN j.sets[n] :
       {j.sets[n][k], j.sets[n][m]} \subseteq OwnOf(j, p, n) /\ k < m
         => j.sets[n][k].lamport < j.sets[n][m].lamport

\* Besides, no set is named before it is opened, and a set lists only entries
\* that the journal holds.
SetsKept(j, p) ==
  /\ j.active <= Len(j.sets)
  /\ \A e \in j.entries : e.id.author = p => e.changeSet <= Len(j.sets)
  /\ \A n \in DOMAIN j.sets : \A k \in DOMAIN j.sets[n] : j.sets[n][k] \in Ids(j)
  /\ \A n \in DOMAIN j.sets : Lists(j, p, n)

----------------------------------------------------------------------------
(* What one more entry does to the sets. *)

LEMMA InsertKeepsSets ==
  ASSUME NEW j \in JournalType, NEW k \in JournalType, NEW p \in Authors, NEW e \in Entry,
         SetsKept(j, p), e.id \notin Ids(j),
         e.id.author = p => /\ e.changeSet <= Len(j.sets)
                            /\ \A i \in Ids(j) : i.lamport < e.id.lamport,
         k.entries = j.entries \cup {e}, k.active = j.active,
         k.sets = JoinSet(j.sets, e.changeSet, e.id)
  PROVE  SetsKept(k, p)
<1>1. /\ j.sets \in Seq(Seq(EntryId)) /\ Len(j.sets) \in Nat
      /\ DOMAIN j.sets = 1..Len(j.sets)
      /\ e.id \in EntryId /\ e.changeSet \in Nat
  BY DEF JournalType, Entry
<1>2. /\ DOMAIN k.sets = DOMAIN j.sets
      /\ \A n \in DOMAIN j.sets :
           k.sets[n] = IF n = e.changeSet THEN Append(j.sets[n], e.id) ELSE j.sets[n]
  BY DEF JoinSet
<1>3. Len(k.sets) = Len(j.sets)
  <2>1. k.sets \in Seq(Seq(EntryId))
    BY DEF JournalType
  <2>2. DOMAIN k.sets = 1..Len(k.sets) /\ Len(k.sets) \in Nat
    BY <2>1
  <2> QED
    BY <1>1, <1>2, <2>2
<1>4. Ids(k) = Ids(j) \cup {e.id}
  BY DEF Ids
<1>5. ASSUME NEW n \in DOMAIN k.sets
      PROVE  /\ \A l \in DOMAIN k.sets[n] : k.sets[n][l] \in Ids(k)
             /\ Lists(k, p, n)
  <2> DEFINE s == j.sets[n]
             t == k.sets[n]
  <2>1. s \in Seq(EntryId) /\ Len(s) \in Nat /\ DOMAIN s = 1..Len(s)
    BY <1>1, <1>2, <1>5
  <2>2. /\ \A l \in DOMAIN s : s[l] \in Ids(j)
        /\ Lists(j, p, n)
    BY <1>2, <1>5 DEF SetsKept
  <2>3. \A i \in OwnOf(j, p, n) : i \in Ids(j)
    BY DEF OwnOf, Ids
  <2>4. CASE n = e.changeSet
    <3>1. t = Append(s, e.id)
      BY <1>2, <1>5, <2>4
    <3>2. /\ DOMAIN t = 1..(Len(s) + 1)
          /\ \A l \in DOMAIN s : l \in DOMAIN t /\ t[l] = s[l]
          /\ t[Len(s) + 1] = e.id
          /\ \A l \in DOMAIN t : l \in DOMAIN s \/ l = Len(s) + 1
      BY <1>1, <2>1, <3>1
    <3>3. \A l \in DOMAIN t : t[l] \in Ids(k)
      BY <1>4, <2>2, <3>2
    <3>4. OwnOf(k, p, n) = IF e.id.author = p THEN OwnOf(j, p, n) \cup {e.id} ELSE OwnOf(j, p, n)
      BY <2>4 DEF OwnOf
    <3>5. ASSUME NEW i \in OwnOf(k, p, n)
          PROVE  \E l \in DOMAIN t : t[l] = i
      <4>1. CASE i = e.id
        BY <2>1, <3>2, <4>1
      <4>2. CASE i \in OwnOf(j, p, n)
        BY <2>2, <3>2, <4>2 DEF Lists
      <4> QED
        BY <3>4, <4>1, <4>2
    <3>6. ASSUME NEW l \in DOMAIN t, NEW m \in DOMAIN t,
                 t[l] \in OwnOf(k, p, n), t[m] \in OwnOf(k, p, n), l < m
          PROVE  t[l].lamport < t[m].lamport
      <4>1. l \in DOMAIN s /\ t[l] = s[l] /\ s[l] \in Ids(j) /\ s[l] \in OwnOf(j, p, n)
        <5>1. l \in DOMAIN s
          BY <2>1, <3>2, <3>6
        <5> QED
          BY <2>2, <3>2, <3>4, <3>6, <5>1
      <4>2. CASE m \in DOMAIN s
        <5>1. t[m] = s[m] /\ s[m] \in OwnOf(j, p, n)
          BY <2>2, <3>2, <3>4, <3>6, <4>2
        <5> QED
          BY <2>2, <3>6, <4>1, <4>2, <5>1 DEF Lists
      <4>3. CASE m = Len(s) + 1
        <5>1. e.id.author = p
          BY <2>3, <3>2, <3>4, <3>6, <4>3
        <5> QED
          BY <3>2, <4>1, <4>3, <5>1
      <4> QED
        BY <3>2, <4>2, <4>3
    <3> QED
      BY <3>3, <3>5, <3>6 DEF Lists
  <2>5. CASE n # e.changeSet
    <3>1. t = s
      BY <1>2, <1>5, <2>5
    <3>2. OwnOf(k, p, n) = OwnOf(j, p, n)
      BY <2>5 DEF OwnOf
    <3> QED
      BY <1>4, <2>2, <3>1, <3>2 DEF Lists
  <2> QED
    BY <2>4, <2>5
<1> QED
  BY <1>3, <1>5 DEF SetsKept

----------------------------------------------------------------------------
(* The sets of the journals the actions lead to. *)

LEMMA LocalSets ==
  ASSUME NEW j \in JournalType, NEW op \in Ops
  PROVE  /\ AppendLocal(j, op).sets = JoinSet(j.sets, j.active, LocalEntry(j, op).id)
         /\ AppendLocal(j, op).active = j.active
         /\ LocalEntry(j, op).changeSet = j.active
<1> DEFINE e == LocalEntry(j, op)
           i == InsertEntry(j, e)
<1>1. e \in Entry /\ e.id \in EntryId /\ e.changeSet = j.active
  BY LocalEntryFields DEF LocalEntry
<1> HIDE DEF e
<1>2. i \in JournalType /\ i.sets = JoinSet(j.sets, e.changeSet, e.id) /\ i.active = j.active
  BY <1>1, InsertEntryFields DEF InsertEntry, JournalType
<1>3. AppendLocal(j, op) = Advance(i, j.clock + 1, e.id)
  BY DEF AppendLocal, e
<1> HIDE DEF i
<1>4. AppendLocal(j, op).sets = i.sets /\ AppendLocal(j, op).active = i.active
  BY <1>2, <1>3 DEF Advance, JournalType
<1> QED
  BY <1>1, <1>2, <1>4 DEF e

LEMMA RemoteSets ==
  ASSUME NEW j \in JournalType, NEW e \in Entry, e.id \notin Ids(j), NEW k \in AppendRemote(j, e)
  PROVE  k.sets = JoinSet(j.sets, e.changeSet, e.id) /\ k.active = j.active
<1> DEFINE i == InsertEntry(j, e)
<1>1. i \in JournalType /\ i.sets = JoinSet(j.sets, e.changeSet, e.id) /\ i.active = j.active
  BY InsertEntryFields DEF InsertEntry, JournalType
<1>2. \E c, h : k = Advance(i, c, h)
  BY DEF AppendRemote, Known
<1> HIDE DEF i
<1> QED
  BY <1>1, <1>2 DEF Advance, JournalType

LEMMA ChangeSetSets ==
  ASSUME NEW j \in JournalType, NEW p \in Authors, SetsKept(j, p),
         NEW k \in {BeginChangeSet(j), EndChangeSet(j)}
  PROVE  SetsKept(k, p)
<1>1. /\ j.sets \in Seq(Seq(EntryId)) /\ Len(j.sets) \in Nat
      /\ DOMAIN j.sets = 1..Len(j.sets)
  BY DEF JournalType
<1>2. k.entries = j.entries /\ Ids(k) = Ids(j)
  BY ChangeSetFields DEF Ids
<1>3. \A n : OwnOf(k, p, n) = OwnOf(j, p, n)
  BY <1>2 DEF OwnOf
<1>4. CASE k = BeginChangeSet(j)
  <2>1. k.sets = Append(j.sets, <<>>) /\ k.active = Len(j.sets) + 1
    BY <1>4 DEF BeginChangeSet, JournalType
  <2>2. <<>> \in Seq(EntryId)
    OBVIOUS
  <2>3. /\ Len(k.sets) = Len(j.sets) + 1
        /\ DOMAIN k.sets = 1..(Len(j.sets) + 1)
        /\ \A n \in DOMAIN j.sets : k.sets[n] = j.sets[n]
        /\ k.sets[Len(j.sets) + 1] = <<>>
    BY <1>1, <2>1, <2>2
  <2>4. OwnOf(j, p, Len(j.sets) + 1) = {}
    <3>1. \A e \in j.entries : e.id.author = p => e.changeSet # Len(j.sets) + 1
      BY <1>1 DEF SetsKept, JournalType, Entry
    <3> QED
      BY <3>1 DEF OwnOf
  <2>5. ASSUME NEW n \in DOMAIN k.sets
        PROVE  /\ \A l \in DOMAIN k.sets[n] : k.sets[n][l] \in Ids(k)
               /\ Lists(k, p, n)
    <3>1. CASE n \in DOMAIN j.sets
      BY <1>2, <1>3, <2>3, <3>1 DEF SetsKept, Lists
    <3>2. CASE n = Len(j.sets) + 1
      <4>1. DOMAIN k.sets[n] = {}
        BY <2>3, <3>2
      <4> QED
        BY <1>3, <2>4, <3>2, <4>1 DEF Lists
    <3> QED
      BY <1>1, <2>3, <3>1, <3>2
  <2>6. \A e \in k.entries : e.id.author = p => e.changeSet <= Len(k.sets)
    <3>1. \A e \in j.entries : e.changeSet \in Nat
      BY DEF JournalType, Entry
    <3> QED
      BY <1>1, <1>2, <2>3, <3>1 DEF SetsKept
  <2>7. k.active <= Len(k.sets)
    BY <1>1, <2>1, <2>3
  <2> QED
    BY <2>5, <2>6, <2>7 DEF SetsKept
<1>5. CASE k = EndChangeSet(j)
  <2>1. k.sets = j.sets /\ k.active = 0
    BY <1>5 DEF EndChangeSet, JournalType, NoSet
  <2>2. \A n \in DOMAIN k.sets : Lists(k, p, n)
    BY <1>3, <2>1 DEF SetsKept, Lists
  <2>3. k.active <= Len(k.sets)
    BY <1>1, <2>1
  <2>4. \A e \in k.entries : e.id.author = p => e.changeSet <= Len(k.sets)
    BY <1>2, <2>1 DEF SetsKept
  <2> QED
    BY <1>2, <2>1, <2>2, <2>3, <2>4 DEF SetsKept
<1> QED
  BY <1>4, <1>5

----------------------------------------------------------------------------
(* The invariant and the theorem. *)

AllKept == \A p \in Authors : SetsKept(journal[p], p)

LEMMA InitAllKept == Init => AllKept
<1> SUFFICES ASSUME Init, NEW p \in Authors
             PROVE  SetsKept(journal[p], p)
  BY DEF AllKept
<1>1. journal[p].sets = <<>> /\ journal[p].active = 0 /\ journal[p].entries = {}
  BY DEF Init, EmptyJournal, NoSet
<1> QED
  BY <1>1 DEF SetsKept

LEMMA NextAllKept ==
  ASSUME IInv, AllKept, [Next]_vars
  PROVE  AllKept'
<1>1. ASSUME NEW p \in Authors, NEW k, SetsKept(k, p), journal' = [journal EXCEPT ![p] = k]
      PROVE  AllKept'
  BY <1>1 DEF AllKept, IInv, TypeOK
<1>2. ASSUME NEW p \in Authors, Edit(p)
      PROVE  AllKept'
  <2> DEFINE j == journal[p]
             k == AppendLocal(j, p)
             e == LocalEntry(j, p)
  <2>1. j \in JournalType /\ j.author = p /\ p \in Ops /\ Consistent(j) /\ SetsKept(j, p)
    BY OpsAssumption DEF IInv, TypeOK, Kept, AllKept
  <2>2. e \in Entry /\ e.id.lamport = j.clock + 1 /\ e.changeSet = j.active
    BY <2>1, LocalEntryFields, LocalSets
  <2>3. k \in JournalType /\ e.id \notin Ids(j) /\ k.entries = j.entries \cup {e}
    BY <2>1, AppendLocalConsistent
  <2>4. k.sets = JoinSet(j.sets, e.changeSet, e.id) /\ k.active = j.active
    BY <2>1, <2>2, LocalSets
  <2>5. \A i \in Ids(j) : i.lamport < e.id.lamport
    <3>1. j.clock \in Nat /\ \A i \in Ids(j) : i.lamport \in Nat
      BY <2>1 DEF Ids, JournalType, Entry, EntryId
    <3> QED
      BY <2>1, <2>2, <3>1 DEF Consistent, ClockCoversEntries
  <2>6. e.changeSet <= Len(j.sets)
    BY <2>1, <2>2 DEF SetsKept
  <2>7. journal' = [journal EXCEPT ![p] = k]
    BY <1>2 DEF Edit
  <2> HIDE DEF k, e
  <2>8. SetsKept(k, p)
    BY <2>1, <2>2, <2>3, <2>4, <2>5, <2>6, InsertKeepsSets
  <2> QED
    BY <1>1, <2>7, <2>8
<1>3. ASSUME NEW p \in Authors, NEW e \in made, Receive(p, e)
      PROVE  AllKept'
  <2> DEFINE j == journal[p]
  <2>1. /\ j \in JournalType /\ Consistent(j) /\ SetsKept(j, p) /\ e \in Entry
        /\ \A i \in e.parents : i.lamport < e.id.lamport
    BY DEF IInv, TypeOK, Kept, Made, AllKept
  <2>2. PICK k \in AppendRemote(j, e) : journal' = [journal EXCEPT ![p] = k]
    BY <1>3 DEF Receive
  <2>3. CASE e.id \in Ids(j)
    <3>1. k = j
      BY <2>2, <2>3 DEF AppendRemote, Known
    <3> QED
      BY <1>1, <2>1, <2>2, <3>1
  <2>4. CASE e.id \notin Ids(j)
    <3>1. k \in JournalType /\ k.entries = j.entries \cup {e}
      BY <2>1, <2>2, <2>4, AppendRemoteFields
    <3>2. k.sets = JoinSet(j.sets, e.changeSet, e.id) /\ k.active = j.active
      BY <2>1, <2>2, <2>4, RemoteSets
    <3>3. e.id.author # p
      BY <2>4 DEF IInv, Made, Ids
    <3>4. SetsKept(k, p)
      BY <2>1, <2>4, <3>1, <3>2, <3>3, InsertKeepsSets
    <3> QED
      BY <1>1, <2>2, <3>4
  <2> QED
    BY <2>3, <2>4
<1>4. ASSUME NEW p \in Authors, OpenSet(p) \/ CloseSet(p)
      PROVE  AllKept'
  <2>1. PICK k \in {BeginChangeSet(journal[p]), EndChangeSet(journal[p])} :
          journal' = [journal EXCEPT ![p] = k]
    BY <1>4 DEF OpenSet, CloseSet
  <2>2. journal[p] \in JournalType /\ SetsKept(journal[p], p)
    BY DEF IInv, TypeOK, AllKept
  <2>3. SetsKept(k, p)
    BY <2>1, <2>2, ChangeSetSets
  <2> QED
    BY <1>1, <2>1, <2>3
<1>5. CASE UNCHANGED vars
  BY <1>5 DEF vars, AllKept
<1> QED
  BY <1>2, <1>3, <1>4, <1>5 DEF Next

\* A change set lists, in the order recorded, what its peer recorded while the
\* set was open, whatever others' entries arrived meanwhile and whichever sets
\* their numbers name (JournalResource::change_set, insert_entry).
THEOREM SetsAreComplete == Spec => []SetsListTheirEntries
<1>1. AllKept => SetsListTheirEntries
  BY DEF AllKept, SetsKept, Lists, OwnOf, SetsListTheirEntries
<1> QED
  BY <1>1, Invariant, InitIInv, NextIInv, InitAllKept, NextAllKept, PTL DEF Spec

----------------------------------------------------------------------------
(* The head is the end of the merged order. *)

\* Under the built-in policy in any order of delivery, which the invariant has
\* already; under any other when entries come after their parents.
HeadIsKept(p) == HeadIsLast(journal[p]) /\ HoldsParents(journal[p])

CInv == IInv /\ \A p \in Authors : HeadIsKept(p)

LEMMA DefaultHeadIsLast ==
  ASSUME Strategy = "default", IInv
  PROVE  HeadIsMergedTip
<1>1. \A p \in Authors : HeadIsLast(journal[p])
  BY GreatestIsLast DEF IInv, TypeOK, Kept
<1> QED
  BY <1>1 DEF HeadIsLast, HeadIsMergedTip

LEMMA InitCInv == Init => CInv
<1> SUFFICES ASSUME Init
             PROVE  CInv
  OBVIOUS
<1>1. \A p \in Authors : Ids(journal[p]) = {} /\ journal[p].entries = {}
  BY DEF Init, EmptyJournal, Ids
<1> QED
  BY <1>1, InitIInv DEF CInv, HeadIsKept, HeadIsLast, HoldsParents

\* What a peer holds it keeps, so an entry's parents need to be looked at only
\* where the entry is new.
LEMMA NextCInv ==
  ASSUME CausalDelivery, CInv, [Next]_vars
  PROVE  CInv'
<1>1. IInv'
  BY NextIInv DEF CInv
<1>2. \A p \in Authors : /\ journal[p] \in JournalType /\ Consistent(journal[p])
                         /\ HeadIsLast(journal[p]) /\ HoldsParents(journal[p])
  BY DEF CInv, IInv, TypeOK, Kept, HeadIsKept
<1>3. ASSUME NEW p \in Authors, NEW k, HeadIsLast(k), HoldsParents(k),
             journal' = [journal EXCEPT ![p] = k]
      PROVE  CInv'
  <2>1. \A q \in Authors : journal'[q] = IF q = p THEN k ELSE journal[q]
    BY <1>3 DEF CInv, IInv, TypeOK
  <2>2. \A q \in Authors : HeadIsLast(journal'[q]) /\ HoldsParents(journal'[q])
    BY <1>2, <1>3, <2>1
  <2> QED
    BY <1>1, <2>2 DEF CInv, HeadIsKept
<1>4. ASSUME NEW p \in Authors, Edit(p)
      PROVE  CInv'
  <2> DEFINE j == journal[p]
             k == AppendLocal(j, p)
             e == LocalEntry(j, p)
  <2>1. j \in JournalType /\ Consistent(j) /\ HeadIsLast(j) /\ HoldsParents(j) /\ p \in Ops
    BY <1>2, OpsAssumption
  <2>2. HeadIsLast(k)
    BY <2>1, LocalIsLast
  <2>3. k.entries = j.entries \cup {e} /\ e.parents = {j.head} \ {NoEntry}
    BY <2>1, LocalEntryFields, AppendLocalFields
  <2>4. {j.head} \ {NoEntry} \subseteq Ids(j)
    BY <2>1 DEF Consistent, HeadIsHeld
  <2>5. HoldsParents(k)
    BY <2>1, <2>3, <2>4 DEF HoldsParents, Ids
  <2>6. journal' = [journal EXCEPT ![p] = k]
    BY <1>4 DEF Edit
  <2> QED
    BY <1>3, <2>2, <2>5, <2>6
<1>5. ASSUME NEW p \in Authors, NEW e \in made, Receive(p, e)
      PROVE  CInv'
  <2> DEFINE j == journal[p]
  <2>1. PICK k \in AppendRemote(j, e) : journal' = [journal EXCEPT ![p] = k]
    BY <1>5 DEF Receive
  <2>2. /\ e \in Entry /\ e.parents \subseteq Ids(j)
        /\ \A i \in e.parents : i.lamport < e.id.lamport
    BY <1>5 DEF Receive, CInv, IInv, TypeOK, Made
  <2>3. HeadIsLast(k) /\ HoldsParents(k)
    <3>1. CASE e.id \in Ids(j)
      BY <1>2, <2>1, <3>1 DEF AppendRemote, Known
    <3>2. CASE e.id \notin Ids(j)
      BY <1>2, <2>1, <2>2, <3>2, RemoteIsLast
    <3> QED
      BY <3>1, <3>2
  <2> QED
    BY <1>3, <2>1, <2>3
<1>6. ASSUME NEW p \in Authors, OpenSet(p) \/ CloseSet(p)
      PROVE  CInv'
  <2> DEFINE j == journal[p]
  <2>1. PICK k \in {BeginChangeSet(j), EndChangeSet(j)} : journal' = [journal EXCEPT ![p] = k]
    BY <1>6 DEF OpenSet, CloseSet
  <2>2. /\ k.entries = j.entries /\ k.order = j.order
        /\ k.strategy = j.strategy /\ k.head = j.head
    BY <1>2, <2>1, ChangeSetFields
  <2>3. HeadIsLast(k) /\ HoldsParents(k)
    BY <1>2, <2>2, SameMergedHeads DEF HeadIsLast, HoldsParents
  <2> QED
    BY <1>3, <2>1, <2>3
<1>7. CASE UNCHANGED vars
  BY <1>1, <1>2, <1>7 DEF vars, CInv, HeadIsKept
<1> QED
  BY <1>4, <1>5, <1>6, <1>7 DEF Next

\* The head a peer keeps step by step is the one end of the merged order of all
\* it holds: under the built-in policy in any order of delivery, under a
\* scripted one when no entry overtakes its parents (advance_main,
\* recompute_main).
THEOREM HeadsAreMergedTips ==
  ASSUME Strategy = "default" \/ CausalDelivery
  PROVE  Spec => []HeadIsMergedTip
<1>1. CASE Strategy = "default"
  <2>1. IInv => HeadIsMergedTip
    BY <1>1, DefaultHeadIsLast
  <2> QED
    BY <2>1, Invariant, PTL
<1>2. CASE CausalDelivery
  <2>1. CInv => HeadIsMergedTip
    BY DEF CInv, HeadIsKept, HeadIsLast, HeadIsMergedTip
  <2>2. CInv /\ [Next]_vars => CInv'
    BY <1>2, NextCInv
  <2> QED
    BY <2>1, <2>2, InitCInv, PTL DEF Spec
<1> QED
  BY <1>1, <1>2
=============================================================================
