--------------------------- MODULE JournalProofs ---------------------------
(***************************************************************************)
(* Lemmas about the operations of Journal: what each preserves of a         *)
(* well-formed journal, and where a merged order ends.                      *)
(***************************************************************************)
EXTENDS Journal, Recursion, TLAPS, SequenceTheorems, FiniteSetTheorems, WellFoundedInduction

Consistent(j) ==
  /\ LogMatchesMap(j)
  /\ ParentsAreEarlier(j)
  /\ ClockCoversEntries(j)
  /\ HeadIsHeld(j)

----------------------------------------------------------------------------
(* The order on ids. *)

LEMMA KeyLessOrder ==
  ASSUME NEW a \in EntryId, NEW b \in EntryId, NEW c \in EntryId
  PROVE  /\ ~KeyLess(a, a)
         /\ KeyLess(a, b) \/ KeyLess(b, a) \/ a = b
         /\ ~(KeyLess(a, b) /\ KeyLess(b, a))
         /\ KeyLess(a, b) /\ KeyLess(b, c) => KeyLess(a, c)
<1>1. /\ a.author \in Authors /\ b.author \in Authors /\ c.author \in Authors
      /\ a.lamport \in Nat /\ b.lamport \in Nat /\ c.lamport \in Nat
  BY DEF EntryId
<1>2. a.lamport = b.lamport /\ a.author = b.author => a = b
  BY DEF EntryId
<1>3. a.author \in Nat /\ b.author \in Nat /\ c.author \in Nat
  BY <1>1, AuthorsAssumption
<1> QED
  BY <1>1, <1>2, <1>3 DEF KeyLess

LEMMA NoEntryIsNoId == NoEntry \notin EntryId
  BY DEF NoEntry, EntryId

----------------------------------------------------------------------------
(* Types. *)

LEMMA IsSequence ==
  ASSUME NEW S, NEW n \in Nat, NEW f \in [1..n -> S]
  PROVE  f \in Seq(S)
OBVIOUS

LEMMA JoinSetType ==
  ASSUME NEW sets \in Seq(Seq(EntryId)), NEW n \in Nat, NEW id \in EntryId
  PROVE  JoinSet(sets, n, id) \in Seq(Seq(EntryId))
<1>1. \A k \in 1..Len(sets) : sets[k] \in Seq(EntryId)
  OBVIOUS
<1>2. \A k \in 1..Len(sets) :
        (IF k = n THEN Append(sets[k], id) ELSE sets[k]) \in Seq(EntryId)
  BY <1>1
<1>3. JoinSet(sets, n, id) \in [1..Len(sets) -> Seq(EntryId)]
  BY <1>2 DEF JoinSet
<1>4. Len(sets) \in Nat
  OBVIOUS
<1> QED
  BY <1>3, <1>4, IsSequence

LEMMA InsertEntryFields ==
  ASSUME NEW j \in JournalType, NEW e \in Entry
  PROVE  LET k == InsertEntry(j, e)
         IN  /\ k \in JournalType
             /\ k.entries = j.entries \cup {e}
             /\ k.order = Append(j.order, e.id)
             /\ k.author = j.author /\ k.clock = j.clock /\ k.head = j.head
             /\ k.strategy = j.strategy
<1>1. e.id \in EntryId /\ e.changeSet \in Nat
  BY DEF Entry
<1>2. JoinSet(j.sets, e.changeSet, e.id) \in Seq(Seq(EntryId))
  BY <1>1, JoinSetType DEF JournalType
<1>3. /\ j.entries \cup {e} \in SUBSET Entry
      /\ Append(j.order, e.id) \in Seq(EntryId)
  BY <1>1 DEF JournalType
<1> QED
  BY <1>2, <1>3 DEF InsertEntry, JournalType

LEMMA AdvanceFields ==
  ASSUME NEW j \in JournalType, NEW c \in Nat, NEW h \in EntryId
  PROVE  LET k == Advance(j, c, h)
         IN  /\ k \in JournalType
             /\ k.clock = c /\ k.head = h
             /\ k.entries = j.entries /\ k.order = j.order
             /\ k.author = j.author /\ k.strategy = j.strategy
  BY DEF JournalType, Advance

LEMMA LocalEntryFields ==
  ASSUME NEW j \in JournalType, NEW op \in Ops
  PROVE  LET e == LocalEntry(j, op)
         IN  /\ e \in Entry
             /\ e.id = [author |-> j.author, lamport |-> j.clock + 1]
             /\ e.id \in EntryId
             /\ e.id.author = j.author /\ e.id.lamport = j.clock + 1
             /\ e.parents = {j.head} \ {NoEntry}
  BY DEF LocalEntry, JournalType, Entry, EntryId

LEMMA AppendLocalFields ==
  ASSUME NEW j \in JournalType, NEW op \in Ops
  PROVE  LET k == AppendLocal(j, op)
             e == LocalEntry(j, op)
         IN  /\ k \in JournalType
             /\ k.entries = j.entries \cup {e}
             /\ k.order = Append(j.order, e.id)
             /\ k.clock = j.clock + 1
             /\ k.head = e.id
             /\ k.author = j.author
             /\ k.strategy = j.strategy
<1> DEFINE e == LocalEntry(j, op)
<1>1. e \in Entry /\ e.id \in EntryId
  BY LocalEntryFields
<1>2. AppendLocal(j, op) = Advance(InsertEntry(j, e), j.clock + 1, e.id)
  BY DEF AppendLocal
<1>3. j.clock + 1 \in Nat
  BY DEF JournalType
<1> HIDE DEF e
<1> DEFINE i == InsertEntry(j, e)
<1>4. /\ i \in JournalType
      /\ i.entries = j.entries \cup {e}
      /\ i.order = Append(j.order, e.id)
      /\ i.author = j.author /\ i.strategy = j.strategy
  BY <1>1, InsertEntryFields
<1> HIDE DEF i
<1> DEFINE k == Advance(i, j.clock + 1, e.id)
<1>5. /\ k \in JournalType
      /\ k.clock = j.clock + 1 /\ k.head = e.id
      /\ k.entries = i.entries /\ k.order = i.order
      /\ k.author = i.author /\ k.strategy = i.strategy
  BY <1>1, <1>3, <1>4, AdvanceFields
<1>6. AppendLocal(j, op) = k
  BY <1>2 DEF i
<1> HIDE DEF k
<1> QED
  BY <1>4, <1>5, <1>6 DEF e

----------------------------------------------------------------------------
(* The end of a merged order. *)

\* Under the built-in policy each entry of a merged order has a smaller key
\* than the next: either both were ready and the smaller was taken, or the next
\* became ready because it builds on this one, and so has a greater lamport.
LEMMA MergedOrderAscends ==
  ASSUME NEW j \in JournalType, ParentsAreEarlier(j), j.strategy = "default",
         NEW s \in MergedOrders(j), NEW k \in Nat, k \in 1..(Len(j.order) - 1)
  PROVE  KeyLess(s[k], s[k + 1])
<1> DEFINE placed == {s[m] : m \in 1..(k - 1)}
           next   == {s[m] : m \in 1..((k + 1) - 1)}
<1>1. /\ Len(j.order) \in Nat
      /\ s \in [1..Len(j.order) -> Ids(j)]
      /\ IsMergedOrder(j, s)
  <2>1. IsMergedOrder(j, s)
    BY DEF MergedOrders
  <2>2. s \in [1..Len(j.order) -> Ids(j)]
    BY <2>1 DEF IsMergedOrder
  <2> QED
    BY <2>1, <2>2 DEF JournalType
<1>2. k \in DOMAIN s /\ k + 1 \in DOMAIN s
  BY <1>1
<1>3. /\ s[k] \in Ready(j, placed)
      /\ \A i \in Ready(j, placed) \ {s[k]} : KeyLess(s[k], i)
      /\ s[k + 1] \in Ready(j, next)
  BY <1>1, <1>2 DEF IsMergedOrder, Before
<1>4. next = placed \cup {s[k]}
  <2>1. 1..((k + 1) - 1) = (1..(k - 1)) \cup {k}
    OBVIOUS
  <2> QED
    BY <2>1
<1>5. PICK f \in j.entries : /\ f.id = s[k + 1]
                             /\ f.id \notin next
                             /\ f.parents \cap Ids(j) \subseteq next
  BY <1>3 DEF Ready
<1>6. CASE f.parents \cap Ids(j) \subseteq placed
  <2>1. s[k + 1] \in Ready(j, placed) \ {s[k]}
    BY <1>4, <1>5, <1>6 DEF Ready
  <2> QED
    BY <1>3, <2>1
<1>7. CASE ~(f.parents \cap Ids(j) \subseteq placed)
  <2>1. s[k] \in f.parents
    BY <1>4, <1>5, <1>7
  <2>2. s[k].lamport < f.id.lamport
    BY <2>1 DEF ParentsAreEarlier
  <2> QED
    BY <1>5, <2>2 DEF KeyLess
<1> QED
  BY <1>6, <1>7

\* So the last entry of a merged order has the greatest key of all.
LEMMA MergedTipIsGreatest ==
  ASSUME NEW j \in JournalType, ParentsAreEarlier(j), j.strategy = "default",
         Len(j.order) > 0, NEW h \in MergedHeads(j)
  PROVE  h \in Ids(j) /\ \A i \in Ids(j) \ {h} : KeyLess(i, h)
<1> DEFINE n == Len(j.order)
<1>1. n \in Nat /\ Ids(j) \subseteq EntryId
  BY DEF JournalType, Ids, Entry
<1>2. PICK s \in MergedOrders(j) : h = s[Len(s)]
  BY DEF MergedHeads
<1>3. s \in [1..n -> Ids(j)] /\ \A i \in Ids(j) : \E k \in DOMAIN s : s[k] = i
  <2>1. IsMergedOrder(j, s)
    BY DEF MergedOrders
  <2> QED
    BY <2>1 DEF IsMergedOrder
<1>4. DOMAIN s = 1..n /\ Len(s) = n /\ n \in 1..n /\ h = s[n]
  <2>1. s \in Seq(Ids(j))
    BY <1>1, <1>3, SeqDef
  <2> QED
    BY <1>1, <1>2, <1>3, <2>1
<1>5. \A k \in 1..(n - 1) : KeyLess(s[k], s[k + 1])
  BY <1>1, MergedOrderAscends
<1> DEFINE Bad == {d \in Nat : d < n /\ s[n - d] # h /\ ~KeyLess(s[n - d], h)}
<1>6. Bad = {}
  <2>1. SUFFICES ASSUME Bad # {}
                 PROVE  FALSE
    OBVIOUS
  <2>2. PICK d \in Bad : \A c \in Bad : ~(<<c, d>> \in OpToRel(<, Nat))
    BY <2>1, WFMin, NatLessThanWellFounded
  <2>3. d \in Nat /\ d < n /\ s[n - d] # h /\ ~KeyLess(s[n - d], h)
    OBVIOUS
  <2>4. d # 0
    BY <1>1, <1>4, <2>3
  <2>5. d - 1 \in Nat /\ d - 1 < d /\ d - 1 < n
    BY <1>1, <2>3, <2>4
  <2>6. d - 1 \notin Bad
    <3>1. <<d - 1, d>> \in OpToRel(<, Nat)
      BY <2>3, <2>5 DEF OpToRel
    <3> QED
      BY <2>2, <3>1
  <2>7. s[n - (d - 1)] = h \/ KeyLess(s[n - (d - 1)], h)
    BY <2>5, <2>6
  <2>8. /\ n - d \in 1..(n - 1)
        /\ (n - d) + 1 = n - (d - 1)
    BY <1>1, <2>3, <2>4
  <2>9. KeyLess(s[n - d], s[n - (d - 1)])
    BY <1>5, <2>8
  <2>10. s[n - d] \in EntryId /\ s[n - (d - 1)] \in EntryId /\ h \in EntryId
    <3>1. n - d \in 1..n /\ n - (d - 1) \in 1..n
      BY <1>1, <2>3, <2>4
    <3> QED
      BY <1>1, <1>3, <1>4, <3>1
  <2> QED
    BY <2>3, <2>7, <2>9, <2>10, KeyLessOrder
<1>7. \A i \in Ids(j) : i # h => KeyLess(i, h)
  <2>1. SUFFICES ASSUME NEW i \in Ids(j), i # h
                 PROVE  KeyLess(i, h)
    OBVIOUS
  <2>2. PICK k \in 1..n : s[k] = i
    BY <1>3, <1>4
  <2>3. n - k \in Nat /\ n - k < n /\ n - (n - k) = k
    BY <1>1
  <2> QED
    BY <1>6, <2>1, <2>2, <2>3
<1> QED
  BY <1>3, <1>4, <1>7

----------------------------------------------------------------------------
(* A merged order exists, and there is only one. *)

\* Of a set of ids there is a least by either field.
LEMMA LeastId ==
  ASSUME NEW R, R \subseteq EntryId, R # {}
  PROVE  /\ \E i \in R : \A k \in R : i.lamport <= k.lamport
         /\ \E i \in R : \A k \in R : i.author <= k.author
<1>1. \A i \in R : i.lamport \in Nat /\ i.author \in Nat
  BY AuthorsAssumption DEF EntryId
<1>2. \E i \in R : \A k \in R : i.lamport <= k.lamport
  <2> DEFINE N == {i.lamport : i \in R}
  <2>1. N \subseteq Nat /\ N # {}
    BY <1>1
  <2>2. PICK n \in N : \A m \in N : n <= m
    BY <2>1, LeastNatural
  <2> QED
    BY <2>2
<1>3. \E i \in R : \A k \in R : i.author <= k.author
  <2> DEFINE N == {i.author : i \in R}
  <2>1. N \subseteq Nat /\ N # {}
    BY <1>1
  <2>2. PICK n \in N : \A m \in N : n <= m
    BY <2>1, LeastNatural
  <2> QED
    BY <2>2
<1> QED
  BY <1>2, <1>3

\* Under either strategy a set of ids has one that comes before the others, and
\* of two ids only one comes before the other.
LEMMA BeforeOrder ==
  ASSUME NEW R, R \subseteq EntryId, R # {}, NEW strategy \in Strategies
  PROVE  \E i \in R : \A k \in R \ {i} : Before(strategy, i, k)
<1>1. /\ \A i \in R : i.lamport \in Nat /\ i.author \in Nat
      /\ \A i, k \in R : i.lamport = k.lamport /\ i.author = k.author => i = k
  <2>1. \A i, k \in EntryId : i.lamport = k.lamport /\ i.author = k.author => i = k
    BY DEF EntryId
  <2>2. \A i \in EntryId : i.lamport \in Nat /\ i.author \in Nat
    BY AuthorsAssumption DEF EntryId
  <2> QED
    BY <2>1, <2>2
<1>2. CASE strategy = "default"
  <2>1. PICK l \in R : \A k \in R : l.lamport <= k.lamport
    BY LeastId
  <2> DEFINE A == {k \in R : k.lamport = l.lamport}
  <2>2. PICK i \in A : \A k \in A : i.author <= k.author
    BY LeastId
  <2>3. ASSUME NEW k \in R \ {i}
        PROVE  KeyLess(i, k)
    BY <1>1, <2>1, <2>2 DEF KeyLess
  <2> QED
    BY <1>2, <2>2, <2>3 DEF Before
<1>3. CASE strategy # "default"
  <2> DEFINE W == {k \in R : k.author # Preferred}
             U == IF W = {} THEN R ELSE W
  <2>1. U # {} /\ U \subseteq R
    OBVIOUS
  <2>2. PICK a \in U : \A k \in U : a.author <= k.author
    BY <2>1, LeastId
  <2> DEFINE A == {k \in U : k.author = a.author}
  <2>3. PICK i \in A : \A k \in A : i.lamport <= k.lamport
    BY <2>1, LeastId
  <2>4. ASSUME NEW k \in R \ {i}
        PROVE  ScriptedLess(i, k)
    <3>1. CASE k \in U
      <4>1. AuthorLess(i, k)
        BY <1>1, <2>1, <2>2, <2>3, <3>1 DEF AuthorLess
      <4>2. (i.author = Preferred) <=> (k.author = Preferred)
        BY <2>3, <3>1
      <4> QED
        BY <4>1, <4>2 DEF ScriptedLess
    <3>2. CASE k \notin U
      BY <2>3, <3>2 DEF ScriptedLess
    <3> QED
      BY <3>1, <3>2
  <2> QED
    BY <1>3, <2>1, <2>3, <2>4 DEF Before
<1> QED
  BY <1>2, <1>3

LEMMA BeforeAsymmetric ==
  ASSUME NEW a \in EntryId, NEW b \in EntryId, NEW strategy \in Strategies
  PROVE  ~(Before(strategy, a, b) /\ Before(strategy, b, a))
<1>1. /\ a.lamport \in Nat /\ a.author \in Nat
      /\ b.lamport \in Nat /\ b.author \in Nat
  BY AuthorsAssumption DEF EntryId
<1> QED
  BY <1>1 DEF Before, KeyLess, ScriptedLess, AuthorLess

\* While some entry is not placed, one is ready: the earliest, whose parents
\* are earlier still.
LEMMA SomeAreReady ==
  ASSUME NEW j \in JournalType, ParentsAreEarlier(j),
         NEW P \in SUBSET Ids(j), P # Ids(j)
  PROVE  Ready(j, P) # {} /\ Ready(j, P) \subseteq Ids(j) \ P
<1>1. /\ Ids(j) \subseteq EntryId
      /\ \A i \in EntryId : i.lamport \in Nat
      /\ \A e \in j.entries : e.id \in Ids(j) /\ e.parents \subseteq EntryId
  BY DEF Ids, JournalType, Entry, EntryId
<1>2. PICK i \in Ids(j) \ P : \A k \in Ids(j) \ P : i.lamport <= k.lamport
  <2>1. Ids(j) \ P \subseteq EntryId /\ Ids(j) \ P # {}
    BY <1>1
  <2> QED
    BY <2>1, LeastId
<1>3. PICK e \in j.entries : e.id = i
  BY DEF Ids
<1>4. ASSUME NEW p \in e.parents \cap Ids(j)
      PROVE  p \in P
  <2>1. p.lamport < i.lamport /\ p.lamport \in Nat /\ i.lamport \in Nat
    BY <1>1, <1>3 DEF ParentsAreEarlier
  <2> QED
    BY <1>2, <2>1
<1>5. i \in Ready(j, P)
  BY <1>2, <1>3, <1>4 DEF Ready
<1> QED
  BY <1>1, <1>5 DEF Ready

\* What stands before a position, and what the merge takes there.
PlacedBy(s, k) == {s[m] : m \in 1..(k - 1)}

Takes(j, s, k) ==
  /\ s[k] \in Ready(j, PlacedBy(s, k))
  /\ \A i \in Ready(j, PlacedBy(s, k)) \ {s[k]} : Before(j.strategy, s[k], i)

LEMMA MergedOrderTakes ==
  ASSUME NEW j \in JournalType, NEW s
  PROVE  s \in MergedOrders(j) <=>
           /\ s \in [1..Len(j.order) -> Ids(j)]
           /\ \A i \in Ids(j) : \E k \in 1..Len(j.order) : s[k] = i
           /\ \A k \in 1..Len(j.order) : Takes(j, s, k)
<1>1. DOMAIN j.order = 1..Len(j.order)
  BY DEF JournalType
<1>2. s \in MergedOrders(j) <=> /\ s \in [1..Len(j.order) -> Ids(j)]
                                /\ IsMergedOrder(j, s)
  BY <1>1 DEF MergedOrders
<1> QED
  BY <1>2 DEF IsMergedOrder, Takes, PlacedBy

\* A sequence with one more at its end.
Extended(s, n, i) == [m \in 1..(n + 1) |-> IF m = n + 1 THEN i ELSE s[m]]

LEMMA ExtendedType ==
  ASSUME NEW S, NEW n \in Nat, NEW s \in [1..n -> S], NEW i
  PROVE  Extended(s, n, i) \in [1..(n + 1) -> S \cup {i}]
<1>1. \A m \in 1..(n + 1) : m = n + 1 \/ m \in 1..n
  OBVIOUS
<1>2. \A m \in 1..(n + 1) : (IF m = n + 1 THEN i ELSE s[m]) \in S \cup {i}
  BY <1>1
<1> QED
  BY <1>2 DEF Extended

LEMMA ExtendedFields ==
  ASSUME NEW n \in Nat, NEW s, NEW i, NEW t, t = Extended(s, n, i)
  PROVE  /\ t[n + 1] = i
         /\ \A m \in 1..n : t[m] = s[m] /\ PlacedBy(t, m) = PlacedBy(s, m)
         /\ PlacedBy(t, n + 1) = PlacedBy(s, n + 1)
         /\ PlacedBy(t, n + 2) = PlacedBy(s, n + 1) \cup {i}
<1>1. t = [m \in 1..(n + 1) |-> IF m = n + 1 THEN i ELSE s[m]]
  BY DEF Extended
<1>2. n + 1 \in 1..(n + 1) /\ t[n + 1] = i
  BY <1>1
<1>3. \A m \in 1..n : m \in 1..(n + 1) /\ t[m] = s[m]
  BY <1>1
<1>4. ASSUME NEW m \in 1..(n + 1)
      PROVE  PlacedBy(t, m) = PlacedBy(s, m)
  <2>1. \A l \in 1..(m - 1) : l \in 1..n
    OBVIOUS
  <2>2. \A l \in 1..(m - 1) : t[l] = s[l]
    BY <1>3, <2>1
  <2> QED
    BY <2>2 DEF PlacedBy
<1>5. PlacedBy(t, n + 2) = PlacedBy(s, n + 1) \cup {i}
  <2>1. 1..((n + 2) - 1) = (1..n) \cup {n + 1} /\ 1..((n + 1) - 1) = 1..n
    OBVIOUS
  <2>2. PlacedBy(t, n + 2) = {t[m] : m \in 1..n} \cup {i}
    BY <1>2, <2>1 DEF PlacedBy
  <2>3. PlacedBy(s, n + 1) = {t[m] : m \in 1..n}
    BY <1>3, <2>1 DEF PlacedBy
  <2> QED
    BY <2>2, <2>3
<1> QED
  BY <1>2, <1>3, <1>4, <1>5

\* The log is a list without repetitions, so the journal holds as many ids as
\* the log is long.
LEMMA LogCountsIds ==
  ASSUME NEW j \in JournalType, LogMatchesMap(j)
  PROVE  /\ IsFiniteSet(Ids(j)) /\ Cardinality(Ids(j)) = Len(j.order)
         /\ Len(j.order) \in Nat
<1> DEFINE n == Len(j.order)
<1>1. n \in Nat /\ DOMAIN j.order = 1..n /\ j.order \in [1..n -> EntryId]
  BY DEF JournalType
<1>2. j.order \in [1..n -> Ids(j)]
  BY <1>1 DEF LogMatchesMap
<1>3. j.order \in Bijection(1..n, Ids(j))
  BY <1>1, <1>2 DEF LogMatchesMap, Bijection, Injection, IsInjective, Surjection
<1>4. ExistsBijection(1..n, Ids(j))
  BY <1>3 DEF ExistsBijection
<1> HIDE DEF n
<1>5. IsFiniteSet(Ids(j)) /\ Cardinality(Ids(j)) = n
  BY <1>1, <1>4, FS_NatBijection, FS_CountingElements
<1> QED
  BY <1>1, <1>5 DEF n

LEMMA MergedOrderExists ==
  ASSUME NEW j \in JournalType, LogMatchesMap(j), ParentsAreEarlier(j)
  PROVE  MergedOrders(j) # {}
<1> DEFINE n == Len(j.order)
           Good(s, k) == /\ \A m \in 1..k : Takes(j, s, m)
                         /\ Cardinality(PlacedBy(s, k + 1)) = k
           T == {k \in Nat : k <= n => \E s \in [1..k -> Ids(j)] : Good(s, k)}
<1>1. IsFiniteSet(Ids(j)) /\ Cardinality(Ids(j)) = n /\ n \in Nat
  BY LogCountsIds
<1>2. 0 \in T
  <2> DEFINE s == [m \in 1..0 |-> NoEntry]
  <2>1. s \in [1..0 -> Ids(j)]
    OBVIOUS
  <2>2. PlacedBy(s, 0 + 1) = {}
    BY DEF PlacedBy
  <2>3. Good(s, 0)
    BY <2>2, FS_EmptySet
  <2> QED
    BY <2>1, <2>3
<1>3. ASSUME NEW k \in Nat, k \in T
      PROVE  k + 1 \in T
  <2>1. SUFFICES ASSUME k + 1 <= n
                 PROVE  \E s \in [1..(k + 1) -> Ids(j)] : Good(s, k + 1)
    OBVIOUS
  <2>2. PICK s \in [1..k -> Ids(j)] : Good(s, k)
    BY <1>1, <1>3, <2>1
  <2> DEFINE P == PlacedBy(s, k + 1)
             R == Ready(j, P)
  <2>3. P \in SUBSET Ids(j) /\ P # Ids(j)
    <3>1. P \in SUBSET Ids(j)
      BY DEF PlacedBy
    <3> QED
      BY <1>1, <2>1, <2>2, <3>1
  <2> HIDE DEF P, T, Good
  <2>4. R # {} /\ R \subseteq Ids(j) \ P
    BY <2>3, SomeAreReady
  <2>5. R \subseteq EntryId /\ j.strategy \in Strategies
    BY <2>4 DEF Ids, JournalType, Entry
  <2>6. PICK i \in R : \A l \in R \ {i} : Before(j.strategy, i, l)
    BY <2>4, <2>5, BeforeOrder
  <2> DEFINE t == Extended(s, k, i)
  <2> HIDE DEF R
  <2>7. /\ t \in [1..(k + 1) -> Ids(j) \cup {i}] /\ t[k + 1] = i
        /\ \A m \in 1..k : t[m] = s[m] /\ PlacedBy(t, m) = PlacedBy(s, m)
        /\ PlacedBy(t, k + 1) = P
        /\ PlacedBy(t, k + 2) = P \cup {i}
    BY ExtendedType, ExtendedFields DEF P
  <2> HIDE DEF t
  <2>8. t \in [1..(k + 1) -> Ids(j)]
    <3>1. Ids(j) \cup {i} = Ids(j)
      BY <2>4, <2>6
    <3> QED
      BY <2>7, <3>1
  <2>9. ASSUME NEW m \in 1..(k + 1)
        PROVE  Takes(j, t, m)
    <3>1. CASE m \in 1..k
      BY <2>2, <2>7, <3>1 DEF Takes, Good
    <3>2. CASE m = k + 1
      BY <2>6, <2>7, <3>2 DEF Takes, R
    <3> QED
      BY <3>1, <3>2
  <2>10. Cardinality(PlacedBy(t, k + 2)) = k + 1
    <3>1. IsFiniteSet(P) /\ Cardinality(P) = k
      BY <1>1, <2>2, <2>3, FS_Subset DEF P, Good
    <3>2. i \notin P
      BY <2>4, <2>6
    <3> QED
      BY <2>7, <3>1, <3>2, FS_AddElement
  <2>11. (k + 1) + 1 = k + 2
    OBVIOUS
  <2> QED
    BY <2>8, <2>9, <2>10, <2>11 DEF Good
<1>4. PICK s \in [1..n -> Ids(j)] : Good(s, n)
  <2> HIDE DEF T
  <2>1. n \in T
    BY <1>1, <1>2, <1>3, InductionOnNat
  <2> QED
    BY <1>1, <2>1 DEF T
<1>5. ASSUME NEW i \in Ids(j)
      PROVE  \E k \in 1..n : s[k] = i
  <2>1. PlacedBy(s, n + 1) = {s[m] : m \in 1..n}
    BY <1>1 DEF PlacedBy
  <2>2. PlacedBy(s, n + 1) \in SUBSET Ids(j)
    BY <2>1
  <2>3. PlacedBy(s, n + 1) = Ids(j)
    BY <1>1, <1>4, <2>2, FS_Subset
  <2> QED
    BY <2>1, <2>3
<1>6. s \in MergedOrders(j)
  BY <1>4, <1>5, MergedOrderTakes
<1> QED
  BY <1>6

\* Two merged orders that agree up to a position agree there, as the ready
\* entries are the same and have one least.
LEMMA MergedOrderUnique ==
  ASSUME NEW j \in JournalType, NEW s \in MergedOrders(j), NEW t \in MergedOrders(j)
  PROVE  s = t
<1> DEFINE n == Len(j.order)
<1>1. /\ n \in Nat /\ Ids(j) \subseteq EntryId /\ j.strategy \in Strategies
  BY DEF JournalType, Ids, Entry
<1>2. /\ s \in [1..n -> Ids(j)] /\ \A k \in 1..n : Takes(j, s, k)
      /\ t \in [1..n -> Ids(j)] /\ \A k \in 1..n : Takes(j, t, k)
  BY MergedOrderTakes
<1> DEFINE T == {k \in Nat : k <= n => \A m \in 1..k : s[m] = t[m]}
<1>3. 0 \in T
  OBVIOUS
<1>4. ASSUME NEW k \in Nat, k \in T
      PROVE  k + 1 \in T
  <2>1. SUFFICES ASSUME k + 1 <= n
                 PROVE  \A m \in 1..(k + 1) : s[m] = t[m]
    OBVIOUS
  <2>2. \A m \in 1..k : s[m] = t[m]
    BY <1>1, <1>4, <2>1
  <2>3. k + 1 \in 1..n /\ (k + 1) - 1 = k
    BY <1>1, <2>1
  <2>4. PlacedBy(s, k + 1) = PlacedBy(t, k + 1)
    BY <2>2, <2>3 DEF PlacedBy
  <2>5. s[k + 1] = t[k + 1]
    <3>1. SUFFICES ASSUME s[k + 1] # t[k + 1]
                   PROVE  FALSE
      OBVIOUS
    <3>2. /\ Before(j.strategy, s[k + 1], t[k + 1])
          /\ Before(j.strategy, t[k + 1], s[k + 1])
      BY <1>2, <2>3, <2>4, <3>1 DEF Takes
    <3>3. s[k + 1] \in EntryId /\ t[k + 1] \in EntryId
      BY <1>1, <1>2, <2>3
    <3> QED
      BY <1>1, <3>2, <3>3, BeforeAsymmetric
  <2>6. \A m \in 1..(k + 1) : m \in 1..k \/ m = k + 1
    OBVIOUS
  <2> QED
    BY <2>2, <2>5, <2>6
<1>5. \A m \in 1..n : s[m] = t[m]
  <2> HIDE DEF T
  <2>1. n \in T
    BY <1>1, <1>3, <1>4, InductionOnNat
  <2> QED
    BY <1>1, <2>1 DEF T
<1> QED
  BY <1>2, <1>5

\* So a re-linearization has one outcome.
LEMMA MergedHeadUnique ==
  ASSUME NEW j \in JournalType, LogMatchesMap(j), ParentsAreEarlier(j)
  PROVE  \E h : MergedHeads(j) = {h}
<1>1. PICK s \in MergedOrders(j) : TRUE
  BY MergedOrderExists
<1>2. MergedOrders(j) = {s}
  BY MergedOrderUnique
<1>3. MergedHeads(j) = {s[Len(s)]}
  BY <1>2 DEF MergedHeads
<1> QED
  BY <1>3

\* An entry that builds on the last of a merged order, and that nothing held
\* builds on, goes after it: until then it waits for that parent.
LEMMA ExtensionComesLast ==
  ASSUME NEW j \in JournalType, LogMatchesMap(j),
         NEW e \in Entry, e.id \notin Ids(j), e.id \notin e.parents,
         \A f \in j.entries : e.id \notin f.parents,
         NEW h \in e.parents, h \in Ids(j), h \in MergedHeads(j),
         NEW k \in JournalType, k.entries = j.entries \cup {e},
         k.order = Append(j.order, e.id), k.strategy = j.strategy
  PROVE  e.id \in MergedHeads(k)
<1> DEFINE n == Len(j.order)
           i == e.id
<1>1. /\ n \in Nat /\ i \in EntryId /\ Len(k.order) = n + 1
      /\ Ids(k) = Ids(j) \cup {i}
  <2>1. j.order \in Seq(EntryId) /\ i \in EntryId
    BY DEF JournalType, Entry
  <2>2. Ids(k) = Ids(j) \cup {i}
    BY DEF Ids
  <2> QED
    BY <2>1, <2>2
<1>2. PICK s \in MergedOrders(j) : h = s[Len(s)]
  BY DEF MergedHeads
<1>3. /\ s \in [1..n -> Ids(j)]
      /\ \A l \in Ids(j) : \E m \in 1..n : s[m] = l
      /\ \A m \in 1..n : Takes(j, s, m)
  BY MergedOrderTakes
<1>4. h = s[n] /\ n \in 1..n
  <2>1. s \in Seq(Ids(j)) /\ Len(s) = n
    BY <1>1, <1>3, SeqDef
  <2> QED
    BY <1>1, <1>2, <1>3, <2>1
<1> HIDE DEF n, i
<1> DEFINE t == Extended(s, n, i)
<1>5. /\ t \in [1..(n + 1) -> Ids(j) \cup {i}] /\ t[n + 1] = i
      /\ \A m \in 1..n : t[m] = s[m] /\ PlacedBy(t, m) = PlacedBy(s, m)
      /\ PlacedBy(t, n + 1) = PlacedBy(s, n + 1)
  <2>1. t \in [1..(n + 1) -> Ids(j) \cup {i}]
    BY <1>1, <1>3, ExtendedType
  <2> HIDE DEF t
  <2>2. t = Extended(s, n, i)
    BY DEF t
  <2> QED
    BY <1>1, <2>1, <2>2, ExtendedFields
<1> HIDE DEF t
<1>6. ASSUME NEW P \in SUBSET Ids(j), h \notin P
      PROVE  Ready(k, P) = Ready(j, P)
  <2>1. ~(e.parents \cap Ids(k) \subseteq P)
    BY <1>1, <1>6
  <2>2. \A f \in j.entries : f.parents \cap Ids(k) = f.parents \cap Ids(j)
    BY <1>1 DEF i
  <2>3. \A f \in k.entries :
          f.id \notin P /\ f.parents \cap Ids(k) \subseteq P
            <=> f \in j.entries /\ f.id \notin P /\ f.parents \cap Ids(j) \subseteq P
    BY <2>1, <2>2
  <2> QED
    BY <2>3 DEF Ready
<1>7. Ready(k, Ids(j)) = {i}
  <2>1. \A f \in j.entries : f.id \in Ids(j)
    BY DEF Ids
  <2>2. e.parents \cap Ids(k) \subseteq Ids(j)
    BY <1>1 DEF i
  <2> QED
    BY <2>1, <2>2 DEF Ready, i
<1>8. ASSUME NEW m \in 1..n
      PROVE  Takes(k, t, m)
  <2>1. PlacedBy(s, m) \in SUBSET Ids(j)
    <3>1. \A l \in 1..(m - 1) : l \in 1..n
      BY <1>1
    <3> QED
      BY <1>3, <3>1 DEF PlacedBy
  <2>2. h \notin PlacedBy(s, m)
    <3>1. h \notin PlacedBy(s, n)
      BY <1>3, <1>4 DEF Takes, Ready
    <3>2. 1..(m - 1) \subseteq 1..(n - 1)
      BY <1>1
    <3> QED
      BY <3>1, <3>2 DEF PlacedBy
  <2>3. Ready(k, PlacedBy(t, m)) = Ready(j, PlacedBy(s, m))
    BY <1>5, <1>6, <2>1, <2>2
  <2> QED
    BY <1>3, <1>5, <2>3 DEF Takes
<1>9. PlacedBy(t, n + 1) = Ids(j)
  <2>1. PlacedBy(s, n + 1) = {s[m] : m \in 1..n}
    BY <1>1 DEF PlacedBy
  <2>2. {s[m] : m \in 1..n} = Ids(j)
    BY <1>3
  <2> QED
    BY <1>5, <2>1, <2>2
<1>10. Takes(k, t, n + 1)
  BY <1>5, <1>7, <1>9 DEF Takes
<1>11. t \in MergedOrders(k)
  <2>1. ASSUME NEW l \in Ids(k)
        PROVE  \E m \in 1..(n + 1) : t[m] = l
    <3>1. CASE l = i
      <4>1. n + 1 \in 1..(n + 1)
        BY <1>1
      <4> QED
        BY <1>5, <3>1, <4>1
    <3>2. CASE l \in Ids(j)
      <4>1. PICK m \in 1..n : s[m] = l
        BY <1>3, <3>2
      <4>2. m \in 1..(n + 1)
        BY <1>1
      <4> QED
        BY <1>5, <4>1, <4>2
    <3> QED
      BY <1>1, <3>1, <3>2
  <2>2. \A m \in 1..(n + 1) : m \in 1..n \/ m = n + 1
    BY <1>1
  <2>3. \A m \in 1..(n + 1) : Takes(k, t, m)
    BY <1>8, <1>10, <2>2
  <2> QED
    BY <1>1, <1>5, <2>1, <2>3, MergedOrderTakes
<1>12. t[Len(t)] = i
  <2>1. t \in Seq(Ids(k)) /\ Len(t) = n + 1
    BY <1>1, <1>5, SeqDef
  <2> QED
    BY <1>5, <2>1
<1> QED
  BY <1>11, <1>12 DEF MergedHeads, i

\* A first entry is the merged order by itself.
LEMMA SingleIsMerged ==
  ASSUME NEW k \in JournalType, LogMatchesMap(k), ParentsAreEarlier(k),
         NEW i, Ids(k) = {i}
  PROVE  MergedHeads(k) = {i}
<1>1. Len(k.order) = 1
  BY LogCountsIds, FS_Singleton
<1>2. PICK s \in MergedOrders(k) : TRUE
  BY MergedOrderExists
<1>3. s \in [1..1 -> {i}]
  BY <1>1, <1>2, MergedOrderTakes
<1>4. s \in Seq({i}) /\ Len(s) = 1 /\ s[1] = i
  <2>1. \A n \in Nat : [1..n -> {i}] \subseteq Seq({i})
    BY SeqDef
  <2>2. s \in Seq({i})
    BY <1>3, <2>1
  <2> QED
    BY <1>3, <2>2
<1>5. i \in MergedHeads(k)
  BY <1>4 DEF MergedHeads
<1> QED
  BY <1>5, MergedHeadUnique

----------------------------------------------------------------------------
(* What taking in an entry gives. *)

\* A list that holds a set's ids, each once, does so after one more of each.
LEMMA LogGrows ==
  ASSUME NEW j \in JournalType, NEW k \in JournalType, NEW e \in Entry,
         LogMatchesMap(j), e.id \notin Ids(j),
         k.entries = j.entries \cup {e}, k.order = Append(j.order, e.id)
  PROVE  LogMatchesMap(k) /\ Ids(k) = Ids(j) \cup {e.id}
<1>1. Ids(k) = Ids(j) \cup {e.id}
  BY DEF Ids
<1> DEFINE n == Len(j.order)
<1>2. /\ j.order \in Seq(EntryId) /\ n \in Nat
      /\ DOMAIN j.order = 1..n
  BY DEF JournalType
<1>3. e.id \in EntryId
  BY DEF Entry
<1>4. /\ DOMAIN k.order = 1..(n + 1)
      /\ \A m \in 1..n : k.order[m] = j.order[m]
      /\ k.order[n + 1] = e.id
  BY <1>2, <1>3
<1>5. \A m \in 1..n : j.order[m] \in Ids(j)
  BY <1>2 DEF LogMatchesMap
<1>6. {k.order[m] : m \in DOMAIN k.order} = Ids(k)
  <2>1. ASSUME NEW m \in DOMAIN k.order
        PROVE  k.order[m] \in Ids(k)
    <3>1. m \in 1..n \/ m = n + 1
      BY <1>2, <1>4
    <3> QED
      BY <1>1, <1>4, <1>5, <3>1
  <2>2. ASSUME NEW i \in Ids(k)
        PROVE  \E m \in DOMAIN k.order : k.order[m] = i
    <3>1. CASE i = e.id
      <4>1. n + 1 \in DOMAIN k.order
        BY <1>2, <1>4
      <4> QED
        BY <1>4, <3>1, <4>1
    <3>2. CASE i \in Ids(j)
      <4>1. PICK m \in 1..n : j.order[m] = i
        BY <1>2, <3>2 DEF LogMatchesMap
      <4>2. m \in DOMAIN k.order
        BY <1>2, <1>4
      <4> QED
        BY <1>4, <4>1, <4>2
    <3> QED
      BY <1>1, <3>1, <3>2
  <2> QED
    BY <2>1, <2>2
<1>7. ASSUME NEW m \in DOMAIN k.order, NEW l \in DOMAIN k.order,
             k.order[m] = k.order[l]
      PROVE  m = l
  <2>1. (m \in 1..n \/ m = n + 1) /\ (l \in 1..n \/ l = n + 1)
    BY <1>2, <1>4
  <2>2. CASE m \in 1..n /\ l \in 1..n
    BY <1>2, <1>4, <1>7, <2>2 DEF LogMatchesMap
  <2>3. CASE m = n + 1 \/ l = n + 1
    BY <1>4, <1>5, <1>7, <2>1, <2>3
  <2> QED
    BY <2>1, <2>2, <2>3
<1>8. \A d, f \in k.entries : d.id = f.id => d = f
  BY DEF LogMatchesMap, Ids
<1> QED
  BY <1>1, <1>6, <1>7, <1>8 DEF LogMatchesMap

LEMMA ObservedIsMax ==
  ASSUME NEW c \in Nat, NEW l \in Nat
  PROVE  Observed(c, l) \in Nat /\ c <= Observed(c, l) /\ l <= Observed(c, l)
  BY DEF Observed

\* A well-formed journal that lacks an entry takes it in: the entry joins the
\* map and the log, the clock reaches its lamport, and `main` points at an
\* entry held - under the built-in policy the greatest, if it did before.
LEMMA AppendRemoteFields ==
  ASSUME NEW j \in JournalType, Consistent(j),
         NEW e \in Entry, e.id \notin Ids(j),
         \A p \in e.parents : p.lamport < e.id.lamport,
         NEW k \in AppendRemote(j, e)
  PROVE  /\ k \in JournalType
         /\ k.entries = j.entries \cup {e}
         /\ Ids(k) = Ids(j) \cup {e.id}
         /\ k.author = j.author
         /\ k.strategy = j.strategy
         /\ j.clock <= k.clock
         /\ Consistent(k)
         /\ j.strategy = "default" /\ HeadIsGreatest(j) => HeadIsGreatest(k)
<1> DEFINE i     == InsertEntry(j, e)
           c     == Observed(j.clock, e.id.lamport)
           heads == IF ExtendsMain(j, e) THEN {e.id} ELSE MergedHeads(i)
<1>1. /\ i \in JournalType
      /\ i.entries = j.entries \cup {e}
      /\ i.order = Append(j.order, e.id)
      /\ i.author = j.author /\ i.strategy = j.strategy
  BY InsertEntryFields
<1>2. e.id \in EntryId /\ e.id.lamport \in Nat /\ j.clock \in Nat
  BY DEF Entry, EntryId, JournalType
<1>3. LogMatchesMap(i) /\ Ids(i) = Ids(j) \cup {e.id}
  BY <1>1, LogGrows DEF Consistent
<1>4. ParentsAreEarlier(i)
  BY <1>1 DEF Consistent, ParentsAreEarlier
<1>5. c \in Nat /\ j.clock <= c /\ e.id.lamport <= c
  BY <1>2, ObservedIsMax
<1>6. PICK h \in heads : k = Advance(i, c, h)
  BY DEF AppendRemote, Known
<1>7. Len(i.order) \in Nat /\ Len(i.order) > 0
  BY <1>1, <1>2 DEF JournalType
<1>8. h \in Ids(i)
  <2>1. CASE ExtendsMain(j, e)
    BY <1>3, <1>6, <2>1
  <2>2. CASE ~ExtendsMain(j, e)
    <3>1. h \in MergedHeads(i)
      BY <1>6, <2>2
    <3>2. PICK s \in [1..Len(i.order) -> Ids(i)] : h = s[Len(s)]
      <4>1. PICK s \in MergedOrders(i) : h = s[Len(s)]
        BY <3>1 DEF MergedHeads
      <4>2. IsMergedOrder(i, s)
        BY DEF MergedOrders
      <4> QED
        BY <4>1, <4>2 DEF IsMergedOrder
    <3>3. s \in Seq(Ids(i)) /\ Len(s) = Len(i.order) /\ Len(s) \in 1..Len(i.order)
      BY <1>7, <3>2, SeqDef
    <3> QED
      BY <3>2, <3>3
  <2> QED
    BY <2>1, <2>2
<1>9. h \in EntryId
  BY <1>1, <1>8 DEF Ids, JournalType, Entry
<1> HIDE DEF i, c, heads
<1>10. /\ k \in JournalType
       /\ k.clock = c /\ k.head = h
       /\ k.entries = i.entries /\ k.order = i.order
       /\ k.author = i.author /\ k.strategy = i.strategy
  BY <1>1, <1>5, <1>6, <1>9, AdvanceFields
<1>11. Ids(k) = Ids(i)
  BY <1>10 DEF Ids
<1>12. Consistent(k)
  <2>1. LogMatchesMap(k)
    BY <1>3, <1>10, <1>11 DEF LogMatchesMap
  <2>2. ParentsAreEarlier(k)
    BY <1>4, <1>10 DEF ParentsAreEarlier
  <2>3. ClockCoversEntries(k)
    <3>1. \A x \in Ids(j) : x.lamport \in Nat
      BY DEF Ids, JournalType, Entry, EntryId
    <3> QED
      BY <1>2, <1>3, <1>5, <1>10, <1>11, <3>1 DEF Consistent, ClockCoversEntries
  <2>4. HeadIsHeld(k)
    BY <1>8, <1>10, <1>11 DEF HeadIsHeld
  <2> QED
    BY <2>1, <2>2, <2>3, <2>4 DEF Consistent
<1>13. ASSUME j.strategy = "default", HeadIsGreatest(j)
       PROVE  HeadIsGreatest(k)
  <2>1. CASE ExtendsMain(j, e)
    <3>1. h = e.id
      BY <1>6, <2>1 DEF heads
    <3>2. SUFFICES ASSUME NEW x \in Ids(j)
                   PROVE  KeyLess(x, e.id)
      BY <1>3, <1>10, <1>11, <3>1 DEF HeadIsGreatest
    <3>3. j.head \in Ids(j) /\ j.head # NoEntry
      <4>1. Ids(j) \subseteq EntryId
        BY DEF Ids, JournalType, Entry
      <4> QED
        BY <4>1, NoEntryIsNoId DEF Consistent, HeadIsHeld
    <3>4. j.head \in e.parents /\ j.head.lamport < e.id.lamport
      BY <2>1, <3>3 DEF ExtendsMain
    <3>5. KeyLess(j.head, e.id)
      BY <3>4 DEF KeyLess
    <3>6. x = j.head \/ KeyLess(x, j.head)
      BY <1>13 DEF HeadIsGreatest
    <3>7. x \in EntryId /\ j.head \in EntryId
      BY <3>3 DEF Ids, JournalType, Entry
    <3> QED
      BY <1>2, <3>5, <3>6, <3>7, KeyLessOrder
  <2>2. CASE ~ExtendsMain(j, e)
    <3>1. h \in MergedHeads(i)
      BY <1>6, <2>2 DEF heads
    <3>2. \A x \in Ids(i) \ {h} : KeyLess(x, h)
      BY <1>1, <1>4, <1>7, <1>13, <3>1, MergedTipIsGreatest
    <3> QED
      BY <1>10, <1>11, <3>2 DEF HeadIsGreatest
  <2> QED
    BY <2>1, <2>2
<1> QED
  BY <1>1, <1>3, <1>5, <1>10, <1>11, <1>12, <1>13

----------------------------------------------------------------------------
(* What a local edit gives. *)

\* A local edit's id is new to the journal and has a greater key than every id
\* in it; the journal stays well-formed, with that entry at its head.
LEMMA AppendLocalConsistent ==
  ASSUME NEW j \in JournalType, Consistent(j), NEW op \in Ops
  PROVE  LET k == AppendLocal(j, op)
             e == LocalEntry(j, op)
         IN  /\ k \in JournalType
             /\ e.id \notin Ids(j)
             /\ \A p \in e.parents : p.lamport < e.id.lamport
             /\ \A i \in Ids(j) : KeyLess(i, e.id)
             /\ k.entries = j.entries \cup {e}
             /\ Ids(k) = Ids(j) \cup {e.id}
             /\ k.clock = j.clock + 1
             /\ k.author = j.author
             /\ k.strategy = j.strategy
             /\ Consistent(k)
             /\ HeadIsGreatest(k)
<1> DEFINE k == AppendLocal(j, op)
           e == LocalEntry(j, op)
<1>1. /\ e \in Entry /\ e.id \in EntryId
      /\ e.id.lamport = j.clock + 1
      /\ e.parents = {j.head} \ {NoEntry}
  BY LocalEntryFields
<1>2. /\ k \in JournalType
      /\ k.entries = j.entries \cup {e}
      /\ k.order = Append(j.order, e.id)
      /\ k.clock = j.clock + 1 /\ k.head = e.id
      /\ k.author = j.author /\ k.strategy = j.strategy
  BY AppendLocalFields
<1>3. /\ j.clock \in Nat
      /\ \A i \in Ids(j) : i.lamport \in Nat /\ i.lamport <= j.clock
  BY DEF Ids, JournalType, Entry, EntryId, Consistent, ClockCoversEntries
<1> HIDE DEF k, e
<1>4. e.id \notin Ids(j) /\ \A i \in Ids(j) : KeyLess(i, e.id)
  BY <1>1, <1>3 DEF KeyLess
<1>5. \A p \in e.parents : p.lamport < e.id.lamport
  BY <1>1, <1>3 DEF Consistent, HeadIsHeld
<1>6. LogMatchesMap(k) /\ Ids(k) = Ids(j) \cup {e.id}
  BY <1>1, <1>2, <1>4, LogGrows DEF Consistent
<1>7. ParentsAreEarlier(k)
  BY <1>2, <1>5 DEF Consistent, ParentsAreEarlier
<1>8. ClockCoversEntries(k)
  BY <1>1, <1>2, <1>3, <1>6 DEF ClockCoversEntries
<1>9. HeadIsHeld(k) /\ HeadIsGreatest(k)
  BY <1>2, <1>4, <1>6 DEF HeadIsHeld, HeadIsGreatest
<1> QED
  BY <1>2, <1>4, <1>5, <1>6, <1>7, <1>8, <1>9 DEF k, e, Consistent

----------------------------------------------------------------------------
(* Change sets touch neither the entries nor the head. *)

LEMMA ChangeSetFields ==
  ASSUME NEW j \in JournalType, NEW k \in {BeginChangeSet(j), EndChangeSet(j)}
  PROVE  /\ k \in JournalType
         /\ k.entries = j.entries /\ k.order = j.order
         /\ k.author = j.author /\ k.strategy = j.strategy
         /\ k.clock = j.clock /\ k.head = j.head
<1>1. /\ Len(j.sets) + 1 \in Nat
      /\ <<>> \in Seq(EntryId)
      /\ Append(j.sets, <<>>) \in Seq(Seq(EntryId))
  BY DEF JournalType
<1>2. CASE k = BeginChangeSet(j)
  BY <1>1, <1>2 DEF BeginChangeSet, JournalType
<1>3. CASE k = EndChangeSet(j)
  BY <1>3 DEF EndChangeSet, JournalType, NoSet
<1> QED
  BY <1>2, <1>3

LEMMA SameJournalContents ==
  ASSUME NEW j \in JournalType, NEW k \in JournalType,
         k.entries = j.entries, k.order = j.order,
         k.clock = j.clock, k.head = j.head
  PROVE  /\ Ids(k) = Ids(j)
         /\ Consistent(j) => Consistent(k)
         /\ HeadIsGreatest(j) => HeadIsGreatest(k)
<1>1. Ids(k) = Ids(j)
  BY DEF Ids
<1> QED
  BY <1>1 DEF Consistent, LogMatchesMap, ParentsAreEarlier, ClockCoversEntries,
              HeadIsHeld, HeadIsGreatest

LEMMA EmptyJournalConsistent ==
  ASSUME NEW a \in Authors, NEW strategy \in Strategies
  PROVE  LET j == EmptyJournal(a, strategy)
         IN  /\ j \in JournalType
             /\ j.author = a /\ j.strategy = strategy
             /\ j.entries = {} /\ Ids(j) = {}
             /\ Consistent(j) /\ HeadIsGreatest(j)
<1> DEFINE j == EmptyJournal(a, strategy)
<1>1. /\ j.author = a /\ j.strategy = strategy
      /\ j.entries = {} /\ j.order = <<>> /\ j.head = NoEntry
  BY DEF EmptyJournal
<1>2. j \in JournalType
  <2>1. <<>> \in Seq(EntryId) /\ <<>> \in Seq(Seq(EntryId))
    OBVIOUS
  <2> QED
    BY <2>1 DEF EmptyJournal, JournalType, NoSet
<1>3. Ids(j) = {}
  BY <1>1 DEF Ids
<1> HIDE DEF j
<1>4. Consistent(j) /\ HeadIsGreatest(j)
  BY <1>1, <1>3 DEF Consistent, LogMatchesMap, ParentsAreEarlier,
                    ClockCoversEntries, HeadIsHeld, HeadIsGreatest
<1> QED
  BY <1>1, <1>2, <1>3, <1>4 DEF j

----------------------------------------------------------------------------
(* What changing the local author gives. *)

LEMMA SetLocalAuthorFields ==
  ASSUME NEW j \in JournalType, Consistent(j), NEW a \in Authors
  PROVE  LET k == SetLocalAuthor(j, a)
         IN  /\ k \in JournalType /\ Consistent(k)
             /\ k.author = a /\ k.strategy = j.strategy
             /\ k.entries = j.entries /\ Ids(k) = Ids(j) /\ k.clock = j.clock
             /\ k.order = j.order
<1> DEFINE k == SetLocalAuthor(j, a)
<1>1. /\ k \in JournalType
      /\ k.author = a /\ k.strategy = j.strategy
      /\ k.entries = j.entries /\ k.order = j.order
      /\ k.clock = j.clock /\ k.head = j.head
  BY DEF SetLocalAuthor, JournalType
<1> HIDE DEF k
<1> QED
  BY <1>1, SameJournalContents DEF k

\* What becomes of an id.
LEMMA ReboundId ==
  ASSUME NEW j \in JournalType, NEW a \in Authors, NEW i \in EntryId
  PROVE  /\ Rebound(j, a, i) \in EntryId
         /\ Rebound(j, a, i).lamport = i.lamport
         /\ i \in Ids(j) /\ i.author = j.author =>
              Rebound(j, a, i) = [author |-> a, lamport |-> i.lamport]
         /\ ~(i \in Ids(j) /\ i.author = j.author) => Rebound(j, a, i) = i
  BY DEF Rebound, EntryId

\* The new names are as many as the old ones.
LEMMA ReboundInjective ==
  ASSUME NEW j \in JournalType, NEW a \in Authors, a # j.author, CanRebind(j, a),
         NEW h \in Ids(j), NEW i \in Ids(j), Rebound(j, a, h) = Rebound(j, a, i)
  PROVE  h = i
<1>1. h \in EntryId /\ i \in EntryId
  BY DEF JournalType, Ids, Entry
<1>2. CASE h.author = j.author /\ i.author = j.author
  <2>1. h.lamport = i.lamport
    BY <1>1, ReboundId
  <2> QED
    BY <1>1, <1>2, <2>1 DEF EntryId
<1>3. CASE h.author = j.author /\ i.author # j.author
  BY <1>1, <1>3, ReboundId DEF CanRebind
<1>4. CASE h.author # j.author /\ i.author = j.author
  BY <1>1, <1>4, ReboundId DEF CanRebind
<1>5. CASE h.author # j.author /\ i.author # j.author
  BY <1>1, <1>5, ReboundId
<1> QED
  BY <1>2, <1>3, <1>4, <1>5

\* An entry as rebind_local_author renames it.
Moved(j, a, e) ==
  [e EXCEPT !.id = Rebound(j, a, @), !.parents = {Rebound(j, a, i) : i \in @}]

LEMMA MovedFields ==
  ASSUME NEW j \in JournalType, NEW a \in Authors, NEW e \in Entry
  PROVE  LET f == Moved(j, a, e)
         IN  /\ f \in Entry
             /\ f.id = Rebound(j, a, e.id) /\ f.op = e.op /\ f.changeSet = e.changeSet
             /\ f.parents = {Rebound(j, a, i) : i \in e.parents}
<1> DEFINE ps == {Rebound(j, a, i) : i \in e.parents}
           d  == Rebound(j, a, e.id)
<1>1. d \in EntryId
  BY ReboundId DEF Entry
<1>2. ps \in SUBSET EntryId
  <2>1. \A i \in e.parents : Rebound(j, a, i) \in EntryId
    BY ReboundId DEF Entry
  <2> QED
    BY <2>1
<1>3. Moved(j, a, e) = [e EXCEPT !.id = d, !.parents = ps]
  BY DEF Moved, Entry
<1> HIDE DEF ps, d
<1>4. /\ Moved(j, a, e) \in Entry
      /\ Moved(j, a, e).id = d /\ Moved(j, a, e).op = e.op
      /\ Moved(j, a, e).changeSet = e.changeSet
      /\ Moved(j, a, e).parents = ps
  BY <1>1, <1>2, <1>3 DEF Entry
<1> QED
  BY <1>4 DEF ps, d

\* A journal whose new names are free moves to its new author: every entry is
\* there under its new name, and the journal is as well-formed as before.
LEMMA RebindFields ==
  ASSUME NEW j \in JournalType, Consistent(j),
         NEW a \in Authors, a # j.author, CanRebind(j, a)
  PROVE  LET k == RebindLocalAuthor(j, a)
         IN  /\ k \in JournalType
             /\ k.author = a /\ k.strategy = j.strategy /\ k.clock = j.clock
             /\ k.entries = {Moved(j, a, e) : e \in j.entries}
             /\ Ids(k) = {Rebound(j, a, i) : i \in Ids(j)}
             /\ Consistent(k)
<1> DEFINE k     == RebindLocalAuthor(j, a)
           new(i) == Rebound(j, a, i)
           log   == [n \in DOMAIN j.order |-> new(j.order[n])]
           lists == [n \in DOMAIN j.sets |-> [m \in DOMAIN j.sets[n] |-> new(j.sets[n][m])]]
           map   == {Moved(j, a, e) : e \in j.entries}
<1>1. k = [j EXCEPT !.author = a, !.entries = map, !.order = log,
                    !.head = new(j.head), !.sets = lists]
  BY DEF RebindLocalAuthor, Moved, JournalType
<1>2. \A i \in EntryId : new(i) \in EntryId
  BY ReboundId
<1>3. j.order \in Seq(EntryId) /\ j.sets \in Seq(Seq(EntryId)) /\ j.entries \subseteq Entry
  BY DEF JournalType
<1>4. log \in Seq(EntryId) /\ DOMAIN log = DOMAIN j.order /\ DOMAIN j.order = 1..Len(j.order)
  <2>1. DOMAIN j.order = 1..Len(j.order) /\ Len(j.order) \in Nat
    BY <1>3
  <2>2. log \in [1..Len(j.order) -> EntryId]
    BY <1>2, <1>3, <2>1
  <2> QED
    BY <2>1, <2>2, SeqDef
<1>5. lists \in Seq(Seq(EntryId))
  <2>1. DOMAIN j.sets = 1..Len(j.sets) /\ Len(j.sets) \in Nat
    BY <1>3
  <2>2. ASSUME NEW n \in 1..Len(j.sets)
        PROVE  [m \in DOMAIN j.sets[n] |-> new(j.sets[n][m])] \in Seq(EntryId)
    <3> DEFINE s == j.sets[n]
    <3>1. s \in Seq(EntryId)
      BY <1>3, <2>1
    <3> HIDE DEF s
    <3>2. DOMAIN s = 1..Len(s) /\ Len(s) \in Nat
      BY <3>1
    <3>3. [m \in DOMAIN s |-> new(s[m])] \in [1..Len(s) -> EntryId]
      BY <1>2, <3>1, <3>2
    <3>4. [m \in DOMAIN s |-> new(s[m])] \in Seq(EntryId)
      BY <3>2, <3>3, SeqDef
    <3> QED
      BY <3>4 DEF s
  <2>3. lists \in [1..Len(j.sets) -> Seq(EntryId)]
    BY <2>1, <2>2
  <2> QED
    BY <2>1, <2>3, SeqDef
<1>6. map \in SUBSET Entry /\ \A e \in j.entries : Moved(j, a, e).id = new(e.id)
  BY <1>3, MovedFields
<1>7. new(j.head) \in EntryId \cup {NoEntry} /\ (j.head = NoEntry => new(j.head) = NoEntry)
  <2>1. j.head \in EntryId => new(j.head) \in EntryId
    BY <1>2
  <2>2. NoEntry \notin Ids(j)
    BY <1>3, NoEntryIsNoId DEF Ids, Entry
  <2>3. new(NoEntry) = NoEntry
    BY <2>2 DEF Rebound
  <2>4. j.head \in EntryId \cup {NoEntry}
    BY DEF JournalType
  <2> QED
    BY <2>1, <2>3, <2>4
<1> HIDE DEF k, log, lists, map, new
<1>8. /\ k \in JournalType
      /\ k.author = a /\ k.strategy = j.strategy /\ k.clock = j.clock
      /\ k.entries = map /\ k.order = log /\ k.head = new(j.head)
  BY <1>1, <1>4, <1>5, <1>6, <1>7 DEF JournalType
<1>9. Ids(k) = {new(i) : i \in Ids(j)}
  BY <1>6, <1>8 DEF Ids, map
<1>10. \A h, i \in Ids(j) : new(h) = new(i) => h = i
  BY ReboundInjective DEF new
<1>11. \A i \in Ids(j) : new(i).lamport = i.lamport
  BY <1>3, ReboundId DEF Ids, Entry, new
<1>12. LogMatchesMap(k)
  <2>1. ASSUME NEW e \in j.entries, NEW f \in j.entries, new(e.id) = new(f.id)
        PROVE  e = f
    BY <1>10, <2>1 DEF Ids, Consistent, LogMatchesMap
  <2>2. \A e, f \in k.entries : e.id = f.id => e = f
    BY <1>6, <1>8, <2>1 DEF map
  <2>3. \A n \in DOMAIN j.order : j.order[n] \in Ids(j) /\ log[n] = new(j.order[n])
    BY DEF Consistent, LogMatchesMap, log
  <2>4. {log[n] : n \in DOMAIN log} = {new(i) : i \in Ids(j)}
    BY <1>4, <2>3 DEF Consistent, LogMatchesMap
  <2>5. \A m, n \in DOMAIN log : log[m] = log[n] => m = n
    BY <1>4, <1>10, <2>3 DEF Consistent, LogMatchesMap
  <2> QED
    BY <1>8, <1>9, <2>2, <2>4, <2>5 DEF LogMatchesMap
<1>13. ParentsAreEarlier(k)
  <2>1. SUFFICES ASSUME NEW e \in j.entries, NEW p \in Moved(j, a, e).parents
                 PROVE  p.lamport < Moved(j, a, e).id.lamport
    BY <1>8 DEF ParentsAreEarlier, map
  <2>2. PICK i \in e.parents : p = Rebound(j, a, i)
    BY <1>3, <2>1, MovedFields
  <2>3. i \in EntryId /\ e.id \in EntryId
    BY <1>3, <2>2 DEF Entry
  <2>4. p.lamport = i.lamport /\ Moved(j, a, e).id.lamport = e.id.lamport
    BY <1>6, <2>2, <2>3, ReboundId DEF new
  <2> QED
    BY <2>2, <2>4 DEF Consistent, ParentsAreEarlier
<1>14. ClockCoversEntries(k)
  BY <1>8, <1>9, <1>11 DEF Consistent, ClockCoversEntries
<1>15. HeadIsHeld(k)
  BY <1>7, <1>8, <1>9 DEF Consistent, HeadIsHeld
<1> QED
  BY <1>8, <1>9, <1>12, <1>13, <1>14, <1>15 DEF k, map, new, Consistent

----------------------------------------------------------------------------
(* The head as the end of the merged order. *)

HeadIsLast(j) == Ids(j) # {} => MergedHeads(j) = {j.head}

\* The journal holds what its entries build on.
HoldsParents(j) == \A e \in j.entries : e.parents \subseteq Ids(j)

\* Under the built-in policy the greatest key is the last entry.
LEMMA GreatestIsLast ==
  ASSUME NEW j \in JournalType, Consistent(j), j.strategy = "default", HeadIsGreatest(j)
  PROVE  HeadIsLast(j)
<1> SUFFICES ASSUME Ids(j) # {}
             PROVE  MergedHeads(j) = {j.head}
  BY DEF HeadIsLast
<1>1. LogMatchesMap(j) /\ ParentsAreEarlier(j) /\ j.head \in Ids(j) /\ Ids(j) \subseteq EntryId
  BY DEF Consistent, HeadIsHeld, Ids, JournalType, Entry
<1>2. PICK h : MergedHeads(j) = {h}
  BY <1>1, MergedHeadUnique
<1>3. Len(j.order) > 0
  <2>1. IsFiniteSet(Ids(j)) /\ Cardinality(Ids(j)) = Len(j.order) /\ Len(j.order) \in Nat
    BY <1>1, LogCountsIds
  <2>2. Len(j.order) # 0
    BY <2>1, FS_EmptySet
  <2> QED
    BY <2>1, <2>2
<1>4. h \in Ids(j) /\ \A i \in Ids(j) \ {h} : KeyLess(i, h)
  BY <1>1, <1>2, <1>3, MergedTipIsGreatest
<1>5. h = j.head
  <2>1. SUFFICES ASSUME h # j.head
                 PROVE  FALSE
    OBVIOUS
  <2>2. KeyLess(h, j.head) /\ KeyLess(j.head, h)
    BY <1>1, <1>4, <2>1 DEF HeadIsGreatest
  <2> QED
    BY <1>1, <1>4, <2>2, KeyLessOrder
<1> QED
  BY <1>2, <1>5

\* The merged order looks at the map, the log's length and the policy.
LEMMA SameMergedHeads ==
  ASSUME NEW j, NEW k, k.entries = j.entries, k.order = j.order, k.strategy = j.strategy
  PROVE  MergedHeads(k) = MergedHeads(j) /\ Ids(k) = Ids(j)
<1>1. Ids(k) = Ids(j) /\ \A P : Ready(k, P) = Ready(j, P)
  BY DEF Ids, Ready
<1>2. \A s : IsMergedOrder(k, s) = IsMergedOrder(j, s)
  BY <1>1 DEF IsMergedOrder
<1>3. MergedOrders(k) = MergedOrders(j)
  BY <1>1, <1>2 DEF MergedOrders
<1> QED
  BY <1>1, <1>3 DEF MergedHeads

\* Under any policy a new entry that builds on the head, and that nothing held
\* builds on, is the last.
LEMMA ExtensionIsLast ==
  ASSUME NEW j \in JournalType, Consistent(j), HeadIsLast(j),
         NEW e \in Entry, e.id \notin Ids(j),
         \A f \in j.entries : e.id \notin f.parents,
         j.head # NoEntry => j.head \in e.parents,
         NEW k \in JournalType, Consistent(k), k.entries = j.entries \cup {e},
         k.order = Append(j.order, e.id), k.strategy = j.strategy, k.head = e.id
  PROVE  HeadIsLast(k)
<1>1. /\ Ids(k) = Ids(j) \cup {e.id} /\ Ids(j) \subseteq EntryId
      /\ LogMatchesMap(j) /\ LogMatchesMap(k) /\ ParentsAreEarlier(k)
  BY DEF Ids, JournalType, Entry, Consistent
<1>2. CASE Ids(j) = {}
  <2>1. Ids(k) = {e.id}
    BY <1>1, <1>2
  <2>2. MergedHeads(k) = {e.id}
    BY <1>1, <2>1, SingleIsMerged
  <2> QED
    BY <2>2 DEF HeadIsLast
<1>3. CASE Ids(j) # {}
  <2>1. j.head \in Ids(j) /\ j.head \in e.parents /\ j.head \in MergedHeads(j)
    BY <1>1, <1>3, NoEntryIsNoId DEF Consistent, HeadIsHeld, HeadIsLast
  <2>2. e.id \notin e.parents
    <3>1. e \in k.entries /\ e.id.lamport \in Nat
      BY DEF Entry, EntryId
    <3> QED
      BY <1>1, <3>1 DEF ParentsAreEarlier
  <2>3. e.id \in MergedHeads(k)
    BY <1>1, <2>1, <2>2, ExtensionComesLast
  <2>4. PICK h : MergedHeads(k) = {h}
    BY <1>1, MergedHeadUnique
  <2>5. MergedHeads(k) = {k.head}
    BY <2>3, <2>4
  <2> QED
    BY <2>5 DEF HeadIsLast
<1> QED
  BY <1>2, <1>3

\* A local edit builds on the head and nothing builds on it.
LEMMA LocalIsLast ==
  ASSUME NEW j \in JournalType, Consistent(j), HeadIsLast(j), NEW op \in Ops
  PROVE  HeadIsLast(AppendLocal(j, op))
<1> DEFINE e == LocalEntry(j, op)
           k == AppendLocal(j, op)
<1>1. /\ e \in Entry /\ e.id \notin Ids(j) /\ e.id.lamport = j.clock + 1
      /\ e.parents = {j.head} \ {NoEntry}
      /\ k \in JournalType /\ Consistent(k)
      /\ k.entries = j.entries \cup {e} /\ k.order = Append(j.order, e.id)
      /\ k.strategy = j.strategy /\ k.head = e.id
  BY LocalEntryFields, AppendLocalFields, AppendLocalConsistent
<1>2. ASSUME NEW f \in j.entries
      PROVE  e.id \notin f.parents
  <2>1. /\ f.id.lamport <= j.clock /\ f.id.lamport \in Nat /\ j.clock \in Nat
    BY DEF Consistent, ClockCoversEntries, Ids, JournalType, Entry, EntryId
  <2>2. \A i \in f.parents : i.lamport < f.id.lamport /\ i.lamport \in Nat
    BY DEF Consistent, ParentsAreEarlier, JournalType, Entry, EntryId
  <2> QED
    BY <1>1, <2>1, <2>2
<1> HIDE DEF e, k
<1> QED
  BY <1>1, <1>2, ExtensionIsLast DEF k

\* When entries come after their parents, so does a remote one that extends
\* `main`; otherwise the merged order is computed anew.
LEMMA RemoteIsLast ==
  ASSUME NEW j \in JournalType, Consistent(j), HeadIsLast(j), HoldsParents(j),
         NEW e \in Entry, e.id \notin Ids(j),
         \A p \in e.parents : p.lamport < e.id.lamport, e.parents \subseteq Ids(j),
         NEW k \in AppendRemote(j, e)
  PROVE  HeadIsLast(k) /\ HoldsParents(k)
<1> DEFINE i == InsertEntry(j, e)
           c == Observed(j.clock, e.id.lamport)
<1>1. /\ k \in JournalType /\ Consistent(k)
      /\ k.entries = j.entries \cup {e} /\ Ids(k) = Ids(j) \cup {e.id}
      /\ k.strategy = j.strategy
  BY AppendRemoteFields
<1>2. /\ i \in JournalType /\ i.entries = j.entries \cup {e}
      /\ i.order = Append(j.order, e.id) /\ i.strategy = j.strategy
  BY InsertEntryFields
<1>3. PICK h \in IF ExtendsMain(j, e) THEN {e.id} ELSE MergedHeads(i) :
        k = Advance(i, c, h)
  BY DEF AppendRemote, Known
<1> HIDE DEF i, c
<1>4. k.head = h /\ k.order = i.order
  BY <1>2, <1>3 DEF Advance, JournalType
<1>5. HoldsParents(k)
  BY <1>1 DEF HoldsParents
<1>6. CASE ExtendsMain(j, e)
  <2>1. k.head = e.id /\ (j.head # NoEntry => j.head \in e.parents)
    BY <1>3, <1>4, <1>6 DEF ExtendsMain
  <2>2. \A f \in j.entries : e.id \notin f.parents
    BY DEF HoldsParents
  <2>3. HeadIsLast(k)
    BY <1>1, <1>2, <1>4, <2>1, <2>2, ExtensionIsLast
  <2> QED
    BY <1>5, <2>3
<1>7. CASE ~ExtendsMain(j, e)
  <2>1. h \in MergedHeads(i)
    BY <1>3, <1>7
  <2>2. MergedHeads(k) = MergedHeads(i)
    BY <1>1, <1>2, <1>4, SameMergedHeads
  <2>3. HeadIsLast(k)
    BY <1>1, <1>4, <2>1, <2>2, MergedHeadUnique DEF Consistent, HeadIsLast
  <2> QED
    BY <1>5, <2>3
<1> QED
  BY <1>6, <1>7
=============================================================================
