---------------------- MODULE JournalPersistenceProofs ----------------------
(***************************************************************************)
(* JournalPersistence, for any Twins, any number of edits and any faults:   *)
(* what is live and what is stored are well-formed journals, each of edits  *)
(* recorded while its Twin was bound; and with at most one fault no stored  *)
(* history is lost, and the timer takes no journal for saved that is not.   *)
(***************************************************************************)
EXTENDS JournalPersistence, JournalProofs

----------------------------------------------------------------------------
(* The inductive invariant. *)

\* An edit was recorded while the Twin t was bound, by an earlier session or this.
MadeUnder(e, t) == e.op \in Twins \cup 1..Len(boundAt) /\ BoundWhen(e.op) = t

Sound(j, t) == Consistent(j) /\ \A e \in j.entries : MadeUnder(e, t)

\* A journal that is not persisted holds nothing of an earlier session.
Fresh == bound \notin persisting => \A e \in journal.entries : e.op \notin Twins

IInv ==
  /\ TypeOK
  /\ Sound(journal, bound)
  /\ \A t \in Twins : \A f \in {disk[t], bad[t]} : f # NoFile => Sound(f.journal, t)
  /\ Fresh

----------------------------------------------------------------------------
(* Journals *)

LEMMA PlaceholderAuthors == Local \in Authors /\ Install \in Authors
  BY PersistenceAssumption

\* A stored journal comes back with its entries; so does one whose author or
\* merge strategy is set.
LEMMA ContentsKept ==
  ASSUME NEW j \in JournalType, NEW s \in Strategies,
         NEW k \in {Restored(j), SetLocalAuthor(j, Install), [j EXCEPT !.strategy = s]}
  PROVE  /\ k \in JournalType
         /\ k.entries = j.entries
         /\ Consistent(j) => Consistent(k)
<1>1. /\ k \in JournalType
      /\ k.entries = j.entries /\ k.order = j.order
      /\ k.clock = j.clock /\ k.head = j.head
  <2>1. CASE k = Restored(j)
    BY <2>1 DEF Restored, Reloaded, JournalType, NoSet, Strategies
  <2>2. CASE k = SetLocalAuthor(j, Install)
    BY <2>2, PlaceholderAuthors DEF SetLocalAuthor, JournalType
  <2>3. CASE k = [j EXCEPT !.strategy = s]
    BY <2>3 DEF JournalType
  <2> QED
    BY <2>1, <2>2, <2>3
<1> QED
  BY <1>1, SameJournalContents

LEMMA EmptyIsSound ==
  LET j == EmptyJournal(Local, "default")
  IN  j \in JournalType /\ j.entries = {} /\ Consistent(j)
  BY PlaceholderAuthors, EmptyJournalConsistent DEF Strategies

\* What a Twin's folder gives is its file's journal, or an empty one.
LEMMA LoadedIsSound ==
  ASSUME NEW t \in Twins,
         NEW file, file \in File \cup {NoFile},
         NEW files, files[t] = file,
         file # NoFile => Sound(file.journal, t)
  PROVE  LET j == Loaded(t, files)
         IN  /\ j \in JournalType
             /\ Sound(j, t)
             /\ t \notin persisting => j.entries = {}
             /\ t \in persisting /\ ~Garbled(file) => j.entries = EntriesIn(file)
<1> DEFINE j == Loaded(t, files)
<1>1. CASE t \in persisting /\ file.readable
  <2>1. file # NoFile /\ file \in File
    BY <1>1 DEF NoFile
  <2>2. file.journal \in JournalType /\ Consistent(file.journal)
    BY <2>1 DEF File, Sound
  <2>3. j = Restored(file.journal)
    BY <1>1 DEF Loaded
  <2>4. /\ j \in JournalType /\ j.entries = file.journal.entries
        /\ Consistent(j)
    BY <2>2, <2>3, ContentsKept DEF Strategies
  <2> HIDE DEF j
  <2>5. Sound(j, t) /\ j.entries = EntriesIn(file)
    BY <2>1, <2>4 DEF Sound, EntriesIn
  <2> QED
    BY <1>1, <2>4, <2>5 DEF j
<1>2. CASE ~(t \in persisting /\ file.readable)
  <2>1. j = EmptyJournal(Local, "default")
    BY <1>2 DEF Loaded
  <2>2. j \in JournalType /\ j.entries = {} /\ Consistent(j)
    BY <2>1, EmptyIsSound
  <2> HIDE DEF j
  <2>3. t \in persisting /\ ~Garbled(file) => EntriesIn(file) = {}
    BY <1>2 DEF Garbled, EntriesIn
  <2> QED
    BY <2>2, <2>3 DEF Sound, j
<1> QED
  BY <1>1, <1>2

\* So is the journal a process starts with.
LEMMA StartupIsSound ==
  ASSUME persisting \subseteq Twins, disk \in [Twins -> File \cup {NoFile}],
         NEW t \in Twins \cup {NoTwin},
         \A u \in Twins : disk[u] # NoFile => Sound(disk[u].journal, u)
  PROVE  LET j == AtStartup(t, disk)
         IN  /\ j \in JournalType
             /\ Sound(j, t)
             /\ t \notin persisting => j.entries = {}
             /\ t \in persisting /\ ~Garbled(disk[t]) => j.entries = EntriesIn(disk[t])
<1>1. CASE t = NoTwin
  <2>1. NoTwin \notin persisting
    BY PersistenceAssumption
  <2>2. AtStartup(t, disk) = SetLocalAuthor(EmptyJournal(Local, "default"), Install)
    BY <1>1 DEF AtStartup
  <2> QED
    BY <1>1, <2>1, <2>2, EmptyIsSound, ContentsKept DEF Sound, Strategies
<1>2. CASE t # NoTwin
  <2> DEFINE l == Loaded(t, disk)
  <2>1. t \in Twins /\ disk[t] \in File \cup {NoFile}
    BY <1>2
  <2>2. /\ l \in JournalType
        /\ Sound(l, t)
        /\ t \notin persisting => l.entries = {}
        /\ t \in persisting /\ ~Garbled(disk[t]) => l.entries = EntriesIn(disk[t])
    BY <2>1, LoadedIsSound
  <2>3. AtStartup(t, disk) = SetLocalAuthor(l, Install)
    BY <1>2 DEF AtStartup
  <2> HIDE DEF l
  <2> QED
    BY <2>2, <2>3, ContentsKept DEF Sound, Strategies
<1> QED
  BY <1>1, <1>2

----------------------------------------------------------------------------
(* The invariant is kept. *)

LEMMA EarlierIsSound ==
  ASSUME NEW t \in Twins
  PROVE  LET j == Earlier(t)
         IN  j \in JournalType /\ Consistent(j) /\ \A e \in j.entries : e.op = t
<1> DEFINE empty == EmptyJournal(Install, "default")
<1>1. empty \in JournalType /\ empty.entries = {} /\ Consistent(empty)
  BY PlaceholderAuthors, EmptyJournalConsistent DEF Strategies
<1>2. t \in Ops
  BY PersistenceAssumption
<1> HIDE DEF empty
<1>3. /\ AppendLocal(empty, t) \in JournalType
      /\ AppendLocal(empty, t).entries = empty.entries \cup {LocalEntry(empty, t)}
      /\ Consistent(AppendLocal(empty, t))
  BY <1>1, <1>2, AppendLocalConsistent
<1>4. LocalEntry(empty, t).op = t
  BY DEF LocalEntry
<1> QED
  BY <1>1, <1>3, <1>4 DEF Earlier, empty

LEMMA InitIInv == Init => IInv
<1> SUFFICES ASSUME Init
             PROVE  IInv
  OBVIOUS
<1>1. ASSUME NEW t \in Twins, disk[t] # NoFile
      PROVE  /\ disk[t] \in File
             /\ Sound(disk[t].journal, t)
  <2>1. disk[t].journal = Earlier(t) /\ \E u \in Twins : disk[t] = [journal |-> Earlier(u), readable |-> TRUE]
    BY <1>1 DEF Init
  <2>2. disk[t] = [journal |-> Earlier(t), readable |-> TRUE]
    BY <2>1
  <2> QED
    BY <2>2, EarlierIsSound DEF File, Sound, MadeUnder, BoundWhen
<1>2. /\ disk \in [Twins -> File \cup {NoFile}]
      /\ bad \in [Twins -> File \cup {NoFile}]
      /\ \A t \in Twins : bad[t] = NoFile
  BY <1>1 DEF Init
<1>3. /\ bound \in Twins \cup {NoTwin} /\ open \subseteq Twins /\ scans \subseteq Twins
      /\ lastSavedLen \in Nat /\ persisting \subseteq Twins
      /\ boundAt \in Seq(Twins \cup {NoTwin}) /\ Len(boundAt) <= MaxEdits
      /\ faults \in 0..MaxFaults
  BY PersistenceAssumption DEF Init
<1> DEFINE j == AtStartup(bound, disk)
<1>4. /\ j \in JournalType
      /\ Sound(j, bound)
      /\ bound \notin persisting => j.entries = {}
  BY <1>1, <1>2, <1>3, StartupIsSound
<1>5. journal = j
  BY DEF Init
<1> HIDE DEF j
<1> QED
  BY <1>1, <1>2, <1>3, <1>4, <1>5 DEF IInv, TypeOK, Fresh

\* What is sound stays so while edits are only added to `boundAt`.
LEMMA SoundStays ==
  ASSUME TypeOK, NEW j, NEW t, Sound(j, t),
         \/ boundAt' = boundAt
         \/ Len(boundAt) < MaxEdits /\ boundAt' = Append(boundAt, bound)
  PROVE  Sound(j, t)'
<1>1. /\ 1..Len(boundAt) \subseteq 1..Len(boundAt')
      /\ \A n \in 1..Len(boundAt) : boundAt'[n] = boundAt[n]
  BY DEF TypeOK
<1>2. ASSUME NEW e \in j.entries
      PROVE  MadeUnder(e, t)'
  <2>1. MadeUnder(e, t)
    BY DEF Sound
  <2> QED
    BY <1>1, <2>1 DEF MadeUnder, BoundWhen
<1> QED
  BY <1>2 DEF Sound

\* The journal recorded into stays sound and gets an entry of the bound Twin.
LEMMA RecordIsSound ==
  ASSUME IInv, Record
  PROVE  /\ journal' \in JournalType
         /\ Sound(journal, bound)'
         /\ \E e : /\ journal'.entries = journal.entries \cup {e}
                   /\ e.op \notin Twins
<1>1. PICK op, e : op = Len(boundAt) + 1 /\ e = LocalEntry(journal, op)
  OBVIOUS
<1>2. /\ Len(boundAt) \in Nat /\ Len(boundAt) < MaxEdits
      /\ journal' = AppendLocal(journal, op) /\ bound' = bound
      /\ boundAt' = Append(boundAt, bound)
      /\ Len(boundAt') = op /\ boundAt'[op] = bound
  BY <1>1 DEF Record, IInv, TypeOK
<1>3. op \in 1..MaxEdits /\ op \in Ops /\ op \notin Twins /\ e.op = op
  BY <1>1, <1>2, PersistenceAssumption DEF LocalEntry
<1>4. /\ journal' \in JournalType
      /\ journal'.entries = journal.entries \cup {e}
      /\ Consistent(journal')
  BY <1>1, <1>2, <1>3, AppendLocalConsistent DEF IInv, TypeOK, Sound
<1>5. MadeUnder(e, bound)'
  BY <1>2, <1>3 DEF MadeUnder, BoundWhen
<1>6. \A d \in journal.entries : MadeUnder(d, bound)'
  <2> TAKE d \in journal.entries
  <2>1. MadeUnder(d, bound)
    BY DEF IInv, Sound
  <2> QED
    BY <1>2, <2>1 DEF MadeUnder, BoundWhen, IInv, TypeOK
<1>7. Sound(journal, bound)'
  BY <1>4, <1>5, <1>6 DEF Sound, Consistent
<1> QED
  BY <1>3, <1>4, <1>7

\* The files stay sound: each keeps its journal, takes the live one if it is of
\* its own Twin, or is copied to the file set aside.
LEMMA FilesStaySound ==
  ASSUME IInv, TypeOK',
         \/ boundAt' = boundAt
         \/ Len(boundAt) < MaxEdits /\ boundAt' = Append(boundAt, bound),
         \A t \in Twins : \/ disk'[t] = disk[t]
                          \/ disk[t] # NoFile /\ disk'[t].journal = disk[t].journal
                          \/ t = bound /\ disk'[t].journal = journal,
         \A t \in Twins : bad'[t] \in {bad[t], disk[t]}
  PROVE  \A t \in Twins : \A f \in {disk[t], bad[t]}' : f # NoFile => Sound(f.journal, t)'
<1> SUFFICES ASSUME NEW t \in Twins, NEW f \in {disk'[t], bad'[t]}, f # NoFile
             PROVE  Sound(f.journal, t)'
  OBVIOUS
<1>1. PICK j : j = f.journal
  OBVIOUS
<1>2. Sound(j, t)
  <2>1. CASE \E g \in {disk[t], bad[t]} : g # NoFile /\ j = g.journal
    BY <2>1 DEF IInv
  <2>2. CASE t = bound /\ j = journal
    BY <2>2 DEF IInv
  <2> QED
    BY <1>1, <2>1, <2>2
<1>3. Sound(j, t)'
  BY <1>2, SoundStays DEF IInv
<1> QED
  BY <1>1, <1>3

\* A file written by a save is the live journal's.
LEMMA StoredType ==
  ASSUME TypeOK, NEW t \in Twins
  PROVE  /\ Stored(t) \in [Twins -> File \cup {NoFile}]
         /\ Stored(t)[t] = [journal |-> journal, readable |-> TRUE]
         /\ Stored(t)[t] # NoFile
         /\ \A u \in Twins \ {t} : Stored(t)[u] = disk[u]
<1>1. [journal |-> journal, readable |-> TRUE] \in File
  BY DEF TypeOK, File
<1>2. [journal |-> journal, readable |-> TRUE] # NoFile
  BY DEF NoFile
<1> QED
  BY <1>1, <1>2 DEF TypeOK, Stored

LEMMA RecordIInv ==
  ASSUME IInv, Record
  PROVE  IInv'
<1>1. /\ journal' \in JournalType /\ Sound(journal, bound)'
      /\ \E e : journal'.entries = journal.entries \cup {e} /\ e.op \notin Twins
  BY RecordIsSound
<1>2. /\ UNCHANGED <<persisting, open, scans, bound, lastSavedLen, disk, bad, faults>>
      /\ Len(boundAt) < MaxEdits /\ boundAt' = Append(boundAt, bound)
  BY DEF Record
<1>3. TypeOK'
  BY <1>1, <1>2, PersistenceAssumption DEF IInv, TypeOK
<1>4. \A t \in Twins : \A f \in {disk[t], bad[t]}' : f # NoFile => Sound(f.journal, t)'
  BY <1>2, <1>3, FilesStaySound
<1>5. Fresh'
  BY <1>1, <1>2 DEF IInv, Fresh
<1> QED
  BY <1>1, <1>3, <1>4, <1>5 DEF IInv

\* A step that records nothing and leaves the live journal as it is.
LEMMA FileStepIInv ==
  ASSUME IInv, TypeOK', UNCHANGED <<persisting, bound, journal, boundAt>>,
         \A t \in Twins : \/ disk'[t] = disk[t]
                          \/ disk[t] # NoFile /\ disk'[t].journal = disk[t].journal
                          \/ t = bound /\ disk'[t].journal = journal,
         \A t \in Twins : bad'[t] \in {bad[t], disk[t]}
  PROVE  IInv'
<1>1. \A t \in Twins : \A f \in {disk[t], bad[t]}' : f # NoFile => Sound(f.journal, t)'
  BY FilesStaySound
<1>2. Sound(journal, bound)' /\ Fresh'
  BY DEF IInv, Sound, MadeUnder, BoundWhen, Fresh
<1> QED
  BY <1>1, <1>2 DEF IInv

LEMMA OpenIInv ==
  ASSUME IInv, NEW t \in Twins, OpenTwin(t) \/ AddTwin(t) \/ FailScan(t)
  PROVE  IInv'
<1>1. /\ UNCHANGED <<persisting, bound, journal, boundAt, disk, bad>>
      /\ TypeOK'
  BY DEF OpenTwin, AddTwin, FailScan, IInv, TypeOK
<1> QED
  BY <1>1, FileStepIInv

LEMMA SaveIInv ==
  ASSUME IInv, SaveDocument \/ PeriodicSave
  PROVE  IInv'
<1>1. /\ bound \in Twins /\ disk' = Stored(bound)
      /\ UNCHANGED <<persisting, open, scans, bound, journal, bad, boundAt, faults>>
      /\ lastSavedLen' \in {lastSavedLen, Len(journal.order)}
  BY DEF SaveDocument, PeriodicSave, Routed, IInv, TypeOK
<1>2. /\ disk' \in [Twins -> File \cup {NoFile}]
      /\ disk'[bound].journal = journal
      /\ \A u \in Twins \ {bound} : disk'[u] = disk[u]
  BY <1>1, StoredType DEF IInv
<1>3. Len(journal.order) \in Nat
  BY DEF IInv, TypeOK, JournalType
<1>4. TypeOK'
  BY <1>1, <1>2, <1>3 DEF IInv, TypeOK
<1> QED
  BY <1>1, <1>2, <1>4, FileStepIInv

LEMMA GarbleIInv ==
  ASSUME IInv, NEW t \in Twins, Garble(t)
  PROVE  IInv'
<1>1. /\ disk' = [disk EXCEPT ![t] = [@ EXCEPT !.readable = FALSE]]
      /\ disk[t] # NoFile /\ faults < MaxFaults /\ faults' = faults + 1
      /\ UNCHANGED <<persisting, open, scans, bound, journal, lastSavedLen, bad, boundAt>>
  BY DEF Garble, NoFile
<1>2. disk[t] \in File
  BY <1>1 DEF IInv, TypeOK
<1> DEFINE g == [disk[t] EXCEPT !.readable = FALSE]
<1>3. g \in File /\ g.journal = disk[t].journal
  BY <1>2 DEF File
<1> HIDE DEF g
<1>4. /\ disk' \in [Twins -> File \cup {NoFile}]
      /\ disk'[t] = g /\ \A u \in Twins \ {t} : disk'[u] = disk[u]
  BY <1>1, <1>3 DEF IInv, TypeOK, g
<1>5. TypeOK'
  BY <1>1, <1>4, PersistenceAssumption DEF IInv, TypeOK
<1> QED
  BY <1>1, <1>3, <1>4, <1>5, FileStepIInv

LEMMA PolicyIInv ==
  ASSUME IInv, NEW s \in Policies, ProjectPolicy(s)
  PROVE  IInv'
<1>1. /\ journal' = [journal EXCEPT !.strategy = s] /\ s \in Strategies
      /\ UNCHANGED <<persisting, open, scans, bound, lastSavedLen, disk, bad, boundAt, faults>>
  BY PersistenceAssumption DEF ProjectPolicy
<1>2. /\ journal' \in JournalType /\ journal'.entries = journal.entries
      /\ Consistent(journal')
  BY <1>1, ContentsKept DEF IInv, TypeOK, Sound
<1>3. TypeOK' /\ Sound(journal, bound)' /\ Fresh'
  BY <1>1, <1>2 DEF IInv, TypeOK, Sound, Consistent, MadeUnder, BoundWhen, Fresh
<1>4. \A t \in Twins : \A f \in {disk[t], bad[t]}' : f # NoFile => Sound(f.journal, t)'
  BY <1>1, <1>3, FilesStaySound
<1> QED
  BY <1>3, <1>4 DEF IInv

\* What a bound Twin's journal starts with: its files' own, and nothing of an
\* earlier session unless it persists.
LEMMA BoundIInv ==
  ASSUME IInv, TypeOK', NEW t \in Twins \cup {NoTwin}, bound' = t,
         UNCHANGED <<persisting, boundAt>>,
         Sound(journal', t), t \notin persisting => journal'.entries = {},
         \A u \in Twins : disk'[u] = disk[u] \/ (u = bound /\ disk'[u].journal = journal),
         \A u \in Twins : bad'[u] \in {bad[u], disk[u]}
  PROVE  IInv'
<1>1. \A u \in Twins : \A f \in {disk[u], bad[u]}' : f # NoFile => Sound(f.journal, u)'
  BY FilesStaySound
<1>2. Sound(journal, bound)' /\ Fresh'
  BY DEF IInv, Sound, MadeUnder, BoundWhen, Fresh
<1> QED
  BY <1>1, <1>2 DEF IInv

\* The files after a flush and after setting one aside.
LEMMA FlushedFiles ==
  ASSUME TypeOK, NEW t \in Twins
  PROVE  /\ Flushed(t) \in [Twins -> File \cup {NoFile}]
         /\ Flushed(t)[t] = disk[t]
         /\ \A u \in Twins : \/ Flushed(t)[u] = disk[u]
                             \/ u = bound /\ Flushed(t)[u].journal = journal
<1>1. CASE Outgoing(t)
  <2>1. bound \in Twins /\ bound # t
    BY <1>1 DEF Outgoing, Routed, TypeOK
  <2> QED
    BY <1>1, <2>1, StoredType DEF Flushed
<1>2. CASE ~Outgoing(t)
  BY <1>2 DEF Flushed, TypeOK
<1> QED
  BY <1>1, <1>2

LEMMA SetAsideFiles ==
  ASSUME TypeOK, NEW t \in Twins
  PROVE  /\ SetAside(t) \in [Twins -> File \cup {NoFile}]
         /\ \A u \in Twins : SetAside(t)[u] \in {bad[u], disk[u]}
         /\ SetAside(t)[t] = IF Unparsable(t) THEN disk[t] ELSE bad[t]
         /\ \A u \in Twins \ {t} : SetAside(t)[u] = bad[u]
<1>1. disk[t] \in File \cup {NoFile}
  BY DEF TypeOK
<1> QED
  BY <1>1 DEF SetAside, TypeOK

LEMMA FinishScanIInv ==
  ASSUME IInv, NEW t \in Twins, FinishScan(t)
  PROVE  IInv'
<1>1. /\ UNCHANGED <<persisting, lastSavedLen, boundAt>>
      /\ bound' = t /\ open' = open \cup {t} /\ scans' = scans \ {t}
      /\ disk' \in {disk, Flushed(t)} /\ bad' \in {bad, SetAside(t)}
      /\ faults' \in Nat /\ faults' <= MaxFaults
      /\ journal' = Loaded(t, disk')
  BY DEF FinishScan, Failures, IInv, TypeOK
<1>2. /\ disk' \in [Twins -> File \cup {NoFile}] /\ disk'[t] = disk[t]
      /\ \A u \in Twins : disk'[u] = disk[u] \/ (u = bound /\ disk'[u].journal = journal)
  BY <1>1, FlushedFiles DEF IInv, TypeOK
<1>3. /\ bad' \in [Twins -> File \cup {NoFile}]
      /\ \A u \in Twins : bad'[u] \in {bad[u], disk[u]}
  BY <1>1, SetAsideFiles DEF IInv, TypeOK
<1>4. PICK files : files = disk'
  OBVIOUS
<1>5. /\ disk[t] \in File \cup {NoFile}
      /\ disk[t] # NoFile => Sound(disk[t].journal, t)
  BY DEF IInv, TypeOK
<1>6. /\ journal' \in JournalType
      /\ Sound(journal', t)
      /\ t \notin persisting => journal'.entries = {}
  BY <1>1, <1>2, <1>4, <1>5, LoadedIsSound
<1>7. TypeOK'
  BY <1>1, <1>2, <1>3, <1>6, PersistenceAssumption DEF IInv, TypeOK
<1> QED
  BY <1>1, <1>2, <1>3, <1>6, <1>7, BoundIInv

LEMMA RestartIInv ==
  ASSUME IInv, NEW t \in Twins \cup {NoTwin}, Restart(t)
  PROVE  IInv'
<1>1. /\ UNCHANGED <<persisting, disk, boundAt>>
      /\ bound' = t /\ open' = {t} \ {NoTwin} /\ scans' = {} /\ lastSavedLen' = 0
      /\ faults' \in Nat /\ faults' <= MaxFaults
      /\ journal' = AtStartup(t, disk)
  BY DEF Restart, Failures, IInv, TypeOK
<1>2. \/ bad' = bad
      \/ t \in Twins /\ bad' = SetAside(t)
  BY DEF Restart
<1>3. /\ bad' \in [Twins -> File \cup {NoFile}]
      /\ \A u \in Twins : bad'[u] \in {bad[u], disk[u]}
  BY <1>2, SetAsideFiles DEF IInv, TypeOK
<1>4. /\ journal' \in JournalType
      /\ Sound(journal', t)
      /\ t \notin persisting => journal'.entries = {}
  BY <1>1, StartupIsSound DEF IInv, TypeOK
<1>5. TypeOK'
  BY <1>1, <1>3, <1>4, PersistenceAssumption DEF IInv, TypeOK
<1> QED
  BY <1>1, <1>3, <1>4, <1>5, BoundIInv

LEMMA NextIInv ==
  ASSUME IInv, [Next]_vars
  PROVE  IInv'
<1>1. CASE UNCHANGED vars
  BY <1>1 DEF vars, IInv, TypeOK, Sound, MadeUnder, BoundWhen, Fresh
<1>2. ASSUME NEW t \in Twins, OpenTwin(t) \/ AddTwin(t) \/ FailScan(t)
      PROVE  IInv'
  BY <1>2, OpenIInv
<1>3. ASSUME NEW t \in Twins, FinishScan(t)
      PROVE  IInv'
  BY <1>3, FinishScanIInv
<1>4. ASSUME NEW t \in Twins, Garble(t)
      PROVE  IInv'
  BY <1>4, GarbleIInv
<1>5. ASSUME NEW t \in Twins \cup {NoTwin}, Restart(t)
      PROVE  IInv'
  BY <1>5, RestartIInv
<1>6. ASSUME NEW s \in Policies, ProjectPolicy(s)
      PROVE  IInv'
  BY <1>6, PolicyIInv
<1>7. CASE Record
  BY <1>7, RecordIInv
<1>8. CASE SaveDocument \/ PeriodicSave
  BY <1>8, SaveIInv
<1> QED
  BY <1>1, <1>2, <1>3, <1>4, <1>5, <1>6, <1>7, <1>8 DEF Next

----------------------------------------------------------------------------
(* The theorems. *)

\* The invariant holds in every state of every behaviour.
THEOREM Invariant == Spec => []IInv
  BY InitIInv, NextIInv, PTL DEF Spec

\* The live journal, the files and what was set aside keep their types.
THEOREM TypeCorrect == Spec => []TypeOK
<1>1. IInv => TypeOK
  BY DEF IInv
<1> QED
  BY <1>1, Invariant, PTL

\* Each journal stays with the Twin that is bound while it is recorded into: live,
\* stored or set aside, it holds nothing recorded under another binding, however
\* Twins are opened, saved and closed and whatever fails
\* (persisting_root_for_journal_id, on_twin_added_load_journal).
THEOREM BindingsDoNotMix == Spec => []RecordedWhileBound
<1>1. IInv => RecordedWhileBound
  BY DEF IInv, Sound, MadeUnder, RecordedWhileBound, EntriesIn
<1> QED
  BY <1>1, Invariant, PTL

\* The live journal and every stored one are well formed, so the next edit after
\* a reload gets a new id (Journal::from_dto).
THEOREM StoredJournalsWellFormed == Spec => []StoredWellFormed
<1>1. IInv => StoredWellFormed
  BY DEF IInv, Sound, Consistent, StoredWellFormed
<1> QED
  BY <1>1, Invariant, PTL

\* A Twin that was open when another took its place has its entries on disk,
\* unless the write failed (on_twin_added_load_journal, step 1).
THEOREM OpenTwinFlushed == Spec => SwapKeepsOpen
<1> DEFINE Keeps == (faults' = faults /\ bound' # bound /\ Routed(bound))
                      => journal.entries \subseteq EntriesIn(disk'[bound])
<1>1. ASSUME IInv, Next
      PROVE  Keeps
  <2>1. SUFFICES ASSUME faults' = faults, bound' # bound, Routed(bound)
                 PROVE  journal.entries \subseteq EntriesIn(disk'[bound])
    OBVIOUS
  <2>2. PICK t \in Twins : FinishScan(t)
    <3>1. ASSUME NEW t \in Twins \cup {NoTwin}
          PROVE  ~Restart(t)
      BY <1>1, <2>1 DEF Restart, Failures, IInv, TypeOK
    <3> QED
      BY <1>1, <2>1, <3>1 DEF Next, OpenTwin, AddTwin, FailScan, Garble, ProjectPolicy,
                              Record, SaveDocument, PeriodicSave
  <2>3. bound' = t /\ disk' = Flushed(t)
    BY <1>1, <2>1, <2>2 DEF FinishScan, Failures, IInv, TypeOK
  <2>4. CASE journal.entries # {}
    <3>1. Outgoing(t) /\ bound \in Twins
      BY <1>1, <2>1, <2>3, <2>4 DEF Outgoing, Routed, IInv, TypeOK
    <3>2. disk' = Stored(bound)
      BY <2>3, <3>1 DEF Flushed
    <3>3. disk'[bound] # NoFile /\ disk'[bound].journal = journal
      BY <1>1, <3>1, <3>2, StoredType DEF IInv
    <3> QED
      BY <3>3 DEF EntriesIn
  <2>5. CASE journal.entries = {}
    BY <2>5
  <2> QED
    BY <2>4, <2>5
<1>2. ASSUME UNCHANGED vars
      PROVE  Keeps
  BY <1>2 DEF vars
<1> QED
  BY <1>1, <1>2, Invariant, PTL DEF Spec, SwapKeepsOpen

\* A Twin that has not opted in keeps the file it had and starts empty
\* (persisting_root, persisting_root_for_journal_id).
THEOREM SessionOnlyUntouched == Spec => SessionOnlyLeavesNoTrace
<1> DEFINE Untouched ==
      \A t \in Twins \ persisting :
        /\ EntriesIn(disk'[t]) = EntriesIn(disk[t]) /\ bad'[t] = bad[t]
        /\ bound' = t => \A e \in journal'.entries : e.op # t
<1>1. ASSUME IInv, [Next]_vars
      PROVE  Untouched
  <2>1. IInv'
    BY <1>1, NextIInv
  <2>2. persisting' = persisting
    BY <1>1 DEF Next, OpenTwin, AddTwin, FailScan, FinishScan, Garble, Restart, ProjectPolicy,
                Record, SaveDocument, PeriodicSave, vars
  <2> SUFFICES ASSUME NEW t \in Twins \ persisting
               PROVE  /\ EntriesIn(disk'[t]) = EntriesIn(disk[t]) /\ bad'[t] = bad[t]
                      /\ bound' = t => \A e \in journal'.entries : e.op # t
    OBVIOUS
  <2>3. bound' = t => \A e \in journal'.entries : e.op # t
    BY <2>1, <2>2 DEF IInv, Fresh
  <2>4. ~Unparsable(t) /\ ~Routed(t)
    BY DEF Unparsable, Routed
  <2>5. ASSUME Routed(bound)
        PROVE  Stored(bound)[t] = disk[t]
    <3>1. bound \in Twins /\ bound # t
      BY <1>1, <2>4, <2>5 DEF Routed, IInv, TypeOK
    <3> QED
      BY <1>1, <3>1, StoredType DEF IInv
  <2>6. ASSUME NEW u \in Twins
        PROVE  SetAside(u)[t] = bad[t] /\ Flushed(u)[t] = disk[t]
    <3>1. SetAside(u)[t] = bad[t]
      BY <1>1, <2>4, SetAsideFiles DEF IInv
    <3>2. Flushed(u)[t] = disk[t]
      BY <2>5 DEF Flushed, Outgoing
    <3> QED
      BY <3>1, <3>2
  <2>7. CASE \E u \in Twins : FinishScan(u)
    <3>1. PICK u \in Twins : disk' \in {disk, Flushed(u)} /\ bad' \in {bad, SetAside(u)}
      BY <2>7 DEF FinishScan
    <3> QED
      BY <2>3, <2>6, <3>1
  <2>8. CASE \E u \in Twins \cup {NoTwin} : Restart(u)
    <3>1. /\ disk' = disk
          /\ bad' = bad \/ \E u \in Twins : bad' = SetAside(u)
      BY <2>8 DEF Restart
    <3> QED
      BY <2>3, <2>6, <3>1
  <2>9. CASE \E u \in Twins : Garble(u)
    <3>1. PICK u \in Twins : Garble(u)
      BY <2>9
    <3>2. /\ bad' = bad /\ disk[u] # NoFile /\ disk[u] \in File
          /\ disk' = [disk EXCEPT ![u] = [@ EXCEPT !.readable = FALSE]]
      BY <1>1, <3>1 DEF Garble, NoFile, IInv, TypeOK
    <3>3. CASE u # t
      BY <1>1, <2>3, <3>2, <3>3 DEF IInv, TypeOK
    <3>4. CASE u = t
      <4>1. disk'[t] = [disk[t] EXCEPT !.readable = FALSE]
        BY <1>1, <3>2, <3>4 DEF IInv, TypeOK
      <4>2. disk'[t].journal = disk[t].journal /\ disk'[t] \in File
        BY <3>2, <3>4, <4>1 DEF File
      <4>3. disk'[t] # NoFile
        BY <4>2 DEF File, NoFile
      <4> QED
        BY <2>3, <3>2, <3>4, <4>2, <4>3 DEF EntriesIn
    <3> QED
      BY <3>3, <3>4
  <2>10. CASE SaveDocument \/ PeriodicSave
    BY <2>3, <2>5, <2>10 DEF SaveDocument, PeriodicSave
  <2>11. CASE disk' = disk /\ bad' = bad
    BY <2>3, <2>11
  <2> QED
    BY <1>1, <2>7, <2>8, <2>9, <2>10, <2>11
       DEF Next, OpenTwin, AddTwin, FailScan, ProjectPolicy, Record, vars
<1> QED
  BY <1>1, Invariant, PTL DEF Spec, SessionOnlyLeavesNoTrace

----------------------------------------------------------------------------
(* One fault loses nothing that was stored. *)

\* The live journal carries on from its file, or from the one set aside; a file
\* is garbled, or was set aside, only once a fault has come, and what is set
\* aside is what is still in the folder.
Carried ==
  bound \in persisting =>
    EntriesIn(disk[bound]) \subseteq journal.entries \cup EntriesIn(bad[bound])

GarbledOnce ==
  \A t \in Twins : /\ bad[t] # NoFile \/ Garbled(disk[t]) => faults > 0
                   /\ bad[t] # NoFile /\ Garbled(disk[t]) => bad[t] = disk[t]

Stock(t) == EntriesIn(disk[t]) \cup EntriesIn(bad[t])

LEMMA InitCarried ==
  ASSUME IInv, Init
  PROVE  Carried /\ GarbledOnce
<1>1. \A t \in Twins : bad[t] = NoFile /\ ~Garbled(disk[t])
  BY DEF Init, Garbled
<1>2. CASE bound \in persisting
  <2>1. bound \in Twins
    BY <1>2 DEF IInv, TypeOK
  <2>2. journal.entries = EntriesIn(disk[bound])
    BY <1>1, <1>2, <2>1, StartupIsSound DEF Init, IInv, TypeOK
  <2> QED
    BY <1>1, <2>2 DEF Carried, GarbledOnce
<1> QED
  BY <1>1, <1>2 DEF Carried, GarbledOnce

\* A save puts the live journal in the place of the file it carries on from.
LEMMA StoredKeeps ==
  ASSUME IInv, Carried, GarbledOnce, Routed(bound),
         disk' = Stored(bound), bad' = bad, faults' \in Nat, faults <= faults'
  PROVE  /\ \A t \in Twins : Stock(t) \subseteq Stock(t)'
         /\ GarbledOnce'
         /\ journal.entries = EntriesIn(disk'[bound])
<1>1. bound \in Twins /\ bound \in persisting
  BY DEF Routed, IInv, TypeOK
<1>2. /\ disk'[bound] = [journal |-> journal, readable |-> TRUE]
      /\ disk'[bound] # NoFile
      /\ \A u \in Twins \ {bound} : disk'[u] = disk[u]
  BY <1>1, StoredType DEF IInv
<1>3. EntriesIn(disk'[bound]) = journal.entries /\ ~Garbled(disk'[bound])
  BY <1>2 DEF EntriesIn, Garbled
<1>4. GarbledOnce'
  BY <1>2, <1>3 DEF GarbledOnce, Garbled, IInv, TypeOK
<1>5. \A t \in Twins : Stock(t) \subseteq Stock(t)'
  BY <1>1, <1>2, <1>3 DEF Carried, Stock, EntriesIn
<1> QED
  BY <1>3, <1>4, <1>5

\* Each kind of step keeps what is stored, if at most one fault comes.
LEMMA FinishScanKeeps ==
  ASSUME MaxFaults <= 1, IInv, Carried, GarbledOnce, NEW t \in Twins, FinishScan(t)
  PROVE  /\ \A u \in Twins : Stock(u) \subseteq Stock(u)'
         /\ Carried' /\ GarbledOnce'
<1>1. PICK f \in {0, 1}, g \in {0, 1} :
        /\ f \in Failures(Outgoing(t)) /\ g \in Failures(Unparsable(t))
        /\ faults' = faults + f + g /\ faults' <= MaxFaults
        /\ disk' = IF f = 1 THEN disk ELSE Flushed(t)
        /\ bad' = IF g = 1 THEN bad ELSE SetAside(t)
  BY DEF FinishScan, Failures
<1>2. faults \in Nat /\ faults' \in Nat /\ faults <= faults'
  BY <1>1 DEF IInv, TypeOK
<1>3. bound' = t /\ journal' = Loaded(t, disk') /\ persisting' = persisting
  BY DEF FinishScan
<1>4. bad' = SetAside(t)
  <2>1. CASE Unparsable(t)
    <3>1. faults > 0
      BY <2>1 DEF Unparsable, GarbledOnce
    <3>2. g = 0
      BY <1>1, <1>2, <3>1, PersistenceAssumption
    <3> QED
      BY <1>1, <3>2
  <2>2. CASE ~Unparsable(t)
    <3>1. g = 0
      BY <1>1, <2>2 DEF Failures
    <3> QED
      BY <1>1, <3>1
  <2> QED
    BY <2>1, <2>2
\* First the flush, with the files set aside as they were.
<1>5. /\ \A u \in Twins : EntriesIn(disk[u]) \subseteq EntriesIn(disk'[u]) \cup EntriesIn(bad[u])
      /\ \A u \in Twins : Garbled(disk'[u]) => disk'[u] = disk[u]
      /\ disk'[t] = disk[t]
  <2>1. CASE disk' = disk
    BY <2>1
  <2>2. CASE disk' # disk
    <3>1. Outgoing(t) /\ disk' = Stored(bound)
      BY <1>1, <2>2 DEF Flushed
    <3>2. bound \in Twins /\ bound \in persisting /\ bound # t
      BY <3>1 DEF Outgoing, Routed, IInv, TypeOK
    <3>3. /\ disk'[bound] = [journal |-> journal, readable |-> TRUE]
          /\ disk'[bound] # NoFile
          /\ \A u \in Twins \ {bound} : disk'[u] = disk[u]
      BY <3>1, <3>2, StoredType DEF IInv
    <3>4. EntriesIn(disk'[bound]) = journal.entries /\ ~Garbled(disk'[bound])
      BY <3>3 DEF EntriesIn, Garbled
    <3> QED
      BY <3>2, <3>3, <3>4 DEF Carried
  <2> QED
    BY <2>1, <2>2
<1>6. /\ bad'[t] = IF Unparsable(t) THEN disk[t] ELSE bad[t]
      /\ \A u \in Twins \ {t} : bad'[u] = bad[u]
  BY <1>4, SetAsideFiles DEF IInv
<1>7. \A u \in Twins : EntriesIn(bad[u]) \subseteq EntriesIn(bad'[u])
  <2>1. ASSUME Unparsable(t)
        PROVE  EntriesIn(bad[t]) \subseteq EntriesIn(disk[t])
    BY <2>1 DEF Unparsable, GarbledOnce, EntriesIn
  <2> QED
    BY <1>6, <2>1
<1>8. \A u \in Twins : Stock(u) \subseteq Stock(u)'
  <2> TAKE u \in Twins
  <2>1. /\ EntriesIn(disk[u]) \subseteq EntriesIn(disk'[u]) \cup EntriesIn(bad[u])
        /\ EntriesIn(bad[u]) \subseteq EntriesIn(bad'[u])
    BY <1>5, <1>7
  <2>2. Stock(u)' = EntriesIn(disk'[u]) \cup EntriesIn(bad'[u])
    BY DEF Stock, EntriesIn
  <2> QED
    BY <2>1, <2>2 DEF Stock
<1>9. GarbledOnce'
  <2> SUFFICES ASSUME NEW u \in Twins
               PROVE  /\ bad'[u] # NoFile \/ Garbled(disk'[u]) => faults' > 0
                      /\ bad'[u] # NoFile /\ Garbled(disk'[u]) => bad'[u] = disk'[u]
    BY DEF GarbledOnce, Garbled
  <2>1. CASE u # t
    BY <1>2, <1>5, <1>6, <2>1 DEF GarbledOnce
  <2>2. CASE u = t /\ Unparsable(t)
    BY <1>2, <1>5, <1>6, <2>2 DEF GarbledOnce, Unparsable
  <2>3. CASE u = t /\ ~Unparsable(t)
    BY <1>2, <1>5, <1>6, <2>3 DEF GarbledOnce
  <2> QED
    BY <2>1, <2>2, <2>3
<1>10. Carried'
  <2>1. SUFFICES ASSUME t \in persisting
                 PROVE  EntriesIn(disk'[t]) \subseteq journal'.entries \cup EntriesIn(bad'[t])
    BY <1>3 DEF Carried, EntriesIn
  <2>2. CASE Garbled(disk[t])
    BY <1>5, <1>6, <2>1, <2>2 DEF Unparsable
  <2>3. CASE ~Garbled(disk[t])
    <3>1. /\ disk[t] \in File \cup {NoFile}
          /\ disk[t] # NoFile => Sound(disk[t].journal, t)
      BY DEF IInv, TypeOK
    <3>2. PICK files : files = disk'
      OBVIOUS
    <3>3. journal'.entries = EntriesIn(disk[t])
      BY <1>3, <1>5, <2>1, <2>3, <3>1, <3>2, LoadedIsSound
    <3> QED
      BY <1>5, <3>3
  <2> QED
    BY <2>2, <2>3
<1> QED
  BY <1>8, <1>9, <1>10

LEMMA RestartKeeps ==
  ASSUME MaxFaults <= 1, IInv, Carried, GarbledOnce, NEW t \in Twins \cup {NoTwin}, Restart(t)
  PROVE  /\ \A u \in Twins : Stock(u) \subseteq Stock(u)'
         /\ Carried' /\ GarbledOnce'
<1>1. /\ faults = 0 /\ faults' \in Nat
      /\ bound' = t /\ journal' = AtStartup(t, disk)
      /\ disk' = disk /\ persisting' = persisting
  BY PersistenceAssumption DEF Restart, Failures, IInv, TypeOK
<1>2. \A u \in Twins : bad[u] = NoFile /\ ~Garbled(disk[u])
  BY <1>1 DEF GarbledOnce
<1>3. bad' = bad
  BY <1>2 DEF Restart, SetAside, Unparsable
<1>4. GarbledOnce' /\ \A u \in Twins : Stock(u) \subseteq Stock(u)'
  BY <1>1, <1>2, <1>3 DEF GarbledOnce, Garbled, Stock, EntriesIn
<1>5. Carried'
  <2>1. SUFFICES ASSUME t \in persisting
                 PROVE  EntriesIn(disk[t]) \subseteq journal'.entries
    BY <1>1 DEF Carried, EntriesIn
  <2>2. t \in Twins
    BY <2>1 DEF IInv, TypeOK
  <2>3. journal'.entries = EntriesIn(disk[t])
    BY <1>1, <1>2, <2>1, <2>2, StartupIsSound DEF IInv, TypeOK
  <2> QED
    BY <2>3
<1> QED
  BY <1>4, <1>5

\* A file that cannot be read any more still counts as what it held.
LEMMA GarbledEntries ==
  ASSUME IInv, NEW t \in Twins, Garble(t)
  PROVE  \A u \in Twins : EntriesIn(disk'[u]) = EntriesIn(disk[u])
<1>1. /\ disk' = [disk EXCEPT ![t] = [@ EXCEPT !.readable = FALSE]]
      /\ disk[t] # NoFile /\ disk[t] \in File
  BY DEF Garble, NoFile, IInv, TypeOK
<1>2. disk'[t] = [disk[t] EXCEPT !.readable = FALSE]
      /\ \A u \in Twins \ {t} : disk'[u] = disk[u]
  BY <1>1 DEF IInv, TypeOK
<1>3. disk'[t].journal = disk[t].journal /\ disk'[t] # NoFile
  <2>1. PICK f \in File : f = disk[t]
    BY <1>1
  <2>2. [f EXCEPT !.readable = FALSE].journal = f.journal /\ [f EXCEPT !.readable = FALSE] \in File
    BY DEF File
  <2>3. disk'[t].journal = disk[t].journal /\ disk'[t] \in File
    BY <1>2, <2>1, <2>2
  <2> QED
    BY <2>3 DEF File, NoFile
<1>4. \A u \in Twins : EntriesIn(disk'[u]) = EntriesIn(disk[u])
  BY <1>1, <1>2, <1>3 DEF EntriesIn
<1> QED
  BY <1>4

LEMMA GarbleKeeps ==
  ASSUME MaxFaults <= 1, IInv, Carried, GarbledOnce, NEW t \in Twins, Garble(t)
  PROVE  /\ \A u \in Twins : Stock(u) \subseteq Stock(u)'
         /\ Carried' /\ GarbledOnce'
<1>1. /\ faults = 0 /\ faults' = 1
      /\ disk' = [disk EXCEPT ![t] = [@ EXCEPT !.readable = FALSE]]
      /\ disk[t] # NoFile /\ disk[t] \in File
      /\ UNCHANGED <<persisting, bound, journal, bad>>
  BY PersistenceAssumption DEF Garble, NoFile, IInv, TypeOK
<1>4. \A u \in Twins : EntriesIn(disk'[u]) = EntriesIn(disk[u])
  BY GarbledEntries
<1>5. \A u \in Twins : bad'[u] = NoFile
  BY <1>1 DEF GarbledOnce
<1>6. GarbledOnce'
  BY <1>1, <1>5 DEF GarbledOnce
<1>7. \A u \in Twins : Stock(u)' = Stock(u)
  <2>1. \A u \in Twins : Stock(u)' = EntriesIn(disk'[u]) \cup EntriesIn(bad[u])
    BY <1>1 DEF Stock, EntriesIn
  <2> QED
    BY <1>4, <2>1 DEF Stock
<1>8. Carried'
  <2>1. SUFFICES ASSUME bound \in persisting
                 PROVE  EntriesIn(disk'[bound]) \subseteq journal.entries \cup EntriesIn(bad[bound])
    BY <1>1 DEF Carried, EntriesIn
  <2>2. bound \in Twins
    BY <2>1 DEF IInv, TypeOK
  <2> QED
    BY <1>4, <2>1, <2>2 DEF Carried
<1> QED
  BY <1>6, <1>7, <1>8

LEMMA NextKeeps ==
  ASSUME MaxFaults <= 1, IInv, Carried, GarbledOnce, [Next]_vars
  PROVE  /\ \A t \in Twins : Stock(t) \subseteq Stock(t)'
         /\ Carried' /\ GarbledOnce'
<1>1. CASE SaveDocument \/ PeriodicSave
  <2>1. /\ Routed(bound) /\ disk' = Stored(bound)
        /\ bad' = bad /\ faults' = faults /\ faults \in Nat
        /\ UNCHANGED <<persisting, bound, journal>>
    BY <1>1 DEF SaveDocument, PeriodicSave, IInv, TypeOK
  <2>2. /\ \A t \in Twins : Stock(t) \subseteq Stock(t)'
        /\ GarbledOnce'
        /\ journal.entries = EntriesIn(disk'[bound])
    BY <2>1, StoredKeeps
  <2>3. Carried'
    BY <2>1, <2>2 DEF Carried, EntriesIn
  <2> QED
    BY <2>2, <2>3
<1>2. CASE UNCHANGED <<disk, bad, faults, bound, persisting>> /\ journal.entries \subseteq journal'.entries
  BY <1>2 DEF Carried, GarbledOnce, Stock, EntriesIn, Garbled
<1>3. ASSUME NEW t \in Twins, OpenTwin(t) \/ AddTwin(t) \/ FailScan(t)
      PROVE  UNCHANGED <<disk, bad, faults, bound, persisting>> /\ journal.entries \subseteq journal'.entries
  BY <1>3 DEF OpenTwin, AddTwin, FailScan
<1>4. ASSUME NEW s \in Policies, ProjectPolicy(s)
      PROVE  UNCHANGED <<disk, bad, faults, bound, persisting>> /\ journal.entries \subseteq journal'.entries
  <2>1. s \in Strategies /\ journal' = [journal EXCEPT !.strategy = s]
    BY <1>4, PersistenceAssumption DEF ProjectPolicy
  <2>2. journal'.entries = journal.entries
    BY <1>4, <2>1, ContentsKept DEF IInv, TypeOK
  <2> QED
    BY <1>4, <2>2 DEF ProjectPolicy
<1>5. ASSUME Record
      PROVE  UNCHANGED <<disk, bad, faults, bound, persisting>> /\ journal.entries \subseteq journal'.entries
  BY <1>5, RecordIsSound DEF Record
<1>6. ASSUME UNCHANGED vars
      PROVE  UNCHANGED <<disk, bad, faults, bound, persisting>> /\ journal.entries \subseteq journal'.entries
  BY <1>6 DEF vars
<1> QED
  BY <1>1, <1>2, <1>3, <1>4, <1>5, <1>6, FinishScanKeeps, RestartKeeps, GarbleKeeps DEF Next

\* With at most one fault - a crash, a write that fails or a file that gets
\* garbled - what a folder once kept of its Twin's history it keeps: each save
\* writes what the live journal carried on from
\* (on_twin_added_load_journal, persist_journal_periodic).
THEOREM OneFaultLosesNothing ==
  ASSUME MaxFaults <= 1
  PROVE  Spec => HistoryIsKept
<1>1. IInv /\ Init => Carried /\ GarbledOnce
  BY InitCarried
<1>2. IInv /\ Carried /\ GarbledOnce /\ [Next]_vars => Carried' /\ GarbledOnce'
  BY NextKeeps
<1>3. IInv /\ Carried /\ GarbledOnce /\ [Next]_vars
        => \A t \in Twins : EntriesIn(disk[t]) \cup EntriesIn(bad[t])
                              \subseteq (EntriesIn(disk[t]) \cup EntriesIn(bad[t]))'
  BY NextKeeps DEF Stock
<1> QED
  BY <1>1, <1>2, <1>3, Invariant, PTL DEF Spec, HistoryIsKept

----------------------------------------------------------------------------
(* The timer's counter. *)

IdsIn(file) == {e.id : e \in EntriesIn(file)}

\* The counter of a Twin that persists alone never passes what its file holds.
Counted ==
  \A t \in Twins :
    persisting = {t} /\ bad[t] = NoFile => lastSavedLen <= Cardinality(IdsIn(disk[t]))

\* Of every Twin's file the ids can be counted.
LEMMA FilesAreFinite ==
  ASSUME IInv, NEW t \in Twins
  PROVE  IsFiniteSet(IdsIn(disk[t])) /\ Cardinality(IdsIn(disk[t])) \in Nat
<1>1. IsFiniteSet(IdsIn(disk[t]))
  <2>1. CASE disk[t] = NoFile
    <3>1. IdsIn(disk[t]) = {}
      BY <2>1 DEF IdsIn, EntriesIn
    <3> QED
      BY <3>1, FS_EmptySet
  <2>2. CASE disk[t] # NoFile
    <3>1. disk[t].journal \in JournalType /\ LogMatchesMap(disk[t].journal)
      BY <2>2 DEF IInv, TypeOK, File, Sound, Consistent
    <3>2. IdsIn(disk[t]) = Ids(disk[t].journal)
      BY <2>2 DEF IdsIn, EntriesIn, Ids
    <3> QED
      BY <3>1, <3>2, LogCountsIds
  <2> QED
    BY <2>1, <2>2
<1> QED
  BY <1>1, FS_CardinalityType

\* The live journal has at least what its own file has, and is as long as it has
\* entries.
LEMMA FileIsPart ==
  ASSUME IInv, Carried, bound \in persisting, bad[bound] = NoFile
  PROVE  /\ IsFiniteSet(Ids(journal)) /\ Cardinality(Ids(journal)) = Len(journal.order)
         /\ Len(journal.order) \in Nat
         /\ EntriesIn(disk[bound]) \subseteq journal.entries
         /\ IdsIn(disk[bound]) \subseteq Ids(journal)
         /\ Cardinality(IdsIn(disk[bound])) <= Len(journal.order)
<1>1. journal \in JournalType /\ LogMatchesMap(journal)
  BY DEF IInv, TypeOK, Sound, Consistent
<1>2. /\ IsFiniteSet(Ids(journal)) /\ Cardinality(Ids(journal)) = Len(journal.order)
      /\ Len(journal.order) \in Nat
  BY <1>1, LogCountsIds
<1>3. EntriesIn(disk[bound]) \subseteq journal.entries
  BY DEF Carried, EntriesIn
<1>4. IdsIn(disk[bound]) \subseteq Ids(journal)
  BY <1>3 DEF IdsIn, Ids
<1>5. Cardinality(IdsIn(disk[bound])) <= Cardinality(Ids(journal))
  BY <1>2, <1>4, FS_Subset
<1> QED
  BY <1>2, <1>3, <1>4, <1>5

\* Whatever the step, a file that stays or is replaced by the live journal still
\* covers a counter that stays or becomes that journal's length.
LEMMA CountStays ==
  ASSUME IInv, Carried, Counted, NEW t \in Twins, persisting = {t}, bad[t] = NoFile,
         \/ EntriesIn(disk'[t]) = EntriesIn(disk[t]) /\ lastSavedLen' = lastSavedLen
         \/ /\ t = bound /\ EntriesIn(disk'[t]) = journal.entries
            /\ lastSavedLen' \in {lastSavedLen, Len(journal.order)}
  PROVE  lastSavedLen' <= Cardinality(IdsIn(disk'[t]))
<1>1. lastSavedLen <= Cardinality(IdsIn(disk[t]))
  BY DEF Counted
<1>2. CASE EntriesIn(disk'[t]) = EntriesIn(disk[t]) /\ lastSavedLen' = lastSavedLen
  <2>1. IdsIn(disk'[t]) = IdsIn(disk[t])
    BY <1>2 DEF IdsIn
  <2> QED
    BY <1>1, <1>2, <2>1
<1>3. CASE /\ t = bound /\ EntriesIn(disk'[t]) = journal.entries
           /\ lastSavedLen' \in {lastSavedLen, Len(journal.order)}
  <2>1. IdsIn(disk'[t]) = Ids(journal)
    BY <1>3 DEF IdsIn, Ids
  <2>2. /\ Cardinality(Ids(journal)) = Len(journal.order) /\ Len(journal.order) \in Nat
        /\ Cardinality(IdsIn(disk[t])) <= Len(journal.order)
    BY <1>3, FileIsPart
  <2>3. Cardinality(IdsIn(disk[t])) \in Nat /\ lastSavedLen \in Nat
    BY FilesAreFinite DEF IInv, TypeOK
  <2>4. lastSavedLen <= Len(journal.order)
    BY <1>1, <2>2, <2>3
  <2> QED
    BY <1>3, <2>1, <2>2, <2>4
<1> QED
  BY <1>2, <1>3

\* A save replaces the file by the live journal.
LEMMA SaveCounted ==
  ASSUME IInv, Carried, Counted, SaveDocument \/ PeriodicSave
  PROVE  Counted'
<1>1. /\ bound \in Twins /\ disk' = Stored(bound) /\ bound \in persisting
      /\ UNCHANGED <<persisting, bad>>
      /\ lastSavedLen' \in {lastSavedLen, Len(journal.order)}
  BY DEF SaveDocument, PeriodicSave, Routed, IInv, TypeOK
<1>2. disk'[bound] # NoFile /\ disk'[bound].journal = journal
  BY <1>1, StoredType DEF IInv
<1>3. EntriesIn(disk'[bound]) = journal.entries
  BY <1>2 DEF EntriesIn
<1>4. ASSUME NEW t \in Twins, persisting = {t}, bad[t] = NoFile
      PROVE  lastSavedLen' <= Cardinality(IdsIn(disk'[t]))
  BY <1>1, <1>3, <1>4, CountStays
<1> QED
  BY <1>1, <1>4 DEF Counted, IdsIn, EntriesIn

\* The end of a scan flushes at most the bound Twin's journal, and does not touch
\* the counter.
LEMMA FinishScanCounted ==
  ASSUME IInv, Carried, Counted, NEW t \in Twins, FinishScan(t)
  PROVE  Counted'
<1>1. /\ persisting' = persisting /\ lastSavedLen' = lastSavedLen
      /\ disk' = disk \/ (Outgoing(t) /\ disk' = Stored(bound))
      /\ bad' = bad \/ bad' = SetAside(t)
  BY DEF FinishScan, Failures, Flushed
<1>2. ASSUME NEW u \in Twins, bad'[u] = NoFile
      PROVE  bad[u] = NoFile
  <2>1. CASE bad' = SetAside(t)
    <3>1. /\ bad'[t] = IF Unparsable(t) THEN disk[t] ELSE bad[t]
          /\ \A v \in Twins \ {t} : bad'[v] = bad[v]
      BY <2>1, SetAsideFiles DEF IInv
    <3>2. Unparsable(t) => disk[t] # NoFile
      BY DEF Unparsable, Garbled
    <3> QED
      BY <1>2, <3>1, <3>2
  <2> QED
    BY <1>1, <1>2, <2>1
<1>3. ASSUME NEW u \in Twins
      PROVE  \/ EntriesIn(disk'[u]) = EntriesIn(disk[u])
             \/ u = bound /\ EntriesIn(disk'[u]) = journal.entries
  <2>1. CASE Outgoing(t) /\ disk' = Stored(bound)
    <3>1. bound \in Twins
      BY <2>1 DEF Outgoing, Routed, IInv, TypeOK
    <3>2. /\ disk'[bound] # NoFile /\ disk'[bound].journal = journal
          /\ \A v \in Twins \ {bound} : disk'[v] = disk[v]
      BY <2>1, <3>1, StoredType DEF IInv
    <3> QED
      BY <3>2 DEF EntriesIn
  <2> QED
    BY <1>1, <2>1
<1>4. ASSUME NEW u \in Twins, persisting = {u}, bad'[u] = NoFile
      PROVE  lastSavedLen' <= Cardinality(IdsIn(disk'[u]))
  BY <1>1, <1>2, <1>3, <1>4, CountStays
<1> QED
  BY <1>1, <1>4 DEF Counted, IdsIn, EntriesIn

LEMMA NextCounted ==
  ASSUME IInv, Carried, Counted, [Next]_vars, IInv'
  PROVE  Counted'
<1>1. ASSUME UNCHANGED <<persisting, lastSavedLen, bad>>,
             \A t \in Twins : EntriesIn(disk'[t]) = EntriesIn(disk[t])
      PROVE  Counted'
  BY <1>1 DEF Counted, IdsIn, EntriesIn
<1>2. ASSUME UNCHANGED <<persisting, lastSavedLen, bad, disk>>
      PROVE  Counted'
  BY <1>1, <1>2
<1>3. ASSUME NEW t \in Twins, Garble(t)
      PROVE  Counted'
  <2>1. \A u \in Twins : EntriesIn(disk'[u]) = EntriesIn(disk[u])
    BY <1>3, GarbledEntries
  <2> QED
    BY <1>1, <1>3, <2>1 DEF Garble
<1>4. ASSUME NEW t \in Twins \cup {NoTwin}, Restart(t)
      PROVE  Counted'
  <2>1. ASSUME NEW u \in Twins
        PROVE  Cardinality(IdsIn(disk[u])) \in Nat
    BY FilesAreFinite
  <2>2. lastSavedLen' = 0 /\ disk' = disk
    BY <1>4 DEF Restart
  <2> QED
    BY <2>1, <2>2 DEF Counted, IdsIn, EntriesIn
<1>5. CASE SaveDocument \/ PeriodicSave
  BY <1>5, SaveCounted
<1>6. ASSUME NEW t \in Twins, FinishScan(t)
      PROVE  Counted'
  BY <1>6, FinishScanCounted
<1>7. ASSUME NEW t \in Twins, OpenTwin(t) \/ AddTwin(t) \/ FailScan(t)
      PROVE  Counted'
  BY <1>2, <1>7 DEF OpenTwin, AddTwin, FailScan
<1>8. ASSUME NEW s \in Policies, ProjectPolicy(s)
      PROVE  Counted'
  BY <1>2, <1>8 DEF ProjectPolicy
<1>9. CASE Record \/ UNCHANGED vars
  BY <1>2, <1>9 DEF Record, vars
<1> QED
  BY <1>3, <1>4, <1>5, <1>6, <1>7, <1>8, <1>9 DEF Next

\* With at most one fault the timer is never fooled by a length that happens to
\* agree: while one Twin persists its journal alone, a counter equal to the live
\* journal's length means that the file has its every edit.  The timer's fairness
\* then gives LoneTimerSaves (persist_journal_periodic).
THEOREM TimerIsNotFooled ==
  ASSUME MaxFaults <= 1
  PROVE  Spec => []CounterIsHonest
<1>1. IInv /\ Init => Carried /\ GarbledOnce
  BY InitCarried
<1>2. IInv /\ Carried /\ GarbledOnce /\ [Next]_vars => Carried' /\ GarbledOnce'
  BY NextKeeps
<1>3. IInv /\ Init => Counted
  <2> SUFFICES ASSUME IInv, Init, NEW t \in Twins
               PROVE  lastSavedLen <= Cardinality(IdsIn(disk[t]))
    BY DEF Counted
  <2> QED
    BY FilesAreFinite DEF Init
<1>4. IInv /\ Carried /\ Counted /\ [Next]_vars /\ IInv' => Counted'
  BY NextCounted
<1>5. IInv /\ Carried /\ Counted => CounterIsHonest
  <2> SUFFICES ASSUME IInv, Carried, Counted, NEW t \in Twins, NEW e \in journal.entries,
                      persisting = {t}, bound = t, Whole(t), lastSavedLen = Len(journal.order)
               PROVE  e \in EntriesIn(disk[t])
    BY DEF CounterIsHonest
  <2>1. /\ IsFiniteSet(Ids(journal)) /\ Cardinality(Ids(journal)) = Len(journal.order)
        /\ Len(journal.order) \in Nat
        /\ EntriesIn(disk[t]) \subseteq journal.entries
        /\ IdsIn(disk[t]) \subseteq Ids(journal)
        /\ Cardinality(IdsIn(disk[t])) <= Len(journal.order)
    BY FileIsPart DEF Whole
  <2>2. Len(journal.order) <= Cardinality(IdsIn(disk[t]))
    BY DEF Counted, Whole
  <2>3. Cardinality(IdsIn(disk[t])) \in Nat
    BY FilesAreFinite
  <2>4. Cardinality(IdsIn(disk[t])) = Cardinality(Ids(journal))
    BY <2>1, <2>2, <2>3
  <2>5. IdsIn(disk[t]) = Ids(journal)
    BY <2>1, <2>4, FS_Subset
  <2>6. PICK f \in EntriesIn(disk[t]) : f.id = e.id
    BY <2>5 DEF IdsIn, Ids
  <2>7. f = e
    BY <2>1, <2>6 DEF IInv, Sound, Consistent, LogMatchesMap
  <2> QED
    BY <2>6, <2>7
<1> QED
  BY <1>1, <1>2, <1>3, <1>4, <1>5, Invariant, PTL DEF Spec
=============================================================================
