------------------------------ MODULE Journal ------------------------------
(***************************************************************************)
(* The Twin journal as a value: what lunco-twin-journal's `Journal` holds   *)
(* and what each of its operations turns it into.  The module declares no   *)
(* variable; the modules that give journals to peers, connect them or store *)
(* them on disk EXTEND it.                                                  *)
(*                                                                          *)
(* Abstractions: an author id is its rank in the string order (the only     *)
(* thing the code does with two authors besides comparing them for equality *)
(* is to order them); the payload of an entry is the opaque value `op`;     *)
(* wall-clock stamps, labels and tags are left out.  Only the `main` stream *)
(* and branch are kept, as `head`: nothing in the repository opens another. *)
(***************************************************************************)
EXTENDS Integers, Sequences, FiniteSets

CONSTANTS
  Authors,    \* the author ids, as positive integers in their string order
  Ops,        \* the payloads an entry can carry
  Preferred   \* the author a scripted merge policy lets win over the others

ASSUME AuthorsAssumption == Authors \subseteq Nat \ {0}

EntryId == [author : Authors, lamport : Nat \ {0}]

\* `None`: the branch `main` before its first entry.
NoEntry == [author |-> 0, lamport |-> 0]

\* The null change set; real ones are numbered from 1, in opening order.
NoSet == 0

Entry == [id : EntryId, parents : SUBSET EntryId, op : Ops, changeSet : Nat]

Strategies == {"default", "scripted"}

JournalType ==
  [ author   : Authors,              \* local_author
    clock    : Nat,                  \* LamportClock.value
    entries  : SUBSET Entry,         \* the map, as the set of its values
    order    : Seq(EntryId),         \* entry_order
    head     : EntryId \cup {NoEntry},
    sets     : Seq(Seq(EntryId)),    \* change_sets, by id
    active   : Nat,                  \* active_change_set
    strategy : Strategies ]          \* merge_strategy

\* `Journal::new`, then `set_merge_strategy`.
EmptyJournal(author, strategy) ==
  [ author |-> author, clock |-> 0, entries |-> {}, order |-> <<>>,
    head |-> NoEntry, sets |-> <<>>, active |-> NoSet, strategy |-> strategy ]

Ids(j) == {e.id : e \in j.entries}

----------------------------------------------------------------------------
(* Merged order: one deterministic linearization of the entry DAG. *)

\* The derived order of EntryId: author first.
AuthorLess(a, b) ==
  \/ a.author < b.author
  \/ a.author = b.author /\ a.lamport < b.lamport

\* (lamport, author), the key of the built-in order.
KeyLess(a, b) ==
  \/ a.lamport < b.lamport
  \/ a.lamport = b.lamport /\ a.author < b.author

\* A scripted policy that lets the author Preferred win: it answers 0 for two
\* entries of the same standing, and the caller breaks that tie by EntryId,
\* whose derived order compares the author first.
ScriptedLess(a, b) ==
  LET wins(i) == i.author = Preferred
  IN  \/ ~wins(a) /\ wins(b)
      \/ (wins(a) <=> wins(b)) /\ AuthorLess(a, b)

Before(strategy, a, b) ==
  IF strategy = "default" THEN KeyLess(a, b) ELSE ScriptedLess(a, b)

\* The entries not yet placed whose parents, those the journal holds, all are.
Ready(j, placed) ==
  {e.id : e \in {f \in j.entries : /\ f.id \notin placed
                                 /\ f.parents \cap Ids(j) \subseteq placed}}

\* Kahn's algorithm: every position takes the least of the ready entries.
IsMergedOrder(j, s) ==
  /\ s \in [1..Len(j.order) -> Ids(j)]
  /\ \A i \in Ids(j) : \E k \in DOMAIN s : s[k] = i
  /\ \A k \in DOMAIN s :
       LET ready == Ready(j, {s[m] : m \in 1..(k - 1)})
       IN  /\ s[k] \in ready
           /\ \A i \in ready \ {s[k]} : Before(j.strategy, s[k], i)

\* A merged order lists what the log does.
MergedOrders(j) ==
  {s \in [DOMAIN j.order -> Ids(j)] : IsMergedOrder(j, s)}

MergedHeads(j) == {s[Len(s)] : s \in MergedOrders(j)}

----------------------------------------------------------------------------
(* Operations *)

\* The change set named by an entry receives its id, if this journal has one
\* with that number.
JoinSet(sets, changeSet, id) ==
  [n \in DOMAIN sets |-> IF n = changeSet THEN Append(sets[n], id) ELSE sets[n]]

\* Mutant of InsertEntry: the entry does not join its change set.
InsertOutsideSet(j, e) ==
  [j EXCEPT !.entries = @ \cup {e}, !.order = Append(@, e.id)]

InsertEntry(j, e) ==
  [j EXCEPT !.entries = @ \cup {e},
            !.order   = Append(@, e.id),
            !.sets    = JoinSet(@, e.changeSet, e.id)]

\* The clock and `main` (advance_main) after an append.
Advance(j, clock, head) == [j EXCEPT !.clock = clock, !.head = head]

\* Mutant of LocalEntry: the high-water mark itself, not the tick past it.
LocalEntryAtMark(j, op) ==
  [ id        |-> [author |-> j.author, lamport |-> j.clock],
    parents   |-> {j.head} \ {NoEntry},
    op        |-> op,
    changeSet |-> j.active ]

\* The entry the next local edit records.
LocalEntry(j, op) ==
  [ id        |-> [author |-> j.author, lamport |-> j.clock + 1],
    parents   |-> {j.head} \ {NoEntry},
    op        |-> op,
    changeSet |-> j.active ]

\* Mutant of AppendLocal: the edit is recorded but `main` stays where it was.
AppendLocalBeside(j, op) ==
  LET e == LocalEntry(j, op)
  IN  Advance(InsertEntry(j, e), j.clock + 1, IF j.head = NoEntry THEN e.id ELSE j.head)

AppendLocal(j, op) ==
  LET e == LocalEntry(j, op)
  IN  Advance(InsertEntry(j, e), j.clock + 1, e.id)

\* LamportClock::observe.  The mutants: take the remote time over, ignore it.
ObservedLatest(clock, remote) == remote
ObservedNothing(clock, remote) == clock
Observed(clock, remote) == IF clock < remote THEN remote ELSE clock

\* Mutant of Known: entries no newer than the clock count as replays.
KnownByClock(j, e) == e.id \in Ids(j) \/ e.id.lamport <= j.clock
Known(j, e) == e.id \in Ids(j)

\* Mutants of ExtendsMain: always fast-forward; fast-forward to newer entries.
ExtendsAlways(j, e) == TRUE
ExtendsByLamport(j, e) == j.head.lamport < e.id.lamport

ExtendsMain(j, e) ==
  IF j.head = NoEntry THEN e.parents = {} ELSE j.head \in e.parents

\* The journals that taking in an entry can give: one, as the merged order is
\* unique.
AppendRemote(j, e) ==
  IF Known(j, e)
  THEN {j}
  ELSE LET inserted == InsertEntry(j, e)
           heads    == IF ExtendsMain(j, e) THEN {e.id} ELSE MergedHeads(inserted)
       IN  {Advance(inserted, Observed(j.clock, e.id.lamport), h) : h \in heads}

BeginChangeSet(j) ==
  [j EXCEPT !.sets = Append(@, <<>>), !.active = Len(j.sets) + 1]

EndChangeSet(j) == [j EXCEPT !.active = NoSet]

SetLocalAuthor(j, author) == [j EXCEPT !.author = author]

\* rebind_local_author: entries of the current author move to the new one.
Rebound(j, author, id) ==
  IF id \in Ids(j) /\ id.author = j.author THEN [id EXCEPT !.author = author] ELSE id

CanRebind(j, author) ==
  author # j.author =>
    \A i \in Ids(j) : i.author = j.author => Rebound(j, author, i) \notin Ids(j)

\* Mutant of RebindLocalAuthor: only the moved entries make it over.
RebindMovedOnly(j, author) ==
  LET mine(i) == i.author = j.author
  IN  [j EXCEPT !.author  = author,
                !.entries = {[e EXCEPT !.id.author = author] : e \in {f \in @ : mine(f.id)}},
                !.order   = LET own == SelectSeq(@, mine)
                            IN  [n \in DOMAIN own |-> [own[n] EXCEPT !.author = author]]]

RebindLocalAuthor(j, author) ==
  LET new(i) == Rebound(j, author, i)
      moved(e) == [e EXCEPT !.id = new(@), !.parents = {new(i) : i \in @}]
  IN  IF author = j.author
      THEN j
      ELSE [j EXCEPT !.author  = author,
                     !.entries = {moved(e) : e \in @},
                     !.order   = [n \in DOMAIN @ |-> new(@[n])],
                     !.head    = new(@),
                     !.sets    = [n \in DOMAIN @ |-> [k \in DOMAIN @[n] |-> new(@[n][k])]]]

\* to_dto then from_dto: the round trip through the persisted form.
Reloaded(j) == [j EXCEPT !.active = NoSet, !.strategy = "default"]

----------------------------------------------------------------------------
(* What a well-formed journal satisfies whatever its policy, and what it    *)
(* satisfies besides under the built-in policy.                             *)

\* The log and the map hold the same ids, each once.
LogMatchesMap(j) ==
  /\ \A e, f \in j.entries : e.id = f.id => e = f
  /\ {j.order[n] : n \in DOMAIN j.order} = Ids(j)
  /\ \A m, n \in DOMAIN j.order : j.order[m] = j.order[n] => m = n

\* Every entry comes after its parents in logical time.
ParentsAreEarlier(j) ==
  \A e \in j.entries : \A p \in e.parents : p.lamport < e.id.lamport

ClockCoversEntries(j) == \A i \in Ids(j) : i.lamport <= j.clock

\* `main` points at an entry as soon as there is one.
HeadIsHeld(j) == IF Ids(j) = {} THEN j.head = NoEntry ELSE j.head \in Ids(j)

\* `main` points at the greatest key held, which is the convergent tip.
HeadIsGreatest(j) == \A i \in Ids(j) \ {j.head} : KeyLess(i, j.head)
=============================================================================
