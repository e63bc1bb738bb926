---------------------------- MODULE TwinJournal ----------------------------
(***************************************************************************)
(* Several peers edit one Twin.  Each keeps its own journal, appends its    *)
(* edits to it (`append_local`) and takes in the entries of the others      *)
(* (`append_remote`) in whatever order and however often they arrive.  What *)
(* carries them is left open here; JournalPlane fixes it.                   *)
(*                                                                          *)
(* Every peer has an author of its own, as `set_local_author` requires of   *)
(* its callers, so a peer is named by its author.                           *)
(***************************************************************************)
EXTENDS Journal

CONSTANTS
  Strategy,       \* the merge strategy, the same on every peer
  CausalDelivery, \* TRUE: an entry arrives after the parents it builds on
  MaxEntries,     \* bound: entries ever made
  MaxSets         \* bound: change sets ever opened

ASSUME StrategyAssumption == Strategy \in Strategies

\* Which peer made the edit stands for what the edit says.
ASSUME OpsAssumption == Authors \subseteq Ops

VARIABLES
  journal,        \* each peer's journal
  made            \* every entry made so far, whoever holds it

vars == <<journal, made>>

Init ==
  /\ journal = [p \in Authors |-> EmptyJournal(p, Strategy)]
  /\ made = {}

Edit(p) ==
  /\ Cardinality(made) < MaxEntries
  /\ journal' = [journal EXCEPT ![p] = AppendLocal(@, p)]
  /\ made' = made \cup {LocalEntry(journal[p], p)}

Receive(p, e) ==
  /\ CausalDelivery => e.parents \subseteq Ids(journal[p])
  /\ \E j \in AppendRemote(journal[p], e) : journal' = [journal EXCEPT ![p] = j]
  /\ UNCHANGED made

\* JournalResource::change_set opens a set around a command's edits and closes
\* it after them; entries may arrive in between.
Opened == UNION {{p} \X DOMAIN journal[p].sets : p \in Authors}

OpenSet(p) ==
  /\ Cardinality(Opened) < MaxSets
  /\ journal' = [journal EXCEPT ![p] = BeginChangeSet(@)]
  /\ UNCHANGED made

CloseSet(p) ==
  /\ journal[p].active # NoSet
  /\ journal' = [journal EXCEPT ![p] = EndChangeSet(@)]
  /\ UNCHANGED made

Next ==
  \E p \in Authors :
    \/ Edit(p)
    \/ \E e \in made : Receive(p, e)
    \/ OpenSet(p)
    \/ CloseSet(p)

Spec == Init /\ [][Next]_vars

\* An entry a peer lacks is offered to it until it takes it in.
Learn(p) == \E e \in made : e.id \notin Ids(journal[p]) /\ Receive(p, e)

Fairness == \A p \in Authors : WF_vars(Learn(p))

FairSpec == Spec /\ Fairness

----------------------------------------------------------------------------
(* Properties *)

TypeOK ==
  /\ journal \in [Authors -> JournalType]
  /\ made \subseteq Entry

\* A journal's log, map, parents and clock agree with one another, and its
\* clock is past every entry it holds, so the next local entry gets a lamport
\* no held entry has (LamportClock::observe, insert_entry).
WellFormed ==
  \A p \in Authors : /\ LogMatchesMap(journal[p])
                     /\ ParentsAreEarlier(journal[p])
                     /\ ClockCoversEntries(journal[p])

\* An entry id names one entry: two peers that hold the same id hold the same
\* edit, so dropping an entry whose id is known (append_remote) loses nothing.
IdsNameOneEntry ==
  \A p, q \in Authors : \A e \in journal[p].entries, f \in journal[q].entries :
    e.id = f.id => e = f

\* Peers with the same entries point `main` at the same head, whatever order
\* the entries came in and whichever branch of append_remote moved it.
SameEntriesSameHead ==
  \A p, q \in Authors :
    Ids(journal[p]) = Ids(journal[q]) => journal[p].head = journal[q].head

\* The head a peer keeps step by step is the last entry of its merged order,
\* which is unique: fast-forwarding never skips a re-linearization that would
\* have put another entry last.
HeadIsMergedTip ==
  \A p \in Authors :
    Ids(journal[p]) # {} => MergedHeads(journal[p]) = {journal[p].head}

\* A user's own edit comes after everything the user had seen: it is a new id,
\* with the greatest key, and becomes the head the next edit builds on.
EditComesLast ==
  [][\A p \in Authors : \A i \in Ids(journal[p])' \ Ids(journal[p]) :
        i.author = p => /\ i \notin {e.id : e \in made}
                        /\ \A k \in Ids(journal[p]) : KeyLess(k, i)
                        /\ journal'[p].head = i]_vars

\* An entry recorded while its author had a change set open is listed by that
\* set, in the order recorded, whatever entries arrived meanwhile: undoing the
\* set undoes the whole command.
SetsListTheirEntries ==
  \A p \in Authors : \A n \in DOMAIN journal[p].sets :
    LET mine == {e.id : e \in {f \in journal[p].entries : f.id.author = p /\ f.changeSet = n}}
        set  == journal[p].sets[n]
    IN  /\ \A i \in mine : \E k \in DOMAIN set : set[k] = i
        /\ \A k, m \in DOMAIN set :
             {set[k], set[m]} \subseteq mine /\ k < m => set[k].lamport < set[m].lamport

\* What is shared is a history (SharedHistory): an entry is an edit, a journal's
\* map its peer's view, and the entry under `main` the tip.
EntryLess(d, e) == KeyLess(d.id, e.id)
HeadEntries(j) == {e \in j.entries : e.id = j.head}

History == INSTANCE SharedHistory WITH
  Peers <- Authors, Edits <- Entry, Less <- EntryLess,
  view  <- [p \in Authors |-> journal[p].entries],
  tip   <- [p \in Authors |-> HeadEntries(journal[p])]

\* Under the built-in policy the journals implement a shared history: lamports
\* and fast-forwarding, in any order of delivery, leave every peer with the
\* latest of what it has seen as its head.
ImplementsSharedHistory == History!Spec

\* Once editing stops, every peer ends up with every entry and one head.
Converges ==
  <>[]\A p \in Authors : /\ Ids(journal[p]) = {e.id : e \in made}
                         /\ \A q \in Authors : journal[p].head = journal[q].head
=============================================================================
