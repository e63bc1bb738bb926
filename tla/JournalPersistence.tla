-------------------------- MODULE JournalPersistence --------------------------
(***************************************************************************)
(* One process keeps one live journal and binds it to whichever Twin was    *)
(* opened last (lunco-workspace, journal_persistence.rs).  Binding a Twin   *)
(* flushes the outgoing journal to its own Twin's folder and swaps the new  *)
(* Twin's journal in, from its file if it persists one.  A document save    *)
(* and a five-second timer write the live journal out.                      *)
(*                                                                          *)
(* Twins are opened by `OpenTwin`/`OpenFolder`, which close every open one  *)
(* first, or by `AddTwin`/`AddFolderToWorkspace`, which do not; either      *)
(* scans the folder off-thread and registers the Twin when the scan ends.   *)
(* A write is atomic (temporary file, then rename).                         *)
(***************************************************************************)
EXTENDS Journal

CONSTANTS
  Twins,        \* the folders on disk
  OptIns,       \* which sets of them may have `[journal] persist = true`
  NoTwin,       \* what the journal is bound to before any Twin (`local-twin`)
  Local,        \* AuthorId::local(), the placeholder author
  Install,      \* this install's own author id
  Commands,     \* which of "OpenTwin" and "AddTwin" users run
  Policies,     \* the merge strategies scenes call for
  MaxEdits,     \* bound: entries recorded
  MaxFaults     \* bound: crashes, failed writes and garbled files

ASSUME PersistenceAssumption ==
  /\ OptIns \subseteq SUBSET Twins /\ NoTwin \notin Twins
  /\ Twins \cap 1..MaxEdits = {} /\ MaxEdits \in Nat /\ MaxFaults \in Nat
  /\ Authors = {Local, Install} /\ Local # Install
  /\ Commands \subseteq {"OpenTwin", "AddTwin"} /\ Policies \subseteq Strategies
  /\ Ops = Twins \cup 1..MaxEdits

\* A journal file: a journal, which a reader can parse or not.
File == [journal : JournalType, readable : BOOLEAN]
NoFile == [readable |-> FALSE]
Garbled(file) == file # NoFile /\ ~file.readable

VARIABLES
  persisting,   \* the Twins whose twin.toml says `[journal] persist = true`
  open,         \* workspace.twins
  scans,        \* PendingTwinOpens
  bound,        \* the live journal's `twin`
  journal,      \* the live journal
  lastSavedLen, \* what the timer last wrote
  disk,         \* each folder's history/journal.json
  bad,          \* each folder's history/journal.json.bad
  boundAt,      \* the Twin bound when each edit was made
  faults        \* crashes, failed writes and garbled files so far

vars == <<persisting, open, scans, bound, journal, lastSavedLen, disk, bad, boundAt, faults>>

\* What an earlier session left in a folder.
Earlier(t) == AppendLocal(EmptyJournal(Install, "default"), t)

----------------------------------------------------------------------------
(* Where a journal goes and where it comes from. *)

\* persisting_root_for_journal_id.
Routed(t) == t \in open /\ t \in persisting

\* write_journal_bytes.  A write that fails leaves the old file; of a save that
\* is as if it had not been tried.
Stored(t) == [disk EXCEPT ![t] = [journal |-> journal, readable |-> TRUE]]

\* Of a write that is tried, the faults it may bring: none, or its failure.
Failures(tried) == IF tried THEN {0, 1} ELSE {0}

\* The outgoing journal's flush, when a Twin t is bound; its mutants write to
\* the folder being opened, and nowhere.
Outgoing(t) == bound # t /\ journal.entries # {} /\ Routed(bound)
FlushedToIncoming(t) == IF Outgoing(t) THEN Stored(t) ELSE disk
FlushedNowhere(t) == disk
Flushed(t) == IF Outgoing(t) THEN Stored(bound) ELSE disk

\* Mutant of Restored: the clock is not lifted to the stored high-water mark.
RestoredAtZero(j) == [Reloaded(j) EXCEPT !.clock = 0]
Restored(j) == Reloaded(j)

\* Mutant of Loaded: a file is loaded whether or not the Twin persists one.
LoadedAlways(t, files) ==
  IF files[t].readable THEN Restored(files[t].journal) ELSE EmptyJournal(Local, "default")
Loaded(t, files) ==
  IF t \in persisting /\ files[t].readable
  THEN Restored(files[t].journal)
  ELSE EmptyJournal(Local, "default")

\* A file that cannot be parsed is set aside; the mutant leaves it in place,
\* for the next save to overwrite.
Unparsable(t) == t \in persisting /\ Garbled(disk[t])
SetAsideNothing(t) == bad
SetAside(t) == IF Unparsable(t) THEN [bad EXCEPT ![t] = disk[t]] ELSE bad

\* The journal a process starts with, `--scene` naming a Twin or not: the author
\* is stamped in the first update, after the startup scene's Twin is bound.
AtStartup(t, files) ==
  SetLocalAuthor(IF t = NoTwin THEN EmptyJournal(Local, "default") ELSE Loaded(t, files), Install)

----------------------------------------------------------------------------
Init ==
  /\ persisting \in OptIns
  /\ disk \in [Twins -> {NoFile} \cup {[journal |-> Earlier(t), readable |-> TRUE] : t \in Twins}]
  /\ \A t \in Twins : disk[t] # NoFile => disk[t].journal = Earlier(t)
  /\ bad = [t \in Twins |-> NoFile]
  /\ bound \in Twins \cup {NoTwin}
  /\ open = {bound} \ {NoTwin}
  /\ journal = AtStartup(bound, disk)
  /\ scans = {} /\ lastSavedLen = 0
  /\ boundAt = <<>> /\ faults = 0

\* close_all_open_folders, then spawn_twin_from_path.
OpenTwin(t) ==
  /\ "OpenTwin" \in Commands
  /\ open' = {}
  /\ scans' = scans \cup {t}
  /\ UNCHANGED <<persisting, bound, journal, lastSavedLen, disk, bad, boundAt, faults>>

AddTwin(t) ==
  /\ "AddTwin" \in Commands
  /\ scans' = scans \cup {t}
  /\ UNCHANGED <<persisting, open, bound, journal, lastSavedLen, disk, bad, boundAt, faults>>

\* drain_pending_twin_opens, and on_twin_added_load_journal, which it triggers.
FinishScan(t) ==
  /\ t \in scans
  /\ scans' = scans \ {t}
  /\ open' = open \cup {t}
  /\ \E f \in Failures(Outgoing(t)), g \in Failures(Unparsable(t)) :
       /\ faults' = faults + f + g /\ faults' <= MaxFaults
       /\ disk' = IF f = 1 THEN disk ELSE Flushed(t)
       /\ bad' = IF g = 1 THEN bad ELSE SetAside(t)
  /\ journal' = Loaded(t, disk')
  /\ bound' = t
  /\ UNCHANGED <<persisting, lastSavedLen, boundAt>>

FailScan(t) ==
  /\ t \in scans
  /\ scans' = scans \ {t}
  /\ UNCHANGED <<persisting, open, bound, journal, lastSavedLen, disk, bad, boundAt, faults>>

\* Recorders keep the shared journal, whether or not its Twin is open and
\* whichever Twin their documents are of.
Record ==
  /\ Len(boundAt) < MaxEdits
  /\ journal' = AppendLocal(journal, Len(boundAt) + 1)
  /\ boundAt' = Append(boundAt, bound)
  /\ UNCHANGED <<persisting, open, scans, bound, lastSavedLen, disk, bad, faults>>

\* on_document_saved_persist_journal.
SaveDocument ==
  /\ Routed(bound)
  /\ disk' = Stored(bound)
  /\ UNCHANGED <<persisting, open, scans, bound, journal, lastSavedLen, bad, boundAt, faults>>

\* persist_journal_periodic, once its five seconds are over.  The mutant takes
\* the save for done whether or not it had anywhere to write to.
PeriodicSaveAnywhere ==
  /\ Len(journal.order) # lastSavedLen
  /\ lastSavedLen' = Len(journal.order)
  /\ disk' = IF Routed(bound) THEN Stored(bound) ELSE disk
  /\ UNCHANGED <<persisting, open, scans, bound, journal, bad, boundAt, faults>>
PeriodicSave ==
  /\ Len(journal.order) # lastSavedLen
  /\ Routed(bound)
  /\ disk' = Stored(bound)
  /\ lastSavedLen' = Len(journal.order)
  /\ UNCHANGED <<persisting, open, scans, bound, journal, bad, boundAt, faults>>

\* project_usd_policies: the composed stage gained or lost a merge policy.
ProjectPolicy(strategy) ==
  /\ strategy # journal.strategy
  /\ journal' = [journal EXCEPT !.strategy = strategy]
  /\ UNCHANGED <<persisting, open, scans, bound, lastSavedLen, disk, bad, boundAt, faults>>

\* No file of the Twin was ever garbled.
Whole(t) == bad[t] = NoFile /\ ~Garbled(disk[t])

\* Something garbles a file.
Garble(t) ==
  /\ disk[t].readable /\ faults < MaxFaults
  /\ disk' = [disk EXCEPT ![t].readable = FALSE]
  /\ faults' = faults + 1
  /\ UNCHANGED <<persisting, open, scans, bound, journal, lastSavedLen, bad, boundAt>>

\* The process dies and starts again, on a Twin or on none.
Restart(t) ==
  /\ \E g \in Failures(t # NoTwin /\ Unparsable(t)) :
       /\ faults' = faults + 1 + g /\ faults' <= MaxFaults
       /\ bad' = IF t = NoTwin \/ g = 1 THEN bad ELSE SetAside(t)
  /\ bound' = t
  /\ open' = {t} \ {NoTwin}
  /\ scans' = {} /\ lastSavedLen' = 0
  /\ journal' = AtStartup(t, disk)
  /\ UNCHANGED <<persisting, disk, boundAt>>

Next ==
  \/ \E t \in Twins : OpenTwin(t) \/ AddTwin(t) \/ FinishScan(t) \/ FailScan(t) \/ Garble(t)
  \/ \E t \in Twins \cup {NoTwin} : Restart(t)
  \/ \E s \in Policies : ProjectPolicy(s)
  \/ Record \/ SaveDocument \/ PeriodicSave

Spec == Init /\ [][Next]_vars

\* The timer runs every frame for as long as the process does.
FairSpec == Spec /\ WF_vars(PeriodicSave)

----------------------------------------------------------------------------
(* Properties *)

TypeOK ==
  /\ persisting \subseteq Twins /\ open \subseteq Twins /\ scans \subseteq Twins
  /\ bound \in Twins \cup {NoTwin}
  /\ journal \in JournalType
  /\ lastSavedLen \in Nat
  /\ disk \in [Twins -> File \cup {NoFile}]
  /\ bad \in [Twins -> File \cup {NoFile}]
  /\ boundAt \in Seq(Twins \cup {NoTwin}) /\ Len(boundAt) <= MaxEdits
  /\ faults \in 0..MaxFaults

\* The Twin that was bound when an edit was recorded: an earlier session's is
\* named by its Twin.  It need not be the Twin of the edited document.
BoundWhen(op) == IF op \in Twins THEN op ELSE boundAt[op]

EntriesIn(file) == IF file = NoFile THEN {} ELSE file.journal.entries

\* What a Twin's journal holds, live, stored or set aside, was recorded while that
\* Twin was bound, whichever Twins are opened, saved and reopened meanwhile: each
\* journal goes to the folder it belongs to, by its own identity and not by the
\* Twin in front.  Documents of several open Twins record into the one live
\* journal; whose they are, a journal does not tell.
RecordedWhileBound ==
  /\ \A e \in journal.entries : BoundWhen(e.op) = bound
  /\ \A t \in Twins : \A e \in EntriesIn(disk[t]) \cup EntriesIn(bad[t]) : BoundWhen(e.op) = t

\* What a folder once kept of a Twin's history it keeps, across saves, crashes,
\* reopened Twins and a file that can no longer be parsed (which is set aside
\* before a fresh journal overwrites it).
HistoryIsKept ==
  [][\A t \in Twins : EntriesIn(disk[t]) \cup EntriesIn(bad[t])
                         \subseteq (EntriesIn(disk[t]) \cup EntriesIn(bad[t]))']_vars

\* A Twin that is still open when the next one takes its place does not lose what
\* its journal holds: that is on disk before the new journal is bound.
SwapKeepsOpen ==
  [][(faults' = faults /\ bound' # bound /\ Routed(bound))
       => journal.entries \subseteq EntriesIn(disk'[bound])]_vars

\* What is stored and what comes back from it are well-formed journals: the next
\* edit after a reload gets an id that no entry of the file has.
StoredWellFormed ==
  \A j \in {journal} \cup {disk[t].journal : t \in {u \in Twins : disk[u] # NoFile}} :
    LogMatchesMap(j) /\ ParentsAreEarlier(j) /\ ClockCoversEntries(j) /\ HeadIsHeld(j)

\* A Twin that has not opted in is neither written to nor read from: its folder
\* keeps the file it had, and its journal starts empty.
SessionOnlyLeavesNoTrace ==
  [][\A t \in Twins \ persisting :
        /\ EntriesIn(disk'[t]) = EntriesIn(disk[t]) /\ bad'[t] = bad[t]
        /\ bound' = t => \A e \in journal'.entries : e.op # t]_vars

\* While its Twin stays open, the timer gets a journal's every edit to disk,
\* where no other Twin's journal moves the timer's length counter and no garbled
\* file makes the journal start again.
LoneTimerSaves ==
  \A t \in Twins :
    []<>(persisting = {t} /\ bound = t /\ t \in open /\ Whole(t)
           => journal.entries \subseteq EntriesIn(disk[t]))

\* What LoneTimerSaves rests on: where the timer finds nothing new, because its
\* counter is the live journal's length, every edit is in the file.  It is the
\* length alone that is compared, whatever was loaded, closed and flushed since
\* the counter was set.
CounterIsHonest ==
  \A t \in Twins :
    persisting = {t} /\ bound = t /\ Whole(t) /\ lastSavedLen = Len(journal.order)
      => journal.entries \subseteq EntriesIn(disk[t])
=============================================================================
