# A TLA+ model of lunco-sim

lunco-sim is a multi-user lunar base simulator in Rust on the Bevy engine.  Players edit one
*Twin*, a folder of documents, and drive vessels in one simulated world; a host simulates the
world, clients predict their own vessels and replay the host's edits.  This directory models
the parts of it whose correctness depends on the order in which several actors take steps:

* the **Twin journal**, a log of edits that every peer extends on its own and that all peers
  must agree on, the **persistence** that moves one live journal between Twin folders, and
  the **journal plane** that keeps the journals of a host and its clients in step;
* the **control input** of a vessel, from possession through numbered inputs to
  acknowledgements and reconciled predictions;
* a **scene document** with its undo history, its two layers and their files, and the **live
  stage** that follows it;
* the **Modelica worker**, one thread that compiles and steps models for a main thread that
  may have moved on by the time it answers.

Paths below are relative to `src/crates/`.  `PROJECT.json` maps every definition to the lines
it models.

Contents: [parts](#1-the-parts-of-the-system) · [modules](#2-modules-and-the-code) ·
[runs](#3-what-the-runs-check) · [fairness](#4-fairness) · [proofs](#5-what-is-proved) ·
[findings](#6-where-the-code-does-not-do-what-it-says) · [limits](#7-what-is-not-modelled) ·
[plan](#8-plan)

## 1. The parts of the system

Everything runs in one Bevy application per process.  A system runs once per rendered frame
(`Update`) or once per simulation tick (`FixedFirst`, `FixedUpdate`); observers run when a
command or event is triggered.  What makes the system hard is not threads but schedules: which
system of a frame sees a change first, what arrives between two ticks, what a queue still holds
when the world has moved on.

### Modelled

**Twin journal** (`lunco-twin-journal/src/lib.rs`, shared through `JournalResource` in
`lunco-doc-bevy/src/lib.rs`).
State: the entries by id `(author, lamport)`, the log in order of arrival, a Lamport clock, the
branch `main` (its head), change sets and the open one, the local author, the merge strategy.
Operations: `append_local`, `append_remote`, `begin_change_set`/`end_change_set`,
`set_local_author`, `rebind_local_author`, `set_merge_strategy`, `merged_order_ids`, and the
conversion to and from the stored form.
Hard: entries of other peers arrive in any order, with repetition, before their parents; `main`
is moved step by step (fast-forward or re-linearize) but must end where a linearization of the
whole DAG would put it; entries change their author while others refer to them.
Correct when: an id names one edit; log, map, parents and clock agree; peers with the same
entries have the same head; an edit comes after everything its author had seen; undoing a
change set undoes what its command recorded.

**Journal persistence** (`lunco-workspace/src/journal_persistence.rs`, `open.rs`).
State: the open Twins, the scans under way, the live journal and the Twin it is bound to, the
timer's last saved length, each folder's `history/journal.json` and `.bad`.
Operations: `OpenTwin`/`OpenFolder` (close every open Twin, then scan), `AddTwin`/
`AddFolderToWorkspace` (scan only), the end of a scan (flush the outgoing journal, load or create
the incoming one), a save on `DocumentSaved`, a save every five seconds, startup.
Hard: one journal for many folders; close, scan and swap are separate steps; files that cannot
be parsed; crashes.
Correct when: each journal is saved to the folder it belongs to, that of the Twin bound when its
edits were recorded; no history that was stored is lost; the outgoing journal is on disk before the
swap; a Twin that has not opted in is left alone; the timer gets every edit to disk.

**Journal plane** (`lunco-networking/src/journal_plane.rs`) on **sessions and transport**
(`client.rs`, `server.rs`, `sync.rs`, `protocol.rs`).
State: a cursor into the log on every peer, the host's sessions, what each client is still owed
of the replay, the client's role and connection.
Operations: join, connect, handshake (accepted or refused), leave, drop; ship the tail of the
log; bind an entry to the connection that carried it; meter the replay over frames.
Hard: the replay overlaps the live tail; the handshake and the entries travel on channels with
no order between them; the cursor moves whether or not anything was sent; a client's entries
are renamed when it gets its session; the host learns of the end of a connection after its client,
which may have joined anew by then.
Correct when: a client that stays joined gets its edits to the host and learns all the host
knows; every peer holds an edit once, and loses none.

**Vessel control input** (`lunco-core/src/session.rs`, `lunco-core/src/lib.rs`,
`lunco-networking/src/prediction.rs`, `lunco-controller/src/lib.rs`, `lunco-avatar/src/lib.rs`).
State: the owner of the vessel, the host's buffer of inputs with its cursor and the writes it
latched, the acknowledgement slot (owner and number), each client's copy of the ownership table,
whether it predicts the vessel, the numbers it has given out, the last one it reconciled.
Operations: possess, release, take over, drive (numbered or not), receive, the fixed tick (sync
of owners, then one input), table and snapshot updates, promotion and demotion, reconciliation.
Hard: inputs arrive on the render clock and are integrated on the fixed one; inputs are lost and
overtake each other; the vessel changes hands while some wait or are latched.
Correct when: only what a tick integrated is acknowledged; a tick integrates the owner's inputs
only; whoever keeps the vessel has its prediction reconciled.

**Scene document** (`lunco-doc/src/lib.rs`, `lunco-doc-bevy/src/lib.rs`,
`lunco-usd/src/document.rs`, `commands.rs`, `runtime_persistence.rs`).
State: the base and the runtime layer, the generation and the last saved one, the op ring, the
host's undo and redo stacks, the scene file and the runtime file, reads under way.
Operations: apply an op or an intent of several, undo, redo, replay a peer's op, save, keep the
runtime layer, open (on a task), restart with or without a reset.
Hard: an inverse computed once is applied after any number of other steps; two layers share one
history; files change behind the program and are read on tasks that end late.
Correct when: undo walks back exactly; unsaved work is never taken by a late open; what is only
simulated never reaches the authored file; the runtime file follows the runtime layer.

**Scene projection** (`lunco-usd/src/twin_projection.rs`, `lunco-usd-bevy/src/canonical.rs`,
`lunco-usd-sim/src/cosim.rs`).
State: the live stage, the overlay the next load reads, the generations both have reached, the
spawns that wait for an asset, the load under way.
Operations: replay or rebuild, write the overlay, restart, read the overlay, mount the stage,
land or give up a spawn.
Hard: the document moves on while the stage loads; the op ring overflows between two frames; a
prim is moved, removed or undone while it waits.
Correct when: once caught up the stage says what the document says, no spawn is lost, and it
does catch up.

**Modelica worker** (`lunco-modelica/src/worker.rs`, `ui/commands/compile.rs`, `lib.rs`,
`source_roots.rs`, `lunco-usd-sim/src/domain_projection.rs`).
State: each model's component (session, flags, clock, step in flight), the command channel, the
worker's two lanes, its steppers, cached artifacts and current sessions, the answers, the barrier
that holds the fixed tick, the runtime faults.
Operations: compile, run, pause, resume, reset, edit, set a parameter, attach a scene model,
generate or reject a network, remove a model; the worker's rounds and commands, each of which may
fail or panic; taking an answer; the tick that sends steps.
Hard: answers come after the model was compiled, reset or removed again; steps go ahead of other
models' compiles but must not go ahead of their own; one missing answer stops the whole
simulation.
Correct when: a model that may step has the stepper it thinks it has; no answer is mistaken for
another's; the barrier comes down.

### Interactions

| from | to | how |
|---|---|---|
| document hosts, recorders | journal | `JournalResource` (a shared lock), inside `change_set` |
| `TwinAdded` observer | journal | replaces the journal behind the shared lock |
| journal plane | journal | reads the log past a cursor; `append_remote` |
| handshake | journal | `set_local_author`, `rebind_local_author` |
| USD policy projection | journal | `set_merge_strategy` when a stage gains or loses a policy |
| possession commands | session registry | `claim`, `release_session`; the table is broadcast |
| `SetPorts` from the wire | buffer, slot | `record_control_input`, on arrival |
| fixed tick | buffer, slot, ports | `sync_applied_seq_owners`, `apply_buffered_client_inputs` |
| snapshots | prediction | `last_input_seq`, compared with the client's own numbers |
| document op, undo, reload | scene projection | `DocumentChanged`, the op ring past `synced_generation` |
| `DocumentChanged` | runtime file | `on_doc_changed_save_runtime` |
| overlay | asset loader, live stage | read when a load starts, mounted when it ends |
| main thread | Modelica worker | two channels; sessions and step ids tell answers apart |
| pending coupled models, faults | fixed tick | `SimulationBarrier` |

### Not modelled

| part | state and operations | why |
|---|---|---|
| session registry, authorization | several vessels per session, roles, command policies, control-path blackouts | next in the plan |
| snapshot replication, interest | diff caches, per-peer interest sets, spawn and despawn with pending spawns | in the plan |
| scenario and asset sync | manifests, requests for missing files, resumed downloads | in the plan |
| readiness gate | tickets, holds, frozen subtrees | in the plan |
| mission time | transport (play, pause, rate), tree of time domains | in the plan in part; conversions are numerical |
| behaviour trees | tick, halt and status of composites and decorators | in the plan |
| experiments | registry of runs per Twin, eviction, statuses, cancellation | in the plan |
| scene lifecycle | roots that may still complete their projection | a restart is in the projection; the rest rewrites USD data |
| co-simulation | exchanges between engines | numerical; the barrier is in the Modelica worker |
| celestial, environment, mobility, terrain | continuous dynamics, geometry | numerical |
| other USD integration, workbench, rendering, UI, scripting, API, storage, applications | translation, presentation, interpreters, I/O, assembly | data or I/O, no protocol of their own |

## 2. Modules and the code

    Journal ──────────────┬── TwinJournal ───────── MCTwinJournal
                          │      └── implements SharedHistory
                          ├── JournalPersistence ── MCJournalPersistence
                          └── JournalPlane ──────── MCJournalPlane
    ControlInput ──────────── MCControlInput
    SceneDocument ────────┬── MCSceneDocument ──────────┐
                          └── SceneProjection ───────── MCSceneProjection
    ModelicaWorker ────────── MCModelicaWorker

and the modules TLAPS checks, each on top of the module it is named after:

    Recursion ────────────┬── JournalProofs ──┬── TwinJournalProofs
                          │                   ├── JournalPersistenceProofs
                          │                   └── JournalPlaneProofs
                          ├── SceneProofs, on SceneDocument and SceneProjection
                          └── ModelicaWorkerProofs
    ControlInputProofs

**`Journal`** has no variables.  It defines a journal as a record and each method of `Journal`
in `lunco-twin-journal` as an operator from the old record to the new one.  `AppendRemote` gives
a set of records because re-linearization is *specified* (`IsMergedOrder`: at each position the
least of the ready entries) rather than computed; that the set always has one element is
checked by `HeadIsMergedTip` and proved (`MergedHeadUnique`).  The modules below add who calls these operators and when.

| record field | code |
|---|---|
| `entries`, `order` | `entries` and `entry_order` |
| `clock` | `LamportClock.value` |
| `head` | `branches["main"].state`, whose only stream is `main` |
| `sets`, `active` | `change_sets`, `active_change_set` |
| `author`, `strategy` | `local_author`, `merge_strategy` |

Abstractions.  An author id is its rank among the ids as strings, since the code only compares
them; in `MCJournalPlane` the ranks follow how the ids the repository builds sort, `local` before
`net-session-…` before `peer-…`.  What an entry says is opaque.  Markers, summaries, wall-clock
stamps, other streams and branches are left out: nothing but tests uses them.

**`TwinJournal`** gives each peer a journal and lets it edit, open and close change sets, and
take in any entry ever made, any number of times: every order of delivery is a behaviour.
`CausalDelivery` restricts this to entries whose parents are held.

**`SharedHistory`** is what the journals promise, without clocks, parents, logs or merges: one
growing set of edits, of which each peer sees a part; an edit comes after all its author had
seen; a peer's tip is the latest edit it sees.  `TwinJournal` instantiates it with an entry for an
edit, a journal's map for a peer's view and the entry under `main` for its tip.

**`JournalPersistence`** has one process.  `OpenTwin` empties `open` and starts a scan;
`FinishScan` is `drain_pending_twin_opens` together with `on_twin_added_load_journal`: flush,
set aside, load, bind.  `Restart` is a crash at any point followed by a start on a Twin or none.
Writes are atomic, as `lunco-storage` writes a temporary file and renames it, but may fail.
Files are what `to_bytes` wrote or unparsable; a passing read error is not distinguished from a
missing file, as in the code.

**`JournalPlane`** has a host and clients.  `Connect` is the host's `on_server_connected`;
`hello`, `toClient` and `toHost` are the two reliable channels.  A client has a live sender
exactly while its link is `up`.  A player who rejoins gets a session it has not had before.
When a client gives its connection up (`Cut`) it hears no more from it at once, but the host does not
know yet: what the client sent is kept in `late`, under the old session, and comes in
(`LateReceive`) until the host has learnt of the end (`ForgetSession`), with the client meanwhile
dialing, connected anew or renamed.
`Drop` keeps the role and the author, as `on_client_disconnected` does.  The JournalEdit gate is
taken to be open, its default.

**`ControlInput`** has one vessel; nothing it describes is shared between vessels.  Numbered
inputs in flight are a set per client: they overtake one another, and a lost one is one that stays.
Unnumbered ones may arrive at any time, and so need not be kept in flight.
Tables and snapshots are taken over when a client looks at them, the newest available.
The two systems of the tick run in either order (`SyncFirst`, `ApplyFirst`), as nothing in
`FixedFirst` orders them.

`changed_owner_gids` compares the slot's owner with the registry once per tick, and so does not see
every change of owner.  `hidden` is history and stands for no variable of the code: it says that
a change went unseen while something of the previous owner's was queued or latched, in one of these
ways:

* an input recorded on arrival (a `SetPorts` on the host itself, or a client's unnumbered one)
  gave the slot to the new owner before the tick (`RecordOnArrival`);
* the tick integrated before it synced, and so gave the slot to the new owner itself
  (`ApplyFirst`);
* the owner was back by the tick, or the vessel had a queue but no slot yet (`Unseen`).

It is set at the step that hides the change and cleared when a sync next sees one and clears the
record.  `InputsComeFromTheOwner` and `OwnerIsReconciled` speak of states where it is false; the
others stay in the model, as nothing in the code forbids them.  Section 6 says what follows from them.

**`SceneDocument`** has one document opened from a file.  A layer is a function from prims to
what it says of each: nothing, that the prim exists, or the value of the one attribute the edits
set; a text is a layer's content.  Ops are `set` (`SetTranslate` and its like), `add`, `remove`
and `replace` (`ReplaceSource`), and each is undone as the code undoes it: finely where that is
exact, by the whole layer otherwise.  `restores` in an undo entry and `baseline` are history: the layers the
entry must bring back, and the base layer as it was last read or written.  A change that goes past the
host (a replayed edit, a reload) makes entries `Lost`: nothing is claimed of them.

**`SceneProjection`** extends it with the stage.  `Sync` and `WriteOverlay` are the branches of
`sync_twin_overlays`; `Restart` is `RestartScene` with the overlay it writes; `ReadOverlay` and
`MountStage` are the asset loader and `sync_canonical_stages`; `Land` and `GiveUp` are
`drain_ref_spawns`.  Frames that find nothing to do are stutters.  `doubtful` is history: prims
that a replay may have got wrong, because both layers speak of them or because the edit went to a
stage that was then replaced.

**`ModelicaWorker`** has models of three kinds, which share the worker and nothing else.
`Dispatch` is what `on_compile_model` does once past its gate; `Receive` and `StartRound` are the
top of the worker's loop, which empties the channel into the lanes, promotes the steps that wait
behind no compile of their model and takes one compile-shaped command; `Executed` gives every
outcome of a command, failure and panic included; `Respond` is `handle_modelica_responses` with
the barrier it works out; `Tick` is `spawn_modelica_requests`.  A model's clock counts
communication points, so in a tick any ready model may be due.  `Casts` are the bounds of a
behaviour, chosen at its start, so that one run covers several instances.  History variables:
`asked` (the source last sent), `unheard`, `vain` and `returned`, the exceptions the properties
name.

Each module ends with its properties.  A definition that is a plausible faulty variant
of the one after it (`SyncedAckOnly` before `Synced`) is used by no specification; it is there so
that every property can be shown to fail when the code is changed that way (`mutants` in
`PROJECT.json`).

## 3. What the runs check

| run | instance | states (distinct) | properties |
|---|---|---|---|
| `journal_any_order` | 3 authors, 4 entries, no sets, built-in order, any delivery | 190,029 | `TypeOK`, `WellFormed`, `SameEntriesSameHead`, `EditComesLast`, `ImplementsSharedHistory` |
| `journal_scripted_sets` | 3 authors, 3 entries, 2 change sets, scripted order, parents first | 156,879 | `HeadIsMergedTip`, `SetsListTheirEntries`, `Converges` |
| `persistence` | 2 folders, one or both persist, both commands, a policy, 2 edits, 1 crash, failed write or garbled file | 1,581,840 | `RecordedWhileBound`, `StoredWellFormed`, `HistoryIsKept`, `SwapKeepsOpen`, `LoneTimerSaves` |
| `plane_joined` | host, 2 clients that edit while joined, 2 sessions, 2 edits | 548,282 | `EditsAppearOnce`, `HistoryIsUnderWay`, `OwnEditsAreUnderWay`, `EditsReachHost`, `HistoryReachesClients` |
| `plane_offline` | host, 1 client that also edits offline, 2 sessions, 3 edits | 534,186 | `TypeOK`, `IdsNameOneEdit`, `EditsAreKept` |
| `control_handover` | 2 players and the host, 2+1 numbered inputs, takeover allowed, either order of a tick's systems | 1,291,572 | `TypeOK`, `AcksAreIntegrated`, `InputsComeFromTheOwner`, `OwnerIsReconciled` |
| `scene_document` | 2 prims, 3 values, 6 ops, an intent, a peer's op, op ring of 2, 2 file texts and an unparsable one, 1 read under way, an earlier runtime file | 1,625,082 | `UndoRestores`, `UnsavedWorkIsDirty`, `RuntimeStaysOut`, `RuntimeIsKept`, `OpensKeepUnsavedWork` |
| `scene_projection` | the same document, 3 ops, an intent, a peer's op, one referenced prim, op ring of 2, 1 restart | 806,756 | `TypeOK`, `SceneInStep`, `SpawnsAreNotLost`, `SceneCatchesUp` |
| `modelica_worker` | a workbench, a scene and a network model, alone with 2 or 3 sessions or in pairs, clocks up to 2 | 304,197 | `TypeOK`, `LanesKeepOrder`, `ReadyModelsAgree`, `NoProtocolFault`, `WaitsAreAnswered`, `BarrierIsReleased` |
| `plane_reopened`, `control_late_record`, `scene_reload` | each as small as its case | stops at the violation | one each, section 6 |

What is proved for every instance and would only repeat another run's property is in no run: the
type invariants of persistence and of a document alone, `HeadIsMergedTip` under the built-in policy,
`CounterIsHonest` (which `LoneTimerSaves` has in it) and `SessionOnlyLeavesNoTrace`.

Why the bounds are enough.  *Journal*: three authors are needed for two peers to take in a
third's entries in different orders, and four entries for a fork that is merged and then
extended, in which a child arrives before its parent.  Two sets make two peers number a set 1.
*Persistence*: two folders are what a misrouted save needs; two edits let one be stored and one
not; one fault separates a session from the next, and `HistoryIsKept` is only claimed up to one.
*Plane*: two clients are the least for the host to relay; a second session lets a client join
twice, with its entries of the first stay under the old author.  *Control*: two remote players
and the host are the parties of a handover; `Cap = 1` puts the skip to the newest input within
reach of two waiting inputs; the window `MaxSeqJump = 2` is as wide as the numbers given out, so
that no input is refused as implausible here (section 6 has the case).  One player numbers two inputs, the other one: the
sequences are of different lengths, so a stale acknowledgement of one can be below, equal
to or past the other's.  *Document*: a prim of the file and one spawned at run time, so that both
layers have something of their own and one prim in common; four edits overflow an op ring of two
and leave an undo, a redo and a save in between; one read under way is enough to end late.
*Projection*: three edits overflow the ring, one restart meets a waiting spawn or an edit.
*Modelica*: three sessions let an answer be stale by two; two classes let the worker keep an old
one; pairs are the least to share the worker's lanes, and a pair of three would add no new kind of
neighbour, as models meet only in the lanes and at the barrier.

Deadlock is not checked where users may simply stop and every bounded action is used up
(`journal_*`, `plane_*`, `control_*`, `scene_*`).

## 4. Fairness

* `TwinJournal`: an entry a peer lacks is offered until taken in.  Nobody is made to edit.  This
  stands for the plane, whose own liveness is checked without it.
* `JournalPersistence`: the timer, a system that runs every frame.  `LoneTimerSaves` claims
  something only while the Twin stays open and bound.
* `JournalPlane`: the ferry systems run every frame and a live connection delivers.  Joining,
  connecting, leaving and losing a connection are not fair.
* `ControlInput`: the fixed schedule, snapshots, and a client's reconciliation.  No input has to
  arrive and nobody has to drive.
* `SceneProjection`: `sync_twin_overlays` and `drain_ref_spawns` run every frame, and a load ends.
  A spawn need not land: after its last attempt it is given up.
* `ModelicaWorker`: the worker thread runs while it has work, and the frames go on while the
  barrier holds the fixed tick.  No tick, no command of the user is fair: the barrier must come
  down by the worker and the frames alone.

All of it is weak fairness: each of these steps, once possible, stays possible until it is taken
or something else makes it moot.

## 5. What is proved

TLAPS checks these for every value of the constants, among them the bounds.

| theorem | module | statement |
|---|---|---|
| `Invariant` | `TwinJournalProofs` | `Spec => []IInv`, the invariant described below |
| `TypeCorrect` | | `Spec => []TypeOK` |
| `JournalsWellFormed` | | `Spec => []WellFormed` |
| `IdsAreUnique` | | `Spec => []IdsNameOneEntry` |
| `HeadsConverge` | | `Strategy = "default"` implies `Spec => []SameEntriesSameHead` |
| `EditsComeLast` | | `Spec => EditComesLast`, for either strategy |
| `HistoryImplemented` | | `Strategy = "default"` implies `Spec => ImplementsSharedHistory` |
| `SetsAreComplete` | | `Spec => []SetsListTheirEntries`, for either strategy |
| `HeadsAreMergedTips` | | `Strategy = "default" \/ CausalDelivery` implies `Spec => []HeadIsMergedTip` |
| `TypeCorrect` | `JournalPersistenceProofs` | `Spec => []TypeOK` |
| `BindingsDoNotMix` | | `Spec => []RecordedWhileBound` |
| `StoredJournalsWellFormed` | | `Spec => []StoredWellFormed` |
| `OpenTwinFlushed` | | `Spec => SwapKeepsOpen` |
| `SessionOnlyUntouched` | | `Spec => SessionOnlyLeavesNoTrace` |
| `OneFaultLosesNothing` | | at most one fault implies `Spec => HistoryIsKept` |
| `TimerIsNotFooled` | | at most one fault implies `Spec => []CounterIsHonest` |
| `TypeCorrect` | `JournalPlaneProofs` | `Spec => []TypeOK` |
| `EditsStay` | | `Spec => EditsAreKept` |
| `IdsAreShared` | | `Reopened = {}` implies `Spec => []IdsNameOneEdit`, with offline edits too |
| `EditsStaySingle` | | `Reopened = {}` and no offline edits imply `Spec => []EditsAppearOnce` |
| `HistoryNeverSlips` | | `Reopened = {}` implies `Spec => []HistoryIsUnderWay`, with offline edits too |
| `OwnEditsNeverSlip` | | `Reopened = {}` and no offline edits imply `Spec => []OwnEditsAreUnderWay` |
| `TypeCorrect` | `ControlInputProofs` | `Spec => []TypeOK` |
| `AcksFollowTicks` | | `Spec => []AcksAreIntegrated` |
| `InputsAreTheOwners` | | `Spec => InputsComeFromTheOwner` |
| `DocumentTypeCorrect` | `SceneProofs` | `DocumentSpec => []DocumentTypeOK` |
| `UndoIsFaithful` | | `DocumentSpec => []UndoRestores` |
| `CleanMeansSaved` | | `DocumentSpec => []UnsavedWorkIsDirty` |
| `OpensAreSafe` | | `DocumentSpec => OpensKeepUnsavedWork` |
| `RuntimeReachesItsFile` | | `DocumentSpec => []RuntimeIsKept` |
| `RuntimeNeverLeaks` | | `DocumentSpec => []RuntimeStaysOut` |
| `ProjectionImplementsDocument` | | `Spec => DocumentSpec` |
| `SceneKeepsDocument` | | the five of a document but its type, under `Spec` |
| `SceneTypeCorrect` | | `Spec => []TypeOK` |
| `StageInStep` | | `Spec => []SceneInStep` |
| `SpawnsLandOrWait` | | `Spec => []SpawnsAreNotLost` |
| `TypeCorrect` | `ModelicaWorkerProofs` | `Spec => []TypeOK` |
| `LanesInOrder` | | `Spec => []LanesKeepOrder` |
| `ReadyAgree` | | `Spec => []ReadyModelsAgree` |
| `NoFault` | | `Spec => []NoProtocolFault` |
| `AwaitedAnswer` | | `Spec => []WaitsAreAnswered` |

Assumptions are the named `ASSUME`s of the modules: authors are positive integers, every author
is a payload (an entry says who made it), the strategy is one of the two; null values are not
inputs, slots, sessions, contents or files; ops given are ops; bounds are natural numbers.

**The journal.**  The properties are not inductive.  That two peers with the same entries have
the same head needs a description of the head that mentions one journal only: under the built-in
order it is the greatest key held (`HeadIsGreatest`).  Local edits keep that because the clock is
past every held key; a fast-forward keeps it because the new entry has the old head, which is
the greatest, among its parents, and parents are earlier; a re-linearization keeps it because
the merged order ascends (`MergedOrderAscends`) and so ends with the greatest key
(`MergedTipIsGreatest`).  The invariant is

    IInv == TypeOK /\ (\A p \in Authors : Kept(p)) /\ Made

`Kept(p)`: the journal is `p`'s, with the common strategy, its log, map, parents, clock and head
agree, and it holds only entries that were made.  `Made`: a made id names one entry, its author
holds it (so the author's clock is past it and its next id is new), its parents are earlier.
`JournalProofs` has the lemmas on the operators: what each changes, and that `AppendLocal` and
`AppendRemote` keep a journal consistent.  In `TwinJournalProofs`, one lemma per action.

*The refinement.*  `HeadIsLatest`: a journal whose head is held and greatest has under `main`
exactly the latest of its entries.  So an edit is a `Publish` (its key is past all its author
holds, and its id is new), the first delivery of an entry a `Learn`, and a repeated delivery or
a change set a stutter (`EditImplements`, `ReceiveImplements`, `ChangeSetImplements`).

*Change sets.*  Other peers' entries join a local set that happens to have their number, so the
property speaks of the peer's own.  `SetsKept` adds that no entry of the peer names a set not yet
opened (so a new set starts out complete) and that a set lists only ids the journal holds (so a
new id, greater than all held, goes last: `InsertKeepsSets`).

*The merged order.*  A consistent journal has exactly one: while an entry is not placed one is ready
(`SomeAreReady`: the earliest, whose parents are earlier), the ready ones have a least
(`BeforeOrder`), so there is an order of as many entries as are held (`MergedOrderExists`, by
induction over its prefixes); two orders that agree so far agree on the next
(`MergedOrderUnique`).  Hence `AppendRemote` never blocks and gives one journal.  Under the built-in
policy its end is the greatest key, which is the head.  Under a scripted one the head is the end as
long as what is fast-forwarded to has nothing held built on it (`ExtensionComesLast`): a local
edit never has, a remote entry has not if none arrives before its parents.  Without that the property
fails, see section 6, and the proof does too.

**Persistence.**  Sound journals hold only edits recorded while the Twin they are bound to was bound,
or while none was (`MadeUnder`), are well formed, and stay so through `Reloaded`, every append and
every swap (`LoadedIsSound`, `RecordIsSound`); files hold what a sound journal was when saved.  For
`HistoryIsKept`, a ghost invariant follows each entry once stored: it is in the file, or in what was
set aside of it, or in the live journal that will be flushed (`Carried`).  With two faults it can be
in none: a file is garbled and the write that sets it aside fails.  Hence the assumption of
`OneFaultLosesNothing`.

The timer compares lengths, so `LoneTimerSaves` rests on `CounterIsHonest`: equal lengths mean that
the file has every edit.  With `Carried`, the file is part of the live journal; `Counted` adds that
the counter is at most the number of ids in the file, as files of a Twin that persists alone only grow
until one is set aside.  Then a counter equal to the live journal's length leaves no room between
the two sets.  Two faults make it false, as TLC shows: a garbled file that could not be set aside is
overwritten by a shorter journal, which later grows to the length of the counter.

**The plane.**  `TInv` types the journals, the cursors and everything in flight and says that every
journal is consistent; that a tail of the log is a sequence of the journal's entries is by
induction on the tail (`ByPicks`).  It carries `TypeCorrect` and, since a rebind that would
collide is refused, `EditsStay`.  That an id names one edit is not inductive: a client's entries
change their names at the handshake, while copies of them may be on the host and on their way
back.  `NInv` adds

* `NamesAreOwn`: a client goes by its install's author until it has taken the handshake, by the
  session from then on, and no two peers have a name in common;
* `InstallsStayHome`: what bears the install's author is on that client only, so that renaming
  it leaves no one with the old name;
* `CopiesHaveOriginals`, `SentHaveOriginals`: whatever bears one of a peer's names, wherever it is
  and under whichever of the names, is the edit that the peer has under its journal's author;
* `FromHost`: a client is sent only what the host holds.

These four and what they rest on are `NInv`.  `LateAreKnown` says the same of what a client left behind
when it gave its connection up: under the session it was sent in, it has its originals as long as
the client goes by that session's name, its ids name the edits they name elsewhere, and a session
that is in use has nothing of the kind.

    IInv == NInv /\ LateAreKnown

It needs `Reopened = {}`: a Twin opened in the session leaves its journal under `local`, which is two
peers' name, and `plane_reopened` shows what comes of it.  `OInv`, for `EditsAppearOnce`, adds that
nobody has entries of an install's author, that what a client sent it holds under the session
it is bound to, that what it left behind some peer holds, and that an edit has one id on all peers.

*What the liveness of the plane rests on.*  `HistoryIsUnderWay` and `OwnEditsAreUnderWay` are what
`HistoryReachesClients` and `EditsReachHost` need beside fair frames: whatever a peer is to get is
in a place that a fair step empties.  Each is one inclusion between what one peer holds and four
places; what makes it inductive is where the cursor stands.

    HInv == IInv /\ CursorsInLogs /\ HistoryIsUnderWay
    WInv == OInv /\ CursorsInLogs /\ own entries of a joined client are in OwnReached

`CursorsInLogs` says that no cursor is past its log, so that what a peer records or takes in is past
the cursor (`TakenInLog`, `LocalGrows`, `PastGrows`) and a ship moves exactly that onto the wire
(`ShipHistory`, `ShipOwn`).  A joiner is owed the whole log, the part past the cursor included, so
nothing falls between replay and live tail (`ConnectHistory`).  `IInv` is needed where an entry
arrives that is dropped as known: the edit is then held under that id, since an id names one edit.
The second invariant needs `OInv`: until the handshake nothing anywhere bears the session's name
(`NoneBeforeHandshake`), so a client has nothing of its own behind the cursor at the moment it
becomes joined.  With offline edits it has, and the property fails as section 6 tells.

**Control input.**  `Sound(h)`: the slot's number is at most the cursor and what waits is past
it.  It is kept by each of the operators that build the buffer (`RecordedIsSound`,
`PushedIsSound`, `SyncedIsSound`, `AppliedIsSound`), so `IInv == TypeOK /\ Sound(host)` is
inductive and `AcksAreIntegrated` follows.  That a tick integrates the owner's inputs needs to know, between
ticks, whose inputs wait: `Traced` says that, unless a change is hidden, either the slot is another's,
so that the next sync will clear the record, or everything that waits or is latched is the owner's.
A change of owner that is not `Unseen` leaves the slot with another owner or nothing to clear;
a recording on arrival keeps it, or hides the change; a tick that syncs first leaves the owner's
inputs only (`TickedHeld`), and one that applies first is hidden just when it should have cleared.
No constant is assumed anything of.

**The document.**  `InverseRestores`: the inverse of an accepted op is accepted after it and brings
both layers back, by cases on the four kinds and on what the layer said before.  With it
`UndoRestores` is inductive: an apply pushes an entry that reaches the layers of before
(`PushRestores`), an undo pops one and pushes its inverse on the other stack (`PopRestores`), a
step past the host forgets all (`ForgottenRestores`).  `RuntimeStaysOut` is strengthened to
`StaysOut`: a value only runtime ops carry is in no place the base layer or the file can come
from next, which are the base layer, the file, every read still to be drained, and every
base-layer op on the two stacks, inverses included (`FreeAfter`).

**The projection** leaves the document alone or makes one of its steps (`ProjectionStep`), so
what is proved of a document holds whatever the stage does.  That the stage is in step is not
inductive: it speaks of a projection that has caught up, and the stage gets there from content
that was behind by any number of ops, onto which a load may meanwhile have put older content
still.  The strengthening says what such content has in common.  `Shows(E, p, x, y)` describes,
without replaying, what the entries `E` make of a prim of which the stage says `x`: the last that
sets or removes it decides, or else `x` does, and an add brings a missing prim back; `Stays` is
the same for a prim that only has to be there.  `Tracks` says that the entries not yet synced make
of the content what the composed layers say, unless both layers have to do with the prim.

    SceneInv == Typed /\ SceneTyped /\ Numbered(opLog, generation)
                /\ Fresh(overlay) /\ (loading = "read" => Fresh(incoming)) /\ Lagging

`Numbered`: the ring holds the newest ops without gaps, so counting them tells whether any is
missing (`NewerListsUnsynced`, by induction over the ring).  `Fresh`: an overlay of this
generation shows it.  `Lagging`: as long as the next sync can replay (`Incremental`: nothing has
left the ring, no op replaces a layer), the stage, an overlay no older than the last sync, the one
being mounted and the document itself all track the document.  An edit adds one op to the
ring and does the same to the layers and to what a replay makes of any content (`MoreTracks`); an
intent does so twice; an overflow, a reload or an undo by the whole layer makes `Incremental`
false, and the stage is rebuilt.  That the replay leaves what `Shows` and `Stays` say,
waiting spawns included, is by induction over the ops (`ReplayedAllShows`); as they allow one value only
(`ShowsOne`), the stage is level after a sync (`ReplayLevels`).

**The Modelica worker.**  None of the three properties is inductive, and each needs the others: that no
step is refused for its clock needs that the stepper is the one the model has in mind, which
needs that answers come in the order of the commands, which needs that the sessions do.  The
invariant is

    IInv == Typed /\ Ordered /\ (\A m \in Models \ returned : GoodModel(m))
            /\ LibraryFirst /\ NoProtocolFault

`Ordered` takes the answers, the round, the two lanes and the channel as one row in which whatever is
ahead may be (`Before`): of one model, an earlier session or step, and no library behind a
workbench command.  A removal has no session to compare; what is ahead of one must be of a model whose
component is gone.  Each way a command travels keeps the row (`LinedSent`, `LinedBefore`,
`LinedInstead` for the one that replaces another, `LinedAnswered`, `LinedTaken`), and so does a
round, which lets the steps with no compile of their model ahead go first (`LinedRound`).

`GoodModel(m)` takes one model's end of the protocol apart from all others: its component, the
source last asked for, the worker's session, cache and stepper of it, its commands and answers
under way (as sets; `Ordered` says in which order they come).  Its parts:

* `SessionsFollow`: what waits is of a session the worker has reached or will, and neither it nor
  the worker is past the component's;
* `StepsAreAlone`: a step of the current session is the only thing under way, and where no answer
  is awaited nothing is;
* `Settled`: the newest source that waits is the one asked for; if none waits the worker has it,
  or an answer under way, or one dropped as stale (`unheard`), says that it has not;
* `AnswersAreTrue`, `StepsAreDue`, `ReadyIsTuned`: whoever of the answer, the step under way or the
  idle component is to speak next knows the stepper's session, source and time;
* `Unasked`, `Classed`, `SourcesAreAsked`, `RemovedIsUnknown`: where a component, a source or the
  worker's knowledge come from, across removals too.

An action touches one model, a tick those that are due, and the others are as they were
(`GoodUntouched`).  For each thing that can happen to a model a lemma says that `Good` is kept: a
session begun with a command or without (`GoodBegun`, `GoodSilently`), a removal (`GoodRemoved`,
`GoodDespawned`), a step sent (`GoodStepSent`), a command executed with any outcome, a panic
included (`GoodExecuted`), an answer dropped (`GoodDropped`) or taken (`GoodTaken`).  An answer of the component's session is the last
thing under way (`AnswersAreLast`), which is why it is never a violation.  `returned` is left
out for cause: a network generated again begins at sessions the worker may have heard of.

`WaitsAreAnswered` is what `BarrierIsReleased` needs beside fairness.  Its inductive form is
`AwaitedIsHeard`, with `IInv` for the types: whoever makes a model wait sends a command of its
session, but for the scene model in `vain`; a command that another replaces has an answer of its
own; a round only moves commands, and executing one, a panic included, leaves an answer of its
session; and an answer is dropped only where a later one is awaited, while one that is taken ends
the wait.  Only a removal goes unanswered, and nothing waits for that.

**Left to TLC.**  Liveness, as the provers cannot reason about fairness and `ENABLED`: `Converges`,
`LoneTimerSaves`, `EditsReachHost`, `HistoryReachesClients`, `OwnerIsReconciled`,
`SceneCatchesUp`, `BarrierIsReleased`.  Every invariant and action property of a passing run is
a theorem, some under the conditions the table names.
The library's induction theorems are stated for operators, which the provers cannot
instantiate; `Recursion` has them for sets and functions (`InductionOnNat`, `RecursionExists`),
from the well-foundedness of the naturals, so a definition that is to be proved about is written
as a recursive function, as `By` in `JournalPlane`, `Newer` in `SceneProjection` and `Picked` in
`ModelicaWorker` are.

## 6. Where the code does not do what it says

Each of these is a run that TLC finds violated; `findings` in `PROJECT.json` quotes the comment.

* `plane_reopened`: a Twin opened in the session leaves the journal with the placeholder author
  `local`.  Two peers that do this mint the same ids for different edits, and each drops the
  other's.
* `control_late_record` (`LosesBoth`): a drive recorded between a change of owner and the next tick
  hides the change; the previous owner's queue and its latched input are written on, tick after tick.
  The trace TLC prints is the shortest; a tick that applies before it syncs violates the property too.
* `scene_reload` (`ReloadKeepsEdits`): an edit made while a restarted scene's stage still loads is replayed onto the
  old stage and counted as shown; the stage that then takes its place lacks it.

The rest was met while modelling and has no run of its own.  The models contain it; the
properties name it as an exception or say nothing of it.

*Journal and persistence*

* There is one live journal.  With two Twins open (`AddTwin`, or two scans that end one after the
  other) edits of the first one's documents go into the journal of the Twin bound last, and into its
  folder; the comment at `lunco-workspace/src/journal_persistence.rs:167` says so.  Documents are not in
  the model: `RecordedWhileBound` says which binding an edit was recorded under, not whose document it
  changed.
* `OpenTwin` closes all Twins at once and flushes when the new one is added, by which time the
  outgoing journal's folder is no longer open: what was not saved yet is dropped.  `AddTwin` does
  not have the problem, which is what `SwapKeepsOpen` shows.
* The timer's last saved length is not reset at a swap, so a second Twin whose journal has that
  length is not saved until it grows again.  `LoneTimerSaves` is about one persisting Twin.
* Adding the Twin that is already bound reloads its file without a flush, which only another
  Twin's journal gets.  A swap also resets the merge strategy until the policy is projected again.
* A journal file that cannot be read for a passing reason counts as missing; if the write that
  sets an unparsable file aside fails, the next save overwrites the only copy.
* Under a scripted policy, when an entry overtakes its parent, the parent that then arrives can
  be fast-forwarded to although the entry already held sorts after it; the head stays behind until
  the next re-linearization.  With `CausalDelivery = FALSE` in `journal_scripted_sets`, TLC finds it.

*Plane*

* The cursor passes entries that were queued while there was no sender.  They are renamed at the
  handshake so that they would be sent, but the cursor does not move back.
* An edit shipped in the frames between connecting and taking the handshake comes back from the
  host under the session's author as a second entry of the same edit, and the handshake, whose
  renaming would now collide, is refused.  `EditsAppearOnce` is therefore checked where clients
  edit only while joined.
* After a rebind the head is the renamed entry, which need not be the last of the new order.

*Control*

* A hidden change of owner leaves the buffer's cursor as well.  B queues an input, A takes the vessel
  over before a tick, when there is no slot yet; the tick integrates B's input on A's account, and A's
  own, which start at lower numbers, are dropped as old and never reconciled until the vessel changes
  hands in the sight of the sync.  `OwnerIsReconciled` fails this way when `~hidden` is taken out of it.
* The cap of the input buffer bounds how many inputs wait, not how far the skip to the newest goes,
  although the comment on `MAX_SEQ_JUMP` takes it for a bound of the latter.  A host whose ticks
  pause for more than `MAX_SEQ_JUMP` inputs (16 s, within the connection's timeout of 30 s) skips to
  one that the acknowledgement refuses, and refuses all that follow until the vessel changes
  hands.  `OwnerIsReconciled` shows it when `control_handover` is given one player with four
  numbered inputs and the window of 2.  The buffer too refuses numbers more than `MAX_SEQ_JUMP`
  past all it knows, so as many inputs lost in a row have the same effect.

*Scene*

* An intent of several ops is one undo entry per op: one undo leaves it half done.
* An undo whose inverse is a whole layer takes with it what a peer's replayed edit put in that
  layer since.
* A read that started before a save and ends after it replaces the saved text of a clean document
  by the older one.
* An undo that empties the runtime layer leaves the runtime file as it was, so the next session
  restores what was undone.
* A spawn undone while it waits is authored all the same when its asset lands, a ghost; one that
  is given up stays off the stage until the next load.
* A replayed op does not look at its layer: a base edit under a stronger runtime value shows, and
  a removal in one layer removes what the other still has, until the next rebuild.

*Modelica*

* A compile of another class fails and a reset overtakes its answer: the failure is dropped as
  stale, the model stays compiled, and the worker steps the old class under the new one's name.
  A panic overtaken by a reset leaves a model that counts as compiled with nothing behind it, and
  its next step is a fault (`unheard`).
* A parameter set on a scene model without a document begins a session and a wait, and sends
  nothing: the barrier stays up for good (`vain`).
* A network removed and generated again starts at session 1: old answers of higher sessions stop
  the simulation as protocol violations, and an old answer of session 1 is taken for the new
  model's, even by a network that was rejected (`returned`).
* `ResumeActiveModel` of a model that is not compiled makes it ask for a compile, which leaves it
  paused, though a comment says the handler of the answer unpauses; a resume during a compile is
  lost the same way.  A Run that another compile supersedes leaves its wish to run armed.
* The gate that skips an up-to-date compile ignores the class.
* Squashing two like setpoints and deferring a step behind its own compile never happen between
  commands of the program as it is: every dispatch begins a session and makes the model wait.

## 7. What is not modelled

Of the modelled parts:

* journal: further streams and branches, markers, summaries and `UndoManager`, which nothing but
  tests uses;
* persistence: browser storage and the list of recent Twins;
* plane and sessions: a Twin swapped in while peers are connected (`journal_plane.rs:202`, the branch of
  `Unshipped` for a log shorter than the cursor, is translated but nothing in the module replaces a
  journal); a connection that the host gives up while its client still takes it for live;
  `scene_ops_after` and `domain_ops_after`, which choose what a client
  replays onto its scene; the wire version check; profiles, presence, interest and spawns;
* control: despawn of a vessel (`clear_gid`), poses and the replay of predictions; inputs numbered
  by scripts of the host;
* document: untitled and bundled origins, Save-As, closing, files that do not parse at their first
  open, failed writes, ops other than the four kinds (keyframes, relationships, schemas, moves),
  nested prims, op ids and the parent generation of a mutation;
* projection: Twins added again, the editor's own viewport mount, what the stage is turned into;
* Modelica: read-only documents (a network's, a library's) and their commands, closing a workbench
  document, communication periods and lag, published streams, a closed worker channel, the
  command buffer's delay between sending a scene model's or network's compile and inserting its
  component (`cosim.rs:1360`, `domain_projection.rs:2324`; an answer taken before the next
  flush of commands would find no component and be dropped), the
  browser's inline and Web Workers, Fast Run and experiments, clearing faults with the scene.
  `RuntimeFaults` keeps the first fault only; the model keeps all.

Of the rest, see the table in section 1.  A host that crashes between two saves can reuse ids its
clients have seen; that needs persistence and plane in one module, and is in the plan.

The map covers a small share of the repository's lines: most of them are numerical models,
translation of USD, terrain, rendering and user interface, where there is no protocol to check.

## 8. Plan

In this order; each item with its runs and mutants, and the theorems named.

1. **Persistence with peers.**  A host that crashes and reloads while clients hold entries it
   lost; a rebind in `SharedHistory`'s terms, as a renaming of edits.
2. **Session registry.**  Several vessels and sessions, the takeover hook, roles and command
   policies; a vessel has one owner, a session that ended owns nothing.  Then `ControlInput` for
   a vessel of the registry.
3. **Replayed edits.**  `scene_ops_after` and `domain_ops_after` between `JournalPlane` and
   `SceneDocument`: a client's document becomes the host's.
4. **Snapshot replication.**  Diff caches, interest sets, spawns and despawns on an unreliable
   channel: a client's world becomes the host's once it stops changing.
5. **Readiness gate, behaviour trees, experiments**: small sequential machines with many states;
   each a module with an abstract promise (a hold is released once nothing is pending; a halted
   subtree runs no more; a registry never evicts a run in progress).
6. **Scenario sync**: a client's folder becomes the host's manifest in spite of lost answers and
   resumed downloads.
