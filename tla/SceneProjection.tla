-------------------------- MODULE SceneProjection --------------------------
(***************************************************************************)
(* The live stage that shows a document: sync_twin_overlays replays the    *)
(* document's operations onto it or rebuilds it, a spawn of a referenced   *)
(* asset waits for the asset's files, and a restart loads the stage anew   *)
(* from the overlay while the old stage stays in place.                    *)
(***************************************************************************)
EXTENDS SceneDocument

CONSTANTS
    Referenced,       \* prims whose add carries a reference to an asset
    MaxRestarts       \* bound: restarts of the scene

ASSUME SceneAssumption == Referenced \subseteq Prims /\ MaxRestarts \in Nat

VARIABLES
    stage,       \* the CanonicalStage of the scene, or Nowhere
    loaded,      \* referenced prims whose asset the stage's resolver holds
    loading,     \* whether the asset is loaded anew, and read the overlay already
    incoming,    \* the overlay as the load has read it, or Nowhere
    overlay,     \* the twin overlay: its text and, as history, its generation
    synced,      \* synced_generation
    written,     \* overlay_synced_generation
    spawns,      \* PendingRefSpawns
    restarts,    \* restarts so far
    doubtful     \* history: prims whose live state the replay may have wrong

sceneVars == <<stage, loaded, loading, incoming, overlay, synced, written, spawns, restarts, doubtful>>
vars == <<docVars, sceneVars>>

NoTranslate == Absent
Overlay(ls, g) == [text |-> Composed(ls), gen |-> g]
Pending == {spawns[i].prim : i \in DOMAIN spawns}
-----------------------------------------------------------------------------
(* drain_pending_twin_docs publishes the overlay, counts the document as    *)
(* synced and asks for the stage.                                           *)
Init ==
    /\ DocumentInit
    /\ stage = Nowhere /\ loaded = {} /\ loading = "asked" /\ incoming = Nowhere
    /\ overlay = Overlay(layers, generation)
    /\ synced = generation /\ written = generation
    /\ spawns = <<>> /\ restarts = 0 /\ doubtful = {}

(* ops_since: the entries after `synced`, and whether they are all of them. *)
Newer(log, g) ==
    LET newer[i \in 0..Len(log)] ==
            IF i = 0 THEN <<>>
            ELSE IF log[i].gen > g THEN Append(newer[i-1], log[i])
            ELSE newer[i-1]
    IN  newer[Len(log)]
OpsSince == Newer(opLog, synced)
\* Mutant of OpsAreComplete: whatever the ring still holds will do.
OpsAreThere == OpsSince # <<>>
OpsAreComplete == Len(OpsSince) = generation - synced

(* apply_incremental_op_to_stage on a stage and its pending spawns: a set   *)
(* goes to the pending spawn of its prim if there is one, and an add of a   *)
(* prim whose asset is not loaded only queues a spawn.                      *)
Waiting(live, p) == {i \in DOMAIN live.spawns : live.spawns[i].prim = p}
\* Mutant of Replayed: an add whose asset is not loaded is passed over.
ReplayedIfLoaded(op, live) ==
    IF op.kind = "set" /\ Waiting(live, op.prim) # {}
    THEN LET i == CHOOSE k \in Waiting(live, op.prim) :
                      \A m \in Waiting(live, op.prim) : k <= m
         IN  [live EXCEPT !.spawns[i].translate = op.value]
    ELSE IF op.kind = "add" /\ op.prim \in Referenced \ loaded
    THEN live
    ELSE [live EXCEPT !.stage = Authored(op, @)]
Replayed(op, live) ==
    IF op.kind = "set" /\ Waiting(live, op.prim) # {}
    THEN LET i == CHOOSE k \in Waiting(live, op.prim) :
                      \A m \in Waiting(live, op.prim) : k <= m
         IN  [live EXCEPT !.spawns[i].translate = op.value]
    ELSE IF op.kind = "add" /\ op.prim \in Referenced \ loaded
    THEN [live EXCEPT !.spawns = Append(@, [prim |-> op.prim, translate |-> NoTranslate])]
    ELSE [live EXCEPT !.stage = Authored(op, @)]

ReplayedAll(ops) ==
    LET live[i \in 0..Len(ops)] ==
            IF i = 0 THEN [stage |-> stage, spawns |-> spawns]
            ELSE Replayed(ops[i].op, live[i-1])
    IN  live[Len(ops)]

NeedsRebuild(ops) == \E i \in DOMAIN ops : ops[i].op.kind = "replace"

(* History: an incremental replay does not look at an op's layer, so it may *)
(* be wrong for a prim that both layers speak of.                           *)
Mixed(ops) == {p \in Prims : \E i \in DOMAIN ops :
    /\ ops[i].op.prim = p
    /\ \E l \in Layers \ {ops[i].op.layer} :
         layers[l][p] # Absent \/ \E j \in DOMAIN ops : ops[j].op.prim = p /\ ops[j].op.layer = l}

\* Mutants of Sync: an overflown op ring is waited out; the projection drains
\* the document's op log.
SyncIfComplete ==
    /\ synced # generation
    /\ stage # Nowhere
    /\ OpsAreComplete
    /\ IF NeedsRebuild(OpsSince)
       THEN stage' = Composed(layers) /\ doubtful' = {} /\ UNCHANGED spawns
       ELSE /\ stage' = ReplayedAll(OpsSince).stage
            /\ spawns' = ReplayedAll(OpsSince).spawns
            /\ doubtful' = doubtful \union Mixed(OpsSince)
    /\ synced' = generation
    /\ UNCHANGED <<docVars, loaded, loading, incoming, overlay, written, restarts>>

(* sync_twin_overlays, the document having moved on.                        *)
Sync ==
    /\ synced # generation
    /\ stage # Nowhere
    /\ IF ~OpsAreComplete \/ NeedsRebuild(OpsSince)
       THEN /\ stage' = Composed(layers)
            /\ doubtful' = {}
            /\ UNCHANGED spawns
       ELSE /\ stage' = ReplayedAll(OpsSince).stage
            /\ spawns' = ReplayedAll(OpsSince).spawns
            /\ doubtful' = doubtful \union Mixed(OpsSince)
    /\ synced' = generation
    /\ UNCHANGED <<docVars, loaded, loading, incoming, overlay, written, restarts>>

\* Mutant of WriteOverlay: the overlay is written while edits still come in.
WriteOverlayEagerly ==
    /\ written # generation
    /\ overlay' = Overlay(layers, generation)
    /\ written' = generation
    /\ UNCHANGED <<docVars, stage, loaded, loading, incoming, synced, spawns, restarts, doubtful>>

(* sync_twin_overlays, the document having settled: write_twin_overlay.     *)
WriteOverlay ==
    /\ synced = generation
    /\ written # generation
    /\ overlay' = Overlay(layers, generation)
    /\ written' = generation
    /\ UNCHANGED <<docVars, stage, loaded, loading, incoming, synced, spawns, restarts, doubtful>>

(* RestartScene, one at a time: the document is read again or reset, the    *)
(* overlay replaced whatever came of that, and the stage asked for anew.    *)
Restart(full) ==
    /\ loading = "none"
    /\ restarts < MaxRestarts
    /\ Reread(full)
    /\ overlay' = Overlay(layers', generation')
    /\ loading' = "asked"
    /\ restarts' = restarts + 1
    /\ UNCHANGED <<incoming, stage, loaded, synced, written, spawns, doubtful>>

(* The asset loader reads the overlay, and later the stage built from it    *)
(* takes the old stage's place.                                             *)
ReadOverlay ==
    /\ loading = "asked"
    /\ loading' = "read"
    /\ incoming' = overlay
    /\ UNCHANGED <<docVars, stage, loaded, overlay, synced, written, spawns, restarts, doubtful>>

MountStage ==
    /\ loading = "read"
    /\ stage' = incoming.text
    /\ loaded' = {p \in Referenced : incoming.text[p] # Absent}
    /\ loading' = "none"
    /\ incoming' = Nowhere
    /\ doubtful' = IF incoming.gen < synced THEN Prims ELSE {}
    /\ UNCHANGED <<docVars, overlay, synced, written, spawns, restarts>>

(* drain_ref_spawns: the asset is there and the prim authored, unless the   *)
(* stage is gone, or it is given up after MAX_REF_SPAWN_ATTEMPTS frames.    *)
Others(i) == [k \in 1..Len(spawns)-1 |-> IF k < i THEN spawns[k] ELSE spawns[k+1]]

Land(i) ==
    LET p == spawns[i].prim
    IN  /\ spawns' = Others(i)
        /\ IF stage = Nowhere THEN UNCHANGED <<stage, loaded>>
           ELSE /\ loaded' = loaded \union {p}
                /\ stage' = [stage EXCEPT ![p] =
                       IF spawns[i].translate # NoTranslate THEN spawns[i].translate
                       ELSE IF @ = Absent THEN Bare ELSE @]
        /\ UNCHANGED <<docVars, loading, incoming, overlay, synced, written, restarts, doubtful>>

GiveUp(i) ==
    /\ spawns' = Others(i)
    /\ doubtful' = doubtful \union {spawns[i].prim}
    /\ UNCHANGED <<docVars, stage, loaded, loading, incoming, overlay, synced, written, restarts>>

EndWait == \E i \in DOMAIN spawns : Land(i) \/ GiveUp(i)

Next ==
    \/ DocumentEdit /\ UNCHANGED sceneVars
    \/ \E full \in BOOLEAN : Restart(full)
    \/ Sync
    \/ WriteOverlay
    \/ ReadOverlay
    \/ MountStage
    \/ EndWait

(* The systems run every frame and asset loads come to an end.              *)
Fairness ==
    /\ WF_vars(Sync) /\ WF_vars(WriteOverlay)
    /\ WF_vars(ReadOverlay) /\ WF_vars(MountStage)
    /\ WF_vars(EndWait)

Spec == Init /\ [][Next]_vars /\ Fairness
-----------------------------------------------------------------------------
(* The stage and the overlays hold composed content, the watermarks of the  *)
(* projection never pass the document, and a pending spawn is of a prim     *)
(* that refers to an asset.                                                 *)
TypeOK ==
    /\ DocumentTypeOK
    /\ stage \in Content \union {Nowhere}
    /\ loaded \subseteq Referenced
    /\ overlay \in [text : Content, gen : 0..generation]
    /\ loading \in {"none", "asked", "read"}
    /\ incoming \in [text : Content, gen : 0..generation] \union {Nowhere}
    /\ synced \in 0..generation /\ written \in 0..synced
    /\ spawns \in Seq([prim : Referenced, translate : Values \union {NoTranslate}])
    /\ restarts \in 0..MaxRestarts
    /\ doubtful \subseteq Prims

InStep == stage # Nowhere /\ loading = "none" /\ synced = generation

(* Once the projection has caught up, the live stage says of every plain    *)
(* prim what the document's composed layers say, whether it got there by    *)
(* replaying ops, by an overflow of the op ring, by an undo's whole-layer   *)
(* replacement or by a reload.  Known exceptions: prims both layers speak   *)
(* of, and edits replayed onto a stage that a load then replaced.           *)
SceneInStep == InStep =>
    \A p \in Prims \ (Referenced \union doubtful) : stage[p] = Composed(layers)[p]

(* A referenced prim of the document is on the stage or still waits for its *)
(* asset, across restarts and reloads that happen while it waits.           *)
SpawnsAreNotLost == InStep =>
    \A p \in Referenced \ doubtful :
        Composed(layers)[p] # Absent => stage[p] # Absent \/ p \in Pending

(* "Keep each doc-backed twin scene in step with its document": as          *)
(* SceneInStep, with no exception for edits made while the scene reloads.   *)
ReloadKeepsEdits == InStep =>
    \A p \in Prims \ Referenced : stage[p] = Composed(layers)[p]

(* The projection always catches up with the document, spawns end their     *)
(* wait, and the overlay the next load reads catches up too.                *)
SceneCatchesUp == []<>(InStep /\ spawns = <<>> /\ written = generation)
=============================================================================
