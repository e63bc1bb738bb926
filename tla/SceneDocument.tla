--------------------------- MODULE SceneDocument ---------------------------
(***************************************************************************)
(* A file-backed USD document, its undo history and its files: the base    *)
(* layer a Save writes, the runtime layer kept in a file of its own, the   *)
(* host's undo and redo stacks, edits of peers replayed past the host, and *)
(* a disk that changes behind the program's back.  A layer is a function   *)
(* from prims to what it says of each: nothing, that it exists, or the one *)
(* attribute value that the edits set.                                     *)
(***************************************************************************)
EXTENDS Naturals, Sequences, FiniteSets

CONSTANTS
    Prims,            \* prim paths
    Values,           \* what a set operation can write
    Absent, Bare,     \* a layer without the prim, and with it but no value
    Unparsable,       \* a file that is not USDA
    Lost,             \* nothing known of what an undo entry restores
    Nowhere,          \* no file, no read, no stage
    UserOps,          \* operations the user applies
    ChangeSets,       \* pairs of operations applied as one intent
    RemoteOps,        \* operations of peers, replayed from the journal
    Texts,            \* what the scene file may hold when it parses
    RuntimeTexts,     \* what an earlier session may have left of the runtime layer
    OpRing,           \* CHANGE_HISTORY_CAPACITY, 256 in the code
    MaxGeneration,    \* bound: edits of a session
    MaxReads          \* bound: reads of the file under way

Layers == {"base", "runtime"}
Content == [Prims -> Values \union {Absent, Bare}]
Nothing == [p \in Prims |-> Absent]
Op == [kind : {"set"}, layer : Layers, prim : Prims, value : Values]
      \union [kind : {"add", "remove"}, layer : Layers, prim : Prims]
      \union [kind : {"replace"}, layer : Layers, text : Content]

ASSUME ContentAssumption == /\ Absent # Bare
                            /\ {Absent, Bare} \intersect Values = {}
ASSUME OpsAssumption == /\ UserOps \subseteq Op
                        /\ RemoteOps \subseteq Op
                        /\ ChangeSets \subseteq Op \X Op
ASSUME FilesAssumption == /\ Texts \subseteq Content
                          /\ RuntimeTexts \subseteq Content
                          /\ Unparsable \notin Texts
                          /\ Nowhere \notin Content
                          /\ Lost \notin [Layers -> Content]
ASSUME BoundsAssumption == /\ OpRing \in Nat \ {0}
                           /\ MaxGeneration \in Nat
                           /\ MaxReads \in Nat

VARIABLES
    layers,      \* UsdDocument.base and .runtime
    generation,  \* UsdDocument.generation
    saved,       \* UsdDocument.last_saved_generation
    opLog,       \* UsdDocument.op_log
    undo, redo,  \* DocumentHost.undo_stack and .redo_stack
    disk,        \* the scene file
    moved,       \* the file is newer than the registry's watermark
    reads,       \* PendingUsdLoads: texts read and not yet drained
    changed,     \* a DocumentChanged event is due
    kept,        \* the runtime file under .lunco/
    baseline     \* history: the base layer when it was last read or saved

doc == <<layers, generation, saved, opLog, undo, redo, changed, baseline>>
files == <<disk, moved, reads, kept>>
docVars == <<layers, generation, saved, opLog, undo, redo,
             disk, moved, reads, changed, kept, baseline>>
-----------------------------------------------------------------------------
(* UsdDocument::apply                                                       *)

Accepts(op, ls) ==
    CASE op.kind = "set"    -> \E l \in Layers : ls[l][op.prim] # Absent
      [] op.kind = "remove" -> ls[op.layer][op.prim] # Absent
      [] OTHER              -> TRUE

Authored(op, text) ==
    CASE op.kind = "set"     -> [text EXCEPT ![op.prim] = op.value]
      [] op.kind = "add"     -> [text EXCEPT ![op.prim] = IF @ = Absent THEN Bare ELSE @]
      [] op.kind = "remove"  -> [text EXCEPT ![op.prim] = Absent]
      [] op.kind = "replace" -> op.text

After(op, ls) == [ls EXCEPT ![op.layer] = Authored(op, @)]

Replace(l, text) == [kind |-> "replace", layer |-> l, text |-> text]

CoarseInverse(op, ls) == Replace(op.layer, ls[op.layer])

(* The stronger runtime layer over the base layer.                          *)
Composed(ls) == [p \in Prims |->
    IF ls["runtime"][p] \in Values THEN ls["runtime"][p]
    ELSE IF ls["base"][p] # Absent THEN ls["base"][p]
    ELSE ls["runtime"][p]]

\* Mutant of Inverse: the value to restore is read from the composed layers.
InverseOfComposed(op, ls) ==
    IF op.kind = "set" /\ Composed(ls)[op.prim] \in Values
    THEN [op EXCEPT !.value = Composed(ls)[op.prim]]
    ELSE IF op.kind = "add" /\ ls[op.layer][op.prim] = Absent
    THEN [kind |-> "remove", layer |-> op.layer, prim |-> op.prim]
    ELSE CoarseInverse(op, ls)

(* A set is undone by a set only over a value of the same layer, an add by  *)
(* a remove only where it made the prim; all else restores the whole layer. *)
Inverse(op, ls) ==
    IF op.kind = "set" /\ ls[op.layer][op.prim] \in Values
    THEN [op EXCEPT !.value = ls[op.layer][op.prim]]
    ELSE IF op.kind = "add" /\ ls[op.layer][op.prim] = Absent
    THEN [kind |-> "remove", layer |-> op.layer, prim |-> op.prim]
    ELSE CoarseInverse(op, ls)

Logged(log, g, op) ==
    LET longer == Append(log, [gen |-> g, op |-> op])
    IN  IF Len(log) = OpRing THEN Tail(longer) ELSE longer

(* What a whole-layer change that is no edit leaves in the log.             *)
Marker(l) == Replace(l, Nothing)

(* An undo or redo entry: the op and, as history, the layers it brings back. *)
Entry(op, ls) == [op |-> op, restores |-> ls]

Forgotten(stack) == [i \in DOMAIN stack |-> [stack[i] EXCEPT !.restores = Lost]]

Last(stack) == stack[Len(stack)]
Front(stack) == SubSeq(stack, 1, Len(stack) - 1)

Commit(op) ==
    /\ layers' = After(op, layers)
    /\ generation' = generation + 1
    /\ opLog' = Logged(opLog, generation', op)
    /\ changed' = TRUE

HasContent(text) == \E p \in Prims : text[p] # Absent
-----------------------------------------------------------------------------
(* A file is opened, and the runtime layer of an earlier session restored   *)
(* when that is switched on; a restore is logged as a whole-layer change    *)
(* and leaves a clean document clean.                                       *)
DocumentInit ==
    /\ disk \in Texts
    /\ kept \in RuntimeTexts \union {Nowhere}
    /\ baseline = disk
    /\ \E load \in BOOLEAN :
         IF load /\ kept # Nowhere
         THEN /\ layers = [l \in Layers |-> IF l = "base" THEN disk ELSE kept]
              /\ generation = 1
              /\ opLog = Logged(<<>>, 1, Marker("runtime"))
         ELSE /\ layers = [l \in Layers |-> IF l = "base" THEN disk ELSE Nothing]
              /\ generation = 0
              /\ opLog = <<>>
    /\ saved = generation
    /\ undo = <<>> /\ redo = <<>>
    /\ moved = FALSE /\ reads = {} /\ changed = TRUE

(* ApplyUsdOp.                                                              *)
Apply(op) ==
    /\ generation < MaxGeneration
    /\ Accepts(op, layers)
    /\ Commit(op)
    /\ undo' = Append(undo, Entry(Inverse(op, layers), layers))
    /\ redo' = <<>>
    /\ UNCHANGED <<saved, baseline, files>>

(* ApplyUsdOps: the whole intent is tried on a clone first, then applied op *)
(* by op, each with an undo entry of its own.                               *)
ApplyIntent(first, second) ==
    LET between == After(first, layers)
    IN  /\ generation + 1 < MaxGeneration
        /\ Accepts(first, layers) /\ Accepts(second, between)
        /\ layers' = After(second, between)
        /\ generation' = generation + 2
        /\ opLog' = Logged(Logged(opLog, generation + 1, first), generation + 2, second)
        /\ undo' = undo \o <<Entry(Inverse(first, layers), layers),
                             Entry(Inverse(second, between), between)>>
        /\ redo' = <<>>
        /\ changed' = TRUE
        /\ UNCHANGED <<saved, baseline, files>>

\* Mutants of Undo: the generation steps back; no DocumentChanged is raised.
UndoStepsBack ==
    /\ generation < MaxGeneration
    /\ undo # <<>>
    /\ Accepts(Last(undo).op, layers)
    /\ layers' = After(Last(undo).op, layers)
    /\ generation' = IF generation = 0 THEN 0 ELSE generation - 1
    /\ redo' = Append(redo, Entry(Inverse(Last(undo).op, layers), layers))
    /\ undo' = Front(undo)
    /\ UNCHANGED <<saved, opLog, changed, baseline, files>>
UndoUnmarked ==
    /\ generation < MaxGeneration
    /\ undo # <<>>
    /\ Accepts(Last(undo).op, layers)
    /\ layers' = After(Last(undo).op, layers)
    /\ generation' = generation + 1
    /\ opLog' = Logged(opLog, generation', Last(undo).op)
    /\ redo' = Append(redo, Entry(Inverse(Last(undo).op, layers), layers))
    /\ undo' = Front(undo)
    /\ UNCHANGED <<saved, changed, baseline, files>>

(* UndoDocument and RedoDocument: an entry the document refuses stays.      *)
Undo ==
    /\ generation < MaxGeneration
    /\ undo # <<>>
    /\ Accepts(Last(undo).op, layers)
    /\ Commit(Last(undo).op)
    /\ redo' = Append(redo, Entry(Inverse(Last(undo).op, layers), layers))
    /\ undo' = Front(undo)
    /\ UNCHANGED <<saved, baseline, files>>

Redo ==
    /\ generation < MaxGeneration
    /\ redo # <<>>
    /\ Accepts(Last(redo).op, layers)
    /\ Commit(Last(redo).op)
    /\ undo' = Append(undo, Entry(Inverse(Last(redo).op, layers), layers))
    /\ redo' = Front(redo)
    /\ UNCHANGED <<saved, baseline, files>>

(* replay_op: a peer's edit goes to the document, past the host.            *)
Replay(op) ==
    /\ generation < MaxGeneration
    /\ Accepts(op, layers)
    /\ Commit(op)
    /\ undo' = Forgotten(undo) /\ redo' = Forgotten(redo)
    /\ UNCHANGED <<saved, baseline, files>>

\* Mutant of Save: the file gets what the stage shows.
SaveComposed ==
    /\ disk' = Composed(layers)
    /\ saved' = generation
    /\ baseline' = layers["base"]
    /\ moved' = FALSE
    /\ UNCHANGED <<layers, generation, opLog, undo, redo, reads, changed, kept>>

(* SaveDocument: only the base layer is written.                            *)
Save ==
    /\ disk' = layers["base"]
    /\ saved' = generation
    /\ baseline' = layers["base"]
    /\ moved' = FALSE
    /\ UNCHANGED <<layers, generation, opLog, undo, redo, reads, changed, kept>>

(* on_doc_changed_save_runtime: an empty runtime layer is not written.      *)
KeepRuntime ==
    /\ changed
    /\ changed' = FALSE
    /\ kept' = IF HasContent(layers["runtime"]) THEN layers["runtime"] ELSE kept
    /\ UNCHANGED <<layers, generation, saved, opLog, undo, redo, disk, moved, reads, baseline>>

(* Another program writes the file.                                         *)
ExternalEdit(text) ==
    /\ text # disk
    /\ ~moved
    /\ disk' = text
    /\ moved' = TRUE
    /\ UNCHANGED <<doc, reads, kept>>
-----------------------------------------------------------------------------
\* Mutant of OpenFile: nobody asks whether the document is dirty.
OpenFileAnyway(text) ==
    IF text = Unparsable
    THEN UNCHANGED <<doc, moved>>
    ELSE /\ layers' = [layers EXCEPT !["base"] = text]
         /\ generation' = generation + 1
         /\ opLog' = Logged(opLog, generation', Marker("base"))
         /\ saved' = generation'
         /\ baseline' = text
         /\ undo' = Forgotten(undo) /\ redo' = Forgotten(redo)
         /\ moved' = FALSE
         /\ changed' = TRUE

(* DocumentRegistry::open_file for a document that is open: unsaved edits   *)
(* win over the file, and text that does not parse changes nothing.         *)
OpenFile(text) ==
    IF saved # generation \/ text = Unparsable
    THEN UNCHANGED <<doc, moved>>
    ELSE /\ layers' = [layers EXCEPT !["base"] = text]
         /\ generation' = generation + 1
         /\ opLog' = Logged(opLog, generation', Marker("base"))
         /\ saved' = generation'
         /\ baseline' = text
         /\ undo' = Forgotten(undo) /\ redo' = Forgotten(redo)
         /\ moved' = FALSE
         /\ changed' = TRUE

(* DocumentRegistry::reset_file: everything goes, history included.         *)
ResetFile(text) ==
    IF text = Unparsable
    THEN UNCHANGED <<doc, moved>>
    ELSE /\ layers' = [l \in Layers |-> IF l = "base" THEN text ELSE Nothing]
         /\ generation' = generation + 1
         /\ opLog' = Logged(opLog, generation', Marker("base"))
         /\ saved' = generation'
         /\ baseline' = text
         /\ undo' = <<>> /\ redo' = <<>>
         /\ moved' = FALSE
         /\ changed' = TRUE

(* OpenFile reads the file on a task and hands the text over frames later.  *)
ReadFile ==
    /\ disk \notin reads
    /\ Cardinality(reads) < MaxReads
    /\ reads' = reads \union {disk}
    /\ UNCHANGED <<doc, disk, moved, kept>>

DrainRead(text) ==
    /\ generation < MaxGeneration
    /\ OpenFile(text)
    /\ reads' = reads \ {text}
    /\ UNCHANGED <<disk, kept>>

(* RestartScene reads the file at once.                                     *)
Reread(full) ==
    /\ generation < MaxGeneration
    /\ IF full THEN ResetFile(disk) ELSE OpenFile(disk)
    /\ UNCHANGED <<disk, reads, kept>>

DocumentEdit ==
    \/ \E op \in UserOps : Apply(op)
    \/ \E ops \in ChangeSets : ApplyIntent(ops[1], ops[2])
    \/ Undo
    \/ Redo
    \/ \E op \in RemoteOps : Replay(op)
    \/ Save
    \/ KeepRuntime
    \/ \E text \in Texts \union {Unparsable} : ExternalEdit(text)
    \/ ReadFile
    \/ \E text \in reads : DrainRead(text)

DocumentNext == DocumentEdit \/ \E full \in BOOLEAN : Reread(full)

DocumentSpec == DocumentInit /\ [][DocumentNext]_docVars
-----------------------------------------------------------------------------
Stack == Seq([op : Op, restores : [Layers -> Content] \union {Lost}])
File == Content \union {Unparsable}

(* Every variable holds what its field can hold, no document was saved at a *)
(* generation it has not reached, and the op ring stays within its size.    *)
DocumentTypeOK ==
    /\ layers \in [Layers -> Content]
    /\ generation \in Nat /\ saved \in 0..generation
    /\ opLog \in Seq([gen : Nat, op : Op]) /\ Len(opLog) <= OpRing
    /\ undo \in Stack /\ redo \in Stack
    /\ disk \in File /\ moved \in BOOLEAN
    /\ reads \subseteq File
    /\ changed \in BOOLEAN
    /\ kept \in Content \union {Nowhere}
    /\ baseline \in Content

Reaches(entry, ls) == Accepts(entry.op, ls) /\ After(entry.op, ls) = entry.restores

Restores(stack) == \A i \in DOMAIN stack :
    stack[i].restores # Lost =>
        IF i = Len(stack) THEN Reaches(stack[i], layers)
        ELSE /\ stack[i+1].restores # Lost
             /\ Reaches(stack[i], stack[i+1].restores)

(* Undo, repeated, walks back through exactly the states the edits left, in *)
(* both layers, and redo walks forward again; no entry is ever refused.     *)
(* This holds back to the last change that went past the host: a peer's     *)
(* replayed edit or a reload from disk.                                     *)
UndoRestores == Restores(undo) /\ Restores(redo)

(* A document that calls itself clean has the base layer that was last read *)
(* from its file or written to it: undoing back to a saved state, a peer's  *)
(* edit or a save in between does not fool is_dirty.                        *)
UnsavedWorkIsDirty == saved = generation => layers["base"] = baseline

(* "Unsaved edits win over the file": no open that finishes late, and no     *)
(* restart that keeps the document, takes away a base layer that is in no   *)
(* file, whatever was edited, undone or saved since the text was read.      *)
OpensKeepUnsavedWork ==
    [][(\E text \in reads : DrainRead(text)) \/ Reread(FALSE)
         => layers["base"] = baseline \/ layers' = layers]_docVars

AllOps == UserOps \union RemoteOps \union {ops[1] : ops \in ChangeSets}
                  \union {ops[2] : ops \in ChangeSets}
Carries(op, v) == \/ op.kind = "set" /\ op.value = v
                  \/ op.kind = "replace" /\ \E p \in Prims : op.text[p] = v
RuntimeOnly == {v \in Values :
    /\ \A op \in AllOps : op.layer = "base" => ~Carries(op, v)
    /\ \A text \in Texts, p \in Prims : text[p] # v}

(* "Sim state must never reach the authored file": a value that only        *)
(* runtime edits carry is never in the base layer nor in the scene file,    *)
(* whatever is undone, redone, replayed, reloaded or saved.                 *)
RuntimeStaysOut == \A v \in RuntimeOnly, p \in Prims :
    /\ layers["base"][p] # v
    /\ disk # Unparsable => disk[p] # v

(* Once its events are handled, a runtime layer with content is the one the *)
(* runtime file holds, also after an undo or a reload that took something   *)
(* back.                                                                    *)
RuntimeIsKept == ~changed /\ HasContent(layers["runtime"]) => kept = layers["runtime"]
=============================================================================
