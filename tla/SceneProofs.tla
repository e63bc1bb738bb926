---------------------------- MODULE SceneProofs ----------------------------
(* Proofs about a scene document, for any prims, values, operations, files  *)
(* and bounds, and about its projection onto the live stage.                *)
EXTENDS SceneProjection, TLAPS, Recursion

LayersType == [Layers -> Content]
LogType == Seq([gen : Nat, op : Op])
EntryType == [op : Op, restores : LayersType \union {Lost}]

(* What an operation makes of the layers is again a pair of layers.         *)
LEMMA AfterType ==
    ASSUME NEW op \in Op, NEW ls \in LayersType
    PROVE  After(op, ls) \in LayersType
<1>1. Authored(op, ls[op.layer]) \in Content
  BY DEF Op, LayersType, Content, Authored
<1>2. op.layer \in Layers
  BY DEF Op
<1> QED
  BY <1>1, <1>2 DEF After, LayersType

(* The inverse of an operation is an operation on the same layer.           *)
LEMMA InverseType ==
    ASSUME NEW op \in Op, NEW ls \in LayersType
    PROVE  Inverse(op, ls) \in Op /\ Inverse(op, ls).layer = op.layer
<1>1. op.layer \in Layers /\ ls[op.layer] \in Content
  BY DEF Op, LayersType
<1>2. CASE op.kind = "set" /\ ls[op.layer][op.prim] \in Values
  <2>1. op \in [kind : {"set"}, layer : Layers, prim : Prims, value : Values]
    BY <1>2 DEF Op
  <2>2. Inverse(op, ls) = [op EXCEPT !.value = ls[op.layer][op.prim]]
    BY <1>2 DEF Inverse
  <2>3. Inverse(op, ls) \in [kind : {"set"}, layer : Layers, prim : Prims, value : Values]
    BY <1>2, <2>1, <2>2
  <2> QED
    BY <2>1, <2>2, <2>3 DEF Op
<1>3. CASE /\ ~(op.kind = "set" /\ ls[op.layer][op.prim] \in Values)
           /\ op.kind = "add" /\ ls[op.layer][op.prim] = Absent
  <2>1. op \in [kind : {"add", "remove"}, layer : Layers, prim : Prims]
    BY <1>3 DEF Op
  <2> QED
    BY <1>3, <2>1 DEF Op, Inverse
<1>4. CASE /\ ~(op.kind = "set" /\ ls[op.layer][op.prim] \in Values)
           /\ ~(op.kind = "add" /\ ls[op.layer][op.prim] = Absent)
  BY <1>1, <1>4 DEF Op, Inverse, CoarseInverse, Replace
<1> QED
  BY <1>2, <1>3, <1>4

(* The inverse of an accepted operation is accepted after it and brings     *)
(* both layers back.                                                        *)
LEMMA InverseRestores ==
    ASSUME NEW op \in Op, NEW ls \in LayersType, Accepts(op, ls)
    PROVE  /\ Accepts(Inverse(op, ls), After(op, ls))
           /\ After(Inverse(op, ls), After(op, ls)) = ls
<1> DEFINE l == op.layer
           next == After(op, ls)
<1>1. l \in Layers /\ ls[l] \in Content /\ next \in LayersType
  BY AfterType DEF Op, LayersType
<1>2. /\ next[l] = Authored(op, ls[l])
      /\ \A k \in Layers \ {l} : next[k] = ls[k]
  BY <1>1 DEF After, LayersType
<1>3. \A undoing \in Op : undoing.layer = l /\ Authored(undoing, next[l]) = ls[l]
                            => After(undoing, next) = ls
  BY <1>1, <1>2 DEF After, LayersType
<1>4. Inverse(op, ls) \in Op /\ Inverse(op, ls).layer = l
  BY InverseType
<1>5. CASE op.kind = "set" /\ ls[l][op.prim] \in Values
  <2>1. op \in [kind : {"set"}, layer : Layers, prim : Prims, value : Values]
    BY <1>5 DEF Op
  <2>2. Inverse(op, ls) = [op EXCEPT !.value = ls[l][op.prim]]
    BY <1>5 DEF Inverse
  <2>3. next[l] = [ls[l] EXCEPT ![op.prim] = op.value]
    BY <1>2, <1>5 DEF Authored
  <2>4. next[l][op.prim] # Absent
    BY <1>1, <2>1, <2>3, ContentAssumption DEF Content
  <2>5. Accepts(Inverse(op, ls), next)
    BY <1>1, <2>1, <2>2, <2>4 DEF Accepts
  <2>6. Authored(Inverse(op, ls), next[l]) = ls[l]
    BY <1>1, <2>1, <2>2, <2>3 DEF Authored, Content
  <2> QED
    BY <1>3, <1>4, <2>5, <2>6
<1>6. CASE op.kind = "add" /\ ls[l][op.prim] = Absent
  <2>1. op \in [kind : {"add", "remove"}, layer : Layers, prim : Prims]
    BY <1>6 DEF Op
  <2>2. Inverse(op, ls) = [kind |-> "remove", layer |-> l, prim |-> op.prim]
    BY <1>6 DEF Inverse
  <2>3. next[l] = [ls[l] EXCEPT ![op.prim] = Bare]
    BY <1>1, <1>2, <1>6, <2>1 DEF Authored, Content
  <2>4. Accepts(Inverse(op, ls), next)
    BY <1>1, <2>1, <2>2, <2>3, ContentAssumption DEF Accepts, Content
  <2>5. Authored(Inverse(op, ls), next[l]) = ls[l]
    BY <1>1, <1>6, <2>1, <2>2, <2>3 DEF Authored, Content
  <2> QED
    BY <1>3, <1>4, <2>4, <2>5
<1>7. CASE /\ ~(op.kind = "set" /\ ls[l][op.prim] \in Values)
           /\ ~(op.kind = "add" /\ ls[l][op.prim] = Absent)
  <2>1. Inverse(op, ls) = [kind |-> "replace", layer |-> l, text |-> ls[l]]
    BY <1>7 DEF Inverse, CoarseInverse, Replace
  <2>2. Accepts(Inverse(op, ls), next) /\ Authored(Inverse(op, ls), next[l]) = ls[l]
    BY <2>1 DEF Accepts, Authored
  <2> QED
    BY <1>3, <1>4, <2>2
<1> QED
  BY <1>5, <1>6, <1>7

(* The op ring keeps its size and what it holds.                            *)
LEMMA LoggedType ==
    ASSUME NEW log \in LogType, Len(log) <= OpRing, NEW g \in Nat, NEW op \in Op
    PROVE  Logged(log, g, op) \in LogType /\ Len(Logged(log, g, op)) <= OpRing
<1> DEFINE longer == Append(log, [gen |-> g, op |-> op])
<1>1. longer \in LogType /\ Len(longer) = Len(log) + 1
  BY DEF LogType
<1>2. Tail(longer) \in LogType /\ Len(Tail(longer)) = Len(log)
  BY <1>1 DEF LogType
<1>3. Len(log) \in Nat
  BY DEF LogType
<1> QED
  BY <1>1, <1>2, <1>3, BoundsAssumption DEF Logged

LEMMA MarkerType == ASSUME NEW l \in Layers PROVE Marker(l) \in Op
BY DEF Marker, Replace, Op, Content, Nothing
-----------------------------------------------------------------------------
(* Type correctness                                                         *)

LEMMA StackKept ==
    ASSUME NEW stack \in Seq(EntryType), NEW op \in Op, NEW ls \in LayersType
    PROVE  /\ Append(stack, Entry(Inverse(op, ls), ls)) \in Seq(EntryType)
           /\ stack # <<>> => /\ Front(stack) \in Seq(EntryType)
                              /\ Last(stack) \in EntryType
           /\ Forgotten(stack) \in Seq(EntryType)
<1>1. Entry(Inverse(op, ls), ls) \in EntryType
  BY InverseType DEF Entry, EntryType
<1>2. Append(stack, Entry(Inverse(op, ls), ls)) \in Seq(EntryType)
  BY <1>1
<1>3. ASSUME stack # <<>>
      PROVE  Front(stack) \in Seq(EntryType) /\ Last(stack) \in EntryType
  BY <1>3 DEF Front, Last
<1>4. Forgotten(stack) \in Seq(EntryType)
  <2>1. \A i \in 1..Len(stack) : [stack[i] EXCEPT !.restores = Lost] \in EntryType
    <3>1. \A entry \in EntryType : [entry EXCEPT !.restores = Lost] \in EntryType
      BY DEF EntryType
    <3> QED
      BY <3>1
  <2>2. DOMAIN stack = 1..Len(stack) /\ Len(stack) \in Nat
    OBVIOUS
  <2> QED
    BY <2>1, <2>2 DEF Forgotten
<1> QED
  BY <1>2, <1>3, <1>4

(* DocumentTypeOK with the sets the lemmas name.                            *)
Typed ==
    /\ layers \in LayersType
    /\ generation \in Nat /\ saved \in 0..generation
    /\ opLog \in LogType /\ Len(opLog) <= OpRing
    /\ undo \in Seq(EntryType) /\ redo \in Seq(EntryType)
    /\ disk \in File /\ moved \in BOOLEAN
    /\ reads \subseteq File
    /\ changed \in BOOLEAN
    /\ kept \in Content \union {Nowhere}
    /\ baseline \in Content

(* What an operation adds to a document of the right type.                  *)
LEMMA CommitType ==
    ASSUME Typed, NEW op \in Op, Commit(op), saved' = saved
    PROVE  /\ layers' \in LayersType
           /\ generation' \in Nat /\ saved' \in 0..generation'
           /\ opLog' \in LogType /\ Len(opLog') <= OpRing
           /\ changed' \in BOOLEAN
<1> USE DEF Typed
<1>1. layers' \in LayersType
  BY AfterType DEF Commit
<1>2. generation' \in Nat /\ saved' \in 0..generation'
  BY DEF Commit
<1>3. opLog' \in LogType /\ Len(opLog') <= OpRing
  BY <1>2, LoggedType DEF Commit
<1> QED
  BY <1>1, <1>2, <1>3 DEF Commit

LEMMA OpenFileType ==
    ASSUME Typed, NEW text \in File, NEW full \in BOOLEAN,
           IF full THEN ResetFile(text) ELSE OpenFile(text)
    PROVE  /\ layers' \in LayersType
           /\ generation' \in Nat /\ saved' \in 0..generation'
           /\ opLog' \in LogType /\ Len(opLog') <= OpRing
           /\ undo' \in Seq(EntryType) /\ redo' \in Seq(EntryType)
           /\ moved' \in BOOLEAN /\ changed' \in BOOLEAN
           /\ baseline' \in Content
<1> USE DEF Typed
<1>1. CASE UNCHANGED <<doc, moved>>
  BY <1>1 DEF doc
<1>2. CASE ~UNCHANGED <<doc, moved>>
  <2>1. text \in Content
    BY <1>2 DEF OpenFile, ResetFile, File
  <2>2. /\ generation' = generation + 1 /\ saved' = generation'
        /\ opLog' = Logged(opLog, generation', Marker("base"))
        /\ baseline' = text /\ moved' = FALSE /\ changed' = TRUE
    BY <1>2 DEF OpenFile, ResetFile
  <2>3. generation' \in Nat /\ saved' \in 0..generation'
    BY <2>2
  <2>4. Marker("base") \in Op
    BY MarkerType DEF Layers
  <2>5. opLog' \in LogType /\ Len(opLog') <= OpRing
    BY <2>2, <2>3, <2>4, LoggedType
  <2>6. layers' \in LayersType
    <3>1. \/ layers' = [layers EXCEPT !["base"] = text]
          \/ layers' = [l \in Layers |-> IF l = "base" THEN text ELSE Nothing]
      BY <1>2 DEF OpenFile, ResetFile
    <3>2. Nothing \in Content
      BY DEF Nothing, Content
    <3> QED
      BY <2>1, <3>1, <3>2 DEF LayersType
  <2>7. undo' \in Seq(EntryType) /\ redo' \in Seq(EntryType)
    <3>1. \/ undo' = Forgotten(undo) /\ redo' = Forgotten(redo)
          \/ undo' = <<>> /\ redo' = <<>>
      BY <1>2 DEF OpenFile, ResetFile
    <3>2. Forgotten(undo) \in Seq(EntryType) /\ Forgotten(redo) \in Seq(EntryType)
      BY <2>4, StackKept
    <3>3. <<>> \in Seq(EntryType)
      OBVIOUS
    <3> QED
      BY <3>1, <3>2, <3>3
  <2> QED
    BY <2>1, <2>2, <2>3, <2>5, <2>6, <2>7
<1> QED
  BY <1>1, <1>2

LEMMA InitType == DocumentInit => Typed
<1> SUFFICES ASSUME DocumentInit PROVE Typed
  OBVIOUS
<1> USE DEF Typed
<1>1. PICK load \in BOOLEAN :
        IF load /\ kept # Nowhere
        THEN /\ layers = [l \in Layers |-> IF l = "base" THEN disk ELSE kept]
             /\ generation = 1
             /\ opLog = Logged(<<>>, 1, Marker("runtime"))
        ELSE /\ layers = [l \in Layers |-> IF l = "base" THEN disk ELSE Nothing]
             /\ generation = 0
             /\ opLog = <<>>
  BY DEF DocumentInit
<1>2. disk \in Content /\ disk \in File /\ kept \in Content \union {Nowhere}
  BY FilesAssumption DEF DocumentInit, File
<1>3. /\ <<>> \in LogType /\ Len(<<>>) = 0 /\ 0 <= OpRing
      /\ Marker("runtime") \in Op /\ 1 \in Nat
  BY MarkerType, BoundsAssumption DEF LogType, Layers
<1>4. Logged(<<>>, 1, Marker("runtime")) \in LogType
      /\ Len(Logged(<<>>, 1, Marker("runtime"))) <= OpRing
  <2> HIDE DEF Typed
  <2> QED
    BY <1>3, LoggedType
<1>5. layers \in LayersType
  <2>1. Nothing \in Content
    BY DEF Nothing, Content
  <2> QED
    BY <1>1, <1>2, <2>1 DEF LayersType
<1>6. generation \in Nat /\ opLog \in LogType /\ Len(opLog) <= OpRing
  BY <1>1, <1>3, <1>4
<1>7. saved \in 0..generation
  BY <1>6 DEF DocumentInit
<1>8. /\ undo \in Seq(EntryType) /\ redo \in Seq(EntryType) /\ reads \subseteq File
      /\ moved \in BOOLEAN /\ changed \in BOOLEAN /\ baseline \in Content
  <2>1. /\ undo = <<>> /\ redo = <<>> /\ reads = {} /\ moved = FALSE /\ changed = TRUE
        /\ baseline = disk
    BY DEF DocumentInit
  <2>2. <<>> \in Seq(EntryType)
    OBVIOUS
  <2> HIDE DEF Typed
  <2> QED
    BY <1>2, <2>1, <2>2
<1> QED
  BY <1>2, <1>5, <1>6, <1>7, <1>8

LEMMA NextType == Typed /\ [DocumentNext]_docVars => Typed'
<1> SUFFICES ASSUME Typed, [DocumentNext]_docVars
             PROVE  Typed'
  OBVIOUS
<1>a. /\ layers \in LayersType /\ undo \in Seq(EntryType) /\ redo \in Seq(EntryType)
      /\ generation \in Nat /\ saved \in 0..generation
      /\ opLog \in LogType /\ Len(opLog) <= OpRing
  BY DEF Typed
<1>b. /\ disk \in File /\ moved \in BOOLEAN /\ reads \subseteq File
      /\ changed \in BOOLEAN /\ kept \in Content \union {Nowhere} /\ baseline \in Content
  BY DEF Typed
<1>c. \A entry \in EntryType : entry.op \in Op
  BY DEF EntryType
<1>d. ASSUME NEW op \in Op, Commit(op), UNCHANGED <<saved, baseline, files>>,
             undo' \in Seq(EntryType), redo' \in Seq(EntryType)
      PROVE  Typed'
  <2>1. /\ layers' \in LayersType
        /\ generation' \in Nat /\ saved' \in 0..generation'
        /\ opLog' \in LogType /\ Len(opLog') <= OpRing
        /\ changed' \in BOOLEAN
    BY <1>d, CommitType
  <2>2. disk' = disk /\ moved' = moved /\ reads' = reads /\ kept' = kept /\ baseline' = baseline
    BY <1>d DEF files
  <2> QED
    BY <1>b, <1>d, <2>1, <2>2 DEF Typed
<1>1. ASSUME NEW op \in UserOps, Apply(op) PROVE Typed'
  <2>1. op \in Op
    BY OpsAssumption
  <2>2. undo' = Append(undo, Entry(Inverse(op, layers), layers)) /\ redo' = <<>>
    BY <1>1 DEF Apply
  <2>3. undo' \in Seq(EntryType) /\ redo' \in Seq(EntryType)
    <3>1. Append(undo, Entry(Inverse(op, layers), layers)) \in Seq(EntryType)
      BY <1>a, <2>1, StackKept
    <3> QED
      BY <2>2, <3>1
  <2>4. Commit(op) /\ UNCHANGED <<saved, baseline, files>>
    BY <1>1 DEF Apply
  <2> QED
    BY <1>d, <2>1, <2>3, <2>4
<1>2. ASSUME NEW ops \in ChangeSets, ApplyIntent(ops[1], ops[2]) PROVE Typed'
  <2> DEFINE between == After(ops[1], layers)
             once == Logged(opLog, generation + 1, ops[1])
  <2>1. ops[1] \in Op /\ ops[2] \in Op
    BY OpsAssumption
  <2>2. between \in LayersType
    BY <1>a, <2>1, AfterType
  <2>3. layers' \in LayersType
    <3>1. layers' = After(ops[2], between)
      BY <1>2 DEF ApplyIntent
    <3> HIDE DEF between
    <3> QED
      BY <2>1, <2>2, <3>1, AfterType
  <2>4. /\ generation' = generation + 2 /\ saved' = saved
        /\ generation + 1 \in Nat /\ generation + 2 \in Nat
    BY <1>2, <1>a DEF ApplyIntent
  <2>5. saved' \in 0..generation'
    BY <1>a, <2>4
  <2>6. once \in LogType /\ Len(once) <= OpRing
    BY <1>a, <2>1, <2>4, LoggedType
  <2>7. opLog' \in LogType /\ Len(opLog') <= OpRing
    <3>1. opLog' = Logged(once, generation + 2, ops[2])
      BY <1>2 DEF ApplyIntent
    <3> HIDE DEF once
    <3> QED
      BY <2>1, <2>4, <2>6, <3>1, LoggedType
  <2>8. undo' \in Seq(EntryType)
    <3>1. /\ Entry(Inverse(ops[1], layers), layers) \in EntryType
          /\ Entry(Inverse(ops[2], between), between) \in EntryType
      BY <1>a, <2>1, <2>2, InverseType DEF Entry, EntryType
    <3>2. undo' = undo \o <<Entry(Inverse(ops[1], layers), layers),
                            Entry(Inverse(ops[2], between), between)>>
      BY <1>2 DEF ApplyIntent
    <3> QED
      BY <1>a, <3>1, <3>2
  <2>9. redo' \in Seq(EntryType) /\ changed' \in BOOLEAN
    BY <1>2 DEF ApplyIntent
  <2>10. /\ disk' = disk /\ moved' = moved /\ reads' = reads /\ kept' = kept
         /\ baseline' = baseline
    BY <1>2 DEF ApplyIntent, files
  <2> QED
    BY <1>b, <2>3, <2>4, <2>5, <2>7, <2>8, <2>9, <2>10 DEF Typed
<1>3. ASSUME Undo PROVE Typed'
  <2>1. Last(undo) \in EntryType /\ Last(undo).op \in Op /\ Front(undo) \in Seq(EntryType)
    BY <1>3, <1>a, <1>c, StackKept, MarkerType DEF Undo, Layers
  <2>2. undo' = Front(undo)
        /\ redo' = Append(redo, Entry(Inverse(Last(undo).op, layers), layers))
    BY <1>3 DEF Undo
  <2>3. undo' \in Seq(EntryType) /\ redo' \in Seq(EntryType)
    BY <1>a, <2>1, <2>2, StackKept
  <2>4. Commit(Last(undo).op) /\ UNCHANGED <<saved, baseline, files>>
    BY <1>3 DEF Undo
  <2> QED
    BY <1>d, <2>1, <2>3, <2>4
<1>4. ASSUME Redo PROVE Typed'
  <2>1. Last(redo) \in EntryType /\ Last(redo).op \in Op /\ Front(redo) \in Seq(EntryType)
    BY <1>4, <1>a, <1>c, StackKept, MarkerType DEF Redo, Layers
  <2>2. redo' = Front(redo)
        /\ undo' = Append(undo, Entry(Inverse(Last(redo).op, layers), layers))
    BY <1>4 DEF Redo
  <2>3. undo' \in Seq(EntryType) /\ redo' \in Seq(EntryType)
    BY <1>a, <2>1, <2>2, StackKept
  <2>4. Commit(Last(redo).op) /\ UNCHANGED <<saved, baseline, files>>
    BY <1>4 DEF Redo
  <2> QED
    BY <1>d, <2>1, <2>3, <2>4
<1>5. ASSUME NEW op \in RemoteOps, Replay(op) PROVE Typed'
  <2>1. op \in Op
    BY OpsAssumption
  <2>2. undo' = Forgotten(undo) /\ redo' = Forgotten(redo)
    BY <1>5 DEF Replay
  <2>3. undo' \in Seq(EntryType) /\ redo' \in Seq(EntryType)
    BY <1>a, <2>1, <2>2, StackKept
  <2>4. Commit(op) /\ UNCHANGED <<saved, baseline, files>>
    BY <1>5 DEF Replay
  <2> QED
    BY <1>d, <2>1, <2>3, <2>4
<1>e. layers["base"] \in Content /\ layers["runtime"] \in Content
  BY <1>a DEF LayersType, Layers
<1>6. CASE Save
  <2>1. /\ disk' = layers["base"] /\ saved' = generation /\ baseline' = layers["base"]
        /\ moved' = FALSE
        /\ layers' = layers /\ generation' = generation /\ opLog' = opLog /\ undo' = undo
        /\ redo' = redo /\ reads' = reads /\ changed' = changed /\ kept' = kept
    BY <1>6 DEF Save
  <2>2. disk' \in File /\ saved' \in 0..generation'
    BY <1>a, <1>e, <2>1 DEF File
  <2> QED
    BY <1>a, <1>b, <1>e, <2>1, <2>2 DEF Typed
<1>7. CASE KeepRuntime
  <2>1. kept' \in Content \union {Nowhere} /\ changed' = FALSE
    BY <1>7, <1>b, <1>e DEF KeepRuntime
  <2>2. /\ layers' = layers /\ generation' = generation /\ saved' = saved /\ opLog' = opLog
        /\ undo' = undo /\ redo' = redo /\ disk' = disk /\ moved' = moved
        /\ reads' = reads /\ baseline' = baseline
    BY <1>7 DEF KeepRuntime
  <2> QED
    BY <1>a, <1>b, <2>1, <2>2 DEF Typed
<1>8. ASSUME NEW text \in Texts \union {Unparsable}, ExternalEdit(text) PROVE Typed'
  <2>1. text \in File
    BY FilesAssumption DEF File
  <2> QED
    BY <1>8, <1>a, <1>b, <2>1 DEF ExternalEdit, Typed, doc
<1>9. CASE ReadFile
  BY <1>9, <1>a, <1>b DEF ReadFile, Typed, doc
<1>f. ASSUME NEW text \in File, NEW full \in BOOLEAN,
             IF full THEN ResetFile(text) ELSE OpenFile(text),
             disk' = disk, kept' = kept, reads' \subseteq reads
      PROVE  Typed'
  <2>1. /\ layers' \in LayersType
        /\ generation' \in Nat /\ saved' \in 0..generation'
        /\ opLog' \in LogType /\ Len(opLog') <= OpRing
        /\ undo' \in Seq(EntryType) /\ redo' \in Seq(EntryType)
        /\ moved' \in BOOLEAN /\ changed' \in BOOLEAN
        /\ baseline' \in Content
    BY <1>f, OpenFileType
  <2>2. reads' \subseteq File
    BY <1>b, <1>f
  <2> QED
    BY <1>b, <1>f, <2>1, <2>2 DEF Typed
<1>10. ASSUME NEW text \in reads, DrainRead(text) PROVE Typed'
  <2>1. text \in File /\ OpenFile(text)
    BY <1>10, <1>b DEF DrainRead
  <2>2. disk' = disk /\ kept' = kept /\ reads' \subseteq reads
    BY <1>10 DEF DrainRead
  <2> QED
    BY <1>f, <2>1, <2>2
<1>11. ASSUME NEW full \in BOOLEAN, Reread(full) PROVE Typed'
  <2>1. IF full THEN ResetFile(disk) ELSE OpenFile(disk)
    BY <1>11 DEF Reread
  <2>2. disk' = disk /\ kept' = kept /\ reads' \subseteq reads
    BY <1>11 DEF Reread
  <2> QED
    BY <1>b, <1>f, <2>1, <2>2
<1>12. CASE UNCHANGED docVars
  BY <1>12, <1>a, <1>b DEF docVars, Typed
<1> QED
  BY <1>1, <1>2, <1>3, <1>4, <1>5, <1>6, <1>7, <1>8, <1>9, <1>10, <1>11, <1>12
  DEF DocumentNext, DocumentEdit

(* The document, its stacks and its files keep their types, and the op ring *)
(* its size, for any operations and any file contents.                      *)
THEOREM DocumentTypeCorrect == DocumentSpec => []DocumentTypeOK
<1>1. Typed => DocumentTypeOK
  BY DEF Typed, DocumentTypeOK, LayersType, LogType, EntryType, Stack
<1> QED
  BY <1>1, InitType, NextType, PTL DEF DocumentSpec
-----------------------------------------------------------------------------
(* Undo and redo                                                            *)

(* Restores for a document whose layers are ls.                             *)
RestoresFrom(stack, ls) == \A i \in DOMAIN stack :
    stack[i].restores # Lost =>
        IF i = Len(stack) THEN Reaches(stack[i], ls)
        ELSE /\ stack[i+1].restores # Lost
             /\ Reaches(stack[i], stack[i+1].restores)

(* An edit puts on the stack what leads back to before it.                  *)
LEMMA PushRestores ==
    ASSUME NEW stack \in Seq(EntryType), NEW op \in Op, NEW ls \in LayersType,
           Accepts(op, ls), RestoresFrom(stack, ls)
    PROVE  RestoresFrom(Append(stack, Entry(Inverse(op, ls), ls)), After(op, ls))
<1> DEFINE entry == Entry(Inverse(op, ls), ls)
           pushed == Append(stack, entry)
<1>1. Reaches(entry, After(op, ls))
  BY InverseRestores DEF Entry, Reaches
<1>2. entry.restores = ls /\ ls # Lost
  BY FilesAssumption DEF Entry, LayersType
<1> HIDE DEF entry
<1>3. /\ Len(pushed) = Len(stack) + 1 /\ Len(stack) \in Nat
      /\ DOMAIN pushed = 1..Len(pushed) /\ DOMAIN stack = 1..Len(stack)
      /\ pushed[Len(pushed)] = entry
      /\ \A i \in 1..Len(stack) : pushed[i] = stack[i]
  OBVIOUS
<1> SUFFICES ASSUME NEW i \in DOMAIN pushed, pushed[i].restores # Lost
             PROVE  IF i = Len(pushed) THEN Reaches(pushed[i], After(op, ls))
                    ELSE /\ pushed[i+1].restores # Lost
                         /\ Reaches(pushed[i], pushed[i+1].restores)
  BY DEF RestoresFrom, entry
<1> HIDE DEF pushed
<1>4. CASE i = Len(pushed)
  BY <1>1, <1>3, <1>4
<1>5. CASE i = Len(stack)
  <2>1. i \in DOMAIN stack /\ pushed[i] = stack[i] /\ pushed[i+1] = entry /\ i # Len(pushed)
    <3>1. i \in 1..Len(stack) /\ i + 1 = Len(pushed)
      BY <1>3, <1>5
    <3> QED
      BY <1>3, <3>1
  <2>2. Reaches(stack[i], ls)
    BY <1>5, <2>1 DEF RestoresFrom
  <2> QED
    BY <1>2, <2>1, <2>2
<1>6. CASE i # Len(pushed) /\ i # Len(stack)
  <2>1. /\ i \in DOMAIN stack /\ pushed[i] = stack[i] /\ pushed[i+1] = stack[i+1]
    BY <1>3, <1>6
  <2> QED
    BY <1>6, <2>1 DEF RestoresFrom
<1> QED
  BY <1>4, <1>5, <1>6

(* Taking the last entry off leaves a stack for the layers it brought back. *)
LEMMA PopRestores ==
    ASSUME NEW stack \in Seq(EntryType), stack # <<>>, NEW ls, RestoresFrom(stack, ls)
    PROVE  RestoresFrom(Front(stack), After(Last(stack).op, ls))
<1> DEFINE rest == Front(stack)
           n == Len(stack)
<1>1. /\ n \in Nat /\ n > 0 /\ DOMAIN stack = 1..n
      /\ Len(rest) = n - 1 /\ DOMAIN rest = 1..(n - 1)
      /\ \A i \in 1..(n - 1) : rest[i] = stack[i]
  <2>1. n \in Nat /\ n > 0 /\ DOMAIN stack = 1..n
    OBVIOUS
  <2>2. n - 1 \in Nat /\ n - 1 <= n
    BY <2>1
  <2>3. rest = [i \in 1..(n - 1) |-> stack[i]]
    BY <2>1, <2>2 DEF Front
  <2>4. Len(rest) = n - 1
    BY <2>2, <2>3
  <2> QED
    BY <2>1, <2>3, <2>4
<1>2. stack[n].restores # Lost => After(Last(stack).op, ls) = stack[n].restores
  BY <1>1 DEF RestoresFrom, Reaches, Last
<1> SUFFICES ASSUME NEW i \in DOMAIN rest, rest[i].restores # Lost
             PROVE  IF i = Len(rest) THEN Reaches(rest[i], After(Last(stack).op, ls))
                    ELSE /\ rest[i+1].restores # Lost
                         /\ Reaches(rest[i], rest[i+1].restores)
  BY DEF RestoresFrom
<1> HIDE DEF rest
<1>3. /\ i \in DOMAIN stack /\ i # n /\ i + 1 \in 1..n /\ rest[i] = stack[i]
  BY <1>1
<1>4. stack[i+1].restores # Lost /\ Reaches(stack[i], stack[i+1].restores)
  BY <1>3 DEF RestoresFrom
<1>5. CASE i = Len(rest)
  <2>1. i + 1 = n
    BY <1>1, <1>5
  <2> QED
    BY <1>2, <1>3, <1>4, <1>5, <2>1
<1>6. CASE i # Len(rest)
  <2>1. rest[i+1] = stack[i+1]
    BY <1>1, <1>6
  <2> QED
    BY <1>3, <1>4, <1>6, <2>1
<1> QED
  BY <1>5, <1>6

(* Nothing is claimed of a stack whose history is lost, or of an empty one. *)
LEMMA ForgottenRestores ==
    ASSUME NEW stack \in Seq(EntryType), NEW ls
    PROVE  RestoresFrom(Forgotten(stack), ls) /\ RestoresFrom(<<>>, ls)
<1>1. \A i \in DOMAIN stack : [stack[i] EXCEPT !.restores = Lost].restores = Lost
  <2>1. \A i \in DOMAIN stack : stack[i] \in EntryType
    OBVIOUS
  <2>2. \A e \in EntryType : [e EXCEPT !.restores = Lost].restores = Lost
    BY DEF EntryType
  <2> QED
    BY <2>1, <2>2
<1>2. RestoresFrom(Forgotten(stack), ls)
  BY <1>1 DEF RestoresFrom, Forgotten
<1>3. DOMAIN <<>> = {}
  OBVIOUS
<1> QED
  BY <1>2, <1>3 DEF RestoresFrom

LEMMA UndoRestoresKept ==
    Typed /\ UndoRestores /\ [DocumentNext]_docVars => UndoRestores'
<1> SUFFICES ASSUME Typed, UndoRestores, [DocumentNext]_docVars
             PROVE  RestoresFrom(undo', layers') /\ RestoresFrom(redo', layers')
  BY DEF UndoRestores, Restores, RestoresFrom
<1>a. /\ layers \in LayersType /\ undo \in Seq(EntryType) /\ redo \in Seq(EntryType)
      /\ RestoresFrom(undo, layers) /\ RestoresFrom(redo, layers)
  BY DEF Typed, UndoRestores, Restores, RestoresFrom
<1>b. \A entry \in EntryType : entry.op \in Op
  BY DEF EntryType
<1>c. ASSUME undo' = Forgotten(undo), redo' = Forgotten(redo)
      PROVE  RestoresFrom(undo', layers') /\ RestoresFrom(redo', layers')
  BY <1>a, <1>c, ForgottenRestores
<1>d. ASSUME undo' = <<>>, redo' = <<>>
      PROVE  RestoresFrom(undo', layers') /\ RestoresFrom(redo', layers')
  BY <1>a, <1>d, ForgottenRestores
<1>e. ASSUME layers' = layers, undo' = undo, redo' = redo
      PROVE  RestoresFrom(undo', layers') /\ RestoresFrom(redo', layers')
  BY <1>a, <1>e
<1>1. ASSUME NEW op \in UserOps, Apply(op)
      PROVE  RestoresFrom(undo', layers') /\ RestoresFrom(redo', layers')
  <2>1. op \in Op
    BY OpsAssumption
  <2>2. /\ Accepts(op, layers) /\ layers' = After(op, layers)
        /\ undo' = Append(undo, Entry(Inverse(op, layers), layers)) /\ redo' = <<>>
    BY <1>1 DEF Apply, Commit
  <2> QED
    BY <1>a, <2>1, <2>2, PushRestores, ForgottenRestores
<1>2. ASSUME NEW ops \in ChangeSets, ApplyIntent(ops[1], ops[2])
      PROVE  RestoresFrom(undo', layers') /\ RestoresFrom(redo', layers')
  <2> DEFINE between == After(ops[1], layers)
             once == Append(undo, Entry(Inverse(ops[1], layers), layers))
  <2>1. ops[1] \in Op /\ ops[2] \in Op
    BY OpsAssumption
  <2>2. /\ Accepts(ops[1], layers) /\ Accepts(ops[2], between)
        /\ layers' = After(ops[2], between) /\ redo' = <<>>
        /\ undo' = undo \o <<Entry(Inverse(ops[1], layers), layers),
                             Entry(Inverse(ops[2], between), between)>>
    BY <1>2 DEF ApplyIntent
  <2>3. between \in LayersType /\ once \in Seq(EntryType)
    BY <1>a, <2>1, AfterType, StackKept
  <2>4. RestoresFrom(once, between)
    BY <1>a, <2>1, <2>2, PushRestores
  <2>5. undo' = Append(once, Entry(Inverse(ops[2], between), between))
    <3>1. \A e1, e2 : undo \o <<e1, e2>> = Append(Append(undo, e1), e2)
      BY <1>a
    <3> QED
      BY <2>2, <3>1
  <2> HIDE DEF between, once
  <2>6. RestoresFrom(undo', layers')
    BY <2>1, <2>2, <2>3, <2>4, <2>5, PushRestores
  <2> QED
    BY <1>a, <2>2, <2>6, ForgottenRestores
<1>3. ASSUME Undo PROVE RestoresFrom(undo', layers') /\ RestoresFrom(redo', layers')
  <2>1. /\ undo # <<>> /\ Accepts(Last(undo).op, layers)
        /\ layers' = After(Last(undo).op, layers) /\ undo' = Front(undo)
        /\ redo' = Append(redo, Entry(Inverse(Last(undo).op, layers), layers))
    BY <1>3 DEF Undo, Commit
  <2>2. Last(undo).op \in Op
    BY <1>a, <1>b, <2>1, StackKept, MarkerType DEF Layers
  <2> QED
    BY <1>a, <2>1, <2>2, PushRestores, PopRestores
<1>4. ASSUME Redo PROVE RestoresFrom(undo', layers') /\ RestoresFrom(redo', layers')
  <2>1. /\ redo # <<>> /\ Accepts(Last(redo).op, layers)
        /\ layers' = After(Last(redo).op, layers) /\ redo' = Front(redo)
        /\ undo' = Append(undo, Entry(Inverse(Last(redo).op, layers), layers))
    BY <1>4 DEF Redo, Commit
  <2>2. Last(redo).op \in Op
    BY <1>a, <1>b, <2>1, StackKept, MarkerType DEF Layers
  <2> QED
    BY <1>a, <2>1, <2>2, PushRestores, PopRestores
<1>5. ASSUME NEW op \in RemoteOps, Replay(op)
      PROVE  RestoresFrom(undo', layers') /\ RestoresFrom(redo', layers')
  BY <1>5, <1>c DEF Replay
<1>6. CASE Save
  BY <1>6, <1>e DEF Save
<1>7. CASE KeepRuntime
  BY <1>7, <1>e DEF KeepRuntime
<1>8. ASSUME NEW text \in Texts \union {Unparsable}, ExternalEdit(text)
      PROVE  RestoresFrom(undo', layers') /\ RestoresFrom(redo', layers')
  BY <1>8, <1>e DEF ExternalEdit, doc
<1>9. CASE ReadFile
  BY <1>9, <1>e DEF ReadFile, doc
<1>10. ASSUME NEW text, OpenFile(text)
       PROVE  RestoresFrom(undo', layers') /\ RestoresFrom(redo', layers')
  BY <1>10, <1>c, <1>e DEF OpenFile, doc
<1>11. ASSUME NEW text, ResetFile(text)
       PROVE  RestoresFrom(undo', layers') /\ RestoresFrom(redo', layers')
  BY <1>11, <1>d, <1>e DEF ResetFile, doc
<1>12. CASE UNCHANGED docVars
  BY <1>12, <1>e DEF docVars
<1> QED
  BY <1>1, <1>2, <1>3, <1>4, <1>5, <1>6, <1>7, <1>8, <1>9, <1>10, <1>11, <1>12
  DEF DocumentNext, DocumentEdit, DrainRead, Reread

(* Undo walks back and redo forward through exactly the states the edits    *)
(* left, for any edits and any number of them: the two stacks of            *)
(* DocumentHost hold what InverseRestores says of one operation.            *)
THEOREM UndoIsFaithful == DocumentSpec => []UndoRestores
<1>1. DocumentInit => UndoRestores
  BY DEF DocumentInit, UndoRestores, Restores
<1> QED
  BY <1>1, InitType, NextType, UndoRestoresKept, PTL DEF DocumentSpec
-----------------------------------------------------------------------------
(* Unsaved work                                                             *)

LEMMA DirtyKept ==
    Typed /\ UnsavedWorkIsDirty /\ [DocumentNext]_docVars => UnsavedWorkIsDirty'
<1> SUFFICES ASSUME Typed, UnsavedWorkIsDirty, [DocumentNext]_docVars
             PROVE  UnsavedWorkIsDirty'
  OBVIOUS
<1>a. generation \in Nat /\ saved \in 0..generation /\ layers \in LayersType
  BY DEF Typed
<1>b. ASSUME saved' = saved, generation' \in {generation + 1, generation + 2}
      PROVE  UnsavedWorkIsDirty'
  BY <1>a, <1>b DEF UnsavedWorkIsDirty
<1>c. ASSUME layers' = layers, saved' = saved, generation' = generation, baseline' = baseline
      PROVE  UnsavedWorkIsDirty'
  BY <1>c DEF UnsavedWorkIsDirty
<1>1. ASSUME NEW op \in UserOps, Apply(op) PROVE UnsavedWorkIsDirty'
  BY <1>1, <1>b DEF Apply, Commit
<1>2. ASSUME NEW ops \in ChangeSets, ApplyIntent(ops[1], ops[2]) PROVE UnsavedWorkIsDirty'
  BY <1>2, <1>b DEF ApplyIntent
<1>3. CASE Undo
  BY <1>3, <1>b DEF Undo, Commit
<1>4. CASE Redo
  BY <1>4, <1>b DEF Redo, Commit
<1>5. ASSUME NEW op \in RemoteOps, Replay(op) PROVE UnsavedWorkIsDirty'
  BY <1>5, <1>b DEF Replay, Commit
<1>6. CASE Save
  BY <1>6 DEF Save, UnsavedWorkIsDirty
<1>7. CASE KeepRuntime
  BY <1>7, <1>c DEF KeepRuntime
<1>8. ASSUME NEW text \in Texts \union {Unparsable}, ExternalEdit(text)
      PROVE  UnsavedWorkIsDirty'
  BY <1>8, <1>c DEF ExternalEdit, doc
<1>9. CASE ReadFile
  BY <1>9, <1>c DEF ReadFile, doc
<1>10. ASSUME NEW text, OpenFile(text) PROVE UnsavedWorkIsDirty'
  <2>1. CASE UNCHANGED <<doc, moved>>
    BY <2>1, <1>c DEF doc
  <2>2. CASE layers' = [layers EXCEPT !["base"] = text] /\ baseline' = text
    BY <1>a, <2>2 DEF LayersType, Layers, UnsavedWorkIsDirty
  <2> QED
    BY <1>10, <2>1, <2>2 DEF OpenFile
<1>11. ASSUME NEW text, ResetFile(text) PROVE UnsavedWorkIsDirty'
  <2>1. CASE UNCHANGED <<doc, moved>>
    BY <2>1, <1>c DEF doc
  <2>2. CASE /\ layers' = [l \in Layers |-> IF l = "base" THEN text ELSE Nothing]
             /\ baseline' = text
    BY <2>2 DEF Layers, UnsavedWorkIsDirty
  <2> QED
    BY <1>11, <2>1, <2>2 DEF ResetFile
<1>12. CASE UNCHANGED docVars
  BY <1>12, <1>c DEF docVars
<1> QED
  BY <1>1, <1>2, <1>3, <1>4, <1>5, <1>6, <1>7, <1>8, <1>9, <1>10, <1>11, <1>12
  DEF DocumentNext, DocumentEdit, DrainRead, Reread

(* is_dirty is never fooled: a document that calls itself clean has the     *)
(* base layer last read from or written to its file.                        *)
THEOREM CleanMeansSaved == DocumentSpec => []UnsavedWorkIsDirty
<1>1. DocumentInit => UnsavedWorkIsDirty
  BY DEF DocumentInit, UnsavedWorkIsDirty, Layers
<1> QED
  BY <1>1, InitType, NextType, DirtyKept, PTL DEF DocumentSpec

(* No open, however late its text arrives, and no restart that keeps the    *)
(* document takes away a base layer that is in no file.                     *)
THEOREM OpensAreSafe == DocumentSpec => OpensKeepUnsavedWork
<1> DEFINE Safe == (\E text \in reads : DrainRead(text)) \/ Reread(FALSE)
                     => layers["base"] = baseline \/ layers' = layers
<1>1. UnsavedWorkIsDirty => Safe
  BY DEF UnsavedWorkIsDirty, DrainRead, Reread, OpenFile, doc
<1>2. UnsavedWorkIsDirty /\ [DocumentNext]_docVars => [Safe]_docVars
  BY <1>1
<1> QED
  BY <1>2, CleanMeansSaved, PTL DEF DocumentSpec, OpensKeepUnsavedWork
-----------------------------------------------------------------------------
(* The runtime layer                                                        *)

LEMMA RuntimeKeptStep ==
    RuntimeIsKept /\ [DocumentNext]_docVars => RuntimeIsKept'
<1> SUFFICES ASSUME RuntimeIsKept, [DocumentNext]_docVars PROVE RuntimeIsKept'
  OBVIOUS
<1>a. ASSUME changed' = TRUE PROVE RuntimeIsKept'
  BY <1>a DEF RuntimeIsKept
<1>b. ASSUME changed' = changed, kept' = kept, layers' = layers PROVE RuntimeIsKept'
  BY <1>b DEF RuntimeIsKept, HasContent
<1>1. CASE KeepRuntime
  BY <1>1 DEF KeepRuntime, RuntimeIsKept, HasContent
<1>2. ASSUME NEW text, OpenFile(text), kept' = kept PROVE RuntimeIsKept'
  BY <1>2, <1>a, <1>b DEF OpenFile, doc
<1>3. ASSUME NEW text, ResetFile(text), kept' = kept PROVE RuntimeIsKept'
  BY <1>3, <1>a, <1>b DEF ResetFile, doc
<1>4. ASSUME NEW op, Commit(op) PROVE RuntimeIsKept'
  BY <1>4, <1>a DEF Commit
<1>5. ASSUME NEW ops \in ChangeSets, ApplyIntent(ops[1], ops[2]) PROVE RuntimeIsKept'
  BY <1>5, <1>a DEF ApplyIntent
<1>6. CASE Save \/ ReadFile \/ \E text \in Texts \union {Unparsable} : ExternalEdit(text)
  BY <1>6, <1>b DEF Save, ReadFile, ExternalEdit, doc
<1>7. CASE UNCHANGED docVars
  BY <1>7, <1>b DEF docVars
<1> QED
  BY <1>1, <1>2, <1>3, <1>4, <1>5, <1>6, <1>7
  DEF DocumentNext, DocumentEdit, DrainRead, Reread, Apply, Undo, Redo, Replay

(* A handled change leaves a non-empty runtime layer in the runtime file.   *)
THEOREM RuntimeReachesItsFile == DocumentSpec => []RuntimeIsKept
<1>1. DocumentInit => RuntimeIsKept
  BY DEF DocumentInit, RuntimeIsKept
<1> QED
  BY <1>1, RuntimeKeptStep, PTL DEF DocumentSpec
-----------------------------------------------------------------------------
(* What only the runtime layer carries                                      *)

Free(text, v) == \A p \in Prims : text[p] # v
FreeOp(op, v) == op.layer = "base" => ~Carries(op, v)
FreeStack(stack, v) == \A i \in DOMAIN stack : FreeOp(stack[i].op, v)

(* Wherever a base layer can come from next: the layer itself, the file, a  *)
(* text still to be drained and every base-layer entry of the two stacks.   *)
StaysOut == \A v \in RuntimeOnly :
    /\ Free(layers["base"], v)
    /\ disk # Unparsable => Free(disk, v)
    /\ \A text \in reads : text # Unparsable => Free(text, v)
    /\ FreeStack(undo, v) /\ FreeStack(redo, v)

(* An operation that does not carry a value into the base layer leaves it   *)
(* out, and so does its inverse.                                            *)
LEMMA FreeAfter ==
    ASSUME NEW op \in Op, NEW ls \in LayersType, NEW v \in Values,
           Free(ls["base"], v), FreeOp(op, v)
    PROVE  /\ Free(After(op, ls)["base"], v)
           /\ FreeOp(Inverse(op, ls), v)
<1>1. ls["base"] \in Content /\ "base" \in Layers /\ op.layer \in Layers
  BY DEF LayersType, Layers, Op
<1>2. v # Absent /\ v # Bare
  BY ContentAssumption
<1>3. CASE op.layer = "base"
  <2>1. ~Carries(op, v)
    BY <1>3 DEF FreeOp
  <2>2. Free(Authored(op, ls["base"]), v)
    <3>1. CASE op.kind = "set"
      <4>1. op.value # v
        BY <2>1, <3>1 DEF Carries
      <4>2. Authored(op, ls["base"]) = [ls["base"] EXCEPT ![op.prim] = op.value]
        BY <3>1 DEF Authored
      <4> QED
        BY <1>1, <4>1, <4>2 DEF Free, Content
    <3>2. CASE op.kind = "add"
      <4>1. Authored(op, ls["base"])
              = [ls["base"] EXCEPT ![op.prim] = IF @ = Absent THEN Bare ELSE @]
        BY <3>2 DEF Authored
      <4> QED
        BY <1>1, <1>2, <4>1 DEF Free, Content
    <3>3. CASE op.kind = "remove"
      <4>1. Authored(op, ls["base"]) = [ls["base"] EXCEPT ![op.prim] = Absent]
        BY <3>3 DEF Authored
      <4> QED
        BY <1>1, <1>2, <4>1 DEF Free, Content
    <3>4. CASE op.kind = "replace"
      <4>1. Authored(op, ls["base"]) = op.text
        BY <3>4 DEF Authored
      <4> QED
        BY <2>1, <3>4, <4>1 DEF Free, Carries
    <3> QED
      BY <3>1, <3>2, <3>3, <3>4 DEF Op
  <2>3. After(op, ls)["base"] = Authored(op, ls["base"])
    BY <1>1, <1>3 DEF After, LayersType
  <2>4. ~Carries(Inverse(op, ls), v)
    <3>1. CASE op.kind = "set" /\ ls["base"][op.prim] \in Values
      <4>1. op \in [kind : {"set"}, layer : Layers, prim : Prims, value : Values]
        BY <3>1 DEF Op
      <4>2. Inverse(op, ls) = [op EXCEPT !.value = ls["base"][op.prim]]
        BY <1>3, <3>1 DEF Inverse
      <4>3. ls["base"][op.prim] # v
        BY <4>1 DEF Free
      <4>4. Inverse(op, ls).kind = "set" /\ Inverse(op, ls).value # v
        BY <4>1, <4>2, <4>3
      <4> QED
        BY <4>4 DEF Carries
    <3>2. CASE /\ ~(op.kind = "set" /\ ls["base"][op.prim] \in Values)
               /\ op.kind = "add" /\ ls["base"][op.prim] = Absent
      <4>1. Inverse(op, ls) = [kind |-> "remove", layer |-> op.layer, prim |-> op.prim]
        BY <1>3, <3>2 DEF Inverse
      <4> QED
        BY <4>1 DEF Carries
    <3>3. CASE /\ ~(op.kind = "set" /\ ls["base"][op.prim] \in Values)
               /\ ~(op.kind = "add" /\ ls["base"][op.prim] = Absent)
      <4>1. Inverse(op, ls) = [kind |-> "replace", layer |-> op.layer, text |-> ls["base"]]
        BY <1>3, <3>3 DEF Inverse, CoarseInverse, Replace
      <4> QED
        BY <4>1 DEF Carries, Free
    <3> QED
      BY <3>1, <3>2, <3>3
  <2> QED
    BY <2>2, <2>3, <2>4 DEF FreeOp
<1>4. CASE op.layer # "base"
  <2>1. After(op, ls)["base"] = ls["base"]
    BY <1>1, <1>4 DEF After, LayersType
  <2>2. Inverse(op, ls).layer # "base"
    BY <1>4, InverseType
  <2> QED
    BY <2>1, <2>2 DEF FreeOp
<1> QED
  BY <1>3, <1>4

LEMMA FreeStacks ==
    ASSUME NEW stack \in Seq(EntryType), NEW v \in Values, FreeStack(stack, v)
    PROVE  /\ \A op, ls : FreeOp(op, v) => FreeStack(Append(stack, Entry(op, ls)), v)
           /\ stack # <<>> => FreeStack(Front(stack), v) /\ FreeOp(Last(stack).op, v)
           /\ FreeStack(Forgotten(stack), v)
           /\ FreeStack(<<>>, v)
<1>1. Len(stack) \in Nat /\ DOMAIN stack = 1..Len(stack)
  OBVIOUS
<1>2. ASSUME NEW op, NEW ls, FreeOp(op, v)
      PROVE  FreeStack(Append(stack, Entry(op, ls)), v)
  <2> DEFINE entry == Entry(op, ls)
             pushed == Append(stack, entry)
  <2>1. entry.op = op
    BY DEF Entry
  <2> HIDE DEF entry
  <2>2. \A i \in DOMAIN pushed : pushed[i] = entry \/ (i \in DOMAIN stack /\ pushed[i] = stack[i])
    BY <1>1
  <2> HIDE DEF pushed
  <2>3. FreeStack(pushed, v)
    BY <1>2, <2>1, <2>2 DEF FreeStack
  <2> QED
    BY <2>3 DEF pushed, entry
<1>3. ASSUME stack # <<>>
      PROVE  FreeStack(Front(stack), v) /\ FreeOp(Last(stack).op, v)
  <2>1. Len(stack) > 0 /\ Len(stack) - 1 \in Nat /\ Len(stack) - 1 <= Len(stack)
    BY <1>1, <1>3
  <2>2. Front(stack) = [i \in 1..(Len(stack) - 1) |-> stack[i]]
    BY <2>1 DEF Front
  <2>3. Len(stack) \in DOMAIN stack /\ 1..(Len(stack) - 1) \subseteq DOMAIN stack
    BY <1>1, <2>1
  <2> QED
    BY <2>2, <2>3 DEF FreeStack, Last
<1>4. FreeStack(Forgotten(stack), v)
  <2>1. \A e \in EntryType : [e EXCEPT !.restores = Lost].op = e.op
    BY DEF EntryType
  <2>2. \A i \in DOMAIN stack : [stack[i] EXCEPT !.restores = Lost].op = stack[i].op
    BY <2>1
  <2> QED
    BY <2>2 DEF FreeStack, Forgotten
<1>5. DOMAIN <<>> = {}
  OBVIOUS
<1> QED
  BY <1>2, <1>3, <1>4, <1>5 DEF FreeStack

LEMMA GivenOpsFree ==
    ASSUME NEW v \in RuntimeOnly
    PROVE  /\ v \in Values
           /\ \A op \in UserOps \union RemoteOps : FreeOp(op, v)
           /\ \A ops \in ChangeSets : FreeOp(ops[1], v) /\ FreeOp(ops[2], v)
           /\ \A text \in Texts : Free(text, v)
BY DEF RuntimeOnly, AllOps, FreeOp, Free

LEMMA StaysOutInit == DocumentInit => StaysOut
<1> SUFFICES ASSUME DocumentInit, NEW v \in RuntimeOnly
             PROVE  /\ Free(layers["base"], v)
                    /\ disk # Unparsable => Free(disk, v)
                    /\ \A text \in reads : text # Unparsable => Free(text, v)
                    /\ FreeStack(undo, v) /\ FreeStack(redo, v)
  BY DEF StaysOut
<1>1. disk \in Texts /\ layers["base"] = disk /\ undo = <<>> /\ redo = <<>> /\ reads = {}
  BY DEF DocumentInit, Layers
<1>2. FreeStack(<<>>, v)
  BY DEF FreeStack
<1> QED
  BY <1>1, <1>2, GivenOpsFree

LEMMA StaysOutStep == Typed /\ StaysOut /\ [DocumentNext]_docVars => StaysOut'
<1> SUFFICES ASSUME Typed, StaysOut, [DocumentNext]_docVars, NEW v \in RuntimeOnly
             PROVE  (/\ Free(layers["base"], v)
                     /\ disk # Unparsable => Free(disk, v)
                     /\ \A text \in reads : text # Unparsable => Free(text, v)
                     /\ FreeStack(undo, v) /\ FreeStack(redo, v))'
  BY DEF StaysOut
<1> DEFINE Out == /\ Free(layers["base"], v)
                  /\ disk # Unparsable => Free(disk, v)
                  /\ \A text \in reads : text # Unparsable => Free(text, v)
                  /\ FreeStack(undo, v) /\ FreeStack(redo, v)
<1>a. /\ layers \in LayersType /\ undo \in Seq(EntryType) /\ redo \in Seq(EntryType)
      /\ reads \subseteq File /\ disk \in File
  BY DEF Typed
<1>b. Out /\ v \in Values
  BY GivenOpsFree DEF StaysOut
<1>c. \A entry \in EntryType : entry.op \in Op
  BY DEF EntryType
<1>d. ASSUME Free(layers["base"], v)', FreeStack(undo, v)', FreeStack(redo, v)',
             disk' = disk, reads' = reads
      PROVE  Out'
  BY <1>b, <1>d DEF Free
<1>e. ASSUME layers' = layers, undo' = undo, redo' = redo PROVE
        Free(layers["base"], v)' /\ FreeStack(undo, v)' /\ FreeStack(redo, v)'
  BY <1>b, <1>e DEF Free, FreeStack
<1>1. ASSUME NEW op \in UserOps, Apply(op) PROVE Out'
  <2>1. op \in Op /\ FreeOp(op, v)
    BY OpsAssumption, GivenOpsFree
  <2>2. /\ layers' = After(op, layers) /\ redo' = <<>>
        /\ undo' = Append(undo, Entry(Inverse(op, layers), layers))
        /\ disk' = disk /\ reads' = reads
    BY <1>1 DEF Apply, Commit, files
  <2>4. Free(layers'["base"], v) /\ FreeOp(Inverse(op, layers), v)
    BY <1>a, <1>b, <2>1, <2>2, FreeAfter
  <2>5. FreeStack(undo', v) /\ FreeStack(redo', v)
    BY <1>a, <1>b, <2>2, <2>4, FreeStacks
  <2> QED
    BY <1>d, <2>2, <2>4, <2>5
<1>2. ASSUME NEW ops \in ChangeSets, ApplyIntent(ops[1], ops[2]) PROVE Out'
  <2> DEFINE between == After(ops[1], layers)
             once == Append(undo, Entry(Inverse(ops[1], layers), layers))
  <2>1. ops[1] \in Op /\ ops[2] \in Op /\ FreeOp(ops[1], v) /\ FreeOp(ops[2], v)
    BY OpsAssumption, GivenOpsFree
  <2>2. /\ layers' = After(ops[2], between) /\ redo' = <<>>
        /\ undo' = undo \o <<Entry(Inverse(ops[1], layers), layers),
                             Entry(Inverse(ops[2], between), between)>>
        /\ disk' = disk /\ reads' = reads
    BY <1>2 DEF ApplyIntent, files
  <2>3. between \in LayersType /\ once \in Seq(EntryType)
    BY <1>a, <2>1, AfterType, StackKept
  <2>4. Free(between["base"], v) /\ FreeOp(Inverse(ops[1], layers), v)
    BY <1>a, <1>b, <2>1, FreeAfter
  <2>5. FreeStack(once, v)
    BY <1>a, <1>b, <2>4, FreeStacks
  <2>6. undo' = Append(once, Entry(Inverse(ops[2], between), between))
    <3>1. \A e1, e2 : undo \o <<e1, e2>> = Append(Append(undo, e1), e2)
      BY <1>a
    <3> QED
      BY <2>2, <3>1
  <2> HIDE DEF between, once
  <2>7. Free(layers'["base"], v) /\ FreeOp(Inverse(ops[2], between), v)
    BY <1>b, <2>1, <2>2, <2>3, <2>4, FreeAfter
  <2>8. FreeStack(undo', v) /\ FreeStack(redo', v)
    BY <1>b, <2>2, <2>3, <2>5, <2>6, <2>7, FreeStacks
  <2> QED
    BY <1>d, <2>2, <2>7, <2>8
<1>3. ASSUME Undo PROVE Out'
  <2>1. /\ undo # <<>> /\ layers' = After(Last(undo).op, layers) /\ undo' = Front(undo)
        /\ redo' = Append(redo, Entry(Inverse(Last(undo).op, layers), layers))
        /\ disk' = disk /\ reads' = reads
    BY <1>3 DEF Undo, Commit, files
  <2>2. Last(undo).op \in Op /\ FreeOp(Last(undo).op, v) /\ FreeStack(Front(undo), v)
    BY <1>a, <1>b, <1>c, <2>1, StackKept, MarkerType, FreeStacks DEF Layers
  <2>3. Free(layers'["base"], v) /\ FreeOp(Inverse(Last(undo).op, layers), v)
    BY <1>a, <1>b, <2>1, <2>2, FreeAfter
  <2>4. FreeStack(redo', v)
    BY <1>a, <1>b, <2>1, <2>3, FreeStacks
  <2> QED
    BY <1>d, <2>1, <2>2, <2>3, <2>4
<1>4. ASSUME Redo PROVE Out'
  <2>1. /\ redo # <<>> /\ layers' = After(Last(redo).op, layers) /\ redo' = Front(redo)
        /\ undo' = Append(undo, Entry(Inverse(Last(redo).op, layers), layers))
        /\ disk' = disk /\ reads' = reads
    BY <1>4 DEF Redo, Commit, files
  <2>2. Last(redo).op \in Op /\ FreeOp(Last(redo).op, v) /\ FreeStack(Front(redo), v)
    BY <1>a, <1>b, <1>c, <2>1, StackKept, MarkerType, FreeStacks DEF Layers
  <2>3. Free(layers'["base"], v) /\ FreeOp(Inverse(Last(redo).op, layers), v)
    BY <1>a, <1>b, <2>1, <2>2, FreeAfter
  <2>4. FreeStack(undo', v)
    BY <1>a, <1>b, <2>1, <2>3, FreeStacks
  <2> QED
    BY <1>d, <2>1, <2>2, <2>3, <2>4
<1>5. ASSUME NEW op \in RemoteOps, Replay(op) PROVE Out'
  <2>1. op \in Op /\ FreeOp(op, v)
    BY OpsAssumption, GivenOpsFree
  <2>2. /\ layers' = After(op, layers) /\ undo' = Forgotten(undo) /\ redo' = Forgotten(redo)
        /\ disk' = disk /\ reads' = reads
    BY <1>5 DEF Replay, Commit, files
  <2>3. Free(layers'["base"], v)
    BY <1>a, <1>b, <2>1, <2>2, FreeAfter
  <2>4. FreeStack(undo', v) /\ FreeStack(redo', v)
    BY <1>a, <1>b, <2>2, FreeStacks
  <2> QED
    BY <1>d, <2>2, <2>3, <2>4
<1>6. CASE Save
  BY <1>6, <1>b, <1>e DEF Save
<1>7. CASE KeepRuntime
  BY <1>7, <1>d, <1>e DEF KeepRuntime
<1>8. ASSUME NEW text \in Texts \union {Unparsable}, ExternalEdit(text) PROVE Out'
  BY <1>8, <1>b, <1>e, GivenOpsFree DEF ExternalEdit, doc
<1>9. CASE ReadFile
  BY <1>9, <1>b, <1>e DEF ReadFile, doc
<1>f. ASSUME NEW text, text # Unparsable => Free(text, v), OpenFile(text) \/ ResetFile(text),
             disk' = disk, reads' \subseteq reads
      PROVE  Out'
  <2>1. Free(layers'["base"], v) /\ FreeStack(undo', v) /\ FreeStack(redo', v)
    <3>1. CASE UNCHANGED <<doc, moved>>
      BY <1>e, <3>1 DEF doc
    <3>2. CASE /\ text # Unparsable
               /\ layers' = [layers EXCEPT !["base"] = text]
               /\ undo' = Forgotten(undo) /\ redo' = Forgotten(redo)
      <4>1. layers'["base"] = text
        BY <1>a, <3>2 DEF LayersType, Layers
      <4>2. FreeStack(undo', v) /\ FreeStack(redo', v)
        BY <1>a, <1>b, <3>2, FreeStacks
      <4> QED
        BY <1>f, <3>2, <4>1, <4>2
    <3>3. CASE /\ text # Unparsable
               /\ layers' = [l \in Layers |-> IF l = "base" THEN text ELSE Nothing]
               /\ undo' = <<>> /\ redo' = <<>>
      <4>1. layers'["base"] = text
        BY <3>3 DEF Layers
      <4>2. FreeStack(undo', v) /\ FreeStack(redo', v)
        BY <1>a, <1>b, <3>3, FreeStacks
      <4> QED
        BY <1>f, <3>3, <4>1, <4>2
    <3> QED
      BY <1>f, <3>1, <3>2, <3>3 DEF OpenFile, ResetFile
  <2>2. /\ disk' # Unparsable => Free(disk', v)
        /\ \A t \in reads' : t # Unparsable => Free(t, v)
    BY <1>b, <1>f
  <2> QED
    BY <2>1, <2>2 DEF Free, FreeStack
<1>10. ASSUME NEW text \in reads, DrainRead(text) PROVE Out'
  BY <1>10, <1>b, <1>f DEF DrainRead
<1>11. ASSUME NEW full \in BOOLEAN, Reread(full) PROVE Out'
  BY <1>11, <1>b, <1>f DEF Reread
<1>12. CASE UNCHANGED docVars
  BY <1>12, <1>d, <1>e DEF docVars
<1> QED
  BY <1>1, <1>2, <1>3, <1>4, <1>5, <1>6, <1>7, <1>8, <1>9, <1>10, <1>11, <1>12
  DEF DocumentNext, DocumentEdit

(* A value only runtime edits carry is never in the base layer nor in the   *)
(* scene file, for any edits, undone, redone, replayed, reloaded or saved.  *)
THEOREM RuntimeNeverLeaks == DocumentSpec => []RuntimeStaysOut
<1>1. StaysOut => RuntimeStaysOut
  BY DEF StaysOut, RuntimeStaysOut, Free
<1> QED
  BY <1>1, InitType, NextType, StaysOutInit, StaysOutStep, PTL DEF DocumentSpec

-----------------------------------------------------------------------------
(* The live stage is a view: a document under a projection behaves as the   *)
(* document alone, so what is proved of a document holds there too.         *)

(* A step of the projection is an edit or a reload of the document, or      *)
(* leaves the document alone.                                               *)
LEMMA ProjectionStep == [Next]_vars => [DocumentNext]_docVars
<1> SUFFICES ASSUME [Next]_vars PROVE [DocumentNext]_docVars
  OBVIOUS
<1>1. CASE DocumentEdit /\ UNCHANGED sceneVars
  BY <1>1 DEF DocumentNext
<1>2. ASSUME NEW full \in BOOLEAN, Restart(full) PROVE DocumentNext
  BY <1>2 DEF Restart, DocumentNext
<1>3. CASE Sync
  BY <1>3 DEF Sync
<1>4. CASE WriteOverlay
  BY <1>4 DEF WriteOverlay
<1>5. CASE ReadOverlay
  BY <1>5 DEF ReadOverlay
<1>6. CASE MountStage
  BY <1>6 DEF MountStage
<1>7. ASSUME NEW i \in DOMAIN spawns, Land(i) \/ GiveUp(i) PROVE UNCHANGED docVars
  BY <1>7 DEF Land, GiveUp
<1>8. CASE UNCHANGED vars
  BY <1>8 DEF vars
<1> QED
  BY <1>1, <1>2, <1>3, <1>4, <1>5, <1>6, <1>7, <1>8 DEF Next, EndWait

(* The document under its projection implements the document: syncing,      *)
(* overlays, stage loads and spawns are invisible to it, and a restart is   *)
(* no more than a reread of the file.                                       *)
THEOREM ProjectionImplementsDocument == Spec => DocumentSpec
<1>1. Init => DocumentInit
  BY DEF Init
<1> QED
  BY <1>1, ProjectionStep, PTL DEF Spec, DocumentSpec

(* Undo stays faithful, clean documents stay saved, late opens keep unsaved *)
(* work, runtime state stays out of the scene file and reaches its own,     *)
(* whatever the stage does meanwhile: spawns that wait, restarts, reloads.  *)
THEOREM SceneKeepsDocument ==
    Spec => /\ []UndoRestores
            /\ []UnsavedWorkIsDirty
            /\ []RuntimeStaysOut
            /\ []RuntimeIsKept
            /\ OpensKeepUnsavedWork
<1> QED
  BY ProjectionImplementsDocument, UndoIsFaithful, CleanMeansSaved,
     RuntimeNeverLeaks, RuntimeReachesItsFile, OpensAreSafe, PTL

-----------------------------------------------------------------------------
(* What replaying entries shows of a prim                                   *)

LogEntry == [gen : Nat, op : Op]

Fixes(e, p) == e.op.kind \in {"set", "remove"} /\ e.op.prim = p
Adds(e, p) == e.op.kind = "add" /\ e.op.prim = p
Speaks(e, p) == Fixes(e, p) \/ Adds(e, p)
Added(x) == IF x = Absent THEN Bare ELSE x
Fixed(e) == IF e.op.kind = "set" THEN e.op.value ELSE Absent

(* Replayed in the order of their generations onto a stage that says x of a *)
(* prim, the entries leave it saying y: the last that sets or removes the   *)
(* prim decides, and an add after it brings a missing prim back.            *)
Shows(E, p, x, y) ==
    \/ \E e \in E : /\ Fixes(e, p)
                    /\ \A f \in E : f.gen > e.gen => ~Fixes(f, p)
                    /\ y = IF \E f \in E : f.gen > e.gen /\ Adds(f, p)
                           THEN Added(Fixed(e)) ELSE Fixed(e)
    \/ /\ \A e \in E : ~Fixes(e, p)
       /\ y = IF \E e \in E : Adds(e, p) THEN Added(x) ELSE x

(* What one more entry makes of it.                                         *)
Shown(e, p, x) == IF Fixes(e, p) THEN Fixed(e) ELSE IF Adds(e, p) THEN Added(x) ELSE x

LEMMA ShowsNothing ==
    ASSUME NEW p, NEW x, NEW y
    PROVE  Shows({}, p, x, y) <=> y = x
BY DEF Shows

LEMMA ShowsMore ==
    ASSUME NEW E \in SUBSET LogEntry, NEW p, NEW x, NEW y, Shows(E, p, x, y),
           NEW e \in LogEntry, \A f \in E : f.gen < e.gen
    PROVE  Shows(E \union {e}, p, x, Shown(e, p, y))
<1> DEFINE F == E \union {e}
<1>1. \A f \in F : f.gen \in Nat
  BY DEF LogEntry
<1>2. ~(Fixes(e, p) /\ Adds(e, p)) /\ Added(Added(x)) = Added(x)
  BY ContentAssumption DEF Fixes, Adds, Added
<1>3. CASE Fixes(e, p)
  <2>1. \A f \in F : ~(f.gen > e.gen)
    BY <1>1
  <2> QED
    BY <1>3, <2>1 DEF Shows, Shown
<1>4. CASE ~Fixes(e, p) /\ \A f \in E : ~Fixes(f, p)
  <2>1. y = IF \E f \in E : Adds(f, p) THEN Added(x) ELSE x
    BY <1>4 DEF Shows
  <2>2. Shown(e, p, y) = IF \E f \in F : Adds(f, p) THEN Added(x) ELSE x
    BY <1>2, <1>4, <2>1 DEF Shown
  <2>3. \A f \in F : ~Fixes(f, p)
    BY <1>4
  <2> QED
    BY <2>2, <2>3 DEF Shows
<1>5. CASE ~Fixes(e, p) /\ \E f \in E : Fixes(f, p)
  <2>1. PICK d \in E : /\ Fixes(d, p)
                       /\ \A f \in E : f.gen > d.gen => ~Fixes(f, p)
                       /\ y = IF \E f \in E : f.gen > d.gen /\ Adds(f, p)
                              THEN Added(Fixed(d)) ELSE Fixed(d)
    BY <1>5 DEF Shows
  <2>2. \A f \in F : f.gen > d.gen => ~Fixes(f, p)
    BY <1>5, <2>1
  <2>3. e.gen > d.gen
    BY <1>1
  <2>4. Added(Added(Fixed(d))) = Added(Fixed(d))
    BY ContentAssumption DEF Added
  <2>5. Shown(e, p, y) = IF \E f \in F : f.gen > d.gen /\ Adds(f, p)
                         THEN Added(Fixed(d)) ELSE Fixed(d)
    BY <1>5, <2>1, <2>3, <2>4 DEF Shown
  <2> QED
    BY <2>1, <2>2, <2>5 DEF Shows
<1> QED
  BY <1>3, <1>4, <1>5

(* Replaying leaves one value, and replaying again what a prim shows        *)
(* already changes nothing.                                                 *)
LEMMA ShowsOne ==
    ASSUME NEW E \in SUBSET LogEntry, \A e, f \in E : e.gen = f.gen => e = f,
           NEW p, NEW x, NEW y, NEW z, Shows(E, p, x, y), Shows(E, p, x, z)
    PROVE  y = z
<1>1. CASE \A e \in E : ~Fixes(e, p)
  BY <1>1 DEF Shows
<1>2. CASE \E e \in E : Fixes(e, p)
  <2> DEFINE Final(d) == Fixes(d, p) /\ \A f \in E : f.gen > d.gen => ~Fixes(f, p)
             Value(d) == IF \E f \in E : f.gen > d.gen /\ Adds(f, p)
                         THEN Added(Fixed(d)) ELSE Fixed(d)
  <2>1. PICK d \in E : Final(d) /\ y = Value(d)
    BY <1>2 DEF Shows
  <2>2. PICK e \in E : Final(e) /\ z = Value(e)
    BY <1>2 DEF Shows
  <2>3. d.gen \in Nat /\ e.gen \in Nat
    BY DEF LogEntry
  <2>4. ~(d.gen > e.gen) /\ ~(e.gen > d.gen)
    BY <2>1, <2>2
  <2>5. d = e
    BY <2>3, <2>4
  <2> QED
    BY <2>1, <2>2, <2>5
<1> QED
  BY <1>1, <1>2

LEMMA ShowsAgain ==
    ASSUME NEW E, NEW p, NEW x, NEW y, Shows(E, p, x, y)
    PROVE  Shows(E, p, y, y)
<1>1. Added(Added(x)) = Added(x)
  BY ContentAssumption DEF Added
<1> QED
  BY <1>1 DEF Shows

(* After replaying, a prim that was there as h says is there still or came  *)
(* back: nothing removed it since.                                          *)
Removes(e, p) == e.op.kind = "remove" /\ e.op.prim = p
Brings(e, p) == e.op.kind \in {"set", "add"} /\ e.op.prim = p

Stays(E, p, h) ==
    \/ \E e \in E : Brings(e, p) /\ \A f \in E : f.gen > e.gen => ~Removes(f, p)
    \/ h /\ \A e \in E : ~Removes(e, p)

LEMMA StaysMore ==
    ASSUME NEW E \in SUBSET LogEntry, NEW p, NEW h, NEW e \in LogEntry,
           \A f \in E : f.gen < e.gen
    PROVE  /\ Brings(e, p) => Stays(E \union {e}, p, h)
           /\ Stays(E, p, h) /\ ~Removes(e, p) => Stays(E \union {e}, p, h)
<1>1. \A f \in E \union {e} : f.gen \in Nat
  BY DEF LogEntry
<1>2. ~(Brings(e, p) /\ Removes(e, p))
  BY DEF Brings, Removes
<1>3. ASSUME Brings(e, p)
      PROVE  Stays(E \union {e}, p, h)
  <2>1. \A f \in E \union {e} : ~(f.gen > e.gen)
    BY <1>1
  <2> QED
    BY <1>3, <2>1 DEF Stays
<1>4. ASSUME Stays(E, p, h), ~Removes(e, p)
      PROVE  Stays(E \union {e}, p, h)
  BY <1>4 DEF Stays
<1> QED
  BY <1>3, <1>4

-----------------------------------------------------------------------------
(* What an edit makes of the composed layers                                *)

(* A prim that entries of both layers speak of, or an entry of one layer    *)
(* and the other layer.                                                     *)
InBoth(E, ls, p) == \E e \in E :
    /\ Speaks(e, p)
    /\ \E l \in Layers \ {e.op.layer} :
         ls[l][p] # Absent \/ \E f \in E : Speaks(f, p) /\ f.op.layer = l

LEMMA ComposedOfOne ==
    ASSUME NEW ls \in LayersType, NEW p \in Prims, NEW l \in Layers,
           \A k \in Layers \ {l} : ls[k][p] = Absent
    PROVE  Composed(ls)[p] = ls[l][p]
<1>1. l \in {"base", "runtime"} /\ Absent \notin Values
  BY ContentAssumption DEF Layers
<1>2. CASE l = "base"
  <2>1. ls["runtime"][p] = Absent
    BY <1>2 DEF Layers
  <2> QED
    BY <1>1, <1>2, <2>1 DEF Composed
<1>3. CASE l = "runtime"
  <2>1. ls["base"][p] = Absent
    BY <1>3 DEF Layers
  <2> QED
    BY <1>1, <1>3, <2>1 DEF Composed
<1> QED
  BY <1>1, <1>2, <1>3

(* An edit of one prim changes what its layer says of that prim, as its     *)
(* replay does.                                                             *)
LEMMA AuthoredShows ==
    ASSUME NEW text \in Content, NEW e \in LogEntry, e.op.kind # "replace", NEW p \in Prims
    PROVE  /\ Authored(e.op, text) \in Content
           /\ Authored(e.op, text)[p] = Shown(e, p, text[p])
<1> DEFINE op == e.op
<1>1. op \in Op /\ op.kind \in {"set", "add", "remove"} /\ op.prim \in Prims
      /\ (op.kind = "set" => op.value \in Values)
  BY DEF LogEntry, Op
<1>2. CASE op.kind = "set"
  BY <1>1, <1>2 DEF Authored, Shown, Fixes, Adds, Fixed, Content
<1>3. CASE op.kind = "add"
  BY <1>1, <1>3 DEF Authored, Shown, Fixes, Adds, Added, Content
<1>4. CASE op.kind = "remove"
  BY <1>1, <1>4 DEF Authored, Shown, Fixes, Adds, Fixed, Content
<1> QED
  BY <1>1, <1>2, <1>3, <1>4

LEMMA AfterShows ==
    ASSUME NEW ls \in LayersType, NEW e \in LogEntry, e.op.kind # "replace", NEW p \in Prims
    PROVE  /\ e.op.layer \in Layers /\ e.op.prim \in Prims
           /\ \A l \in Layers : After(e.op, ls)[l][p] =
                  IF l = e.op.layer THEN Shown(e, p, ls[l][p]) ELSE ls[l][p]
<1>1. e.op.layer \in Layers /\ e.op.prim \in Prims
  BY DEF LogEntry, Op
<1>2. ls[e.op.layer] \in Content
  BY <1>1 DEF LayersType
<1>3. Authored(e.op, ls[e.op.layer])[p] = Shown(e, p, ls[e.op.layer][p])
  BY <1>2, AuthoredShows
<1> QED
  BY <1>1, <1>3 DEF After, LayersType

-----------------------------------------------------------------------------
(* The op ring                                                              *)

(* The ring holds the newest entries, numbered up to the generation.        *)
Numbered(log, g) ==
    /\ Len(log) <= g
    /\ \A i \in 1..Len(log) : log[i].gen = g - Len(log) + i

Unsynced(log, s) == {e \in LogEntry : e.gen > s /\ \E i \in 1..Len(log) : log[i] = e}

(* What the ring lists after a generation is its tail from there on.        *)
LEMMA NewerIsTail ==
    ASSUME NEW log \in LogType, NEW g \in Nat, Numbered(log, g), NEW s \in Nat, s <= g
    PROVE  LET d == IF s < g - Len(log) THEN 0 ELSE s - (g - Len(log))
           IN  /\ d \in 0..Len(log)
               /\ Newer(log, s) = [k \in 1..(Len(log) - d) |-> log[d + k]]
<1> DEFINE n == Len(log)
           d == IF s < g - n THEN 0 ELSE s - (g - n)
           Tails(i) == [k \in 1..(IF i <= d THEN 0 ELSE i - d) |-> log[d + k]]
           V == Seq(LogEntry)
           N(f) == f = [i \in 0..n |->
                       IF i = 0 THEN <<>>
                       ELSE IF log[i].gen > s THEN Append(f[i - 1], log[i]) ELSE f[i - 1]]
<1>1. n \in Nat /\ n <= g /\ \A i \in 1..n : log[i] \in LogEntry /\ log[i].gen = g - n + i
  <2>1. log \in Seq(LogEntry)
    BY DEF LogType, LogEntry
  <2> QED
    BY <2>1 DEF Numbered
<1>2. d \in 0..n /\ \A i \in 1..n : log[i].gen > s <=> i > d
  BY <1>1
<1>3. Newer(log, s) = (CHOOSE f : N(f))[n]
  BY DEF Newer
<1> HIDE DEF n, d
<1>4. <<>> \in V /\ \A t \in V, e \in LogEntry : Append(t, e) \in V
  OBVIOUS
<1> HIDE DEF V
<1>5. \E f \in [0..n -> V] : N(f)
  <2> DEFINE step == [i \in 1..n |-> [t \in V |->
                        IF log[i].gen > s THEN Append(t, log[i]) ELSE t]]
  <2>1. step \in [1..n -> [V -> V]]
    BY <1>1, <1>4
  <2>2. \A i \in 1..n, t \in V :
          step[i][t] = IF log[i].gen > s THEN Append(t, log[i]) ELSE t
    OBVIOUS
  <2> HIDE DEF step
  <2>3. PICK f \in [0..n -> V] : Runs(f, <<>>, step, n)
    BY <1>1, <1>4, <2>1, RecursionExists
  <2>4. ASSUME NEW i \in 1..n
        PROVE  f[i] = IF log[i].gen > s THEN Append(f[i - 1], log[i]) ELSE f[i - 1]
    <3>1. f[i - 1] \in V
      BY <1>1
    <3> QED
      BY <2>2, <2>3, <3>1 DEF Runs
  <2>5. \A i \in 0..n : i # 0 => i \in 1..n
    BY <1>1
  <2> QED
    BY <2>3, <2>4, <2>5 DEF Runs
<1> DEFINE f == CHOOSE f : N(f)
<1>6. N(f)
  BY <1>5
<1> HIDE DEF f
<1> DEFINE T == {i \in Nat : i <= n => f[i] = Tails(i)}
<1>7. 0 \in T
  <2>1. f[0] = <<>>
    BY <1>1, <1>6
  <2>2. Tails(0) = <<>>
    BY <1>2
  <2> QED
    BY <2>1, <2>2
<1>8. ASSUME NEW i \in Nat, i \in T
      PROVE  i + 1 \in T
  <2>1. SUFFICES ASSUME i + 1 <= n
                 PROVE  f[i + 1] = Tails(i + 1)
    OBVIOUS
  <2>2. i + 1 \in 1..n /\ i + 1 \in 0..n /\ i + 1 # 0 /\ (i + 1) - 1 = i /\ i <= n
    BY <1>1, <2>1
  <2>3. f[i] = Tails(i)
    BY <1>8, <2>2
  <2>4. f[i + 1] = IF i + 1 > d THEN Append(Tails(i), log[i + 1]) ELSE Tails(i)
    <3>1. f[i + 1] = IF log[i + 1].gen > s THEN Append(f[i], log[i + 1]) ELSE f[i]
      BY <1>6, <2>2
    <3> HIDE DEF Tails
    <3> QED
      BY <1>2, <2>2, <2>3, <3>1
  <2>5. CASE i + 1 > d
    <3>1. Tails(i) = [k \in 1..(i - d) |-> log[d + k]] /\ i - d \in Nat
      BY <1>2, <2>5
    <3>2. Tails(i + 1) = [k \in 1..(i + 1 - d) |-> log[d + k]]
      BY <1>2, <2>5
    <3> DEFINE t == [k \in 1..(i - d) |-> log[d + k]]
    <3>3. t \in V /\ Len(t) = i - d
      BY <1>1, <1>2, <2>2, <3>1 DEF V
    <3>4. Append(t, log[i + 1]) = [k \in 1..(i + 1 - d) |-> log[d + k]]
      <4>1. d \in Nat /\ i + 1 - d = (i - d) + 1 /\ d + (i - d) + 1 = i + 1
        BY <1>2
      <4>2. DOMAIN Append(t, log[i + 1]) = 1..(i + 1 - d)
        BY <3>1, <3>3, <4>1 DEF V
      <4>3. ASSUME NEW k \in 1..(i + 1 - d)
            PROVE  Append(t, log[i + 1])[k] = log[d + k]
        BY <3>1, <3>3, <4>1 DEF V
      <4>4. Append(t, log[i + 1]) \in Seq(LogEntry)
        BY <1>1, <2>2, <3>3 DEF V
      <4>5. \A x \in Seq(LogEntry) : x = [k \in DOMAIN x |-> x[k]]
        OBVIOUS
      <4> HIDE DEF t
      <4> QED
        BY <4>2, <4>3, <4>4, <4>5
    <3> QED
      BY <2>4, <2>5, <3>1, <3>2, <3>4
  <2>6. CASE ~(i + 1 > d)
    <3>1. Tails(i + 1) = Tails(i)
      BY <1>2, <2>6
    <3> QED
      BY <2>4, <2>6, <3>1
  <2> QED
    BY <2>5, <2>6
<1> HIDE DEF T
<1>9. n \in T
  BY <1>1, <1>7, <1>8, InductionOnNat
<1>10. f[n] = [k \in 1..(n - d) |-> log[d + k]]
  <2>1. f[n] = Tails(n)
    BY <1>1, <1>9 DEF T
  <2>2. (IF n <= d THEN 0 ELSE n - d) = n - d
    BY <1>1, <1>2
  <2> QED
    BY <2>1, <2>2
<1> QED
  BY <1>2, <1>3, <1>10 DEF f, d, n

LEMMA NewerListsUnsynced ==
    ASSUME NEW log \in LogType, NEW g \in Nat, Numbered(log, g), NEW s \in Nat, s <= g
    PROVE  LET ops == Newer(log, s)
           IN  /\ ops \in Seq(LogEntry)
               /\ Len(ops) = g - s <=> g - Len(log) <= s
               /\ Unsynced(log, s) = {ops[k] : k \in 1..Len(ops)}
               /\ g - Len(log) <= s => \A k \in 1..Len(ops) : ops[k].gen = s + k
<1> DEFINE n == Len(log)
           d == IF s < g - n THEN 0 ELSE s - (g - n)
           ops == Newer(log, s)
<1>1. n \in Nat /\ n <= g /\ \A i \in 1..n : log[i] \in LogEntry /\ log[i].gen = g - n + i
  <2>1. log \in Seq(LogEntry)
    BY DEF LogType, LogEntry
  <2> QED
    BY <2>1 DEF Numbered
<1>2. d \in 0..n /\ ops = [k \in 1..(n - d) |-> log[d + k]]
  BY NewerIsTail
<1> HIDE DEF n, ops
<1>3. n - d \in Nat /\ \A k \in 1..(n - d) : d + k \in 1..n
  BY <1>1, <1>2
<1>4. \A k \in 1..(n - d) : ops[k] = log[d + k] /\ ops[k] \in LogEntry
  BY <1>1, <1>2, <1>3
<1>5. ops \in Seq(LogEntry) /\ Len(ops) = n - d
  <2>1. \A m \in Nat : \A f \in [1..m -> LogEntry] : f \in Seq(LogEntry) /\ Len(f) = m
    OBVIOUS
  <2>2. ops \in [1..(n - d) -> LogEntry]
    <3> HIDE DEF d
    <3> QED
      BY <1>2, <1>4
  <2> HIDE DEF d
  <2> QED
    BY <1>3, <2>1, <2>2
<1>6. Len(ops) = g - s <=> g - n <= s
  BY <1>1, <1>2, <1>5
<1>7. ASSUME NEW e \in Unsynced(log, s)
      PROVE  \E k \in 1..Len(ops) : ops[k] = e
  <2>1. PICK i \in 1..n : log[i] = e /\ e.gen > s
    BY <1>7 DEF Unsynced, n
  <2>2. i - d \in 1..(n - d) /\ d + (i - d) = i
    BY <1>1, <1>2, <2>1
  <2>3. ops[i - d] = e
    BY <1>4, <2>1, <2>2
  <2> QED
    BY <1>5, <2>2, <2>3
<1>8. ASSUME NEW k \in 1..Len(ops)
      PROVE  ops[k] \in Unsynced(log, s) /\ (g - n <= s => ops[k].gen = s + k)
  <2>1. k \in 1..(n - d) /\ d + k \in 1..n
    BY <1>3, <1>5
  <2>2. ops[k] = log[d + k] /\ ops[k] \in LogEntry /\ ops[k].gen = g - n + (d + k)
    BY <1>1, <1>4, <2>1
  <2>3. ops[k].gen > s
    BY <1>1, <1>2, <2>1, <2>2
  <2>4. g - n <= s => ops[k].gen = s + k
    BY <1>1, <1>2, <2>1, <2>2
  <2> QED
    BY <2>1, <2>2, <2>3, <2>4 DEF Unsynced, n
<1> QED
  BY <1>5, <1>6, <1>7, <1>8 DEF n, ops

(* The projection can replay: the ring holds all it has not synced, and     *)
(* none of it replaces a whole layer.                                       *)
Incremental(log, g, s) ==
    /\ g - Len(log) <= s
    /\ \A e \in Unsynced(log, s) : e.op.kind # "replace"

LEMMA LoggedCarries ==
    ASSUME NEW log \in LogType, Len(log) <= OpRing, NEW g \in Nat, Numbered(log, g),
           NEW op \in Op, NEW s \in Nat, s <= g
    PROVE  LET more == Logged(log, g + 1, op)
               e == [gen |-> g + 1, op |-> op]
           IN  /\ Numbered(more, g + 1)
               /\ Incremental(more, g + 1, s) =>
                     /\ Incremental(log, g, s) /\ op.kind # "replace"
                     /\ Unsynced(more, s) = Unsynced(log, s) \union {e}
<1> DEFINE n == Len(log)
           e == [gen |-> g + 1, op |-> op]
           longer == Append(log, e)
           more == Logged(log, g + 1, op)
           d == IF n = OpRing THEN 1 ELSE 0
<1>1. n \in Nat /\ n <= g /\ \A i \in 1..n : log[i] \in LogEntry /\ log[i].gen = g - n + i
  <2>1. log \in Seq(LogEntry)
    BY DEF LogType, LogEntry
  <2> QED
    BY <2>1 DEF Numbered
<1>2. OpRing \in Nat \ {0} /\ d \in 0..n /\ n + 1 - d \in Nat
  BY <1>1, BoundsAssumption
<1>3. e \in LogEntry /\ e.gen = g + 1 /\ e.op = op
  BY DEF LogEntry
<1>4. /\ longer \in Seq(LogEntry) /\ Len(longer) = n + 1
      /\ \A i \in 1..n : longer[i] = log[i]
      /\ longer[n + 1] = e
  <2>1. log \in Seq(LogEntry)
    BY DEF LogType, LogEntry
  <2> QED
    BY <1>3, <2>1
<1>5. Len(more) = n + 1 - d /\ \A i \in 1..(n + 1 - d) : more[i] = longer[i + d]
  <2>1. more = IF n = OpRing THEN Tail(longer) ELSE longer
    BY DEF Logged
  <2> HIDE DEF longer, n
  <2>2. CASE n = OpRing
    <3>1. Len(more) = n /\ \A i \in 1..n : more[i] = longer[i + 1]
      <4>1. \A t \in Seq(LogEntry) : Len(t) > 0 =>
              Len(Tail(t)) = Len(t) - 1 /\ \A i \in 1..(Len(t) - 1) : Tail(t)[i] = t[i + 1]
        OBVIOUS
      <4>2. more = Tail(longer) /\ n + 1 > 0 /\ (n + 1) - 1 = n
        BY <1>1, <2>1, <2>2
      <4> QED
        BY <1>4, <4>1, <4>2
    <3> QED
      BY <1>1, <2>2, <3>1
  <2>3. CASE n # OpRing
    <3>1. more = longer /\ d = 0 /\ n + 1 - d = n + 1
      BY <1>1, <2>1, <2>3
    <3>2. \A i \in 1..(n + 1) : i + 0 = i
      BY <1>1
    <3> QED
      BY <1>4, <3>1, <3>2
  <2> QED
    BY <2>2, <2>3
<1> HIDE DEF n, e, longer, more
<1>6. ASSUME NEW i \in 1..(n + 1)
      PROVE  longer[i].gen = g - n + i
  <2>1. CASE i \in 1..n
    BY <1>1, <1>4, <2>1
  <2>2. CASE i = n + 1
    BY <1>1, <1>3, <1>4, <2>2
  <2> QED
    BY <1>1, <2>1, <2>2
<1>7. Numbered(more, g + 1)
  <2>1. ASSUME NEW i \in 1..(n + 1 - d)
        PROVE  more[i].gen = (g + 1) - (n + 1 - d) + i
    <3>1. i + d \in 1..(n + 1)
      BY <1>1, <1>2
    <3>2. more[i].gen = g - n + (i + d)
      BY <1>5, <1>6, <3>1
    <3>3. d \in Nat /\ i \in Nat
      BY <1>1, <1>2
    <3> HIDE DEF d
    <3> QED
      BY <1>1, <3>2, <3>3
  <2>2. n + 1 - d <= g + 1
    BY <1>1, <1>2
  <2> QED
    BY <1>5, <2>1, <2>2 DEF Numbered
<1>8. ASSUME Incremental(more, g + 1, s)
      PROVE  /\ Incremental(log, g, s) /\ op.kind # "replace"
             /\ Unsynced(more, s) = Unsynced(log, s) \union {e}
  <2>1. (g + 1) - (n + 1 - d) <= s /\ g - n + d <= s
    BY <1>1, <1>2, <1>5, <1>8 DEF Incremental
  <2>2. e \in Unsynced(more, s)
    <3>1. n + 1 - d \in 1..(n + 1 - d) /\ (n + 1 - d) + d = n + 1
      BY <1>1, <1>2
    <3>2. more[n + 1 - d] = e
      BY <1>4, <1>5, <3>1
    <3> QED
      BY <1>3, <1>5, <3>1, <3>2 DEF Unsynced
  <2>3. ASSUME NEW f \in Unsynced(log, s)
        PROVE  f \in Unsynced(more, s)
    <3>1. PICK i \in 1..n : log[i] = f /\ f.gen > s
      BY <2>3 DEF Unsynced, n
    <3>2. i - d \in 1..(n + 1 - d) /\ (i - d) + d = i
      BY <1>1, <1>2, <2>1, <3>1
    <3>3. more[i - d] = f
      BY <1>4, <1>5, <3>1, <3>2
    <3> QED
      BY <1>5, <2>3, <3>2, <3>3 DEF Unsynced
  <2>4. ASSUME NEW f \in Unsynced(more, s), f # e
        PROVE  f \in Unsynced(log, s)
    <3>1. PICK i \in 1..(n + 1 - d) : more[i] = f /\ f.gen > s
      BY <1>5, <2>4 DEF Unsynced
    <3>2. i + d \in 1..(n + 1) /\ longer[i + d] = f
      BY <1>1, <1>2, <1>5, <3>1
    <3>3. i + d \in 1..n
      BY <1>1, <1>2, <1>4, <2>4, <3>2
    <3>4. log[i + d] = f
      BY <1>4, <3>2, <3>3
    <3> QED
      BY <2>4, <3>1, <3>3, <3>4 DEF Unsynced, n
  <2>5. op.kind # "replace"
    BY <1>3, <1>8, <2>2 DEF Incremental
  <2>6. Incremental(log, g, s)
    <3>1. g - n <= s
      BY <1>1, <1>2, <2>1
    <3>2. \A f \in Unsynced(log, s) : f.op.kind # "replace"
      BY <1>8, <2>3 DEF Incremental
    <3> QED
      BY <3>1, <3>2 DEF Incremental, n
  <2> QED
    BY <2>2, <2>3, <2>4, <2>5, <2>6
<1> QED
  BY <1>7, <1>8 DEF e, more

-----------------------------------------------------------------------------
(* What a replay would make of content that is behind                       *)

Said == Values \union {Absent, Bare}

(* Replaying entries makes what content says of a prim what the composed    *)
(* layers say; a prim that refers to an asset only has to be there.  h is   *)
(* whether the content has the prim, or a spawn that will bring it.         *)
Follows(ls, E, p, x) == ~InBoth(E, ls, p) => Shows(E, p, x, Composed(ls)[p])
Holds(ls, E, p, h) == ~InBoth(E, ls, p) /\ Composed(ls)[p] # Absent => Stays(E, p, h)
Tracks(ls, E, p, x, h) ==
    IF p \in Referenced THEN Holds(ls, E, p, h) ELSE Follows(ls, E, p, x)

LEMMA CaughtUp ==
    ASSUME NEW ls, NEW p, NEW x, NEW h, x = Composed(ls)[p], x # Absent => h
    PROVE  Tracks(ls, {}, p, x, h)
BY ShowsNothing DEF Tracks, Holds, Follows, Stays

LEMMA MoreTracks ==
    ASSUME NEW ls \in LayersType, NEW E \in SUBSET LogEntry, NEW e \in LogEntry,
           \A f \in E : f.gen < e.gen, e.op.kind # "replace",
           NEW p \in Prims, NEW x, NEW h, Tracks(ls, E, p, x, h)
    PROVE  Tracks(After(e.op, ls), E \union {e}, p, x, h)
<1> DEFINE ls2 == After(e.op, ls)
           F == E \union {e}
           l == e.op.layer
<1>1. /\ l \in Layers /\ e.op.prim \in Prims
      /\ \A k \in Layers : ls2[k][p] = IF k = l THEN Shown(e, p, ls[k][p]) ELSE ls[k][p]
  BY AfterShows
<1>2. ls2 \in LayersType
  BY AfterType DEF LogEntry
<1>3. \A f \in E : f.op.layer \in Layers
  BY DEF LogEntry, Op
<1> HIDE DEF ls2
<1>4. ASSUME ~InBoth(F, ls2, p)
      PROVE  ~InBoth(E, ls, p) /\ Composed(ls2)[p] = Shown(e, p, Composed(ls)[p])
  <2>1. CASE ~Speaks(e, p)
    <3>1. \A k \in Layers : ls2[k][p] = ls[k][p]
      BY <1>1, <2>1 DEF Shown, Speaks
    <3>2. ~InBoth(E, ls, p)
      BY <1>4, <3>1 DEF InBoth
    <3>3. Composed(ls2)[p] = Composed(ls)[p]
      BY <3>1 DEF Composed, Layers
    <3> QED
      BY <2>1, <3>2, <3>3 DEF Shown, Speaks
  <2>2. CASE Speaks(e, p)
    <3>1. \A k \in Layers \ {l} :
            ls2[k][p] = Absent /\ \A f \in F : ~(Speaks(f, p) /\ f.op.layer = k)
      BY <1>4, <2>2 DEF InBoth
    <3>2. \A k \in Layers \ {l} : ls[k][p] = Absent
      BY <1>1, <3>1
    <3>3. \A f \in E : Speaks(f, p) => f.op.layer = l
      BY <1>3, <3>1
    <3>4. ~InBoth(E, ls, p)
      BY <3>2, <3>3 DEF InBoth
    <3>5. Composed(ls)[p] = ls[l][p] /\ Composed(ls2)[p] = ls2[l][p]
      BY <1>1, <1>2, <3>1, <3>2, ComposedOfOne
    <3> QED
      BY <1>1, <3>4, <3>5
  <2> QED
    BY <2>1, <2>2
<1>5. ASSUME Follows(ls, E, p, x)
      PROVE  Follows(ls2, F, p, x)
  <2>1. SUFFICES ASSUME ~InBoth(F, ls2, p)
                 PROVE  Shows(F, p, x, Composed(ls2)[p])
    BY DEF Follows
  <2>2. Shows(E, p, x, Composed(ls)[p])
    BY <1>4, <1>5, <2>1 DEF Follows
  <2>3. Shows(F, p, x, Shown(e, p, Composed(ls)[p]))
    BY <2>2, ShowsMore
  <2> QED
    BY <1>4, <2>1, <2>3
<1>6. ASSUME Holds(ls, E, p, h)
      PROVE  Holds(ls2, F, p, h)
  <2>1. SUFFICES ASSUME ~InBoth(F, ls2, p), Composed(ls2)[p] # Absent
                 PROVE  Stays(F, p, h)
    BY DEF Holds
  <2>2. Brings(e, p) => Stays(F, p, h)
    BY StaysMore
  <2>3. CASE ~Brings(e, p)
    <3>1. ~Removes(e, p)
      <4>1. Removes(e, p) => Shown(e, p, Composed(ls)[p]) = Absent
        BY DEF Removes, Shown, Fixes, Fixed
      <4> QED
        BY <1>4, <2>1, <4>1
    <3>2. Shown(e, p, Composed(ls)[p]) = Composed(ls)[p]
      BY <2>3, <3>1 DEF Shown, Fixes, Adds, Removes, Brings
    <3>3. Stays(E, p, h)
      BY <1>4, <1>6, <2>1, <3>2 DEF Holds
    <3> QED
      BY <3>1, <3>3, StaysMore
  <2> QED
    BY <2>2, <2>3
<1> QED
  BY <1>5, <1>6 DEF Tracks, ls2

(* What an edit or several make of a document carries over what was true of *)
(* content that lags behind it.                                             *)
CarriesOver(ls, log, g, ls2, log2, g2, s) ==
    Incremental(log2, g2, s) =>
        /\ Incremental(log, g, s)
        /\ \A p \in Prims, x \in Said, h \in BOOLEAN :
             Tracks(ls, Unsynced(log, s), p, x, h) => Tracks(ls2, Unsynced(log2, s), p, x, h)

LEMMA OneCarries ==
    ASSUME NEW ls \in LayersType, NEW log \in LogType, Len(log) <= OpRing,
           NEW g \in Nat, Numbered(log, g), NEW op \in Op, NEW s \in Nat, s <= g
    PROVE  LET more == Logged(log, g + 1, op)
           IN  /\ Numbered(more, g + 1)
               /\ CarriesOver(ls, log, g, After(op, ls), more, g + 1, s)
<1> DEFINE more == Logged(log, g + 1, op)
           e == [gen |-> g + 1, op |-> op]
<1>1. Numbered(more, g + 1)
  BY LoggedCarries
<1>2. ASSUME Incremental(more, g + 1, s)
      PROVE  /\ Incremental(log, g, s)
             /\ \A p \in Prims, x \in Said, h \in BOOLEAN :
                  Tracks(ls, Unsynced(log, s), p, x, h)
                    => Tracks(After(op, ls), Unsynced(more, s), p, x, h)
  <2>1. /\ Incremental(log, g, s) /\ op.kind # "replace"
        /\ Unsynced(more, s) = Unsynced(log, s) \union {e}
    BY <1>2, LoggedCarries
  <2>2. e \in LogEntry /\ e.op = op /\ e.gen = g + 1
    BY DEF LogEntry
  <2>3. Unsynced(log, s) \in SUBSET LogEntry
    BY DEF Unsynced
  <2>4. ASSUME NEW f \in Unsynced(log, s)
        PROVE  f.gen < e.gen
    <3>1. Len(log) \in Nat /\ \A i \in 1..Len(log) : log[i].gen = g - Len(log) + i
      BY DEF LogType, Numbered
    <3>2. PICK i \in 1..Len(log) : log[i] = f
      BY <2>4 DEF Unsynced
    <3> QED
      BY <2>2, <3>1, <3>2
  <2> HIDE DEF e, more
  <2>5. ASSUME NEW p \in Prims, NEW x \in Said, NEW h \in BOOLEAN,
               Tracks(ls, Unsynced(log, s), p, x, h)
        PROVE  Tracks(After(op, ls), Unsynced(more, s), p, x, h)
    <3>1. Tracks(After(e.op, ls), Unsynced(log, s) \union {e}, p, x, h)
      BY <2>1, <2>2, <2>3, <2>4, <2>5, MoreTracks
    <3> QED
      BY <2>1, <2>2, <3>1
  <2> QED
    BY <2>1, <2>5
<1> QED
  BY <1>1, <1>2 DEF CarriesOver

LEMMA InitNumbered == DocumentInit => Numbered(opLog, generation)
<1>1. <<>> \in LogType /\ Len(<<>>) = 0 /\ 0 <= OpRing /\ Marker("runtime") \in Op
  BY MarkerType, BoundsAssumption DEF LogType, Layers
<1>2. Numbered(<<>>, 0)
  BY DEF Numbered
<1>3. Numbered(Logged(<<>>, 0 + 1, Marker("runtime")), 0 + 1)
  BY <1>1, <1>2, LoggedCarries
<1>4. 0 + 1 = 1
  OBVIOUS
<1>5. Numbered(Logged(<<>>, 1, Marker("runtime")), 1)
  BY <1>3, <1>4
<1> QED
  BY <1>2, <1>5 DEF DocumentInit

(* No step of the document takes from lagging content what was true of it,  *)
(* unless it keeps the projection from replaying.                           *)
LEMMA DocumentCarries ==
    ASSUME Typed, Numbered(opLog, generation), [DocumentNext]_docVars,
           NEW s \in Nat, s <= generation
    PROVE  /\ Numbered(opLog', generation')
           /\ generation' >= generation
           /\ generation' = generation => layers' = layers /\ opLog' = opLog
           /\ CarriesOver(layers, opLog, generation, layers', opLog', generation', s)
<1> DEFINE Goal == /\ Numbered(opLog', generation')
                   /\ generation' >= generation
                   /\ generation' = generation => layers' = layers /\ opLog' = opLog
                   /\ CarriesOver(layers, opLog, generation, layers', opLog', generation', s)
<1>1. /\ layers \in LayersType /\ generation \in Nat
      /\ opLog \in LogType /\ Len(opLog) <= OpRing
      /\ undo \in Seq(EntryType) /\ redo \in Seq(EntryType)
  BY DEF Typed
<1>2. \A entry \in EntryType : entry.op \in Op
  BY DEF EntryType
<1>3. ASSUME NEW op \in Op, Commit(op)
      PROVE  Goal
  <2>1. /\ generation' = generation + 1 /\ layers' = After(op, layers)
        /\ opLog' = Logged(opLog, generation + 1, op)
    BY <1>3 DEF Commit
  <2>2. /\ Numbered(Logged(opLog, generation + 1, op), generation + 1)
        /\ CarriesOver(layers, opLog, generation, After(op, layers),
                       Logged(opLog, generation + 1, op), generation + 1, s)
    BY <1>1, OneCarries
  <2> QED
    BY <1>1, <2>1, <2>2
<1>4. ASSUME NEW ops \in ChangeSets, ApplyIntent(ops[1], ops[2])
      PROVE  Goal
  <2> DEFINE g == generation + 1
             between == After(ops[1], layers)
             once == Logged(opLog, g, ops[1])
  <2>1. ops[1] \in Op /\ ops[2] \in Op /\ g \in Nat /\ s <= g
    BY <1>1, OpsAssumption
  <2>2. /\ generation' = g + 1 /\ layers' = After(ops[2], between)
        /\ opLog' = Logged(once, g + 1, ops[2])
    BY <1>1, <1>4 DEF ApplyIntent
  <2>3. between \in LayersType /\ once \in LogType /\ Len(once) <= OpRing
    <3> HIDE DEF g
    <3>1. between \in LayersType
      BY <1>1, <2>1, AfterType
    <3> QED
      BY <1>1, <2>1, <3>1, LoggedType
  <2>4. /\ Numbered(once, g)
        /\ CarriesOver(layers, opLog, generation, between, once, g, s)
    BY <1>1, <2>1, OneCarries
  <2>5. g + 1 # generation /\ g + 1 >= generation
    BY <1>1
  <2> HIDE DEF g, between, once
  <2>6. /\ Numbered(Logged(once, g + 1, ops[2]), g + 1)
        /\ CarriesOver(between, once, g, After(ops[2], between),
                       Logged(once, g + 1, ops[2]), g + 1, s)
    BY <2>1, <2>3, <2>4, OneCarries
  <2>7. CarriesOver(layers, opLog, generation, layers', opLog', generation', s)
    BY <2>2, <2>4, <2>6 DEF CarriesOver
  <2> QED
    BY <2>2, <2>5, <2>6, <2>7
<1>5. ASSUME generation' = generation + 1,
             opLog' = Logged(opLog, generation', Marker("base"))
      PROVE  Goal
  <2>1. Marker("base") \in Op /\ Marker("base").kind = "replace"
    BY MarkerType DEF Marker, Replace, Layers
  <2>2. /\ Numbered(Logged(opLog, generation + 1, Marker("base")), generation + 1)
        /\ ~Incremental(Logged(opLog, generation + 1, Marker("base")), generation + 1, s)
    BY <1>1, <2>1, LoggedCarries
  <2>3. Numbered(opLog', generation') /\ ~Incremental(opLog', generation', s)
    BY <1>5, <2>2
  <2> QED
    BY <1>1, <1>5, <2>3 DEF CarriesOver
<1>6. ASSUME UNCHANGED <<layers, generation, opLog>>
      PROVE  Goal
  BY <1>1, <1>6 DEF CarriesOver
<1>7. ASSUME NEW text, OpenFile(text) \/ ResetFile(text)
      PROVE  Goal
  <2>1. \/ UNCHANGED <<layers, generation, opLog>>
        \/ generation' = generation + 1 /\ opLog' = Logged(opLog, generation', Marker("base"))
    BY <1>7 DEF OpenFile, ResetFile, doc
  <2> QED
    BY <1>5, <1>6, <2>1
<1> HIDE DEF Goal
<1>8. ASSUME NEW op \in UserOps, Apply(op) PROVE Goal
  BY <1>3, <1>8, OpsAssumption DEF Apply
<1>9. ASSUME Undo PROVE Goal
  <2>1. Last(undo) \in EntryType
    BY <1>9, <1>1, StackKept, MarkerType DEF Undo, Layers
  <2> QED
    BY <1>2, <1>3, <1>9, <2>1 DEF Undo
<1>10. ASSUME Redo PROVE Goal
  <2>1. Last(redo) \in EntryType
    BY <1>10, <1>1, StackKept, MarkerType DEF Redo, Layers
  <2> QED
    BY <1>2, <1>3, <1>10, <2>1 DEF Redo
<1>11. ASSUME NEW op \in RemoteOps, Replay(op) PROVE Goal
  BY <1>3, <1>11, OpsAssumption DEF Replay
<1>12. ASSUME Save PROVE Goal
  BY <1>6, <1>12 DEF Save
<1>13. ASSUME KeepRuntime PROVE Goal
  BY <1>6, <1>13 DEF KeepRuntime
<1>14. ASSUME NEW text, ExternalEdit(text) PROVE Goal
  BY <1>6, <1>14 DEF ExternalEdit, doc
<1>15. ASSUME ReadFile PROVE Goal
  BY <1>6, <1>15 DEF ReadFile, doc
<1>16. ASSUME NEW text, DrainRead(text) PROVE Goal
  BY <1>7, <1>16 DEF DrainRead
<1>17. ASSUME NEW full \in BOOLEAN, Reread(full) PROVE Goal
  BY <1>7, <1>17 DEF Reread
<1>18. ASSUME UNCHANGED docVars PROVE Goal
  BY <1>6, <1>18 DEF docVars
<1>19. Goal
  BY <1>4, <1>8, <1>9, <1>10, <1>11, <1>12, <1>13, <1>14, <1>15, <1>16, <1>17, <1>18
  DEF DocumentNext, DocumentEdit
<1> QED
  BY <1>19 DEF Goal

-----------------------------------------------------------------------------
(* The replay of the entries the projection has not synced                  *)

Spawn == [prim : Referenced, translate : Values \union {NoTranslate}]
SpawnSeq == Seq(Spawn)
Live == [stage : Content, spawns : SpawnSeq]

There(live, p) ==
    live.stage[p] # Absent \/ \E i \in DOMAIN live.spawns : live.spawns[i].prim = p

LEMMA FirstWaiting ==
    ASSUME NEW live \in Live, NEW p, Waiting(live, p) # {}
    PROVE  LET i == CHOOSE k \in Waiting(live, p) : \A m \in Waiting(live, p) : k <= m
           IN  i \in Waiting(live, p)
<1>1. Waiting(live, p) \subseteq Nat
  BY DEF Waiting, Live, SpawnSeq
<1> QED
  BY <1>1, LeastNatural

LEMMA ReplayedShows ==
    ASSUME NEW e \in LogEntry, e.op.kind # "replace", NEW live \in Live
    PROVE  LET next == Replayed(e.op, live)
           IN  /\ next \in Live
               /\ \A p \in Prims :
                    /\ p \notin Referenced => next.stage[p] = Shown(e, p, live.stage[p])
                    /\ Brings(e, p) => There(next, p)
                    /\ There(live, p) /\ ~Removes(e, p) => There(next, p)
<1> DEFINE op == e.op
           next == Replayed(op, live)
           Goal == /\ next \in Live
                   /\ \A p \in Prims :
                        /\ p \notin Referenced => next.stage[p] = Shown(e, p, live.stage[p])
                        /\ Brings(e, p) => There(next, p)
                        /\ There(live, p) /\ ~Removes(e, p) => There(next, p)
<1>1. /\ live.stage \in Content /\ live.spawns \in SpawnSeq
      /\ op \in Op /\ op.kind \in {"set", "add", "remove"} /\ op.prim \in Prims
      /\ (op.kind = "set" => op.value \in Values)
  BY DEF Live, LogEntry, Op
<1>2. CASE op.kind = "set" /\ Waiting(live, op.prim) # {}
  <2> DEFINE i == CHOOSE k \in Waiting(live, op.prim) :
                      \A m \in Waiting(live, op.prim) : k <= m
  <2>1. i \in DOMAIN live.spawns /\ live.spawns[i].prim = op.prim
    <3>1. i \in Waiting(live, op.prim)
      BY <1>1, <1>2, FirstWaiting
    <3> QED
      BY <3>1 DEF Waiting
  <2>2. next = [live EXCEPT !.spawns[i].translate = op.value]
    BY <1>2 DEF Replayed
  <2> HIDE DEF i, next, op
  <2>3. /\ next.stage = live.stage
        /\ next.spawns = [live.spawns EXCEPT ![i].translate = op.value]
        /\ next = [stage |-> live.stage, spawns |-> next.spawns]
    BY <2>2 DEF Live
  <2>4. /\ DOMAIN next.spawns = DOMAIN live.spawns /\ next.spawns \in SpawnSeq
        /\ \A k \in DOMAIN live.spawns : next.spawns[k].prim = live.spawns[k].prim
    <3>1. \A spawn \in Spawn, v \in Values : /\ [spawn EXCEPT !.translate = v] \in Spawn
                                             /\ [spawn EXCEPT !.translate = v].prim = spawn.prim
      BY DEF Spawn
    <3>2. /\ DOMAIN live.spawns = 1..Len(live.spawns) /\ Len(live.spawns) \in Nat
          /\ \A k \in DOMAIN live.spawns : live.spawns[k] \in Spawn
      BY <1>1 DEF SpawnSeq
    <3>3. /\ next.spawns = [live.spawns EXCEPT ![i] = [@ EXCEPT !.translate = op.value]]
          /\ op.value \in Values
      BY <1>1, <1>2, <2>3
    <3>4. \A k \in DOMAIN live.spawns : next.spawns[k] =
            IF k = i THEN [live.spawns[k] EXCEPT !.translate = op.value] ELSE live.spawns[k]
      BY <3>2, <3>3
    <3>5. \A k \in DOMAIN live.spawns :
            next.spawns[k] \in Spawn /\ next.spawns[k].prim = live.spawns[k].prim
      BY <3>1, <3>2, <3>3, <3>4
    <3>6. next.spawns \in [1..Len(live.spawns) -> Spawn]
      BY <3>2, <3>3, <3>5
    <3> QED
      BY <3>2, <3>5, <3>6 DEF SpawnSeq
  <2>5. next \in Live
    BY <1>1, <2>3, <2>4 DEF Live
  <2>6. op.prim \in Referenced
    <3>1. live.spawns[i] \in Spawn
      BY <1>1, <2>1 DEF SpawnSeq
    <3> QED
      BY <2>1, <3>1 DEF Spawn
  <2>7. \A p \in Prims : There(live, p) => There(next, p)
    BY <2>3, <2>4 DEF There
  <2>8. There(next, op.prim)
    BY <2>1, <2>4 DEF There
  <2>9. \A p \in Prims : /\ p \notin Referenced => Shown(e, p, live.stage[p]) = live.stage[p]
                         /\ Brings(e, p) => p = op.prim
    BY <2>6 DEF Shown, Fixes, Adds, Brings, op
  <2> QED
    BY <2>3, <2>5, <2>7, <2>8, <2>9 DEF op, next
<1>3. CASE /\ ~(op.kind = "set" /\ Waiting(live, op.prim) # {})
           /\ op.kind = "add" /\ op.prim \in Referenced \ loaded
  <2> DEFINE spawn == [prim |-> op.prim, translate |-> NoTranslate]
  <2>1. next = [live EXCEPT !.spawns = Append(@, spawn)]
    BY <1>3 DEF Replayed
  <2>2. spawn \in Spawn
    BY <1>3 DEF Spawn
  <2> HIDE DEF next, op
  <2>3. next = [stage |-> live.stage, spawns |-> Append(live.spawns, spawn)]
    BY <2>1 DEF Live
  <2>4. next \in Live
    BY <1>1, <2>2, <2>3 DEF Live, SpawnSeq
  <2>5. /\ \A k \in DOMAIN live.spawns :
             k \in DOMAIN next.spawns /\ next.spawns[k] = live.spawns[k]
        /\ \E k \in DOMAIN next.spawns : next.spawns[k].prim = op.prim
    <3>1. next.spawns = Append(live.spawns, spawn) /\ spawn.prim = op.prim
      BY <2>3
    <3>2. Len(live.spawns) + 1 \in DOMAIN next.spawns /\ next.spawns[Len(live.spawns) + 1] = spawn
      BY <1>1, <2>2, <3>1 DEF SpawnSeq
    <3>3. \A k \in DOMAIN live.spawns :
             k \in DOMAIN next.spawns /\ next.spawns[k] = live.spawns[k]
      BY <1>1, <2>2, <3>1 DEF SpawnSeq
    <3> QED
      BY <3>1, <3>2, <3>3
  <2>6. \A p \in Prims : There(live, p) => There(next, p)
    BY <2>3, <2>5 DEF There
  <2>7. There(next, op.prim)
    BY <2>5 DEF There
  <2>8. \A p \in Prims : /\ p \notin Referenced => Shown(e, p, live.stage[p]) = live.stage[p]
                         /\ Brings(e, p) => p = op.prim
    BY <1>3 DEF Shown, Fixes, Adds, Brings, op
  <2>9. ASSUME NEW p \in Prims
        PROVE  /\ p \notin Referenced => next.stage[p] = Shown(e, p, live.stage[p])
               /\ Brings(e, p) => There(next, p)
               /\ There(live, p) /\ ~Removes(e, p) => There(next, p)
    BY <2>3, <2>6, <2>7, <2>8
  <2> QED
    BY <2>4, <2>9 DEF op, next
<1>4. CASE /\ ~(op.kind = "set" /\ Waiting(live, op.prim) # {})
           /\ ~(op.kind = "add" /\ op.prim \in Referenced \ loaded)
  <2> DEFINE text == Authored(op, live.stage)
  <2>1. next = [live EXCEPT !.stage = Authored(op, @)]
    BY <1>4 DEF Replayed
  <2>2. text \in Content /\ \A p \in Prims : text[p] = Shown(e, p, live.stage[p])
    BY <1>1, AuthoredShows
  <2> HIDE DEF next, op, text
  <2>3. next = [stage |-> text, spawns |-> live.spawns]
    BY <2>1 DEF Live, text
  <2>4. next \in Live
    BY <1>1, <2>2, <2>3 DEF Live
  <2>5. ASSUME NEW p \in Prims
        PROVE  /\ Brings(e, p) => Shown(e, p, live.stage[p]) # Absent
               /\ live.stage[p] # Absent /\ ~Removes(e, p) => Shown(e, p, live.stage[p]) # Absent
    BY <1>1, ContentAssumption DEF Brings, Removes, Shown, Fixes, Fixed, Adds, Added, op
  <2>6. \A p \in Prims : /\ Brings(e, p) => There(next, p)
                         /\ There(live, p) /\ ~Removes(e, p) => There(next, p)
    BY <2>2, <2>3, <2>5 DEF There
  <2> QED
    BY <2>2, <2>3, <2>4, <2>6 DEF op, next
<1> QED
  BY <1>2, <1>3, <1>4

LEMMA StaysOnlyIf ==
    ASSUME NEW E \in SUBSET LogEntry, NEW p, NEW h, NEW e \in LogEntry,
           \A f \in E : f.gen < e.gen, Stays(E \union {e}, p, h)
    PROVE  Brings(e, p) \/ (~Removes(e, p) /\ Stays(E, p, h))
<1>1. \A f \in E \union {e} : f.gen \in Nat
  BY DEF LogEntry
<1>2. CASE h /\ \A f \in E \union {e} : ~Removes(f, p)
  BY <1>2 DEF Stays
<1>3. CASE \E d \in E \union {e} : Brings(d, p) /\ \A f \in E \union {e} : f.gen > d.gen => ~Removes(f, p)
  <2>1. PICK d \in E \union {e} :
          Brings(d, p) /\ \A f \in E \union {e} : f.gen > d.gen => ~Removes(f, p)
    BY <1>3
  <2>2. CASE d \in E
    <3>1. e.gen > d.gen
      BY <1>1, <2>2
    <3> QED
      BY <2>1, <2>2, <3>1 DEF Stays
  <2> QED
    BY <2>1, <2>2
<1> QED
  BY <1>2, <1>3 DEF Stays

(* Replaying entries in order leaves a plain prim as they show it, and a    *)
(* prim that refers to an asset, unless they removed it, on the stage or    *)
(* waiting for the asset.                                                   *)
LEMMA ReplayedAllShows ==
    ASSUME NEW ops \in Seq(LogEntry), NEW s \in Nat,
           \A k \in 1..Len(ops) : ops[k].gen = s + k /\ ops[k].op.kind # "replace",
           stage \in Content, spawns \in SpawnSeq
    PROVE  LET E == {ops[k] : k \in 1..Len(ops)}
               all == ReplayedAll(ops)
           IN  /\ all \in Live
               /\ \A p \in Prims :
                    /\ p \notin Referenced => Shows(E, p, stage[p], all.stage[p])
                    /\ Stays(E, p, There([stage |-> stage, spawns |-> spawns], p)) => There(all, p)
<1> DEFINE n == Len(ops)
           first == [stage |-> stage, spawns |-> spawns]
           N(f) == f = [i \in 0..n |->
                       IF i = 0 THEN [stage |-> stage, spawns |-> spawns]
                       ELSE Replayed(ops[i].op, f[i - 1])]
           Upto(i) == {ops[k] : k \in 1..i}
           Good(i, live) ==
             /\ live \in Live
             /\ \A p \in Prims :
                  /\ p \notin Referenced => Shows(Upto(i), p, stage[p], live.stage[p])
                  /\ Stays(Upto(i), p, There(first, p)) => There(live, p)
<1>1. n \in Nat /\ \A i \in 1..n : ops[i] \in LogEntry
  OBVIOUS
<1>2. first \in Live /\ first.stage = stage
  BY DEF Live
<1>3. ReplayedAll(ops) = (CHOOSE f : N(f))[n]
  BY DEF ReplayedAll
<1>4. \A i \in 1..n : ops[i].op.kind # "replace" /\ ops[i].gen = s + i
  OBVIOUS
<1>5. \A i \in 1..n, live \in Live : Replayed(ops[i].op, live) \in Live
  BY <1>1, <1>4, ReplayedShows
<1> HIDE DEF n
<1>6. \E f \in [0..n -> Live] : N(f)
  <2> DEFINE step == [i \in 1..n |-> [t \in Live |-> Replayed(ops[i].op, t)]]
  <2>1. step \in [1..n -> [Live -> Live]]
    BY <1>5
  <2>2. \A i \in 1..n, t \in Live : step[i][t] = Replayed(ops[i].op, t)
    OBVIOUS
  <2> HIDE DEF step, first
  <2>3. PICK f \in [0..n -> Live] : Runs(f, first, step, n)
    BY <1>1, <1>2, <2>1, RecursionExists
  <2>4. ASSUME NEW i \in 1..n
        PROVE  f[i] = Replayed(ops[i].op, f[i - 1])
    <3>1. f[i - 1] \in Live
      BY <1>1
    <3> QED
      BY <2>2, <2>3, <3>1 DEF Runs
  <2>5. \A i \in 0..n : i # 0 => i \in 1..n
    BY <1>1
  <2> QED
    BY <2>3, <2>4, <2>5 DEF Runs, first
<1> DEFINE f == CHOOSE f : N(f)
<1>7. N(f)
  BY <1>6
<1> HIDE DEF f
<1> DEFINE T == {i \in Nat : i <= n => Good(i, f[i])}
<1>8. 0 \in T
  <2>1. f[0] = first /\ Upto(0) = {}
    BY <1>1, <1>7
  <2>2. Good(0, first)
    <3>1. \A p \in Prims : Shows({}, p, stage[p], first.stage[p])
      BY <1>2, ShowsNothing
    <3>2. \A p \in Prims : Stays({}, p, There(first, p)) => There(first, p)
      BY DEF Stays
    <3> HIDE DEF first, Upto
    <3> QED
      BY <1>2, <2>1, <3>1, <3>2
  <2> QED
    BY <2>1, <2>2
<1>9. ASSUME NEW i \in Nat, i \in T
      PROVE  i + 1 \in T
  <2>1. SUFFICES ASSUME i + 1 <= n
                 PROVE  Good(i + 1, f[i + 1])
    <3> HIDE DEF Good
    <3> QED
      OBVIOUS
  <2> DEFINE e == ops[i + 1]
             E == Upto(i)
             live == f[i]
  <2>2. i + 1 \in 1..n /\ i + 1 \in 0..n /\ i + 1 # 0 /\ (i + 1) - 1 = i /\ i <= n
    BY <1>1, <2>1
  <2>3. Good(i, live)
    BY <1>9, <2>2
  <2>4. f[i + 1] = Replayed(e.op, live)
    BY <1>7, <2>2
  <2>5. Upto(i + 1) = E \union {e} /\ E \in SUBSET LogEntry
    <3>1. 1..(i + 1) = (1..i) \union {i + 1} /\ \A k \in 1..i : ops[k] \in LogEntry
      BY <1>1, <2>2
    <3> QED
      BY <3>1
  <2>6. e \in LogEntry /\ e.op.kind # "replace" /\ \A g \in E : g.gen < e.gen
    BY <1>1, <1>4, <2>2
  <2> HIDE DEF e, live, E, Upto, first, f
  <2>7. live \in Live
    BY <2>3
  <2>8. /\ f[i + 1] \in Live
        /\ \A p \in Prims :
             /\ p \notin Referenced => f[i + 1].stage[p] = Shown(e, p, live.stage[p])
             /\ Brings(e, p) => There(f[i + 1], p)
             /\ There(live, p) /\ ~Removes(e, p) => There(f[i + 1], p)
    BY <2>4, <2>6, <2>7, ReplayedShows
  <2>9. ASSUME NEW p \in Prims, p \notin Referenced
        PROVE  Shows(E \union {e}, p, stage[p], f[i + 1].stage[p])
    <3>1. Shows(E, p, stage[p], live.stage[p])
      BY <2>3, <2>9 DEF E
    <3>2. Shows(E \union {e}, p, stage[p], Shown(e, p, live.stage[p]))
      BY <2>5, <2>6, <3>1, ShowsMore
    <3> QED
      BY <2>8, <2>9, <3>2
  <2>10. ASSUME NEW p \in Prims, Stays(E \union {e}, p, There(first, p))
         PROVE  There(f[i + 1], p)
    <3>1. Brings(e, p) \/ (~Removes(e, p) /\ Stays(E, p, There(first, p)))
      BY <2>5, <2>6, <2>10, StaysOnlyIf
    <3>2. Stays(E, p, There(first, p)) => There(live, p)
      BY <2>3 DEF E
    <3> QED
      BY <2>8, <3>1, <3>2
  <2> QED
    BY <2>5, <2>8, <2>9, <2>10
<1> HIDE DEF T, Good
<1>10. n \in T
  BY <1>1, <1>8, <1>9, InductionOnNat
<1>11. Good(n, f[n])
  BY <1>1, <1>10 DEF T
<1> QED
  BY <1>3, <1>11 DEF Good, Upto, first, f, n

-----------------------------------------------------------------------------
(* Content that lags behind a document                                      *)

Still(text) == [stage |-> text, spawns |-> <<>>]
LiveNow == [stage |-> stage, spawns |-> spawns]

(* A live stage that a replay of what is not synced would bring up to the   *)
(* document, but for some prims; and one that is there already.             *)
Traces(ls, log, s, live, D) ==
    \A p \in Prims \ D : Tracks(ls, Unsynced(log, s), p, live.stage[p], There(live, p))
IsLevel(ls, live, D) ==
    \A p \in Prims \ D : IF p \in Referenced
                         THEN Composed(ls)[p] # Absent => There(live, p)
                         ELSE live.stage[p] = Composed(ls)[p]

LEMMA NothingUnsynced ==
    ASSUME NEW log \in LogType, NEW g \in Nat, Numbered(log, g)
    PROVE  Unsynced(log, g) = {} /\ Incremental(log, g, g)
<1>1. Len(log) \in Nat /\ \A i \in 1..Len(log) : log[i].gen = g - Len(log) + i
  BY DEF LogType, Numbered
<1>2. \A i \in 1..Len(log) : ~(log[i].gen > g)
  BY <1>1
<1>3. Unsynced(log, g) = {}
  BY <1>2 DEF Unsynced
<1> QED
  BY <1>1, <1>3 DEF Incremental

LEMMA TracesLevel ==
    ASSUME NEW ls, NEW log \in LogType, NEW g \in Nat, Numbered(log, g), NEW live, NEW D
    PROVE  Traces(ls, log, g, live, D) <=> IsLevel(ls, live, D)
<1>1. Unsynced(log, g) = {}
  BY NothingUnsynced
<1>2. ASSUME NEW p
      PROVE  Tracks(ls, {}, p, live.stage[p], There(live, p))
               <=> IF p \in Referenced THEN Composed(ls)[p] # Absent => There(live, p)
                   ELSE live.stage[p] = Composed(ls)[p]
  <2>1. ~InBoth({}, ls, p)
    BY DEF InBoth
  <2>2. Stays({}, p, There(live, p)) <=> There(live, p)
    BY DEF Stays
  <2>3. Shows({}, p, live.stage[p], Composed(ls)[p]) <=> Composed(ls)[p] = live.stage[p]
    BY ShowsNothing
  <2> QED
    BY <2>1, <2>2, <2>3 DEF Tracks, Holds, Follows
<1> QED
  BY <1>1, <1>2 DEF Traces, IsLevel

LEMMA CarriesTraces ==
    ASSUME NEW ls, NEW log, NEW g, NEW ls2, NEW log2, NEW g2, NEW s,
           CarriesOver(ls, log, g, ls2, log2, g2, s), Incremental(log2, g2, s),
           NEW live, live.stage \in Content, NEW D, Traces(ls, log, s, live, D)
    PROVE  Traces(ls2, log2, s, live, D)
<1> SUFFICES ASSUME NEW p \in Prims \ D
             PROVE  Tracks(ls2, Unsynced(log2, s), p, live.stage[p], There(live, p))
  BY DEF Traces
<1>1. live.stage[p] \in Said
  BY DEF Content, Said
<1>2. Tracks(ls, Unsynced(log, s), p, live.stage[p], There(live, p))
  BY DEF Traces
<1>3. \A x \in Said, h \in BOOLEAN :
        Tracks(ls, Unsynced(log, s), p, x, h) => Tracks(ls2, Unsynced(log2, s), p, x, h)
  BY DEF CarriesOver
<1>4. CASE There(live, p)
  <2>1. Tracks(ls, Unsynced(log, s), p, live.stage[p], TRUE)
    BY <1>2, <1>4 DEF Tracks, Holds, Stays
  <2>2. Tracks(ls2, Unsynced(log2, s), p, live.stage[p], TRUE)
    BY <1>1, <1>3, <2>1
  <2> QED
    BY <1>4, <2>2 DEF Tracks, Holds, Stays
<1>5. CASE ~There(live, p)
  <2>1. Tracks(ls, Unsynced(log, s), p, live.stage[p], FALSE)
    BY <1>2, <1>5 DEF Tracks, Holds, Stays
  <2>2. Tracks(ls2, Unsynced(log2, s), p, live.stage[p], FALSE)
    BY <1>1, <1>3, <2>1
  <2> QED
    BY <1>5, <2>2 DEF Tracks, Holds, Stays
<1> QED
  BY <1>4, <1>5

(* What the document itself says needs no replay, and a replay of what it   *)
(* has not synced would not change it.                                      *)
LEMMA DocumentTracesItself ==
    ASSUME NEW ls, NEW ls2, NEW log2, NEW s,
           Traces(ls2, log2, s, Still(Composed(ls)), {})
    PROVE  Traces(ls2, log2, s, Still(Composed(ls2)), {})
<1> SUFFICES ASSUME NEW p \in Prims
             PROVE  Tracks(ls2, Unsynced(log2, s), p, Composed(ls2)[p],
                           There(Still(Composed(ls2)), p))
  BY DEF Traces, Still
<1> DEFINE E == Unsynced(log2, s)
           h == There(Still(Composed(ls)), p)
<1>1. Tracks(ls2, E, p, Composed(ls)[p], h)
  BY DEF Traces, Still
<1>2. There(Still(Composed(ls2)), p) <=> Composed(ls2)[p] # Absent
  BY DEF There, Still
<1> HIDE DEF E
<1>3. CASE p \in Referenced
  <2>1. Holds(ls2, E, p, h)
    BY <1>1, <1>3 DEF Tracks
  <2>2. Holds(ls2, E, p, There(Still(Composed(ls2)), p))
    BY <1>2, <2>1 DEF Holds, Stays
  <2> QED
    BY <1>3, <2>2 DEF Tracks, E
<1>4. CASE p \notin Referenced
  <2>1. Follows(ls2, E, p, Composed(ls)[p])
    BY <1>1, <1>4 DEF Tracks
  <2>2. Follows(ls2, E, p, Composed(ls2)[p])
    BY <2>1, ShowsAgain DEF Follows
  <2> QED
    BY <1>4, <2>2 DEF Tracks, E
<1> QED
  BY <1>3, <1>4

(* Where the ops of a stage can be replayed, replaying them levels it.      *)
LEMMA ReplayLevels ==
    ASSUME opLog \in LogType, generation \in Nat, Numbered(opLog, generation),
           synced \in Nat, synced <= generation,
           stage \in Content, spawns \in SpawnSeq,
           Incremental(opLog, generation, synced)
    PROVE  /\ ReplayedAll(OpsSince) \in Live
           /\ \A D : Traces(layers, opLog, synced, LiveNow, D)
                       => IsLevel(layers, ReplayedAll(OpsSince), D \union Mixed(OpsSince))
<1> DEFINE ops == OpsSince
           E == {ops[k] : k \in 1..Len(ops)}
           all == ReplayedAll(ops)
<1>1. /\ ops \in Seq(LogEntry)
      /\ Unsynced(opLog, synced) = E
      /\ \A k \in 1..Len(ops) : ops[k].gen = synced + k
  BY NewerListsUnsynced DEF OpsSince, Incremental
<1> HIDE DEF ops
<1>2. \A k \in 1..Len(ops) : ops[k].op.kind # "replace" /\ ops[k] \in LogEntry
  BY <1>1 DEF Incremental
<1>3. /\ all \in Live
      /\ \A p \in Prims : /\ p \notin Referenced => Shows(E, p, stage[p], all.stage[p])
                          /\ Stays(E, p, There(LiveNow, p)) => There(all, p)
  <2> HIDE DEF all, E
  <2>1. PICK s \in Nat : s = synced
    OBVIOUS
  <2>2. \A k \in 1..Len(ops) : ops[k].gen = s + k /\ ops[k].op.kind # "replace"
    BY <1>1, <1>2, <2>1
  <2> QED
    BY <1>1, <2>2, ReplayedAllShows DEF LiveNow, E, all
<1>4. E \in SUBSET LogEntry /\ \A e, f \in E : e.gen = f.gen => e = f
  BY <1>1, <1>2
<1>5. ASSUME NEW p \in Prims \ Mixed(ops)
      PROVE  ~InBoth(E, layers, p)
  <2>1. \A e \in E : Speaks(e, p) => e.op.prim = p
    BY DEF Speaks, Fixes, Adds
  <2>2. DOMAIN ops = 1..Len(ops)
    BY <1>1
  <2> QED
    BY <2>1, <2>2 DEF InBoth, Mixed
<1> HIDE DEF E, all
<1>6. ASSUME NEW D, Traces(layers, opLog, synced, LiveNow, D), NEW p \in Prims \ (D \union Mixed(ops))
      PROVE  IF p \in Referenced THEN Composed(layers)[p] # Absent => There(all, p)
             ELSE all.stage[p] = Composed(layers)[p]
  <2>1. Tracks(layers, E, p, stage[p], There(LiveNow, p))
    BY <1>1, <1>6 DEF Traces, LiveNow
  <2>2. ~InBoth(E, layers, p)
    BY <1>5
  <2>3. CASE p \in Referenced
    BY <1>3, <2>1, <2>2, <2>3 DEF Tracks, Holds
  <2>4. CASE p \notin Referenced
    <3>1. Shows(E, p, stage[p], Composed(layers)[p]) /\ Shows(E, p, stage[p], all.stage[p])
      BY <1>3, <2>1, <2>2, <2>4 DEF Tracks, Follows
    <3> QED
      BY <1>4, <2>4, <3>1, ShowsOne
  <2> QED
    BY <2>3, <2>4
<1> QED
  BY <1>3, <1>6 DEF IsLevel, all, ops

-----------------------------------------------------------------------------
(* The projection                                                           *)

Snapshot == [text : Content, gen : Nat]

SceneTyped ==
    /\ stage \in Content \union {Nowhere}
    /\ loaded \subseteq Referenced
    /\ overlay \in Snapshot /\ overlay.gen <= generation
    /\ \/ loading = "read" /\ incoming \in Snapshot /\ incoming.gen <= generation
       \/ loading \in {"none", "asked"} /\ incoming = Nowhere
    /\ synced \in Nat /\ synced <= generation
    /\ written \in Nat /\ written <= synced
    /\ spawns \in SpawnSeq
    /\ restarts \in 0..MaxRestarts
    /\ doubtful \subseteq Prims

(* An overlay of this generation shows it.                                  *)
Fresh(o) == o.gen = generation => o.text = Composed(layers)

(* As long as the next sync can replay, the stage it replays onto, what a   *)
(* load may put in its place, and the document itself would all end level   *)
(* with the document.                                                       *)
Lagging == Incremental(opLog, generation, synced) =>
    /\ stage # Nowhere => Traces(layers, opLog, synced, LiveNow, doubtful)
    /\ overlay.gen >= synced => Traces(layers, opLog, synced, Still(overlay.text), {})
    /\ loading = "read" /\ incoming.gen >= synced =>
         Traces(layers, opLog, synced, Still(incoming.text), {})
    /\ Traces(layers, opLog, synced, Still(Composed(layers)), {})

SceneInv ==
    /\ Typed /\ SceneTyped
    /\ Numbered(opLog, generation)
    /\ Fresh(overlay) /\ (loading = "read" => Fresh(incoming))
    /\ Lagging

LEMMA ComposedType == ASSUME NEW ls \in LayersType PROVE Composed(ls) \in Content
<1>1. \A p \in Prims, l \in Layers : ls[l][p] \in Values \union {Absent, Bare}
  BY DEF LayersType, Content
<1> QED
  BY <1>1 DEF Composed, Content, Layers

LEMMA SceneInit == Init => SceneInv
<1> SUFFICES ASSUME Init PROVE SceneInv
  OBVIOUS
<1>1. Typed /\ Numbered(opLog, generation)
  BY InitType, InitNumbered DEF Init
<1>2. /\ layers \in LayersType /\ generation \in Nat /\ opLog \in LogType
      /\ Composed(layers) \in Content
  BY <1>1, ComposedType DEF Typed
<1>3. /\ stage = Nowhere /\ loaded = {} /\ loading = "asked" /\ incoming = Nowhere
      /\ overlay = [text |-> Composed(layers), gen |-> generation]
      /\ synced = generation /\ written = generation
      /\ spawns = <<>> /\ restarts = 0 /\ doubtful = {}
  BY DEF Init, Overlay
<1>4. SceneTyped
  BY <1>2, <1>3, SceneAssumption DEF SceneTyped, Snapshot, SpawnSeq
<1>5. Fresh(overlay)
  BY <1>3 DEF Fresh
<1>6. IsLevel(layers, Still(Composed(layers)), {})
  BY DEF IsLevel, Still, There
<1>7. Traces(layers, opLog, generation, Still(Composed(layers)), {})
  BY <1>1, <1>2, <1>6, TracesLevel
<1>8. Lagging
  BY <1>3, <1>7 DEF Lagging
<1> QED
  BY <1>1, <1>3, <1>4, <1>5, <1>8 DEF SceneInv

(* What a step of the document leaves true of the content behind it.        *)
LEMMA DocumentLags ==
    ASSUME SceneInv, [DocumentNext]_docVars
    PROVE  /\ Typed' /\ Numbered(opLog', generation')
           /\ generation' \in Nat /\ generation <= generation'
           /\ \A o \in Snapshot : o.gen <= generation /\ Fresh(o)
                => (o.gen = generation' => o.text = Composed(layers'))
           /\ Incremental(opLog', generation', synced) =>
                /\ stage # Nowhere => Traces(layers', opLog', synced, LiveNow, doubtful)
                /\ overlay.gen >= synced =>
                     Traces(layers', opLog', synced, Still(overlay.text), {})
                /\ loading = "read" /\ incoming.gen >= synced =>
                     Traces(layers', opLog', synced, Still(incoming.text), {})
                /\ Traces(layers', opLog', synced, Still(Composed(layers')), {})
<1>1. Typed /\ SceneTyped /\ Lagging /\ Numbered(opLog, generation)
  BY DEF SceneInv
<1>2. Typed' /\ generation' \in Nat /\ generation \in Nat
  <2>1. Typed'
    BY <1>1, NextType
  <2> QED
    BY <1>1, <2>1 DEF Typed
<1>3. PICK s \in Nat : s = synced /\ s <= generation
  BY <1>1 DEF SceneTyped
<1>4. /\ Numbered(opLog', generation')
      /\ generation' >= generation
      /\ generation' = generation => layers' = layers /\ opLog' = opLog
      /\ CarriesOver(layers, opLog, generation, layers', opLog', generation', s)
  BY <1>1, <1>3, DocumentCarries
<1>5. PICK ls2, log2, g2 : ls2 = layers' /\ log2 = opLog' /\ g2 = generation'
  OBVIOUS
<1>6. ASSUME Incremental(log2, g2, s)
      PROVE  /\ stage # Nowhere => Traces(ls2, log2, s, LiveNow, doubtful)
             /\ overlay.gen >= s => Traces(ls2, log2, s, Still(overlay.text), {})
             /\ loading = "read" /\ incoming.gen >= s =>
                  Traces(ls2, log2, s, Still(incoming.text), {})
             /\ Traces(ls2, log2, s, Still(Composed(ls2)), {})
  <2>1. CarriesOver(layers, opLog, generation, ls2, log2, g2, s)
    BY <1>4, <1>5
  <2>2. Incremental(opLog, generation, synced)
    BY <1>3, <1>6, <2>1 DEF CarriesOver
  <2>3. ASSUME NEW live, live.stage \in Content, NEW D, Traces(layers, opLog, s, live, D)
        PROVE  Traces(ls2, log2, s, live, D)
    BY <1>6, <2>1, <2>3, CarriesTraces
  <2>4. stage # Nowhere => stage \in Content
    BY <1>1 DEF SceneTyped
  <2>5. overlay.text \in Content /\ (loading = "read" => incoming.text \in Content)
    BY <1>1 DEF SceneTyped, Snapshot
  <2>6. Composed(layers) \in Content
    BY <1>1, ComposedType DEF Typed
  <2>7. \A text : Still(text).stage = text /\ LiveNow.stage = stage
    BY DEF Still, LiveNow
  <2>8. /\ stage # Nowhere => Traces(layers, opLog, s, LiveNow, doubtful)
        /\ overlay.gen >= s => Traces(layers, opLog, s, Still(overlay.text), {})
        /\ loading = "read" /\ incoming.gen >= s =>
             Traces(layers, opLog, s, Still(incoming.text), {})
        /\ Traces(layers, opLog, s, Still(Composed(layers)), {})
    BY <1>1, <1>3, <2>2 DEF Lagging
  <2>9. Traces(ls2, log2, s, Still(Composed(layers)), {})
    BY <2>3, <2>6, <2>7, <2>8
  <2>10. Traces(ls2, log2, s, Still(Composed(ls2)), {})
    BY <2>9, DocumentTracesItself
  <2> QED
    BY <2>3, <2>4, <2>5, <2>7, <2>8, <2>10
<1>7. ASSUME NEW o \in Snapshot, o.gen <= generation, Fresh(o), o.gen = generation'
      PROVE  o.text = Composed(layers')
  <2>1. o.gen \in Nat
    BY DEF Snapshot
  <2>2. generation' = generation /\ layers' = layers
    BY <1>2, <1>4, <1>7, <2>1
  <2> QED
    BY <1>7, <2>2 DEF Fresh
<1> QED
  BY <1>2, <1>3, <1>4, <1>5, <1>6, <1>7

LEMMA EditStep ==
    ASSUME SceneInv, DocumentEdit, UNCHANGED sceneVars
    PROVE  SceneInv'
<1>1. [DocumentNext]_docVars
  BY DEF DocumentNext
<1>2. /\ UNCHANGED <<stage, loaded, loading, incoming, overlay>>
      /\ UNCHANGED <<synced, written, spawns, restarts, doubtful>>
  BY DEF sceneVars
<1>3. /\ SceneTyped /\ Fresh(overlay) /\ (loading = "read" => Fresh(incoming))
      /\ generation \in Nat
  BY DEF SceneInv, Typed
<1>4. /\ Typed' /\ Numbered(opLog', generation')
      /\ generation' \in Nat /\ generation <= generation'
      /\ \A o \in Snapshot : o.gen <= generation /\ Fresh(o)
           => (o.gen = generation' => o.text = Composed(layers'))
      /\ Incremental(opLog', generation', synced) =>
           /\ stage # Nowhere => Traces(layers', opLog', synced, LiveNow, doubtful)
           /\ overlay.gen >= synced =>
                Traces(layers', opLog', synced, Still(overlay.text), {})
           /\ loading = "read" /\ incoming.gen >= synced =>
                Traces(layers', opLog', synced, Still(incoming.text), {})
           /\ Traces(layers', opLog', synced, Still(Composed(layers')), {})
  BY <1>1, DocumentLags
<1>5. SceneTyped'
  <2>1. \A o \in Snapshot : o.gen <= generation => o.gen <= generation'
    BY <1>3, <1>4 DEF Snapshot
  <2>2. synced <= generation'
    BY <1>3, <1>4 DEF SceneTyped
  <2> QED
    BY <1>2, <1>3, <2>1, <2>2 DEF SceneTyped
<1>6. Fresh(overlay)' /\ (loading' = "read" => Fresh(incoming)')
  BY <1>2, <1>3, <1>4 DEF Fresh, SceneTyped
<1>7. LiveNow' = LiveNow
  BY <1>2 DEF LiveNow
<1>8. Lagging'
  BY <1>2, <1>4, <1>7 DEF Lagging, Still
<1> QED
  BY <1>4, <1>5, <1>6, <1>8 DEF SceneInv

LEMMA RestartStep ==
    ASSUME SceneInv, NEW full \in BOOLEAN, Restart(full)
    PROVE  SceneInv'
<1>1. [DocumentNext]_docVars
  BY DEF Restart, DocumentNext
<1>2. /\ loading = "none" /\ loading' = "asked" /\ restarts < MaxRestarts
      /\ overlay' = [text |-> Composed(layers'), gen |-> generation']
      /\ restarts' = restarts + 1
      /\ UNCHANGED <<incoming, stage, loaded, synced, written, spawns, doubtful>>
  BY DEF Restart, Overlay
<1>3. SceneTyped /\ generation \in Nat
  BY DEF SceneInv, Typed
<1>4. /\ Typed' /\ Numbered(opLog', generation')
      /\ generation' \in Nat /\ generation <= generation'
      /\ Incremental(opLog', generation', synced) =>
           /\ stage # Nowhere => Traces(layers', opLog', synced, LiveNow, doubtful)
           /\ Traces(layers', opLog', synced, Still(Composed(layers')), {})
  BY <1>1, DocumentLags
<1>5. Composed(layers') \in Content
  <2>1. PICK ls \in LayersType : ls = layers'
    BY <1>4 DEF Typed
  <2> QED
    BY <2>1, ComposedType
<1>6. SceneTyped'
  <2>1. overlay' \in Snapshot /\ overlay'.gen <= generation'
    BY <1>2, <1>4, <1>5 DEF Snapshot
  <2>2. synced <= generation'
    BY <1>3, <1>4 DEF SceneTyped
  <2>3. restarts' \in 0..MaxRestarts
    BY <1>2, <1>3, SceneAssumption DEF SceneTyped
  <2> QED
    BY <1>2, <1>3, <2>1, <2>2, <2>3 DEF SceneTyped
<1>7. Fresh(overlay)' /\ loading' # "read" /\ overlay'.text = Composed(layers')
  BY <1>2 DEF Fresh
<1>8. LiveNow' = LiveNow
  BY <1>2 DEF LiveNow
<1>9. Lagging'
  BY <1>2, <1>4, <1>7, <1>8 DEF Lagging, Still
<1> QED
  BY <1>4, <1>6, <1>7, <1>9 DEF SceneInv

(* Steps of the projection leave the document alone; they go by what they   *)
(* make of the stage, the overlays and the watermarks.                      *)
LEMMA ProjectionKeeps ==
    ASSUME SceneInv, UNCHANGED docVars, SceneTyped',
           Fresh(overlay'), loading' = "read" => Fresh(incoming'),
           Incremental(opLog, generation, synced') =>
             /\ stage' # Nowhere => Traces(layers, opLog, synced', LiveNow', doubtful')
             /\ overlay'.gen >= synced' => Traces(layers, opLog, synced', Still(overlay'.text), {})
             /\ loading' = "read" /\ incoming'.gen >= synced' =>
                  Traces(layers, opLog, synced', Still(incoming'.text), {})
             /\ Traces(layers, opLog, synced', Still(Composed(layers)), {})
    PROVE  SceneInv'
<1>1. UNCHANGED <<layers, generation, opLog>>
  BY DEF docVars
<1>2. Typed'
  BY NextType DEF SceneInv
<1>3. Numbered(opLog, generation)' /\ Fresh(overlay)' /\ (loading' = "read" => Fresh(incoming)')
  BY <1>1 DEF SceneInv, Numbered, Fresh
<1>4. Lagging'
  BY <1>1 DEF Lagging, Still
<1> QED
  BY <1>2, <1>3, <1>4 DEF SceneInv

LEMMA SyncStep ==
    ASSUME SceneInv, Sync
    PROVE  SceneInv'
<1>1. /\ synced' = generation /\ stage # Nowhere
      /\ UNCHANGED <<docVars, loaded, loading, incoming, overlay, written, restarts>>
  BY DEF Sync
<1>2. /\ layers \in LayersType /\ generation \in Nat /\ opLog \in LogType
      /\ Numbered(opLog, generation) /\ SceneTyped /\ Lagging
      /\ Fresh(overlay) /\ (loading = "read" => Fresh(incoming))
      /\ synced \in Nat /\ synced <= generation /\ stage \in Content /\ spawns \in SpawnSeq
  BY <1>1 DEF SceneInv, Typed, SceneTyped
<1>3. /\ stage' \in Content /\ spawns' \in SpawnSeq /\ doubtful' \subseteq Prims
      /\ IsLevel(layers, LiveNow', doubtful')
  <2>1. CASE ~OpsAreComplete \/ NeedsRebuild(OpsSince)
    <3>1. stage' = Composed(layers) /\ doubtful' = {} /\ spawns' = spawns
      BY <2>1 DEF Sync
    <3>2. IsLevel(layers, LiveNow', doubtful')
      BY <3>1 DEF IsLevel, LiveNow, There
    <3> QED
      BY <1>2, <3>1, <3>2, ComposedType
  <2>2. CASE OpsAreComplete /\ ~NeedsRebuild(OpsSince)
    <3> DEFINE all == ReplayedAll(OpsSince)
    <3>1. /\ stage' = all.stage /\ spawns' = all.spawns
          /\ doubtful' = doubtful \union Mixed(OpsSince)
      BY <2>2 DEF Sync
    <3>2. Incremental(opLog, generation, synced)
      <4>1. /\ OpsSince \in Seq(LogEntry)
            /\ generation - Len(opLog) <= synced
            /\ Unsynced(opLog, synced) = {OpsSince[k] : k \in 1..Len(OpsSince)}
        BY <1>2, <2>2, NewerListsUnsynced DEF OpsSince, OpsAreComplete
      <4>2. \A k \in 1..Len(OpsSince) : OpsSince[k].op.kind # "replace"
        BY <2>2, <4>1 DEF NeedsRebuild
      <4> QED
        BY <4>1, <4>2 DEF Incremental
    <3>3. all \in Live /\ IsLevel(layers, all, doubtful \union Mixed(OpsSince))
      BY <1>1, <1>2, <3>2, ReplayLevels DEF Lagging
    <3> HIDE DEF all
    <3>4. LiveNow' = all
      BY <3>1, <3>3 DEF LiveNow, Live
    <3>5. Mixed(OpsSince) \subseteq Prims
      BY DEF Mixed
    <3> QED
      BY <1>2, <3>1, <3>3, <3>4, <3>5 DEF Live, SceneTyped
  <2> QED
    BY <2>1, <2>2
<1>4. SceneTyped'
  <2>1. generation' = generation /\ written <= generation
    BY <1>1, <1>2 DEF docVars, SceneTyped
  <2> QED
    BY <1>1, <1>2, <1>3, <2>1 DEF SceneTyped
<1>5. Traces(layers, opLog, generation, LiveNow', doubtful')
  <2>1. PICK live, D : live = LiveNow' /\ D = doubtful'
    OBVIOUS
  <2>2. IsLevel(layers, live, D)
    BY <1>3, <2>1
  <2>3. Traces(layers, opLog, generation, live, D)
    BY <1>2, <2>2, TracesLevel
  <2> QED
    BY <2>1, <2>3
<1>6. Traces(layers, opLog, generation, Still(Composed(layers)), {})
  <2>1. IsLevel(layers, Still(Composed(layers)), {})
    BY DEF IsLevel, Still, There
  <2> QED
    BY <1>2, <2>1, TracesLevel
<1>7. /\ overlay.gen >= generation => overlay.text = Composed(layers)
      /\ loading = "read" /\ incoming.gen >= generation => incoming.text = Composed(layers)
  BY <1>2 DEF SceneTyped, Fresh, Snapshot
<1>8. /\ overlay' = overlay /\ incoming' = incoming /\ loading' = loading
      /\ UNCHANGED docVars
  BY <1>1
<1> QED
  BY <1>1, <1>2, <1>4, <1>5, <1>6, <1>7, <1>8, ProjectionKeeps

LEMMA WriteStep ==
    ASSUME SceneInv, WriteOverlay
    PROVE  SceneInv'
<1>1. /\ synced = generation /\ overlay' = [text |-> Composed(layers), gen |-> generation]
      /\ written' = generation
      /\ UNCHANGED <<docVars, stage, loaded, loading, incoming, synced, spawns, restarts, doubtful>>
  BY DEF WriteOverlay, Overlay
<1>2. /\ layers \in LayersType /\ generation \in Nat /\ SceneTyped /\ Lagging
      /\ (loading = "read" => Fresh(incoming))
  BY DEF SceneInv, Typed
<1>3. Composed(layers) \in Content
  BY <1>2, ComposedType
<1>4. SceneTyped'
  <2>1. overlay' \in Snapshot /\ overlay'.gen <= generation /\ generation' = generation
    BY <1>1, <1>2, <1>3 DEF Snapshot, docVars
  <2> QED
    BY <1>1, <1>2, <2>1 DEF SceneTyped
<1>5. Fresh(overlay') /\ overlay'.text = Composed(layers)
  BY <1>1 DEF Fresh
<1>6. LiveNow' = LiveNow
  BY <1>1 DEF LiveNow
<1> QED
  BY <1>1, <1>2, <1>4, <1>5, <1>6, ProjectionKeeps DEF Lagging

LEMMA ReadStep ==
    ASSUME SceneInv, ReadOverlay
    PROVE  SceneInv'
<1>1. /\ loading' = "read" /\ incoming' = overlay
      /\ UNCHANGED <<docVars, stage, loaded, overlay, synced, written, spawns, restarts, doubtful>>
  BY DEF ReadOverlay
<1>2. SceneTyped /\ Lagging /\ Fresh(overlay)
  BY DEF SceneInv
<1>3. SceneTyped'
  BY <1>1, <1>2 DEF SceneTyped, docVars
<1>4. LiveNow' = LiveNow
  BY <1>1 DEF LiveNow
<1> QED
  BY <1>1, <1>2, <1>3, <1>4, ProjectionKeeps DEF Lagging

LEMMA MountStep ==
    ASSUME SceneInv, MountStage
    PROVE  SceneInv'
<1>1. /\ loading = "read" /\ loading' = "none" /\ incoming' = Nowhere
      /\ stage' = incoming.text /\ loaded' \subseteq Referenced
      /\ doubtful' = IF incoming.gen < synced THEN Prims ELSE {}
      /\ UNCHANGED <<docVars, overlay, synced, written, spawns, restarts>>
  BY DEF MountStage
<1>2. SceneTyped /\ Lagging /\ Fresh(overlay)
  BY DEF SceneInv
<1>3. incoming \in Snapshot /\ incoming.text \in Content /\ incoming.gen \in Nat /\ synced \in Nat
  BY <1>1, <1>2 DEF SceneTyped, Snapshot
<1>4. SceneTyped'
  BY <1>1, <1>2, <1>3 DEF SceneTyped, docVars
<1>5. ASSUME Incremental(opLog, generation, synced)
      PROVE  Traces(layers, opLog, synced, LiveNow', doubtful')
  <2>1. CASE incoming.gen < synced
    BY <1>1, <2>1 DEF Traces
  <2>2. CASE incoming.gen >= synced
    <3>1. Traces(layers, opLog, synced, Still(incoming.text), {})
      BY <1>1, <1>2, <1>5, <2>2 DEF Lagging
    <3>2. /\ LiveNow'.stage = Still(incoming.text).stage
          /\ \A p : There(Still(incoming.text), p) => There(LiveNow', p)
      BY <1>1 DEF LiveNow, Still, There
    <3> QED
      BY <3>1, <3>2 DEF Traces, Tracks, Holds, Stays
  <2> QED
    BY <1>3, <2>1, <2>2
<1> QED
  BY <1>1, <1>2, <1>4, <1>5, ProjectionKeeps DEF Lagging

LEMMA WaitStep ==
    ASSUME SceneInv, NEW i \in DOMAIN spawns, Land(i) \/ GiveUp(i)
    PROVE  SceneInv'
<1> DEFINE p == spawns[i].prim
<1>1. /\ UNCHANGED <<docVars, loading, incoming, overlay, synced, written, restarts>>
      /\ spawns' = Others(i)
  BY DEF Land, GiveUp
<1>2. SceneTyped /\ Lagging /\ Fresh(overlay) /\ (loading = "read" => Fresh(incoming))
  BY DEF SceneInv
<1>3. /\ DOMAIN spawns = 1..Len(spawns) /\ Len(spawns) \in Nat
      /\ \A k \in DOMAIN spawns : spawns[k] \in Spawn
  BY <1>2 DEF SceneTyped, SpawnSeq
<1>4. p \in Referenced /\ p \in Prims /\ spawns[i].translate \in Values \union {Absent}
  BY <1>3, SceneAssumption DEF Spawn, NoTranslate
<1>5. /\ spawns' \in SpawnSeq
      /\ \A k \in DOMAIN spawns : k = i \/ \E m \in DOMAIN spawns' : spawns'[m] = spawns[k]
  <2> DEFINE n == Len(spawns) - 1
  <2>1. n \in Nat /\ i \in 1..(n + 1) /\ \A k \in 1..n : k \in DOMAIN spawns /\ k + 1 \in DOMAIN spawns
    BY <1>3
  <2>2. spawns' = [k \in 1..n |-> IF k < i THEN spawns[k] ELSE spawns[k + 1]]
    BY <1>1 DEF Others
  <2>3. spawns' \in [1..n -> Spawn]
    BY <1>3, <2>1, <2>2
  <2>4. ASSUME NEW k \in DOMAIN spawns, k # i
        PROVE  \E m \in 1..n : spawns'[m] = spawns[k]
    <3>1. CASE k < i
      <4>1. k \in 1..n
        BY <1>3, <2>1, <3>1
      <4> QED
        BY <2>2, <3>1, <4>1
    <3>2. CASE k > i
      <4>1. k - 1 \in 1..n /\ ~(k - 1 < i) /\ (k - 1) + 1 = k
        BY <1>3, <2>1, <3>2
      <4> QED
        BY <2>2, <4>1
    <3> QED
      BY <1>3, <2>4, <3>1, <3>2
  <2>5. DOMAIN spawns' = 1..n
    BY <2>2
  <2>6. spawns' \in SpawnSeq
    BY <2>1, <2>3 DEF SpawnSeq
  <2> QED
    BY <2>4, <2>5, <2>6
<1>6. /\ stage' \in Content \union {Nowhere} /\ loaded' \subseteq Referenced
      /\ doubtful \subseteq doubtful' /\ doubtful' \subseteq Prims
      /\ stage' # Nowhere => stage # Nowhere
      /\ stage' # Nowhere => \A q \in Prims \ {p} : stage'[q] = stage[q]
      /\ stage' # Nowhere => p \in doubtful' \/ stage'[p] # Absent
  <2>1. CASE GiveUp(i)
    BY <1>2, <1>4, <2>1 DEF GiveUp, SceneTyped
  <2>2. CASE Land(i) /\ stage = Nowhere
    BY <1>2, <2>2 DEF Land, SceneTyped
  <2>3. CASE Land(i) /\ stage # Nowhere
    <3> DEFINE x == IF spawns[i].translate # NoTranslate THEN spawns[i].translate
                    ELSE IF stage[p] = Absent THEN Bare ELSE stage[p]
    <3>1. stage \in Content /\ loaded \subseteq Referenced /\ doubtful \subseteq Prims
      BY <1>2, <2>3 DEF SceneTyped
    <3>2. /\ stage' = [stage EXCEPT ![p] = x] /\ loaded' = loaded \union {p}
          /\ doubtful' = doubtful
      BY <2>3 DEF Land
    <3>3. x \in Values \union {Absent, Bare} /\ x # Absent
      BY <1>4, <3>1, ContentAssumption DEF Content, NoTranslate
    <3> HIDE DEF x, p
    <3>4. stage' \in Content /\ stage'[p] = x /\ \A q \in Prims \ {p} : stage'[q] = stage[q]
      BY <1>4, <3>1, <3>2, <3>3 DEF Content
    <3> QED
      BY <1>4, <2>3, <3>1, <3>2, <3>3, <3>4
  <2> QED
    BY <2>1, <2>2, <2>3
<1> HIDE DEF p
<1>7. SceneTyped'
  BY <1>1, <1>2, <1>5, <1>6 DEF SceneTyped, docVars
<1>8. ASSUME Incremental(opLog, generation, synced), stage' # Nowhere
      PROVE  Traces(layers, opLog, synced, LiveNow', doubtful')
  <2>1. Traces(layers, opLog, synced, LiveNow, doubtful)
    BY <1>2, <1>6, <1>8 DEF Lagging
  <2>2. ASSUME NEW q \in Prims \ doubtful'
        PROVE  /\ q \notin Referenced => LiveNow'.stage[q] = LiveNow.stage[q]
               /\ There(LiveNow, q) => There(LiveNow', q)
    <3>1. CASE q = p
      BY <1>4, <1>6, <1>8, <2>2, <3>1 DEF LiveNow, There
    <3>2. CASE q # p
      <4>1. stage'[q] = stage[q]
        BY <1>6, <1>8, <2>2, <3>2
      <4>2. ASSUME NEW k \in DOMAIN spawns, spawns[k].prim = q
            PROVE  \E m \in DOMAIN spawns' : spawns'[m].prim = q
        <5>1. k # i
          BY <3>2, <4>2 DEF p
        <5> QED
          BY <1>5, <4>2, <5>1
      <4> QED
        BY <4>1, <4>2 DEF LiveNow, There
    <3> QED
      BY <3>1, <3>2
  <2>3. ASSUME NEW q \in Prims \ doubtful'
        PROVE  Tracks(layers, Unsynced(opLog, synced), q, LiveNow'.stage[q], There(LiveNow', q))
    <3>1. Tracks(layers, Unsynced(opLog, synced), q, LiveNow.stage[q], There(LiveNow, q))
      BY <1>6, <2>1, <2>3 DEF Traces
    <3> QED
      BY <2>2, <2>3, <3>1 DEF Tracks, Holds, Stays
  <2> QED
    BY <2>3 DEF Traces
<1> QED
  BY <1>1, <1>2, <1>7, <1>8, ProjectionKeeps DEF Lagging

LEMMA SceneStep == SceneInv /\ [Next]_vars => SceneInv'
<1> SUFFICES ASSUME SceneInv, [Next]_vars PROVE SceneInv'
  OBVIOUS
<1>1. CASE DocumentEdit /\ UNCHANGED sceneVars
  BY <1>1, EditStep
<1>2. ASSUME NEW full \in BOOLEAN, Restart(full) PROVE SceneInv'
  BY <1>2, RestartStep
<1>3. CASE Sync
  BY <1>3, SyncStep
<1>4. CASE WriteOverlay
  BY <1>4, WriteStep
<1>5. CASE ReadOverlay
  BY <1>5, ReadStep
<1>6. CASE MountStage
  BY <1>6, MountStep
<1>7. CASE EndWait
  BY <1>7, WaitStep DEF EndWait
<1>8. CASE UNCHANGED vars
  <2>1. UNCHANGED docVars /\ UNCHANGED <<stage, loaded, loading, incoming, overlay>>
        /\ UNCHANGED <<synced, written, spawns, restarts, doubtful>>
    BY <1>8 DEF vars, sceneVars
  <2>2. SceneTyped'
    BY <2>1 DEF SceneInv, SceneTyped, docVars
  <2>3. LiveNow' = LiveNow
    BY <2>1 DEF LiveNow
  <2>4. Fresh(overlay) /\ (loading = "read" => Fresh(incoming)) /\ Lagging
    BY DEF SceneInv
  <2> QED
    BY <2>1, <2>2, <2>3, <2>4, ProjectionKeeps DEF Lagging
<1> QED
  BY <1>1, <1>2, <1>3, <1>4, <1>5, <1>6, <1>7, <1>8 DEF Next

LEMMA SceneInvariant == Spec => []SceneInv
BY SceneInit, SceneStep, PTL DEF Spec

(* Whatever is edited, undone, replayed, reloaded or restarted, the stage   *)
(* and its overlays hold composed content, no watermark passes the document *)
(* and only prims that refer to an asset wait for one.                      *)
THEOREM SceneTypeCorrect == Spec => []TypeOK
<1>1. SceneInv => TypeOK
  <2> SUFFICES ASSUME SceneInv PROVE TypeOK
    OBVIOUS
  <2>1. DocumentTypeOK
    BY DEF SceneInv, Typed, DocumentTypeOK, LayersType, LogType, EntryType, Stack
  <2>2. generation \in Nat /\ SceneTyped
    BY DEF SceneInv, Typed
  <2>3. synced \in 0..generation /\ written \in 0..synced
    BY <2>2 DEF SceneTyped
  <2>4. \A o \in Snapshot : o.gen <= generation => o \in [text : Content, gen : 0..generation]
    BY <2>2 DEF Snapshot
  <2>5. spawns \in Seq([prim : Referenced, translate : Values \union {NoTranslate}])
    BY <2>2 DEF SceneTyped, SpawnSeq, Spawn
  <2> QED
    BY <2>1, <2>2, <2>3, <2>4, <2>5 DEF TypeOK, SceneTyped
<1> QED
  BY <1>1, SceneInvariant, PTL

LEMMA LevelWhenInStep ==
    ASSUME SceneInv, InStep
    PROVE  IsLevel(layers, LiveNow, doubtful)
<1>1. /\ opLog \in LogType /\ generation \in Nat /\ Numbered(opLog, generation) /\ Lagging
      /\ stage # Nowhere /\ synced = generation
  BY DEF SceneInv, Typed, InStep
<1>2. Incremental(opLog, generation, generation)
  BY <1>1, NothingUnsynced
<1>3. Traces(layers, opLog, generation, LiveNow, doubtful)
  BY <1>1, <1>2 DEF Lagging
<1> QED
  BY <1>1, <1>3, TracesLevel

(* A projection that has caught up shows of every plain prim what the       *)
(* composed layers say, for any ops, any ring, any overflow of it, any      *)
(* loads and restarts; but for prims both layers speak of and for edits     *)
(* replayed onto a stage that a load then replaced.                         *)
THEOREM StageInStep == Spec => []SceneInStep
<1>1. SceneInv => SceneInStep
  <2> SUFFICES ASSUME SceneInv, InStep, NEW p \in Prims \ (Referenced \union doubtful)
               PROVE  stage[p] = Composed(layers)[p]
    BY DEF SceneInStep
  <2> QED
    BY LevelWhenInStep DEF IsLevel, LiveNow
<1> QED
  BY <1>1, SceneInvariant, PTL

(* With the same exceptions, a prim that refers to an asset is on the stage *)
(* of a projection that has caught up or among its pending spawns.          *)
THEOREM SpawnsLandOrWait == Spec => []SpawnsAreNotLost
<1>1. SceneInv => SpawnsAreNotLost
  <2> SUFFICES ASSUME SceneInv, InStep, NEW p \in Referenced \ doubtful,
                      Composed(layers)[p] # Absent
               PROVE  stage[p] # Absent \/ p \in Pending
    BY DEF SpawnsAreNotLost
  <2>1. There(LiveNow, p)
    BY LevelWhenInStep, SceneAssumption DEF IsLevel
  <2> QED
    BY <2>1 DEF There, LiveNow, Pending
<1> QED
  BY <1>1, SceneInvariant, PTL
=============================================================================
