-------------------------- MODULE MCSceneDocument --------------------------
(* A plain prim of the scene file and a rover spawned at run time.          *)
EXTENDS SceneDocument

CONSTANTS plain, rover, v1, v2, v3

SetOp(l, p, v) == [kind |-> "set", layer |-> l, prim |-> p, value |-> v]
AddOp(l, p) == [kind |-> "add", layer |-> l, prim |-> p]
RemoveOp(l, p) == [kind |-> "remove", layer |-> l, prim |-> p]
Plain(v) == [p \in Prims |-> IF p = plain THEN v ELSE Absent]
Rover(v) == [p \in Prims |-> IF p = rover THEN v ELSE Absent]

EditOps == {SetOp("base", plain, v1), SetOp("runtime", plain, v3),
            AddOp("runtime", rover), RemoveOp("runtime", rover),
            RemoveOp("base", plain), Replace("base", Plain(v1))}
SceneOps == {SetOp("base", plain, v1), SetOp("runtime", plain, v3), AddOp("runtime", rover)}
BaseOps == {SetOp("base", plain, v1), SetOp("base", plain, v2)}
Spawn == {<<AddOp("runtime", rover), SetOp("runtime", rover, v3)>>}
PeerOps == {SetOp("base", plain, v2)}
TwoTexts == {Plain(Bare), Plain(v2)}
OneText == {Plain(Bare)}
OldRuntime == {Rover(v3)}
None == {}
=============================================================================
