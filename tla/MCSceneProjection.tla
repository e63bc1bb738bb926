------------------------- MODULE MCSceneProjection -------------------------
(* The same document with the stage that shows it.                          *)
EXTENDS SceneProjection, MCSceneDocument
=============================================================================
