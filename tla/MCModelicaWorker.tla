---------------------------- MODULE MCModelicaWorker ----------------------------
(* A workbench document by itself, with two classes to get wrong: three     *)
(* sessions of one source, or two of three sources.  Then the models of a    *)
(* scene: each by itself, and pairs that share the worker.                   *)
EXTENDS ModelicaWorker, TLC

CONSTANTS desk, prim, scope

Bounds(of_desk, of_prim, of_scope, editions, time) ==
    [sessions |-> desk :> of_desk @@ prim :> of_prim @@ scope :> of_scope,
     editions |-> editions, time |-> time]

MCCasts ==
    {Bounds(3, 0, 0, 1, 2), Bounds(2, 0, 0, 3, 2),
     Bounds(0, 3, 0, 1, 2), Bounds(0, 0, 3, 3, 2),
     Bounds(0, 1, 1, 1, 2), Bounds(1, 1, 0, 1, 1)}
=============================================================================
