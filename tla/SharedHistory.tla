--------------------------- MODULE SharedHistory ---------------------------
(***************************************************************************)
(* What a journal shared by several peers promises: one growing set of      *)
(* edits, of which each peer sees a part.  A peer's own edit comes after    *)
(* all it had seen, edits of others join its view in any order, and the tip *)
(* it builds on is always the latest edit of its view, however it came by   *)
(* it.  There are no clocks, parents, logs or merges here.                  *)
(***************************************************************************)
CONSTANTS
  Peers,
  Edits,       \* every edit there could be
  Less(_, _)   \* the order all peers agree on

VARIABLES
  made,        \* the edits made so far
  view,        \* the edits each peer has
  tip          \* the edit each peer builds on: none, or one

vars == <<made, view, tip>>

\* The latest of a set of edits, as a set: empty only for the empty set.
Latest(edits) == {e \in edits : \A d \in edits \ {e} : Less(d, e)}

Init ==
  /\ made = {}
  /\ view = [p \in Peers |-> {}]
  /\ tip = [p \in Peers |-> {}]

\* p comes to see e, and builds on the latest edit it then sees.
See(p, e) ==
  /\ view' = [view EXCEPT ![p] = @ \cup {e}]
  /\ tip' = [tip EXCEPT ![p] = Latest(view[p] \cup {e})]

Publish(p) ==
  \E e \in made' \ made :
    /\ e \in Edits
    /\ \A d \in view[p] : Less(d, e)
    /\ made' = made \cup {e}
    /\ See(p, e)
    /\ tip'[p] = {e}

Learn(p) ==
  \E e \in made \ view[p] :
    /\ See(p, e)
    /\ UNCHANGED made

Next == \E p \in Peers : Publish(p) \/ Learn(p)

Spec == Init /\ [][Next]_vars
=============================================================================
