--------------------------- MODULE MCTwinJournal ---------------------------
(* TwinJournal with two or three peers and few entries. *)
EXTENDS TwinJournal
=============================================================================
