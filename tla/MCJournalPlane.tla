---------------------------- MODULE MCJournalPlane ----------------------------
(* JournalPlane with authors ranked as their ids sort: "local", then
   "net-session-...", then the installs' "peer-...". *)
EXTENDS JournalPlane

MCAuthors == Peers \cup Sessions \cup {Local}
MCOps == 1..MaxEntries
=============================================================================
