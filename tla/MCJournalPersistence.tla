------------------------ MODULE MCJournalPersistence ------------------------
(* JournalPersistence on two folders. *)
EXTENDS JournalPersistence

CONSTANTS A, B

MCOps == Twins \cup 1..MaxEdits

\* Up to a swap of the folders, and with one that opts in at least.
MCOptIns == {{A}, {A, B}}
=============================================================================
