------------------------------ MODULE MCIndexer -----------------------------
(* Two workers, two blocks, one reorganisation and two faults.             *)
EXTENDS Indexer
=============================================================================
