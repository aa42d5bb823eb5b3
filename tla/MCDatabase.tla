----------------------------- MODULE MCDatabase -----------------------------
(* Database with the sets TLC may permute, and a view for the run that does *)
(* not look at the history of transactional reads.                          *)
EXTENDS Database, TLC

DataSymmetry == Permutations(Keys) \cup Permutations(Values) \cup Permutations(Txns)

LogView == <<handle, table, wal, IF handle = "recovering" THEN pos ELSE 0, writer, txn,
             next_txn_id, bounds, unlogged, allowed>>
=============================================================================
