--------------------------- MODULE MCAccountPurge ---------------------------
\* AccountPurge with some steps of every kind, which keep the code's order.
EXTENDS AccountPurge, TLC

Sample == <<"cancel_account_jobs", "remove_chunks_and_embeddings", "host",
            "remove_subject_documents", "remove_subject_audit", "write_deletion_audit">>

Symmetry == Permutations(Key) \cup Permutations(Call)
=============================================================================
