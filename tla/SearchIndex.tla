----------------------------- MODULE SearchIndex -----------------------------
(***************************************************************************)
(* What the embedding pipeline promises to search: the rows of a document  *)
(* a query may see.  They are replaced as a whole, by a complete and       *)
(* uniform embedding of one revision, and never change otherwise: no query *)
(* meets a half written, mixed or vanished generation, whatever edits,     *)
(* reindexes, cancellations and crashes happen in between.                 *)
(***************************************************************************)
EXTENDS DocumentContent

VARIABLE index   \* the rows of documents.active_embedding_generation

Init == index = NoRows

Publish(r, x, p) == index' = CompleteRows(r, x, p)

Next == \E r \in Revision, x \in Context, p \in Profile : Publish(r, x, p)

Spec == Init /\ [][Next]_index
=============================================================================
