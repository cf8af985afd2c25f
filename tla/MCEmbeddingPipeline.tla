------------------------- MODULE MCEmbeddingPipeline -------------------------
(***************************************************************************)
(* Instances of EmbeddingPipeline for TLC: contents of one document small  *)
(* enough to explore, and the permutations that change nothing.            *)
(***************************************************************************)
EXTENDS EmbeddingPipeline, TLC

CONSTANTS r1, r2, empty, ta, tb, tc

\* r1 and r2 share their first two chunks, of which a new generation may reuse one.
Lengthened == r1 :> <<ta, tb, tb>> @@ r2 :> <<ta, tb, tc, tb>>
WithEmpty == r1 :> <<ta, tb>> @@ empty :> <<>>
Shrinking == r1 :> <<ta, tb>> @@ r2 :> <<tc>>
OneRevision == r1 :> <<ta, tb, tc>>
FourChunks == r1 :> <<ta, tb, ta, tb>> @@ empty :> <<>>

Symmetry == Permutations(Gen) \cup Permutations(Worker) \cup Permutations(Client)
=============================================================================
