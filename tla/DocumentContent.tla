--------------------------- MODULE DocumentContent ---------------------------
(***************************************************************************)
(* The content of one document as the embedding code sees it: each content *)
(* hash (revision) stands for a sequence of chunk texts, and a vector row  *)
(* is known by the text, the metadata context and the provider profile it  *)
(* was computed from (backend/src/queue/workers/prepare.worker.ts, table   *)
(* document_embeddings).                                                   *)
(***************************************************************************)
EXTENDS Integers, Sequences, FiniteSets

CONSTANTS
    Revision,   \* content hashes of the document
    Text,       \* chunk texts
    TextOf,     \* the chunk texts of each revision, as chunkText splits them
    Context,    \* embeddingContextHash values: metadata preamble and provider
    Profile,    \* embedding profiles a provider call may return
    None        \* the null of every optional column

ASSUME ContentAssumption == TextOf \in [Revision -> Seq(Text)]

Chunks(r) == DOMAIN TextOf[r]
Chunk == UNION {Chunks(r) : r \in Revision}

\* The size of a request body, and so of a document, is limited.
ASSUME FiniteContentAssumption == IsFiniteSet(Chunk)

\* A document_embeddings row.
Row == [text : Text, context : Context, profile : Profile]

ASSUME NoneAssumption ==
    /\ None \notin Revision /\ None \notin Context /\ None \notin Profile
    /\ None \notin Row

\* The rows of a generation: a partial function from chunk indexes.
Rows == [Chunk -> Row \cup {None}]
NoRows == [c \in Chunk |-> None]
Stored(rows) == {c \in Chunk : rows[c] # None}

\* Every chunk of revision r and nothing else, embedded under context x by p.
CompleteRows(r, x, p) ==
    [c \in Chunk |-> IF c \in Chunks(r)
                     THEN [text |-> TextOf[r][c], context |-> x, profile |-> p]
                     ELSE None]
=============================================================================
