--------------------------- MODULE MCPipelineTail ---------------------------
\* PipelineTail with the default owner slots.
EXTENDS PipelineTail, TLC

\* DEFAULT_OWNER_STAGE_LIMITS
MCLimit == [s \in Stage |-> IF s = "finalize" THEN 2 ELSE 1]

Symmetry == Permutations(Worker)
=============================================================================
