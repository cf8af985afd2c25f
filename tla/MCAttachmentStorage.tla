------------------------- MODULE MCAttachmentStorage -------------------------
\* AttachmentStorage on small sets of uploads, confirmations and tasks.
EXTENDS AttachmentStorage, TLC

CONSTANTS a1, a2, u1, u2

\* Every upload is its own account's.
MCOwnerOf == [u \in Upload |-> IF u = u1 THEN a1 ELSE a2]
=============================================================================
