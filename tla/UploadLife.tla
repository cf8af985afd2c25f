----------------------------- MODULE UploadLife -----------------------------
(***************************************************************************)
(* What AttachmentStorage promises of one storage key: it is uploaded,     *)
(* kept and dropped in this order.  An attachment is dropped only by a     *)
(* deletion, and what was dropped is never kept again.                     *)
(***************************************************************************)
CONSTANTS Upload

VARIABLE life

\* Still being uploaded, kept for readers, waiting to be removed, removed.
\* An upload whose write outran its hold is astray: nothing is promised of it.
Life == {"absent", "uploading", "kept", "dropping", "gone", "astray"}

Init == life = [u \in Upload |-> "absent"]

Move(u, from, to) == life[u] \in from /\ life' = [life EXCEPT ![u] = to]

Start(u) == Move(u, {"absent"}, "uploading")
Refuse(u) == Move(u, {"absent"}, "gone")
Keep(u) == Move(u, {"uploading"}, "kept")
Remove(u) == Move(u, {"dropping"}, "gone")
\* A cleanup that was overtaken leaves its intent all the same.
RemoveAgain(u) == Move(u, {"gone"}, "dropping")
GoAstray(u) == Move(u, {"uploading"}, "astray")

\* Giving up and deletion, of one upload or of all an account has left; a
\* crash gives up every upload that was only in the process.
Drop(S) ==
    /\ \A u \in S : life[u] \in {"uploading", "kept"}
    /\ life' = [u \in Upload |-> IF u \in S THEN "dropping" ELSE life[u]]

Next ==
    \/ \E u \in Upload :
          Start(u) \/ Refuse(u) \/ Keep(u) \/ Remove(u) \/ RemoveAgain(u) \/ GoAstray(u)
    \/ \E S \in SUBSET Upload : Drop(S)

Spec == Init /\ [][Next]_life
=============================================================================
