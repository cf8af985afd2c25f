----------------------- MODULE AttachmentStorage_proofs -----------------------
(***************************************************************************)
(* Proofs about AttachmentStorage, for any uploads, accounts, requests and *)
(* tasks: one authority per key, whole attachments, and that the saga      *)
(* implements UploadLife.                                                  *)
(*                                                                         *)
(* None of these is inductive: a task that lost its lease goes on, so the  *)
(* invariant also says what every request, confirmation, sweep and drain   *)
(* in flight may still rely on, with or without its lease.                 *)
(***************************************************************************)
EXTENDS AttachmentStorage, TLAPS

Sweeping == {"reserve", "reserved", "finalize", "finalized", "stage", "sweepFailed"}
Draining == {"delete", "defer", "settle", "ack", "drainFailed"}

\* Who speaks for a key, by how far its upload has come.
RowInv(u) ==
    /\ pending[u] # None =>
        /\ attachment[u] = "none" /\ intent[u] = None
        /\ request[u] \in Presigning \cup {"done"}
        /\ url[u] # "none" => pending[u].issued
    /\ attachment[u] = "present" => intent[u] = None
    /\ request[u] = "new" =>
        /\ pending[u] = None /\ attachment[u] = "none" /\ intent[u] = None
        /\ url[u] = "none" /\ charge[u] = "none"
    /\ request[u] \in {"put", "insert", "undo"} =>
        pending[u] = None /\ attachment[u] = "none" /\ url[u] = "none"

\* The intent of an in-process write rests until the write has outrun the hold.
HoldInv(u) ==
    request[u] \in {"put", "insert"} /\ u \notin odd.overrun =>
        /\ intent[u] # None /\ intent[u].due = "hold" /\ intent[u].owner = None
        /\ request[u] = "insert" => u \in object

\* What the host was told of an upload that may still be confirmed or kept.
ChargeInv(u) ==
    metered =>
        /\ request[u] \notin {"put", "insert"}
        /\ pending[u] # None => charge[u] # "released"
        /\ pending[u] # None /\ (pending[u].issued \/ request[u] \in {"reserved", "issue"}) =>
            charge[u] \in {"reserved", "committed"}

\* A confirmation confirms what a client could upload; while it holds the row
\* the object stays, and the charge once it is made.
ConfirmInv(c) ==
    /\ ~ConfirmAt(c, "idle") => U(c) \in Upload /\ url[U(c)] # "none"
    /\ confirm[c].pc \in {"finalize", "commit", "committed", "insert"} /\ Holds(pending[U(c)], c) =>
        U(c) \in object
    /\ confirm[c].pc \in {"committed", "insert"} /\ Holds(pending[U(c)], c) /\ metered =>
        charge[U(c)] = "committed"

\* What a sweep has claimed nobody can confirm any more, whoever holds it next.
SweepInv(w) ==
    task[w].pc \in Sweeping =>
        /\ T(w) \in Upload
        /\ attachment[T(w)] = "none"
        /\ T(w) \in expired \/ url[T(w)] = "none"
        /\ pending[T(w)] # None => pending[T(w)].owner \notin {"presign"} \cup Confirmer
        /\ request[T(w)] \in Presigning \cup {"done"}

\* What a drain has claimed is no attachment and does not become one.
DrainInv(w) ==
    task[w].pc \in Draining =>
        /\ T(w) \in Upload
        /\ task[w].quota \in Release
        /\ pending[T(w)] = None
        /\ request[T(w)] # "new"
        /\ attachment[T(w)] = "present" \/ request[T(w)] \in {"put", "insert"} =>
            T(w) \in odd.overrun

IInv ==
    /\ TypeOK
    /\ \A u \in Upload : RowInv(u) /\ HoldInv(u) /\ ChargeInv(u)
    /\ \A c \in Confirmer : ConfirmInv(c)
    /\ \A w \in Task : SweepInv(w) /\ DrainInv(w)
    /\ AttachmentIsWhole
-----------------------------------------------------------------------------
(***************************************************************************)
(* Types                                                                   *)
(***************************************************************************)
USE DEF db, host, time, process, rest

LEMMA AdmissionFields ==
    ASSUME NEW r \in Admission
    PROVE  /\ r # None
           /\ \A q \in QuotaState : [r EXCEPT !.quota = q] \in Admission
           /\ [r EXCEPT !.live = FALSE] \in Admission
           /\ \A o \in {None} \cup Confirmer \cup Task, l \in BOOLEAN :
                 [r EXCEPT !.owner = o, !.live = l] \in Admission
           /\ Released(r) \in Admission
           /\ [Released(r) EXCEPT !.issued = TRUE] \in Admission
           /\ \A q \in QuotaState : [Released(r) EXCEPT !.quota = q] \in Admission
BY RowAssumption DEF Admission, Released

LEMMA IntentFields ==
    ASSUME NEW r \in Intent
    PROVE  /\ r # None
           /\ [r EXCEPT !.live = FALSE] \in Intent
           /\ \A d \in Due : [r EXCEPT !.due = d] \in Intent
           /\ \A o \in Task : [r EXCEPT !.owner = o, !.live = TRUE] \in Intent
           /\ \A d \in Due : [Released(r) EXCEPT !.due = d] \in Intent
BY RowAssumption DEF Intent, Released

LEMMA NewIntentType ==
    ASSUME NEW source \in Source, NEW release \in Release, NEW retain \in BOOLEAN, NEW due \in Due
    PROVE  NewIntent(source, release, retain, due) \in Intent
BY DEF NewIntent, Intent

LEMMA ReleaseKindType ==
    ASSUME NEW q \in QuotaState \cup Release
    PROVE  ReleaseKind(q) \in Release
<1>1. CASE q = "not_required"
  BY <1>1 DEF ReleaseKind, Release
<1>2. CASE q = "reserved"
  BY <1>2 DEF ReleaseKind, Release
<1>3. CASE q \notin {"not_required", "reserved"}
  BY <1>3 DEF ReleaseKind, QuotaState, Release
<1> QED BY <1>1, <1>2, <1>3

Charge == {"none", "reserved", "committed", "released"}

LEMMA SettleType ==
    ASSUME NEW q \in Release, NEW c \in Charge
    PROVE  Settle(q, c) \in Charge /\ PartOf(q, c) \subseteq Charge
<1> USE DEF Reserve, Finalize, ReleaseReservation, ReleaseCommitted, Charge
<1>1. CASE q = "none"
  BY <1>1 DEF Settle, PartOf
<1>2. CASE q = "reserve_pending"
  BY <1>2 DEF Settle, PartOf
<1>3. CASE q = "reservation"
  BY <1>3 DEF Settle, PartOf
<1>4. CASE q = "finalize_pending"
  BY <1>4 DEF Settle, PartOf
<1>5. CASE q = "committed"
  BY <1>5 DEF Settle, PartOf
<1> QED BY <1>1, <1>2, <1>3, <1>4, <1>5 DEF Release

\* What a confirmation or a task is at work on.
Busy ==
    /\ \A c \in Confirmer : ~ConfirmAt(c, "idle") => U(c) \in Upload
    /\ \A w \in Task :
          /\ ~TaskAt(w, "idle") => T(w) \in Upload
          /\ task[w].pc \in Draining => task[w].quota \in Release

LEMMA IInvBusy == ASSUME IInv PROVE Busy
BY DEF IInv, TypeOK, Busy, ConfirmInv, SweepInv, DrainInv, CleanupTask, TaskPc, Sweeping, Draining, TaskAt

LEMMA InitTyped == ASSUME Init PROVE TypeOK
<1>1. IdleConfirm \in Confirmation /\ IdleTask \in CleanupTask
  BY DEF IdleConfirm, IdleTask, Confirmation, CleanupTask, ConfirmPc, TaskPc, QuotaState, Release
<1>2. confirm \in [Confirmer -> Confirmation] /\ task \in [Task -> CleanupTask]
  BY <1>1 DEF Init
<1> QED BY <1>2, BoundsAssumption DEF Init, TypeOK, RequestPc

Row == Admission \cup {None}
Outbox == Intent \cup {None}

LEMMA UpdateTyped ==
    ASSUME TypeOK, NEW u \in Upload, NEW row, pending[u] # None => row \in Admission, Update(u, row)
    PROVE  pending' \in [Upload -> Row]
BY DEF TypeOK, Update, Row

LEMMA StageTyped ==
    ASSUME TypeOK, NEW u \in Upload, NEW q \in QuotaState \cup Release, NEW b \in BOOLEAN,
           StagePending(u, q, b)
    PROVE  pending' \in [Upload -> Row] /\ intent' \in [Upload -> Outbox]
<1> DEFINE new == NewIntent("pending_upload", ReleaseKind(q), b, "now")
<1>1. new \in Intent
  BY ReleaseKindType, NewIntentType DEF Source, Due
<1>2. intent' = intent \/ intent' = [intent EXCEPT ![u] = new]
  BY DEF StagePending
<1>3. pending' = [pending EXCEPT ![u] = None]
  BY DEF StagePending
<1> HIDE DEF new
<1> QED BY <1>1, <1>2, <1>3 DEF TypeOK, Row, Outbox

LEMMA UploadRows ==
    ASSUME TypeOK, NEW u \in Upload, UploadStep(u)
    PROVE  pending' \in [Upload -> Row]
<1>0. pending \in [Upload -> Row]
  BY DEF TypeOK, Row
<1>1. CASE Presign(u)
  <2> DEFINE new == [quota |-> IF metered THEN "reserve_pending" ELSE "not_required",
                     issued |-> FALSE, owner |-> "presign", live |-> TRUE]
  <2>1. new \in Admission
    BY DEF Admission, QuotaState
  <2>2. pending' = pending \/ pending' = [pending EXCEPT ![u] = new]
    BY <1>1 DEF Presign
  <2> HIDE DEF new
  <2> QED BY <1>0, <2>1, <2>2 DEF Row
<1>2. CASE PresignNotReserved(u)
  <2> DEFINE r == [Released(pending[u]) EXCEPT !.quota =
                    IF At(u, "refused") THEN "not_required" ELSE "reserve_pending"]
  <2>1. pending[u] # None => r \in Admission
    BY AdmissionFields DEF TypeOK, QuotaState
  <2>2. Update(u, r)
    BY <1>2 DEF PresignNotReserved
  <2> HIDE DEF r
  <2> QED BY <2>1, <2>2, UpdateTyped
<1>3. CASE PresignReserved(u)
  <2>1. pending[u] \in Admission /\ pending' = [pending EXCEPT ![u] = [@ EXCEPT !.quota = "reserved"]]
    BY <1>3 DEF PresignReserved, Holds, TypeOK
  <2> QED BY <1>0, <2>1, AdmissionFields DEF Row, QuotaState
<1>4. CASE PresignIssue(u)
  <2>1. pending[u] \in Admission
    BY <1>4 DEF PresignIssue, Holds, TypeOK
  <2>2. pending' = [pending EXCEPT ![u] = [Released(@) EXCEPT !.issued = TRUE]]
    BY <1>4 DEF PresignIssue
  <2> QED BY <1>0, <2>1, <2>2, AdmissionFields DEF Row
<1>5. CASE PresignLost(u)
  BY <1>5, UpdateTyped, AdmissionFields DEF PresignLost, TypeOK
<1>6. CASE PresignReserve(u) \/ LegacyStage(u) \/ LegacyPut(u) \/ LegacyInsert(u) \/ LegacyUndo(u)
  BY <1>0, <1>6 DEF PresignReserve, LegacyStage, LegacyPut, LegacyInsert, LegacyUndo
<1> QED BY <1>1, <1>2, <1>3, <1>4, <1>5, <1>6 DEF UploadStep

LEMMA ConfirmRows ==
    ASSUME TypeOK, Busy, NEW c \in Confirmer, ConfirmStep(c)
    PROVE  pending' \in [Upload -> Row] /\ intent' \in [Upload -> Outbox]
<1>0. pending \in [Upload -> Row] /\ intent \in [Upload -> Outbox]
  BY DEF TypeOK, Row, Outbox
<1>1. U(c) \in Upload
  BY DEF Busy, ConfirmStep, ConfirmHead, ConfirmFinalize, ConfirmCommit, ConfirmCommitted,
         ConfirmInsert, ConfirmAbandon, ConfirmRelease, ConfirmAt
<1>2. CASE ConfirmFinalize(c) \/ ConfirmCommitted(c)
  <2>1. Holds(pending[U(c)], c) => pending[U(c)] \in Admission
    BY <1>1 DEF Holds, TypeOK
  <2>2. PICK q \in QuotaState :
           \/ pending' = pending
           \/ /\ Holds(pending[U(c)], c)
              /\ pending' = [pending EXCEPT ![U(c)] = [pending[U(c)] EXCEPT !.quota = q]]
    BY <1>2 DEF ConfirmFinalize, ConfirmCommitted, QuotaState
  <2>3. intent' = intent
    BY <1>2 DEF ConfirmFinalize, ConfirmCommitted
  <2> DEFINE r == [pending[U(c)] EXCEPT !.quota = q]
  <2>4. Holds(pending[U(c)], c) => r \in Admission
    BY <2>1, AdmissionFields
  <2>5. \/ pending' = pending
        \/ Holds(pending[U(c)], c) /\ pending' = [pending EXCEPT ![U(c)] = r]
    BY <2>2
  <2> HIDE DEF r
  <2> QED BY <1>0, <1>1, <2>3, <2>4, <2>5 DEF Row
<1>3. CASE ConfirmInsert(c)
  BY <1>0, <1>1, <1>3 DEF ConfirmInsert, Row
<1>4. CASE ConfirmAbandon(c)
  <2>1. Proven(c) => pending[U(c)].quota \in QuotaState /\ pending[U(c)].issued \in BOOLEAN
    BY <1>1 DEF Proven, Holds, TypeOK, Admission
  <2> QED BY <1>0, <1>1, <1>4, <2>1, StageTyped DEF ConfirmAbandon
<1>5. CASE ConfirmRelease(c)
  BY <1>0, <1>1, <1>5, UpdateTyped, AdmissionFields DEF ConfirmRelease, TypeOK
<1>6. CASE ConfirmHead(c) \/ ConfirmCommit(c)
  BY <1>0, <1>6 DEF ConfirmHead, ConfirmCommit
<1> QED BY <1>2, <1>3, <1>4, <1>5, <1>6 DEF ConfirmStep

LEMMA TaskRows ==
    ASSUME TypeOK, Busy, NEW w \in Task, TaskStep(w)
    PROVE  pending' \in [Upload -> Row] /\ intent' \in [Upload -> Outbox]
<1>0. pending \in [Upload -> Row] /\ intent \in [Upload -> Outbox]
  BY DEF TypeOK, Row, Outbox
<1>1. T(w) \in Upload
  BY DEF Busy, TaskStep, SweepReserve, SweepReserved, SweepFinalize, SweepFinalized, SweepRefused,
         SweepStage, SweepFailed, DrainDelete, DrainDefer, DrainSettle, DrainRefused, DrainAck,
         DrainFailed, SweepCall, SweepRecord, TaskAt
<1>2. /\ pending[T(w)] # None => pending[T(w)] \in Admission
      /\ intent[T(w)] # None => intent[T(w)] \in Intent
  BY <1>1 DEF TypeOK
<1>3. CASE SweepReserved(w) \/ SweepFinalized(w)
  <2>1. PICK q \in QuotaState :
           \/ pending' = pending
           \/ /\ Holds(pending[T(w)], w)
              /\ pending' = [pending EXCEPT ![T(w)] = [pending[T(w)] EXCEPT !.quota = q]]
    BY <1>3 DEF SweepReserved, SweepFinalized, SweepRecord, QuotaState
  <2>2. intent' = intent
    BY <1>3 DEF SweepReserved, SweepFinalized, SweepRecord
  <2> DEFINE r == [pending[T(w)] EXCEPT !.quota = q]
  <2>3. Holds(pending[T(w)], w) => r \in Admission
    BY <1>2, AdmissionFields DEF Holds
  <2>4. \/ pending' = pending
        \/ Holds(pending[T(w)], w) /\ pending' = [pending EXCEPT ![T(w)] = r]
    BY <2>1
  <2> HIDE DEF r
  <2> QED BY <1>0, <1>1, <2>2, <2>3, <2>4 DEF Row
<1>4. CASE SweepStage(w)
  <2>1. task[w].quota \in QuotaState \cup Release /\ task[w].issued \in BOOLEAN
    BY DEF TypeOK, CleanupTask
  <2> QED BY <1>0, <1>1, <1>4, <2>1, StageTyped DEF SweepStage
<1>5. CASE SweepFailed(w)
  <2>1. pending[T(w)] # None => [pending[T(w)] EXCEPT !.owner = None, !.live = TRUE] \in Admission
    BY <1>2, AdmissionFields
  <2> QED BY <1>0, <1>1, <1>5, <2>1, UpdateTyped DEF SweepFailed
<1>6. CASE DrainDefer(w) \/ DrainFailed(w) \/ DrainAck(w)
  <2>1. PICK r : /\ r = None \/ \E d \in Due : r = [Released(intent[T(w)]) EXCEPT !.due = d]
                 /\ LeasedIntent(w, r)
    BY <1>6 DEF DrainDefer, DrainFailed, DrainAck, Due
  <2>2. Holds(intent[T(w)], w) => r \in Outbox
    BY <1>2, <2>1, IntentFields DEF Holds, Outbox
  <2>3. pending' = pending
    BY <1>6 DEF DrainDefer, DrainFailed, DrainAck
  <2> QED BY <1>0, <1>1, <2>1, <2>2, <2>3 DEF LeasedIntent
<1>7. CASE SweepReserve(w) \/ SweepFinalize(w) \/ SweepRefused(w) \/ DrainDelete(w)
           \/ DrainSettle(w) \/ DrainRefused(w)
  BY <1>0, <1>7 DEF SweepReserve, SweepFinalize, SweepRefused, DrainDelete, DrainSettle,
                    DrainRefused, SweepCall
<1> QED BY <1>3, <1>4, <1>5, <1>6, <1>7 DEF TaskStep

LEMMA DropTyped ==
    ASSUME TypeOK, NEW S, Drop(S)
    PROVE  intent' \in [Upload -> Outbox] /\ attachment' \in [Upload -> {"none", "present", "deleted"}]
<1>1. NewIntent("attachment", IF metered THEN "committed" ELSE "none", FALSE, "now") \in Intent
  BY NewIntentType DEF Source, Release, Due
<1> QED BY <1>1 DEF TypeOK, Drop, Outbox

LEMMA SettleRows ==
    ASSUME TypeOK, NEW a \in Account, PurgeSettle(a)
    PROVE  pending' \in [Upload -> Row] /\ intent' \in [Upload -> Outbox]
<1>1. \A u \in Upload : pending[u] # None =>
         NewIntent("pending_upload", ReleaseKind(pending[u].quota), pending[u].issued, "now") \in Intent
  BY ReleaseKindType, NewIntentType DEF TypeOK, Admission, Source, Due
<1> QED BY <1>1 DEF TypeOK, PurgeSettle, Row, Outbox, Of

LEMMA KeyRows ==
    ASSUME TypeOK, NEW u \in Upload,
           \/ Put(u) \/ Delete(u) \/ TaskClaim(u) \/ Clock(u)
           \/ \E c \in Confirmer : ConfirmClaim(c, u)
    PROVE  pending' \in [Upload -> Row] /\ intent' \in [Upload -> Outbox]
<1>0. pending \in [Upload -> Row] /\ intent \in [Upload -> Outbox]
  BY DEF TypeOK, Row, Outbox
<1>1. /\ pending[u] # None => pending[u] \in Admission
      /\ intent[u] # None => intent[u] \in Intent
  BY DEF TypeOK
<1>3. CASE Delete(u)
  BY <1>0, <1>3, DropTyped DEF Delete
<1>4. ASSUME NEW o \in Confirmer \cup Task,
             pending[u] # None /\ pending' = [pending EXCEPT ![u] = [@ EXCEPT !.owner = o, !.live = TRUE]]
      PROVE  pending' \in [Upload -> Row]
  <2>1. [pending[u] EXCEPT !.owner = o, !.live = TRUE] \in Admission
    BY <1>1, <1>4, AdmissionFields
  <2> QED BY <1>0, <1>4, <2>1 DEF Row
<1>5. ASSUME NEW w \in Task, SweepClaim(w, u)
      PROVE  pending' \in [Upload -> Row] /\ intent' = intent
  BY <1>4, <1>5 DEF SweepClaim, Sweepable
<1>6. ASSUME NEW c \in Confirmer, ConfirmClaim(c, u)
      PROVE  pending' \in [Upload -> Row] /\ intent' = intent
  BY <1>0, <1>4, <1>6 DEF ConfirmClaim, Claimable
<1>7. ASSUME NEW w \in Task, DrainClaim(w, u)
      PROVE  pending' = pending /\ intent' \in [Upload -> Outbox]
  <2>1. [intent[u] EXCEPT !.owner = w, !.live = TRUE] \in Intent
    BY <1>1, <1>7, IntentFields DEF DrainClaim, Drainable
  <2> QED BY <1>0, <1>7, <2>1 DEF DrainClaim, Outbox
<1>8. CASE PendingLapse(u)
  <2>1. [pending[u] EXCEPT !.live = FALSE] \in Admission
    BY <1>1, <1>8, AdmissionFields DEF PendingLapse
  <2> QED BY <1>0, <1>8, <2>1 DEF PendingLapse, Row
<1>9. CASE IntentLapse(u)
  <2>1. [intent[u] EXCEPT !.live = FALSE] \in Intent
    BY <1>1, <1>9, IntentFields DEF IntentLapse
  <2> QED BY <1>0, <1>9, <2>1 DEF IntentLapse, Outbox
<1>10. CASE DueNow(u)
  <2>1. [intent[u] EXCEPT !.due = "now"] \in Intent
    BY <1>1, <1>10, IntentFields DEF DueNow, Due
  <2> QED BY <1>0, <1>10, <2>1 DEF DueNow, Outbox
<1>11. CASE Put(u) \/ Expire(u) \/ UrlDies(u)
  BY <1>0, <1>11 DEF Put, Expire, UrlDies
<1> QED BY <1>0, <1>3, <1>5, <1>6, <1>7, <1>8, <1>9, <1>10, <1>11 DEF TaskClaim, Clock

LEMMA UploadIntents ==
    ASSUME TypeOK, NEW u \in Upload, UploadStep(u)
    PROVE  intent' \in [Upload -> Outbox]
<1>0. intent \in [Upload -> Outbox]
  BY DEF TypeOK, Outbox
<1>1. CASE LegacyStage(u)
  <2>1. NewIntent("uncommitted_upload", "none", FALSE, "hold") \in Intent
    BY NewIntentType DEF Source, Release, Due
  <2> QED BY <1>0, <1>1, <2>1 DEF LegacyStage, Outbox
<1>2. CASE LegacyInsert(u)
  BY <1>0, <1>2 DEF LegacyInsert, Outbox
<1>3. CASE LegacyUndo(u)
  <2>1. intent[u] # None => [intent[u] EXCEPT !.due = "now"] \in Intent
    BY IntentFields DEF TypeOK, Due
  <2> QED BY <1>0, <1>3, <2>1 DEF LegacyUndo, Outbox
<1>4. CASE Presign(u) \/ PresignReserve(u) \/ PresignNotReserved(u) \/ PresignReserved(u)
           \/ PresignIssue(u) \/ PresignLost(u) \/ LegacyPut(u)
  BY <1>0, <1>4 DEF Presign, PresignReserve, PresignNotReserved, PresignReserved, PresignIssue,
                    PresignLost, LegacyPut
<1> QED BY <1>1, <1>2, <1>3, <1>4 DEF UploadStep

LEMMA RowsTyped ==
    ASSUME TypeOK, Busy, Next
    PROVE  pending' \in [Upload -> Row] /\ intent' \in [Upload -> Outbox]
<1>0. pending \in [Upload -> Row] /\ intent \in [Upload -> Outbox]
  BY DEF TypeOK, Row, Outbox
<1>1. ASSUME NEW u \in Upload, UploadStep(u)
      PROVE  pending' \in [Upload -> Row] /\ intent' \in [Upload -> Outbox]
  BY <1>1, UploadRows, UploadIntents
<1>2. ASSUME NEW u \in Upload,
             \/ Put(u) \/ Delete(u) \/ TaskClaim(u) \/ Clock(u)
             \/ \E c \in Confirmer : ConfirmClaim(c, u)
      PROVE  pending' \in [Upload -> Row] /\ intent' \in [Upload -> Outbox]
  BY <1>2, KeyRows
<1>3. ASSUME NEW c \in Confirmer, ConfirmStep(c)
      PROVE  pending' \in [Upload -> Row] /\ intent' \in [Upload -> Outbox]
  BY <1>3, ConfirmRows
<1>4. ASSUME NEW w \in Task, TaskStep(w)
      PROVE  pending' \in [Upload -> Row] /\ intent' \in [Upload -> Outbox]
  BY <1>4, TaskRows
<1>5. ASSUME NEW a \in Account,
             PurgeFence(a) \/ PurgeSettle(a) \/ PurgeSettled(a) \/ PurgeDelete(a) \/ PurgeDone(a)
      PROVE  pending' \in [Upload -> Row] /\ intent' \in [Upload -> Outbox]
  <2>1. CASE PurgeDelete(a)
    BY <1>0, <2>1, DropTyped DEF PurgeDelete
  <2> QED BY <1>0, <1>5, <2>1, SettleRows DEF PurgeFence, PurgeSettled, PurgeDone
<1>6. CASE Crash
  BY <1>0, <1>6 DEF Crash
<1> QED BY <1>1, <1>2, <1>3, <1>4, <1>5, <1>6 DEF Next

LEMMA ConfirmFields ==
    ASSUME TypeOK, NEW c \in Confirmer, NEW pc \in ConfirmPc
    PROVE  /\ ConfirmGo(c, pc) => confirm' \in [Confirmer -> Confirmation]
           /\ ConfirmEnd(c) => confirm' \in [Confirmer -> Confirmation]
<1>1. confirm[c] \in Confirmation /\ IdleConfirm \in Confirmation
  BY DEF TypeOK, IdleConfirm, Confirmation, ConfirmPc
<1>2. [confirm[c] EXCEPT !.pc = pc] \in Confirmation
  BY <1>1 DEF Confirmation
<1> QED BY <1>1, <1>2 DEF TypeOK, ConfirmGo, ConfirmEnd

LEMMA TaskFields ==
    ASSUME TypeOK, NEW w \in Task
    PROVE  /\ \A pc \in TaskPc : TaskGo(w, pc) => task' \in [Task -> CleanupTask]
           /\ \A q \in QuotaState : TaskSet(w, [task[w] EXCEPT !.pc = "stage", !.quota = q]) =>
                 task' \in [Task -> CleanupTask]
           /\ TaskEnd(w) => task' \in [Task -> CleanupTask]
           /\ \A r \in CleanupTask : TaskSet(w, r) => task' \in [Task -> CleanupTask]
<1>1. task[w] \in CleanupTask /\ IdleTask \in CleanupTask
  BY DEF TypeOK, IdleTask, CleanupTask, TaskPc, Release
<1>2. \A pc \in TaskPc : [task[w] EXCEPT !.pc = pc] \in CleanupTask
  BY <1>1 DEF CleanupTask
<1>3. \A q \in QuotaState : [task[w] EXCEPT !.pc = "stage", !.quota = q] \in CleanupTask
  BY <1>1 DEF CleanupTask, TaskPc
<1>4. \A r \in CleanupTask : TaskSet(w, r) => task' \in [Task -> CleanupTask]
  BY DEF TypeOK, TaskSet
<1> QED BY <1>1, <1>2, <1>3, <1>4 DEF TaskGo, TaskEnd

Processes ==
    /\ request \in [Upload -> RequestPc]
    /\ confirm \in [Confirmer -> Confirmation]
    /\ task \in [Task -> CleanupTask]

LEMMA UploadProcesses ==
    ASSUME TypeOK, NEW u \in Upload, UploadStep(u)
    PROVE  Processes'
<1>1. PICK pc \in RequestPc : Go(u, pc)
  BY DEF UploadStep, Presign, PresignReserve, PresignNotReserved, PresignReserved, PresignIssue,
         PresignLost, LegacyStage, LegacyPut, LegacyInsert, LegacyUndo, RequestPc
<1> QED BY <1>1 DEF Go, TypeOK, Processes

LEMMA ConfirmProcesses ==
    ASSUME TypeOK, NEW c \in Confirmer, ConfirmStep(c)
    PROVE  Processes'
<1>1. ConfirmEnd(c) \/ \E pc \in ConfirmPc : ConfirmGo(c, pc)
  BY DEF ConfirmStep, ConfirmHead, ConfirmFinalize, ConfirmCommit, ConfirmCommitted,
         ConfirmInsert, ConfirmAbandon, ConfirmRelease, ConfirmPc
<1> QED BY <1>1, ConfirmFields DEF ConfirmGo, ConfirmEnd, TypeOK, Processes, ConfirmPc

LEMMA TaskProcesses ==
    ASSUME TypeOK, NEW w \in Task, TaskStep(w)
    PROVE  Processes'
<1>1. \/ TaskEnd(w) \/ \E pc \in TaskPc : TaskGo(w, pc)
      \/ \E q \in QuotaState : TaskSet(w, [task[w] EXCEPT !.pc = "stage", !.quota = q])
  BY DEF TaskStep, SweepReserve, SweepReserved, SweepFinalize, SweepFinalized, SweepRefused,
         SweepStage, SweepFailed, DrainDelete, DrainDefer, DrainSettle, DrainRefused, DrainAck,
         DrainFailed, SweepCall, SweepRecord, TaskPc, QuotaState
<1>2. task' \in [Task -> CleanupTask]
  BY <1>1, TaskFields
<1> QED BY <1>1, <1>2 DEF TaskEnd, TaskGo, TaskSet, TypeOK, Processes

LEMMA ClaimProcesses ==
    ASSUME TypeOK, NEW u \in Upload,
           TaskClaim(u) \/ \E c \in Confirmer : ConfirmClaim(c, u)
    PROVE  Processes'
<1>1. ASSUME NEW w \in Task, SweepClaim(w, u)
      PROVE  Processes'
  <2> DEFINE r == [pc |-> QuotaStep(pending[u].quota), upload |-> u,
                   quota |-> pending[u].quota, issued |-> pending[u].issued, final |-> FALSE]
  <2>1. pending[u].quota \in QuotaState /\ pending[u].issued \in BOOLEAN
    BY <1>1 DEF SweepClaim, Sweepable, TypeOK, Admission
  <2>2. QuotaStep(pending[u].quota) \in TaskPc
    BY DEF QuotaStep, TaskPc
  <2>3. r \in CleanupTask
    BY <2>1, <2>2 DEF CleanupTask
  <2>4. TaskSet(w, r)
    BY <1>1 DEF SweepClaim
  <2> HIDE DEF r
  <2> QED BY <2>3, <2>4, TaskFields DEF TaskSet, TypeOK, Processes
<1>2. ASSUME NEW w \in Task, DrainClaim(w, u)
      PROVE  Processes'
  <2> DEFINE r == [pc |-> "delete", upload |-> u, quota |-> intent[u].release, issued |-> FALSE,
                   final |-> ~intent[u].retain \/ u \in expired]
  <2>1. intent[u].release \in Release
    BY <1>2 DEF DrainClaim, Drainable, TypeOK, Intent
  <2>2. (~intent[u].retain \/ u \in expired) \in BOOLEAN
    OBVIOUS
  <2>3. r \in CleanupTask
    BY <2>1, <2>2 DEF CleanupTask, TaskPc
  <2>4. TaskSet(w, r)
    BY <1>2 DEF DrainClaim
  <2> HIDE DEF r
  <2> QED BY <2>3, <2>4, TaskFields DEF TaskSet, TypeOK, Processes
<1>3. ASSUME NEW c \in Confirmer, ConfirmClaim(c, u)
      PROVE  Processes'
  <2>1. \A pc \in {"head", "fenced"} : [pc |-> pc, upload |-> u] \in Confirmation
    BY DEF Confirmation, ConfirmPc
  <2> QED BY <1>3, <2>1 DEF ConfirmClaim, TypeOK, Processes
<1> QED BY <1>1, <1>2, <1>3 DEF TaskClaim

LEMMA ProcessesTyped ==
    ASSUME TypeOK, Next
    PROVE  Processes'
<1>0. Processes
  BY DEF TypeOK, Processes
<1>1. CASE Crash
  <2>1. IdleConfirm \in Confirmation /\ IdleTask \in CleanupTask
    BY DEF IdleConfirm, IdleTask, Confirmation, CleanupTask, ConfirmPc, TaskPc, Release
  <2>2. \A u \in Upload : (IF At(u, "new") THEN "new" ELSE "done") \in RequestPc
    BY DEF RequestPc
  <2> QED BY <1>1, <2>1, <2>2 DEF Crash, Processes
<1>2. ASSUME NEW u \in Upload, Put(u) \/ Delete(u) \/ Clock(u)
      PROVE  Processes'
  BY <1>0, <1>2 DEF Put, Delete, Clock, Expire, UrlDies, PendingLapse, IntentLapse,
                    DueNow, Processes
<1>3. ASSUME NEW a \in Account,
             PurgeFence(a) \/ PurgeSettle(a) \/ PurgeSettled(a) \/ PurgeDelete(a) \/ PurgeDone(a)
      PROVE  Processes'
  BY <1>0, <1>3 DEF PurgeFence, PurgeSettle, PurgeSettled, PurgeDelete, PurgeDone, Processes
<1> QED BY <1>1, <1>2, <1>3, UploadProcesses, ConfirmProcesses, TaskProcesses, ClaimProcesses DEF Next

\* What belongs to the world outside the rows and the processes.
Outside ==
    /\ metered \in BOOLEAN
    /\ attachment \in [Upload -> {"none", "present", "deleted"}]
    /\ object \subseteq Upload
    /\ charge \in [Upload -> Charge]
    /\ expired \subseteq Upload
    /\ url \in [Upload -> {"none", "live", "dead"}]
    /\ purge \in [Account -> {"none", "settling", "deleting", "purged"}]

History == [overrun : SUBSET Upload, late : SUBSET Upload, refused : SUBSET Upload]
Budget == [failures : 0..MaxFailures, refusals : 0..MaxRefusals,
           crashes : 0..MaxCrashes, stalls : 0..MaxStalls]

LEMMA Spends ==
    ASSUME spent \in Budget,
           \/ UNCHANGED spent \/ Fails
           \/ spent.refusals < MaxRefusals /\ Spend("refusals")
           \/ spent.crashes < MaxCrashes /\ Spend("crashes")
           \/ spent.stalls < MaxStalls /\ Spend("stalls")
    PROVE  spent' \in Budget
BY BoundsAssumption DEF Budget, Fails, Spend

LEMMA Remembers ==
    ASSUME odd \in History, NEW u \in Upload,
           \/ UNCHANGED odd
           \/ odd' = [odd EXCEPT !.refused = @ \cup {u}]
           \/ odd' = [odd EXCEPT !.late = @ \cup {u}]
           \/ odd' = [odd EXCEPT !.late = @ \ {u}]
           \/ odd' = [odd EXCEPT !.overrun = @ \cup {u}]
    PROVE  odd' \in History
BY DEF History

LEMMA ChargeFields ==
    ASSUME NEW c \in Charge
    PROVE  Reserve(c) \in Charge /\ Finalize(c) \in Charge
BY DEF Charge, Reserve, Finalize

LEMMA UploadOutside ==
    ASSUME Outside, odd \in History, spent \in Budget, NEW u \in Upload, UploadStep(u)
    PROVE  Outside' /\ odd' \in History /\ spent' \in Budget
<1>1. charge[u] \in Charge
  BY DEF Outside
<1>2. CASE PresignReserve(u)
  <2>1. charge' = charge \/ charge' = [charge EXCEPT ![u] = Reserve(charge[u])]
    BY <1>1, <1>2 DEF PresignReserve, Outside
  <2>2. charge' \in [Upload -> Charge]
    BY <1>1, <2>1, ChargeFields DEF Outside
  <2> QED BY <1>2, <2>2, Spends, Remembers DEF PresignReserve, Refuses, Outside
<1>3. CASE Presign(u) \/ PresignNotReserved(u) \/ PresignReserved(u) \/ PresignIssue(u) \/ LegacyStage(u)
           \/ LegacyUndo(u)
  BY <1>3 DEF Presign, PresignNotReserved, PresignReserved, PresignIssue, LegacyStage, LegacyUndo, Outside
<1>4. CASE PresignLost(u) \/ LegacyPut(u) \/ LegacyInsert(u)
  BY <1>4, Spends DEF PresignLost, LegacyPut, LegacyInsert, Outside
<1> QED BY <1>2, <1>3, <1>4 DEF UploadStep

LEMMA ConfirmOutside ==
    ASSUME Outside, odd \in History, spent \in Budget, NEW c \in Confirmer, U(c) \in Upload,
           ConfirmStep(c)
    PROVE  Outside' /\ odd' \in History /\ spent' \in Budget
<1>1. charge[U(c)] \in Charge
  BY DEF Outside
<1>2. CASE ConfirmCommit(c)
  <2>1. charge' = charge \/ charge' = [charge EXCEPT ![U(c)] = Finalize(charge[U(c)])]
    BY <1>1, <1>2 DEF ConfirmCommit, Outside
  <2>2. charge' \in [Upload -> Charge]
    BY <1>1, <2>1, ChargeFields DEF Outside
  <2> QED BY <1>2, <2>2, Spends, Remembers DEF ConfirmCommit, Outside
<1>3. CASE ConfirmHead(c) \/ ConfirmFinalize(c) \/ ConfirmCommitted(c) \/ ConfirmRelease(c)
  BY <1>3 DEF ConfirmHead, ConfirmFinalize, ConfirmCommitted, ConfirmRelease, Outside
<1>4. CASE ConfirmInsert(c) \/ ConfirmAbandon(c)
  BY <1>4 DEF ConfirmInsert, ConfirmAbandon, StagePending, Outside
<1> QED BY <1>2, <1>3, <1>4 DEF ConfirmStep

LEMMA TaskOutside ==
    ASSUME Outside, odd \in History, spent \in Budget, Busy, NEW w \in Task, T(w) \in Upload,
           TaskStep(w)
    PROVE  Outside' /\ odd' \in History /\ spent' \in Budget
<1>1. charge[T(w)] \in Charge
  BY DEF Outside
<1>2. CASE SweepReserve(w) \/ SweepFinalize(w)
  <2>1. PICK x \in Charge : charge' = [charge EXCEPT ![T(w)] = x]
    BY <1>1, <1>2, ChargeFields DEF SweepReserve, SweepFinalize, SweepCall
  <2>2. charge' \in [Upload -> Charge]
    BY <2>1 DEF Outside
  <2> QED BY <1>2, <2>2, Spends DEF SweepReserve, SweepFinalize, SweepCall, Outside
<1>3. CASE DrainSettle(w)
  <2>1. task[w].quota \in Release
    BY <1>3 DEF DrainSettle, TaskAt, Busy, Draining
  <2>2. Settle(task[w].quota, charge[T(w)]) \in Charge /\ PartOf(task[w].quota, charge[T(w)]) \subseteq Charge
    BY <1>1, <2>1, SettleType
  <2>3. PICK x \in Charge : charge' = [charge EXCEPT ![T(w)] = x]
    BY <1>3, <2>2 DEF DrainSettle
  <2>4. charge' \in [Upload -> Charge]
    BY <2>3 DEF Outside
  <2> QED BY <1>3, <2>4, Spends DEF DrainSettle, Outside
<1>4. CASE SweepRefused(w) \/ DrainRefused(w)
  BY <1>4, Spends, Remembers DEF SweepRefused, DrainRefused, Outside
<1>5. CASE DrainDelete(w)
  <2>1. object' \subseteq Upload
    BY <1>5 DEF DrainDelete, Outside
  <2> QED BY <1>5, <2>1, Spends, Remembers DEF DrainDelete, Outside
<1>6. CASE SweepReserved(w) \/ SweepFinalized(w) \/ SweepFailed(w) \/ DrainDefer(w) \/ DrainAck(w)
           \/ SweepStage(w)
  BY <1>6 DEF SweepReserved, SweepFinalized, SweepRecord, SweepFailed, DrainDefer, DrainAck,
              SweepStage, StagePending, Outside
<1>7. CASE DrainFailed(w)
  BY <1>7, Spends DEF DrainFailed, Outside
<1> QED BY <1>2, <1>3, <1>4, <1>5, <1>6, <1>7 DEF TaskStep

LEMMA KeyOutside ==
    ASSUME TypeOK, Outside, odd \in History, spent \in Budget, NEW u \in Upload,
           \/ Put(u) \/ Delete(u) \/ TaskClaim(u) \/ Clock(u)
           \/ \E c \in Confirmer : ConfirmClaim(c, u)
    PROVE  Outside' /\ odd' \in History /\ spent' \in Budget
<1>1. CASE Put(u)
  BY <1>1, Remembers DEF Put, Outside
<1>2. CASE \E c \in Confirmer : ConfirmClaim(c, u)
  BY <1>2 DEF ConfirmClaim, StagePending, Outside
<1>3. CASE TaskClaim(u)
  BY <1>3 DEF TaskClaim, SweepClaim, DrainClaim, Outside
<1>4. CASE Delete(u)
  BY <1>4, DropTyped DEF Delete, Outside
<1>5. CASE Expire(u) \/ UrlDies(u)
  BY <1>5 DEF Expire, UrlDies, Outside
<1>6. CASE PendingLapse(u) \/ IntentLapse(u)
  BY <1>6, Spends DEF PendingLapse, IntentLapse, Stalls, Outside
<1>7. CASE DueNow(u)
  BY <1>7, Spends, Remembers DEF DueNow, Stalls, Outside
<1> QED BY <1>1, <1>2, <1>3, <1>4, <1>5, <1>6, <1>7 DEF Clock

LEMMA TypeStep ==
    ASSUME TypeOK, Busy, Next
    PROVE  TypeOK'
<1>1. Outside /\ odd \in History /\ spent \in Budget
  BY DEF TypeOK, Outside, History, Budget, Charge
<1>2. \A c \in Confirmer : ConfirmStep(c) => U(c) \in Upload
  BY DEF Busy, ConfirmStep, ConfirmHead, ConfirmFinalize, ConfirmCommit, ConfirmCommitted,
         ConfirmInsert, ConfirmAbandon, ConfirmRelease, ConfirmAt
<1>3. \A w \in Task : TaskStep(w) => T(w) \in Upload
  BY DEF Busy, TaskStep, SweepReserve, SweepReserved, SweepFinalize, SweepFinalized, SweepRefused,
         SweepStage, SweepFailed, DrainDelete, DrainDefer, DrainSettle, DrainRefused, DrainAck,
         DrainFailed, SweepCall, SweepRecord, TaskAt
<1>4. Outside' /\ odd' \in History /\ spent' \in Budget
  <2>1. ASSUME NEW a \in Account,
               PurgeFence(a) \/ PurgeSettle(a) \/ PurgeSettled(a) \/ PurgeDelete(a) \/ PurgeDone(a)
        PROVE  Outside' /\ odd' \in History /\ spent' \in Budget
    <3>1. CASE PurgeDelete(a)
      BY <1>1, <3>1, DropTyped DEF PurgeDelete, Outside
    <3>2. CASE PurgeFence(a) \/ PurgeSettle(a) \/ PurgeSettled(a) \/ PurgeDone(a)
      BY <1>1, <3>2 DEF PurgeFence, PurgeSettle, PurgeSettled, PurgeDone, PurgeGo, Outside
    <3> QED BY <2>1, <3>1, <3>2
  <2>2. CASE Crash
    BY <1>1, <2>2, Spends DEF Crash, Outside
  <2> QED BY <1>1, <1>2, <1>3, <2>1, <2>2, UploadOutside, ConfirmOutside, TaskOutside, KeyOutside DEF Next
<1> QED BY <1>4, RowsTyped, ProcessesTyped DEF Outside, Processes, History, Budget, TypeOK, Row, Outbox, Charge

-----------------------------------------------------------------------------
(***************************************************************************)
(* A step is about one key, and leaves the others as they are.             *)
(***************************************************************************)
Same(u) ==
    /\ pending'[u] = pending[u] /\ intent'[u] = intent[u] /\ attachment'[u] = attachment[u]
    /\ charge'[u] = charge[u] /\ url'[u] = url[u] /\ request'[u] = request[u]
    /\ u \in object' <=> u \in object
    /\ u \in expired' <=> u \in expired
    /\ u \in odd'.overrun <=> u \in odd.overrun

\* Steps of the environment and claims, by key.
KeyStep(u) ==
    \/ Put(u) \/ Delete(u) \/ TaskClaim(u) \/ Clock(u)
    \/ \E c \in Confirmer : ConfirmClaim(c, u)

LEMMA StageElsewhere ==
    ASSUME NEW u \in Upload, NEW q, NEW b, StagePending(u, q, b), TypeOK, NEW v \in Upload \ {u}
    PROVE  pending'[v] = pending[v] /\ intent'[v] = intent[v] /\ attachment' = attachment
BY DEF StagePending, TypeOK

LEMMA DropElsewhere ==
    ASSUME NEW u \in Upload, Drop({u}), TypeOK, NEW v \in Upload \ {u}
    PROVE  intent'[v] = intent[v] /\ attachment'[v] = attachment[v]
BY DEF Drop, TypeOK

LEMMA UploadElsewhere ==
    ASSUME TypeOK, NEW u \in Upload, UploadStep(u), NEW v \in Upload \ {u}
    PROVE  Same(v) /\ UNCHANGED <<metered, confirm, task>>
<1> USE DEF TypeOK, Same, Go
<1>1. CASE Presign(u) \/ PresignReserve(u)
  BY <1>1 DEF Presign, PresignReserve, Refuses
<1>2. CASE PresignNotReserved(u) \/ PresignReserved(u) \/ PresignIssue(u) \/ PresignLost(u)
  BY <1>2 DEF PresignNotReserved, PresignReserved, PresignIssue, PresignLost, Update
<1>3. CASE LegacyStage(u) \/ LegacyPut(u)
  BY <1>3 DEF LegacyStage, LegacyPut
<1>4. CASE LegacyInsert(u) \/ LegacyUndo(u)
  BY <1>4 DEF LegacyInsert, LegacyUndo
<1> QED BY <1>1, <1>2, <1>3, <1>4 DEF UploadStep

LEMMA ConfirmElsewhere ==
    ASSUME TypeOK, NEW c \in Confirmer, U(c) \in Upload, ConfirmStep(c), NEW v \in Upload \ {U(c)}
    PROVE  Same(v)
<1> USE DEF TypeOK, Same, ConfirmGo, ConfirmEnd
<1>1. CASE ConfirmHead(c) \/ ConfirmFinalize(c) \/ ConfirmCommitted(c)
  BY <1>1 DEF ConfirmHead, ConfirmFinalize, ConfirmCommitted
<1>2. CASE ConfirmCommit(c)
  BY <1>2 DEF ConfirmCommit
<1>3. CASE ConfirmInsert(c) \/ ConfirmRelease(c)
  BY <1>3 DEF ConfirmInsert, ConfirmRelease, Update
<1>4. CASE ConfirmAbandon(c)
  BY <1>4, StageElsewhere DEF ConfirmAbandon
<1> QED BY <1>1, <1>2, <1>3, <1>4 DEF ConfirmStep

LEMMA TaskElsewhere ==
    ASSUME TypeOK, NEW w \in Task, T(w) \in Upload, TaskStep(w), NEW v \in Upload \ {T(w)}
    PROVE  Same(v)
<1> USE DEF TypeOK, Same, TaskGo, TaskEnd, TaskSet
<1>1. CASE SweepReserve(w) \/ SweepFinalize(w)
  BY <1>1 DEF SweepReserve, SweepFinalize, SweepCall
<1>2. CASE SweepReserved(w) \/ SweepFinalized(w)
  BY <1>2 DEF SweepReserved, SweepFinalized, SweepRecord
<1>3. CASE SweepStage(w)
  BY <1>3, StageElsewhere DEF SweepStage
<1>4. CASE SweepFailed(w) \/ SweepRefused(w) \/ DrainRefused(w)
  BY <1>4 DEF SweepFailed, SweepRefused, DrainRefused, Update
<1>5. CASE DrainDelete(w)
  BY <1>5 DEF DrainDelete
<1>6. CASE DrainSettle(w)
  BY <1>6 DEF DrainSettle
<1>7. CASE DrainDefer(w) \/ DrainAck(w) \/ DrainFailed(w)
  BY <1>7 DEF DrainDefer, DrainAck, DrainFailed, LeasedIntent
<1> QED BY <1>1, <1>2, <1>3, <1>4, <1>5, <1>6, <1>7 DEF TaskStep

LEMMA KeyElsewhere ==
    ASSUME TypeOK, NEW u \in Upload, KeyStep(u), NEW v \in Upload \ {u}
    PROVE  Same(v) /\ UNCHANGED metered
<1> USE DEF TypeOK, Same
<1>1. CASE Put(u) \/ Expire(u) \/ UrlDies(u)
  BY <1>1 DEF Put, Expire, UrlDies
<1>3. CASE Delete(u)
  BY <1>3, DropElsewhere DEF Delete
<1>4. CASE TaskClaim(u) \/ \E c \in Confirmer : ConfirmClaim(c, u)
  BY <1>4 DEF TaskClaim, SweepClaim, DrainClaim, TaskSet, ConfirmClaim
<1>5. CASE PendingLapse(u) \/ IntentLapse(u)
  BY <1>5 DEF PendingLapse, IntentLapse
<1>6. CASE DueNow(u)
  BY <1>6 DEF DueNow
<1> QED BY <1>1, <1>3, <1>4, <1>5, <1>6 DEF KeyStep, Clock

-----------------------------------------------------------------------------
(***************************************************************************)
(* What is said of one key                                                 *)
(***************************************************************************)
WholeInv(u) ==
    attachment[u] = "present" /\ u \notin odd.overrun =>
        u \in object /\ (metered => charge[u] = "committed")

KeyInv(u) == RowInv(u) /\ HoldInv(u) /\ ChargeInv(u) /\ WholeInv(u)

LEMMA KeySame ==
    ASSUME NEW u \in Upload, KeyInv(u), Same(u), UNCHANGED metered
    PROVE  KeyInv(u)'
BY DEF KeyInv, Same, RowInv, HoldInv, ChargeInv, WholeInv

LEMMA UploadKey ==
    ASSUME TypeOK, NEW u \in Upload, KeyInv(u), UploadStep(u)
    PROVE  KeyInv(u)'
<1> USE DEF TypeOK, KeyInv, RowInv, HoldInv, ChargeInv, WholeInv, Presigning, At, Go
<1>1. CASE Presign(u)
  <2>1. metered' = metered
    BY <1>1 DEF Presign
  <2> QED BY <1>1, <2>1 DEF Presign, Charge
<1>2. CASE PresignReserve(u)
  BY <1>2 DEF PresignReserve, Reserve, Refuses
<1>3. CASE PresignNotReserved(u)
  BY <1>3 DEF PresignNotReserved, Update, Released, Admission
<1>4. CASE PresignReserved(u)
  BY <1>4 DEF PresignReserved, Holds, Admission
<1>5. CASE PresignIssue(u)
  BY <1>5 DEF PresignIssue, Holds, Released, Admission
<1>6. CASE PresignLost(u)
  BY <1>6 DEF PresignLost, Update, Released, Admission
<1>7. CASE LegacyStage(u)
  <2>1. NewIntent("uncommitted_upload", "none", FALSE, "hold") # None
    BY NewIntentType, RowAssumption DEF Source, Release, Due
  <2> QED BY <1>7, <2>1 DEF LegacyStage, NewIntent
<1>8. CASE LegacyPut(u)
  BY <1>8 DEF LegacyPut
<1>9. CASE LegacyInsert(u)
  BY <1>9 DEF LegacyInsert
<1>10. CASE LegacyUndo(u)
  BY <1>10 DEF LegacyUndo
<1> QED BY <1>1, <1>2, <1>3, <1>4, <1>5, <1>6, <1>7, <1>8, <1>9, <1>10 DEF UploadStep

\* Handing an admission over to an intent.
LEMMA StageKey ==
    ASSUME TypeOK, NEW u \in Upload, KeyInv(u), NEW q, NEW b, StagePending(u, q, b),
           attachment[u] = "none", request[u] \in Presigning \cup {"done"},
           UNCHANGED <<metered, request, url, charge, object, odd>>
    PROVE  KeyInv(u)'
BY DEF StagePending, TypeOK, KeyInv, RowInv, HoldInv, ChargeInv, WholeInv, Presigning

LEMMA ConfirmKey ==
    ASSUME TypeOK, NEW c \in Confirmer, NEW u \in Upload, u = U(c), ConfirmInv(c), KeyInv(u),
           ConfirmStep(c)
    PROVE  KeyInv(u)'
<1> USE DEF TypeOK, KeyInv, RowInv, HoldInv, ChargeInv, WholeInv, ConfirmGo, ConfirmEnd
<1>1. CASE ConfirmHead(c)
  BY <1>1 DEF ConfirmHead
<1>2. CASE ConfirmFinalize(c) \/ ConfirmCommitted(c)
  BY <1>2 DEF ConfirmFinalize, ConfirmCommitted, Holds, Admission
<1>3. CASE ConfirmCommit(c)
  BY <1>3 DEF ConfirmCommit, Finalize
<1>4. CASE ConfirmInsert(c)
  BY <1>4 DEF ConfirmInsert, Holds, ConfirmInv, ConfirmAt, Presigning
<1>5. CASE ConfirmAbandon(c)
  <2>1. CASE Proven(c)
    BY <1>5, <2>1, StageKey DEF ConfirmAbandon, Proven, Holds
  <2>2. CASE ~Proven(c)
    BY <1>5, <2>2 DEF ConfirmAbandon
  <2> QED BY <2>1, <2>2
<1>6. CASE ConfirmRelease(c)
  <2>1. pending'[u] # None => pending[u] # None /\ pending'[u].issued = pending[u].issued
    <3> DEFINE r == Released(pending[U(c)])
    <3>1. pending[U(c)] # None => r.issued = pending[U(c)].issued
      BY DEF Released, Admission
    <3>2. \/ pending' = pending
          \/ pending[U(c)] # None /\ pending' = [pending EXCEPT ![U(c)] = r]
      BY <1>6 DEF ConfirmRelease, Update
    <3> HIDE DEF r
    <3> QED BY <3>1, <3>2
  <2> QED BY <1>6, <2>1 DEF ConfirmRelease
<1> QED BY <1>1, <1>2, <1>3, <1>4, <1>5, <1>6 DEF ConfirmStep

LEMMA TaskKey ==
    ASSUME TypeOK, NEW w \in Task, NEW u \in Upload, u = T(w), SweepInv(w), DrainInv(w), KeyInv(u),
           TaskStep(w)
    PROVE  KeyInv(u)'
<1> USE DEF TypeOK, KeyInv, RowInv, HoldInv, ChargeInv, WholeInv, TaskGo, TaskEnd, TaskSet,
            Sweeping, Draining, TaskAt
<1>1. CASE SweepReserve(w) \/ SweepFinalize(w)
  <2>1. attachment[u] = "none" /\ request[u] \in Presigning \cup {"done"}
    BY <1>1 DEF SweepReserve, SweepFinalize, SweepCall, SweepInv
  <2> QED BY <1>1, <2>1 DEF SweepReserve, SweepFinalize, SweepCall, Reserve, Finalize, Presigning
<1>2. CASE SweepReserved(w) \/ SweepFinalized(w)
  BY <1>2 DEF SweepReserved, SweepFinalized, SweepRecord, Holds, Admission
<1>3. CASE SweepStage(w)
  <2>1. attachment[u] = "none" /\ request[u] \in Presigning \cup {"done"}
    BY <1>3 DEF SweepStage, SweepInv
  <2> QED BY <1>3, <2>1, StageKey DEF SweepStage
<1>4. CASE SweepFailed(w)
  <2>1. pending'[u] # None => pending[u] # None /\ pending'[u].issued = pending[u].issued
    <3> DEFINE r == [pending[T(w)] EXCEPT !.owner = None, !.live = TRUE]
    <3>1. pending[T(w)] # None => r.issued = pending[T(w)].issued
      BY DEF Admission
    <3>2. \/ pending' = pending
          \/ pending[T(w)] # None /\ pending' = [pending EXCEPT ![T(w)] = r]
      BY <1>4 DEF SweepFailed, Update
    <3> HIDE DEF r
    <3> QED BY <3>1, <3>2
  <2> QED BY <1>4, <2>1 DEF SweepFailed
<1>5. CASE SweepRefused(w) \/ DrainRefused(w)
  BY <1>5 DEF SweepRefused, DrainRefused
<1>6. CASE DrainDelete(w)
  BY <1>6 DEF DrainDelete, DrainInv
<1>7. CASE DrainSettle(w)
  <2>1. /\ pending[u] = None /\ request[u] # "new"
        /\ attachment[u] = "present" \/ request[u] \in {"put", "insert"} => u \in odd.overrun
    BY <1>7 DEF DrainSettle, DrainInv
  <2> QED BY <1>7, <2>1 DEF DrainSettle
<1>8. CASE DrainDefer(w) \/ DrainAck(w) \/ DrainFailed(w)
  <2>1. /\ pending[u] = None /\ request[u] # "new"
        /\ attachment[u] = "present" \/ request[u] \in {"put", "insert"} => u \in odd.overrun
    BY <1>8 DEF DrainDefer, DrainAck, DrainFailed, DrainInv
  <2>2. intent'[u] # None => intent[u] # None
    BY <1>8 DEF DrainDefer, DrainAck, DrainFailed, LeasedIntent, Holds
  <2> QED BY <1>8, <2>1, <2>2 DEF DrainDefer, DrainAck, DrainFailed
<1> QED BY <1>1, <1>2, <1>3, <1>4, <1>5, <1>6, <1>7, <1>8 DEF TaskStep

LEMMA DropKey ==
    ASSUME TypeOK, NEW u \in Upload, KeyInv(u), NEW S, Drop(S), u \in S, attachment[u] = "present",
           UNCHANGED <<metered, pending, request, url, charge, object, odd>>
    PROVE  KeyInv(u)'
<1>1. attachment'[u] = "deleted"
  BY DEF Drop
<1> QED BY <1>1 DEF TypeOK, KeyInv, RowInv, HoldInv, ChargeInv, WholeInv

LEMMA KeyKey ==
    ASSUME TypeOK, NEW u \in Upload, KeyInv(u), KeyStep(u)
    PROVE  KeyInv(u)'
<1> USE DEF TypeOK, KeyInv, RowInv, HoldInv, ChargeInv, WholeInv
<1>1. CASE Put(u) \/ Expire(u) \/ UrlDies(u)
  BY <1>1 DEF Put, Expire, UrlDies
<1>3. CASE Delete(u)
  BY <1>3, DropKey DEF Delete
<1>4. CASE \E c \in Confirmer : ConfirmClaim(c, u)
  <2>1. pending[u] # None /\ pending'[u].issued = pending[u].issued
    BY <1>4 DEF ConfirmClaim, Claimable, Admission
  <2> QED BY <1>4, <2>1 DEF ConfirmClaim
<1>5. ASSUME NEW w \in Task, SweepClaim(w, u)
      PROVE  KeyInv(u)'
  <2>1. pending[u] # None /\ pending'[u].issued = pending[u].issued
    BY <1>5 DEF SweepClaim, Sweepable, Admission
  <2> QED BY <1>5, <2>1 DEF SweepClaim, TaskSet
<1>6. ASSUME NEW w \in Task, DrainClaim(w, u)
      PROVE  KeyInv(u)'
  BY <1>6 DEF DrainClaim, Drainable, TaskSet
<1>7. CASE PendingLapse(u)
  <2>1. pending[u] # None /\ pending'[u].issued = pending[u].issued
    BY <1>7 DEF PendingLapse, Admission
  <2> QED BY <1>7, <2>1 DEF PendingLapse
<1>8. CASE IntentLapse(u)
  <2>1. intent[u] \in Intent
    BY <1>8 DEF IntentLapse
  <2>2. /\ [intent[u] EXCEPT !.live = FALSE] \in Intent
        /\ [intent[u] EXCEPT !.live = FALSE].due = intent[u].due
        /\ [intent[u] EXCEPT !.live = FALSE].owner = intent[u].owner
    BY <2>1 DEF Intent
  <2> QED BY <1>8, <2>1, <2>2, RowAssumption DEF IntentLapse
<1>9. CASE DueNow(u)
  <2>1. intent[u] \in Intent
    BY <1>9 DEF DueNow
  <2>2. [intent[u] EXCEPT !.due = "now"] \in Intent
    BY <2>1 DEF Intent, Due
  <2> QED BY <1>9, <2>1, <2>2, RowAssumption DEF DueNow
<1> QED BY <1>1, <1>3, <1>4, <1>5, <1>6, <1>7, <1>8, <1>9 DEF KeyStep, TaskClaim, Clock

LEMMA PurgeKey ==
    ASSUME TypeOK, NEW u \in Upload, KeyInv(u), NEW a \in Account,
           PurgeFence(a) \/ PurgeSettle(a) \/ PurgeSettled(a) \/ PurgeDelete(a) \/ PurgeDone(a)
    PROVE  KeyInv(u)'
<1>1. CASE PurgeSettle(a)
  <2>1. CASE u \in Of(a) /\ pending[u] # None
    <3>1. pending'[u] = None
      BY <1>1, <2>1 DEF PurgeSettle
    <3>2. UNCHANGED <<metered, attachment, request, url, charge, object, odd>>
      BY <1>1 DEF PurgeSettle
    <3> QED BY <2>1, <3>1, <3>2 DEF KeyInv, RowInv, HoldInv, ChargeInv, WholeInv, Presigning
  <2>2. CASE ~(u \in Of(a) /\ pending[u] # None)
    <3>1. pending'[u] = pending[u] /\ intent'[u] = intent[u]
      BY <1>1, <2>2 DEF PurgeSettle
    <3> QED BY <1>1, <3>1, KeySame DEF PurgeSettle, Same
  <2> QED BY <2>1, <2>2
<1>2. CASE PurgeDelete(a)
  <2>1. CASE u \in Of(a) /\ attachment[u] = "present"
    BY <1>2, <2>1, DropKey DEF PurgeDelete
  <2>2. CASE ~(u \in Of(a) /\ attachment[u] = "present")
    <3>1. attachment'[u] = attachment[u] /\ intent'[u] = intent[u]
      BY <1>2, <2>2 DEF PurgeDelete, Drop
    <3> QED BY <1>2, <3>1, KeySame DEF PurgeDelete, Same
  <2> QED BY <2>1, <2>2
<1>3. CASE PurgeFence(a) \/ PurgeSettled(a) \/ PurgeDone(a)
  BY <1>3, KeySame DEF PurgeFence, PurgeSettled, PurgeDone, PurgeGo, Same
<1> QED BY <1>1, <1>2, <1>3

LEMMA CrashKey ==
    ASSUME TypeOK, NEW u \in Upload, KeyInv(u), Crash
    PROVE  KeyInv(u)'
<1>1. request'[u] = IF request[u] = "new" THEN "new" ELSE "done"
  BY DEF Crash, At
<1>2. UNCHANGED <<metered, pending, intent, attachment, url, charge, object, odd>>
  BY DEF Crash
<1> QED BY <1>1, <1>2 DEF KeyInv, RowInv, HoldInv, ChargeInv, WholeInv, Presigning

LEMMA MeteredStays == ASSUME Next PROVE metered' = metered
<1>1. ASSUME NEW u \in Upload, UploadStep(u)
      PROVE  metered' = metered
  BY <1>1 DEF UploadStep, Presign, PresignReserve, PresignNotReserved, PresignReserved, PresignIssue,
              PresignLost, LegacyStage, LegacyPut, LegacyInsert, LegacyUndo
<1>2. ASSUME NEW u \in Upload, KeyStep(u)
      PROVE  metered' = metered
  BY <1>2 DEF KeyStep, Put, Delete, TaskClaim, SweepClaim, DrainClaim, ConfirmClaim,
              Clock, Expire, UrlDies, PendingLapse, IntentLapse, DueNow
<1>3. ASSUME NEW c \in Confirmer, ConfirmStep(c)
      PROVE  metered' = metered
  BY <1>3 DEF ConfirmStep, ConfirmHead, ConfirmFinalize, ConfirmCommit, ConfirmCommitted,
              ConfirmInsert, ConfirmAbandon, ConfirmRelease
<1>4. ASSUME NEW w \in Task, TaskStep(w)
      PROVE  metered' = metered
  BY <1>4 DEF TaskStep, SweepReserve, SweepReserved, SweepFinalize, SweepFinalized, SweepRefused,
              SweepStage, SweepFailed, DrainDelete, DrainDefer, DrainSettle, DrainRefused, DrainAck,
              DrainFailed, SweepCall, SweepRecord
<1>5. ASSUME NEW a \in Account,
             PurgeFence(a) \/ PurgeSettle(a) \/ PurgeSettled(a) \/ PurgeDelete(a) \/ PurgeDone(a)
      PROVE  metered' = metered
  BY <1>5 DEF PurgeFence, PurgeSettle, PurgeSettled, PurgeDelete, PurgeDone, PurgeGo
<1>6. CASE Crash
  BY <1>6 DEF Crash
<1> QED BY <1>1, <1>2, <1>3, <1>4, <1>5, <1>6 DEF Next, KeyStep

\* A step is one of these, at a key of its own.
LEMMA StepCases ==
    ASSUME Busy, Next
    PROVE  \/ \E u \in Upload : UploadStep(u) \/ KeyStep(u)
           \/ \E c \in Confirmer : U(c) \in Upload /\ ConfirmStep(c)
           \/ \E w \in Task : T(w) \in Upload /\ TaskStep(w)
           \/ \E a \in Account :
                 PurgeFence(a) \/ PurgeSettle(a) \/ PurgeSettled(a) \/ PurgeDelete(a) \/ PurgeDone(a)
           \/ Crash
<1>2. \A c \in Confirmer : ConfirmStep(c) => U(c) \in Upload
  BY DEF Busy, ConfirmStep, ConfirmHead, ConfirmFinalize, ConfirmCommit, ConfirmCommitted,
         ConfirmInsert, ConfirmAbandon, ConfirmRelease, ConfirmAt
<1>3. \A w \in Task : TaskStep(w) => T(w) \in Upload
  BY DEF Busy, TaskStep, SweepReserve, SweepReserved, SweepFinalize, SweepFinalized, SweepRefused,
         SweepStage, SweepFailed, DrainDelete, DrainDefer, DrainSettle, DrainRefused, DrainAck,
         DrainFailed, SweepCall, SweepRecord, TaskAt
<1> QED BY <1>2, <1>3 DEF Next, KeyStep

LEMMA KeyInvStep ==
    ASSUME IInv, Next
    PROVE  \A v \in Upload : KeyInv(v)'
<1>1. TypeOK /\ Busy /\ metered' = metered /\ \A v \in Upload : KeyInv(v)
  BY IInvBusy, MeteredStays DEF IInv, KeyInv, WholeInv, AttachmentIsWhole
<1> SUFFICES ASSUME NEW v \in Upload PROVE KeyInv(v)'
  OBVIOUS
<1>2. Same(v) => KeyInv(v)'
  BY <1>1, KeySame
<1>3. ASSUME NEW u \in Upload, UploadStep(u) \/ KeyStep(u)
      PROVE  KeyInv(v)'
  BY <1>1, <1>2, <1>3, UploadElsewhere, KeyElsewhere, UploadKey, KeyKey
<1>4. ASSUME NEW c \in Confirmer, U(c) \in Upload, ConfirmStep(c)
      PROVE  KeyInv(v)'
  <2>1. ConfirmInv(c)
    BY DEF IInv
  <2>2. CASE v = U(c)
    BY <1>1, <1>4, <2>1, <2>2, ConfirmKey
  <2> QED BY <1>1, <1>2, <1>4, <2>2, ConfirmElsewhere
<1>5. ASSUME NEW w \in Task, T(w) \in Upload, TaskStep(w)
      PROVE  KeyInv(v)'
  <2>1. SweepInv(w) /\ DrainInv(w)
    BY DEF IInv
  <2>2. CASE v = T(w)
    BY <1>1, <1>5, <2>1, <2>2, TaskKey
  <2> QED BY <1>1, <1>2, <1>5, <2>2, TaskElsewhere
<1>6. ASSUME NEW a \in Account,
             PurgeFence(a) \/ PurgeSettle(a) \/ PurgeSettled(a) \/ PurgeDelete(a) \/ PurgeDone(a)
      PROVE  KeyInv(v)'
  BY <1>1, <1>6, PurgeKey
<1>7. CASE Crash
  BY <1>1, <1>7, CrashKey
<1> QED BY <1>1, <1>3, <1>4, <1>5, <1>6, <1>7, StepCases

-----------------------------------------------------------------------------
(***************************************************************************)
(* What confirmations, sweeps and drains rely on, with or without a lease  *)
(***************************************************************************)
SweptAt(u) ==
    /\ attachment[u] = "none"
    /\ u \in expired \/ url[u] = "none"
    /\ pending[u] # None => pending[u].owner \notin {"presign"} \cup Confirmer
    /\ request[u] \in Presigning \cup {"done"}

DrainedAt(u) ==
    /\ pending[u] = None
    /\ request[u] # "new"
    /\ attachment[u] = "present" \/ request[u] \in {"put", "insert"} => u \in odd.overrun

ConfirmedBy(c, u) ==
    /\ url[u] # "none" => url'[u] # "none"
    /\ Holds(pending'[u], c) => Holds(pending[u], c)
    /\ pending[u] # None /\ u \in object => u \in object'
    /\ pending[u] # None /\ charge[u] = "committed" => charge'[u] = "committed"

\* What a step at a key leaves to those who are at work on it.
Steady(u) ==
    /\ SweptAt(u) => SweptAt(u)'
    /\ DrainedAt(u) => DrainedAt(u)'

Kept(u) ==
    /\ Steady(u)
    /\ \A c \in Confirmer : ConfirmedBy(c, u)

LEMMA SameKept ==
    ASSUME NEW u \in Upload, Same(u)
    PROVE  Kept(u)
BY DEF Same, Kept, Steady, SweptAt, DrainedAt, ConfirmedBy

LEMMA ReleasedRow ==
    ASSUME NEW r \in Admission
    PROVE  Released(r) # None /\ Released(r).owner = None
BY RowAssumption DEF Released, Admission

LEMMA RefusedRow ==
    ASSUME NEW r \in Admission, NEW q \in QuotaState
    PROVE  [Released(r) EXCEPT !.quota = q] # None /\ [Released(r) EXCEPT !.quota = q].owner = None
BY RowAssumption DEF Released, Admission

LEMMA UploadKept ==
    ASSUME TypeOK, NEW u \in Upload, KeyInv(u), UploadStep(u)
    PROVE  Kept(u)
<1>1. CASE Presign(u)
  <2>1. /\ request[u] = "new" /\ url'[u] = url[u] /\ object' = object /\ charge' = charge
        /\ pending'[u] # None => pending'[u].owner = "presign"
    BY <1>1 DEF Presign, At, TypeOK, KeyInv, RowInv
  <2> QED BY <2>1, NameAssumption DEF Kept, Steady, SweptAt, DrainedAt, ConfirmedBy, Holds, Presigning, KeyInv, RowInv
<1>2. CASE PresignReserve(u)
  BY <1>2 DEF PresignReserve, Refuses, Reserve, Go, At, TypeOK, Kept, Steady, SweptAt, DrainedAt,
              ConfirmedBy, Holds, Presigning
<1>3. CASE PresignNotReserved(u) \/ PresignLost(u)
  <2>1. /\ UNCHANGED <<intent, attachment, host, time, metered, odd>>
        /\ request[u] \in Presigning /\ request'[u] = "done"
    BY <1>3 DEF PresignNotReserved, PresignLost, Go, At, TypeOK, Presigning
  <2>2. \/ pending'[u] = pending[u]
        \/ pending[u] # None /\ pending'[u] # None /\ pending'[u].owner = None
    <3>0. pending[u] # None => pending[u] \in Admission
      BY DEF TypeOK
    <3>1. \A row : Update(u, row) =>
             pending'[u] = pending[u] \/ (pending[u] # None /\ pending'[u] = row)
      BY DEF Update, TypeOK
    <3>2. pending[u] # None => Released(pending[u]) # None /\ Released(pending[u]).owner = None
      BY <3>0, ReleasedRow
    <3>3. CASE PresignLost(u)
      BY <3>1, <3>2, <3>3 DEF PresignLost
    <3>4. CASE PresignNotReserved(u)
      <4> DEFINE row == [Released(pending[u]) EXCEPT !.quota =
                           IF At(u, "refused") THEN "not_required" ELSE "reserve_pending"]
      <4>1. pending[u] # None => row # None /\ row.owner = None
        BY <3>0, RefusedRow DEF QuotaState
      <4>2. Update(u, row)
        BY <3>4 DEF PresignNotReserved
      <4> HIDE DEF row
      <4> QED BY <3>1, <4>1, <4>2
    <3> QED BY <1>3, <3>3, <3>4
  <2> QED BY <2>1, <2>2, NameAssumption DEF Kept, Steady, SweptAt, DrainedAt, ConfirmedBy, Holds, Presigning
<1>4. CASE PresignReserved(u) \/ PresignIssue(u)
  <2>1. /\ UNCHANGED <<intent, attachment, host, expired, metered, odd>>
        /\ request[u] \in Presigning /\ request'[u] \in Presigning \cup {"done"}
        /\ Holds(pending[u], "presign")
        /\ url'[u] \in {url[u], "live"}
    BY <1>4 DEF PresignReserved, PresignIssue, Go, At, TypeOK, Presigning
  <2>2. pending[u] \in Admission
    BY <2>1 DEF Holds, TypeOK
  <2>3. pending'[u] # None /\ pending'[u].owner \in {None, "presign"}
    <3>1. CASE PresignReserved(u)
      <4>1. pending'[u] = [pending[u] EXCEPT !.quota = "reserved"]
        BY <3>1 DEF PresignReserved, TypeOK
      <4> QED BY <2>1, <2>2, <4>1, RowAssumption DEF Holds, Admission, QuotaState
    <3>2. CASE PresignIssue(u)
      <4>1. pending'[u] = [Released(pending[u]) EXCEPT !.issued = TRUE]
        BY <3>2 DEF PresignIssue, TypeOK
      <4> QED BY <2>1, <2>2, <4>1, RowAssumption DEF Released, Admission
    <3> QED BY <1>4, <3>1, <3>2
  <2> QED BY <2>1, <2>3, NameAssumption DEF Kept, Steady, SweptAt, DrainedAt, ConfirmedBy, Holds
<1>5. CASE LegacyStage(u)
  BY <1>5 DEF LegacyStage, Go, At, TypeOK, Kept, Steady, SweptAt, DrainedAt, ConfirmedBy, Holds, Presigning
<1>6. CASE LegacyPut(u)
  BY <1>6 DEF LegacyPut, Go, At, TypeOK, Kept, Steady, SweptAt, DrainedAt, ConfirmedBy, Holds, Presigning
<1>7. CASE LegacyInsert(u)
  BY <1>7 DEF LegacyInsert, Go, At, TypeOK, Kept, Steady, SweptAt, DrainedAt, ConfirmedBy, Holds, Presigning
<1>8. CASE LegacyUndo(u)
  BY <1>8 DEF LegacyUndo, Go, At, TypeOK, Kept, Steady, SweptAt, DrainedAt, ConfirmedBy, Holds, Presigning
<1> QED BY <1>1, <1>2, <1>3, <1>4, <1>5, <1>6, <1>7, <1>8 DEF UploadStep

LEMMA StageKept ==
    ASSUME TypeOK, NEW u \in Upload, NEW q, NEW b, StagePending(u, q, b), request[u] # "new",
           request[u] \notin {"put", "insert"}, attachment[u] = "none",
           UNCHANGED <<request, url, expired, charge, object, odd>>
    PROVE  Kept(u)
<1>1. pending'[u] = None /\ attachment' = attachment
  BY DEF StagePending, TypeOK
<1> QED BY <1>1 DEF Kept, Steady, SweptAt, DrainedAt, ConfirmedBy, Holds

LEMMA ConfirmKept ==
    ASSUME TypeOK, NEW c \in Confirmer, NEW u \in Upload, u = U(c), ConfirmInv(c), KeyInv(u),
           ConfirmStep(c)
    PROVE  Kept(u)
<1>1. CASE ConfirmHead(c) \/ ConfirmCommit(c)
  BY <1>1 DEF ConfirmHead, ConfirmCommit, Finalize, ConfirmGo, TypeOK, Kept, Steady, SweptAt,
              DrainedAt, ConfirmedBy
<1>2. CASE ConfirmFinalize(c) \/ ConfirmCommitted(c)
  <2>1. UNCHANGED <<intent, attachment, host, time, request, odd>>
    BY <1>2 DEF ConfirmFinalize, ConfirmCommitted, ConfirmGo
  <2>2. \/ pending' = pending
        \/ /\ Holds(pending[u], c)
           /\ \E q \in QuotaState : pending'[u] = [pending[u] EXCEPT !.quota = q]
    BY <1>2 DEF ConfirmFinalize, ConfirmCommitted, QuotaState, TypeOK
  <2>3. CASE Holds(pending[u], c)
    <3>1. pending[u] \in Admission /\ pending[u].owner = c
      BY <2>3 DEF Holds, TypeOK
    <3>2. pending'[u] # None /\ pending'[u].owner = c
      BY <2>2, <3>1, RowAssumption DEF Admission
    <3> QED BY <2>1, <2>3, <3>1, <3>2 DEF Kept, Steady, SweptAt, DrainedAt, ConfirmedBy, Holds
  <2> QED BY <2>1, <2>2, <2>3 DEF Kept, Steady, SweptAt, DrainedAt, ConfirmedBy, Holds
<1>3. CASE ConfirmInsert(c)
  <2>1. UNCHANGED <<intent, host, time, request, odd>>
    BY <1>3 DEF ConfirmInsert, ConfirmGo, ConfirmEnd
  <2>2. \/ UNCHANGED <<pending, attachment>>
        \/ Holds(pending[u], c) /\ pending'[u] = None
    BY <1>3 DEF ConfirmInsert, TypeOK
  <2> QED BY <2>1, <2>2 DEF Kept, Steady, SweptAt, DrainedAt, ConfirmedBy, Holds
<1>4. CASE ConfirmAbandon(c)
  <2>1. CASE Proven(c)
    BY <1>4, <2>1, StageKept DEF ConfirmAbandon, Proven, Holds, ConfirmEnd, KeyInv, RowInv, Presigning
  <2>2. CASE ~Proven(c)
    BY <1>4, <2>2 DEF ConfirmAbandon, ConfirmEnd, Kept, Steady, SweptAt, DrainedAt, ConfirmedBy
  <2> QED BY <2>1, <2>2
<1>5. CASE ConfirmRelease(c)
  <2>1. UNCHANGED <<intent, attachment, host, time, request, odd>>
    BY <1>5 DEF ConfirmRelease, ConfirmEnd
  <2>2. \/ pending' = pending
        \/ pending[u] # None /\ pending'[u] = Released(pending[u])
    BY <1>5 DEF ConfirmRelease, Update, TypeOK
  <2>3. \/ pending' = pending
        \/ pending[u] # None /\ pending'[u] # None /\ pending'[u].owner = None
    <3>1. pending[u] # None => pending[u] \in Admission
      BY DEF TypeOK
    <3> QED BY <2>2, <3>1, ReleasedRow
  <2> QED BY <2>1, <2>3, NameAssumption DEF Kept, Steady, SweptAt, DrainedAt, ConfirmedBy, Holds
<1> QED BY <1>1, <1>2, <1>3, <1>4, <1>5 DEF ConfirmStep

\* A step that writes an admission keeps its owner, takes it away or gives it to a task.
LEMMA RowKept ==
    ASSUME TypeOK, NEW u \in Upload,
           UNCHANGED <<attachment, object, charge, url, expired, request, odd>>,
           pending'[u] # None =>
              pending[u] # None /\ pending'[u].owner \in {None, pending[u].owner} \cup Task
    PROVE  Kept(u)
BY NameAssumption DEF Kept, Steady, SweptAt, DrainedAt, ConfirmedBy, Holds

LEMMA TaskKept ==
    ASSUME TypeOK, NEW w \in Task, NEW u \in Upload, u = T(w), SweepInv(w), DrainInv(w), KeyInv(u),
           TaskStep(w)
    PROVE  Kept(u)
<1>1. CASE SweepReserve(w) \/ SweepFinalize(w)
  <2>1. /\ UNCHANGED <<pending, attachment, object, url, expired, request, odd>>
        /\ charge[u] = "committed" => charge'[u] = "committed"
    BY <1>1 DEF SweepReserve, SweepFinalize, SweepCall, Reserve, Finalize, TaskGo, TaskSet, TypeOK
  <2> QED BY <2>1 DEF Kept, Steady, SweptAt, DrainedAt, ConfirmedBy
<1>2. CASE SweepReserved(w) \/ SweepFinalized(w)
  <2>1. UNCHANGED <<attachment, object, charge, url, expired, request, odd>>
    BY <1>2 DEF SweepReserved, SweepFinalized, SweepRecord, TaskGo, TaskSet
  <2>2. PICK q \in QuotaState :
           \/ pending' = pending
           \/ pending[u] # None /\ pending' = [pending EXCEPT ![T(w)] = [pending[T(w)] EXCEPT !.quota = q]]
    BY <1>2 DEF SweepReserved, SweepFinalized, SweepRecord, QuotaState, Holds
  <2>3. \/ pending' = pending
        \/ /\ pending[u] # None
           /\ pending'[u] = [pending[u] EXCEPT !.quota = q]
    BY <2>2 DEF TypeOK
  <2>4. pending[u] # None => pending[u] \in Admission
    BY DEF TypeOK
  <2>5. pending'[u] # None => pending[u] # None /\ pending'[u].owner = pending[u].owner
    BY <2>3, <2>4 DEF Admission
  <2> QED BY <2>1, <2>5, RowKept
<1>3. CASE SweepStage(w)
  <2>1. attachment[u] = "none" /\ request[u] \in Presigning \cup {"done"}
    BY <1>3 DEF SweepStage, SweepInv, TaskAt, Sweeping
  <2>2. CASE StagePending(u, task[w].quota, task[w].issued)
    BY <1>3, <2>1, <2>2, StageKept DEF SweepStage, TaskEnd, TaskGo, TaskSet, Presigning
  <2>3. CASE UNCHANGED db
    BY <1>3, <2>3 DEF SweepStage, TaskEnd, TaskGo, TaskSet, Kept, Steady, SweptAt, DrainedAt, ConfirmedBy
  <2> QED BY <1>3, <2>2, <2>3 DEF SweepStage
<1>4. CASE SweepFailed(w)
  <2>1. UNCHANGED <<attachment, object, charge, url, expired, request, odd>>
    BY <1>4 DEF SweepFailed, TaskEnd, TaskSet
  <2> DEFINE r == [pending[T(w)] EXCEPT !.owner = None, !.live = TRUE]
  <2>2. pending[T(w)] # None => r.owner = None
    BY DEF TypeOK, Admission
  <2>3. \/ pending' = pending
        \/ pending[T(w)] # None /\ pending' = [pending EXCEPT ![T(w)] = r]
    BY <1>4 DEF SweepFailed, Update
  <2> HIDE DEF r
  <2>4. pending'[u] # None => pending[u] # None /\ pending'[u].owner \in {None, pending[u].owner}
    BY <2>2, <2>3 DEF TypeOK
  <2> QED BY <2>1, <2>4, RowKept
<1>5. CASE SweepRefused(w) \/ DrainRefused(w)
  <2>1. /\ UNCHANGED <<pending, attachment, object, charge, url, expired, request>>
        /\ odd'.overrun = odd.overrun
    BY <1>5 DEF SweepRefused, DrainRefused, TaskGo, TaskSet, TypeOK
  <2> QED BY <2>1 DEF Kept, Steady, SweptAt, DrainedAt, ConfirmedBy
<1>6. CASE DrainDelete(w)
  <2>1. /\ UNCHANGED <<pending, attachment, charge, url, expired, request>>
        /\ odd'.overrun = odd.overrun
        /\ pending[u] = None
    BY <1>6 DEF DrainDelete, TaskGo, TaskSet, TypeOK, DrainInv, TaskAt, Draining
  <2> QED BY <2>1 DEF Kept, Steady, SweptAt, DrainedAt, ConfirmedBy, Holds
<1>7. CASE DrainSettle(w)
  <2>1. /\ UNCHANGED <<pending, attachment, object, url, expired, request, odd>>
        /\ pending[u] = None
    BY <1>7 DEF DrainSettle, TaskGo, TaskSet, DrainInv, TaskAt, Draining
  <2> QED BY <2>1 DEF Kept, Steady, SweptAt, DrainedAt, ConfirmedBy, Holds
<1>8. CASE DrainDefer(w) \/ DrainAck(w) \/ DrainFailed(w)
  BY <1>8 DEF DrainDefer, DrainAck, DrainFailed, TaskEnd, TaskSet, Kept, Steady, SweptAt, DrainedAt,
              ConfirmedBy
<1> QED BY <1>1, <1>2, <1>3, <1>4, <1>5, <1>6, <1>7, <1>8 DEF TaskStep

LEMMA KeyKept ==
    ASSUME TypeOK, NEW u \in Upload, KeyInv(u), KeyStep(u)
    PROVE  /\ Steady(u)
           /\ \A c \in Confirmer : ConfirmClaim(c, u) \/ ConfirmedBy(c, u)
<1>1. CASE Put(u)
  BY <1>1 DEF Put, TypeOK, Steady, SweptAt, DrainedAt, ConfirmedBy
<1>2. CASE Expire(u) \/ UrlDies(u)
  BY <1>2 DEF Expire, UrlDies, TypeOK, Steady, SweptAt, DrainedAt, ConfirmedBy
<1>4. CASE Delete(u)
  <2>1. /\ UNCHANGED <<pending, object, charge, url, expired, request, odd>>
        /\ attachment'[u] = "deleted" /\ attachment[u] # "none"
    BY <1>4 DEF Delete, Drop
  <2> QED BY <2>1 DEF Steady, SweptAt, DrainedAt, ConfirmedBy
<1>5. CASE TaskClaim(u)
  <2>1. UNCHANGED <<attachment, object, charge, url, expired, request, odd>>
    BY <1>5 DEF TaskClaim, SweepClaim, DrainClaim, TaskSet
  <2>2. ASSUME NEW w \in Task, SweepClaim(w, u)
        PROVE  pending[u] # None /\ pending'[u].owner = w
    BY <2>2 DEF SweepClaim, Sweepable, TypeOK, Admission
  <2>3. pending'[u] # None =>
           pending[u] # None /\ pending'[u].owner \in {None, pending[u].owner} \cup Task
    BY <1>5, <2>2 DEF TaskClaim, DrainClaim
  <2> QED BY <2>1, <2>3, RowKept DEF Kept
<1>6. CASE \E c \in Confirmer : ConfirmClaim(c, u)
  <2>1. PICK d \in Confirmer : ConfirmClaim(d, u)
    BY <1>6
  <2>2. /\ UNCHANGED <<attachment, object, charge, url, expired, request, odd>>
        /\ pending[u] # None /\ u \notin expired /\ url[u] # "none"
    BY <2>1 DEF ConfirmClaim, Claimable
  <2>3. pending'[u].owner = d \/ pending' = pending
    BY <2>1, <2>2 DEF ConfirmClaim, TypeOK, Admission
  <2> QED BY <2>1, <2>2, <2>3 DEF Steady, SweptAt, DrainedAt, ConfirmedBy, Holds
<1>7. CASE PendingLapse(u)
  <2>1. UNCHANGED <<attachment, object, charge, url, expired, request, odd>>
    BY <1>7 DEF PendingLapse
  <2>2. pending[u] # None /\ pending'[u].owner = pending[u].owner
    BY <1>7 DEF PendingLapse, TypeOK, Admission
  <2> QED BY <2>1, <2>2, RowKept DEF Kept
<1>8. CASE IntentLapse(u) \/ DueNow(u)
  BY <1>8 DEF IntentLapse, DueNow, TypeOK, Steady, SweptAt, DrainedAt, ConfirmedBy
<1> QED BY <1>1, <1>2, <1>4, <1>5, <1>6, <1>7, <1>8 DEF KeyStep, Clock

LEMMA PurgeKept ==
    ASSUME TypeOK, NEW u \in Upload, KeyInv(u), NEW a \in Account,
           PurgeFence(a) \/ PurgeSettle(a) \/ PurgeSettled(a) \/ PurgeDelete(a) \/ PurgeDone(a)
    PROVE  Kept(u) /\ UNCHANGED <<confirm, task>>
<1>1. CASE PurgeSettle(a)
  <2>1. /\ UNCHANGED <<attachment, object, charge, url, expired, request, odd, confirm, task>>
        /\ pending'[u] # None => pending'[u] = pending[u]
    BY <1>1 DEF PurgeSettle
  <2> QED BY <2>1, RowKept
<1>2. CASE PurgeDelete(a)
  <2>1. /\ UNCHANGED <<pending, object, charge, url, expired, request, odd, confirm, task>>
        /\ attachment'[u] = attachment[u] \/ (attachment'[u] = "deleted" /\ attachment[u] = "present")
    BY <1>2 DEF PurgeDelete, Drop
  <2> QED BY <2>1 DEF Kept, Steady, SweptAt, DrainedAt, ConfirmedBy
<1>3. CASE PurgeFence(a) \/ PurgeSettled(a) \/ PurgeDone(a)
  BY <1>3 DEF PurgeFence, PurgeSettled, PurgeDone, PurgeGo, Kept, Steady, SweptAt, DrainedAt, ConfirmedBy
<1> QED BY <1>1, <1>2, <1>3

LEMMA EveryKeyKept ==
    ASSUME IInv, Next, NEW v \in Upload
    PROVE  \/ Crash
           \/ /\ Steady(v)
              /\ \A c \in Confirmer : ConfirmClaim(c, v) \/ ConfirmedBy(c, v)
<1>1. TypeOK /\ Busy /\ KeyInv(v)
  BY IInvBusy DEF IInv, KeyInv, WholeInv, AttachmentIsWhole
<1>2. Kept(v) => Steady(v) /\ \A c \in Confirmer : ConfirmedBy(c, v)
  BY DEF Kept
<1>3. ASSUME NEW u \in Upload, UploadStep(u) \/ KeyStep(u)
      PROVE  Steady(v) /\ \A c \in Confirmer : ConfirmClaim(c, v) \/ ConfirmedBy(c, v)
  <2>1. CASE u = v
    BY <1>1, <1>2, <1>3, <2>1, UploadKept, KeyKept
  <2>2. CASE u # v
    BY <1>1, <1>2, <1>3, <2>2, UploadElsewhere, KeyElsewhere, SameKept
  <2> QED BY <2>1, <2>2
<1>4. ASSUME NEW c \in Confirmer, U(c) \in Upload, ConfirmStep(c)
      PROVE  Kept(v)
  <2>1. ConfirmInv(c)
    BY DEF IInv
  <2>2. CASE v = U(c)
    BY <1>1, <1>4, <2>1, <2>2, ConfirmKept
  <2> QED BY <1>1, <1>4, <2>2, ConfirmElsewhere, SameKept
<1>5. ASSUME NEW w \in Task, T(w) \in Upload, TaskStep(w)
      PROVE  Kept(v)
  <2>1. SweepInv(w) /\ DrainInv(w)
    BY DEF IInv
  <2>2. CASE v = T(w)
    BY <1>1, <1>5, <2>1, <2>2, TaskKept
  <2> QED BY <1>1, <1>5, <2>2, TaskElsewhere, SameKept
<1>6. ASSUME NEW a \in Account,
             PurgeFence(a) \/ PurgeSettle(a) \/ PurgeSettled(a) \/ PurgeDelete(a) \/ PurgeDone(a)
      PROVE  Kept(v)
  BY <1>1, <1>6, PurgeKept
<1> QED BY <1>1, <1>2, <1>3, <1>4, <1>5, <1>6, StepCases

LEMMA CrashIdle ==
    ASSUME Crash
    PROVE  /\ \A c \in Confirmer : ConfirmInv(c)'
           /\ \A w \in Task : SweepInv(w)' /\ DrainInv(w)'
<1>1. /\ \A c \in Confirmer : confirm'[c].pc = "idle"
      /\ \A w \in Task : task'[w].pc = "idle"
  BY DEF Crash, IdleConfirm, IdleTask
<1> QED BY <1>1 DEF ConfirmInv, ConfirmAt, SweepInv, DrainInv, Sweeping, Draining

LEMMA ConfirmRests ==
    ASSUME NEW c \in Confirmer, ConfirmInv(c), confirm'[c] = confirm[c], metered' = metered,
           ~ConfirmAt(c, "idle") => ConfirmedBy(c, U(c))
    PROVE  ConfirmInv(c)'
<1>1. U(c)' = U(c) /\ \A pc : ConfirmAt(c, pc)' = ConfirmAt(c, pc)
  BY DEF U, ConfirmAt
<1>2. CASE ConfirmAt(c, "idle")
  BY <1>1, <1>2 DEF ConfirmInv, ConfirmAt
<1>3. CASE ~ConfirmAt(c, "idle")
  BY <1>1, <1>3 DEF ConfirmInv, ConfirmedBy, Holds, U
<1> QED BY <1>2, <1>3

LEMMA ConfirmMoves ==
    ASSUME TypeOK, NEW c \in Confirmer, NEW u \in Upload, u = U(c), ConfirmInv(c), KeyInv(u),
           Kept(u), ConfirmStep(c), metered' = metered
    PROVE  ConfirmInv(c)'
<1>1. ConfirmedBy(c, u)
  BY DEF Kept
<1>2. CASE ConfirmEnd(c)
  BY <1>2 DEF ConfirmEnd, IdleConfirm, ConfirmInv, ConfirmAt, TypeOK
<1>3. ASSUME NEW pc \in ConfirmPc, confirm'[c].pc = pc, confirm'[c].upload = u,
             ~ConfirmAt(c, "idle"),
             pc \in {"finalize", "commit", "committed", "insert"} /\ Holds(pending'[u], c) => u \in object',
             pc \in {"committed", "insert"} /\ Holds(pending'[u], c) /\ metered => charge'[u] = "committed"
      PROVE  ConfirmInv(c)'
  BY <1>1, <1>3 DEF ConfirmInv, ConfirmedBy, ConfirmAt, U
<1>4. ASSUME NEW pc \in ConfirmPc, ConfirmGo(c, pc)
      PROVE  confirm'[c].pc = pc /\ confirm'[c].upload = u
  BY <1>4 DEF ConfirmGo, TypeOK, Confirmation, U
<1>5. ASSUME NEW pc \in {"abandon", "release"}, ConfirmGo(c, pc), ~ConfirmAt(c, "idle")
      PROVE  ConfirmInv(c)'
  BY <1>3, <1>4, <1>5 DEF ConfirmPc
<1>6. CASE ConfirmHead(c)
  <2>1. ~ConfirmAt(c, "idle") /\ UNCHANGED <<pending, object, charge>>
    BY <1>6 DEF ConfirmHead, ConfirmAt
  <2>2. CASE u \in object /\ ConfirmGo(c, IF metered THEN "finalize" ELSE "insert")
    BY <1>3, <1>4, <2>1, <2>2 DEF ConfirmPc
  <2> QED BY <1>5, <1>6, <2>1, <2>2 DEF ConfirmHead
<1>7. CASE ConfirmFinalize(c)
  <2>1. ConfirmAt(c, "finalize") /\ ~ConfirmAt(c, "idle") /\ UNCHANGED <<object, charge>>
    BY <1>7 DEF ConfirmFinalize, ConfirmAt
  <2>2. Holds(pending'[u], c) => u \in object'
    BY <1>1, <2>1 DEF ConfirmedBy, ConfirmInv, ConfirmAt
  <2>3. ConfirmGo(c, "commit") \/ ConfirmGo(c, "release")
    BY <1>7 DEF ConfirmFinalize
  <2> QED BY <1>3, <1>4, <1>5, <2>1, <2>2, <2>3 DEF ConfirmPc
<1>8. CASE ConfirmCommit(c)
  <2>1. ConfirmAt(c, "commit") /\ ~ConfirmAt(c, "idle") /\ UNCHANGED <<pending, object>>
    BY <1>8 DEF ConfirmCommit, ConfirmAt
  <2>2. Holds(pending'[u], c) => u \in object'
    BY <1>1, <2>1 DEF ConfirmedBy, ConfirmInv, ConfirmAt
  <2>3. CASE charge' = [charge EXCEPT ![u] = Finalize(@)] /\ ConfirmGo(c, "committed")
    <3>1. Holds(pending'[u], c) /\ metered => charge'[u] = "committed"
      BY <2>1, <2>3 DEF Holds, ConfirmInv, KeyInv, RowInv, ChargeInv, Finalize, TypeOK
    <3> QED BY <1>3, <1>4, <2>1, <2>2, <2>3, <3>1 DEF ConfirmPc
  <2> QED BY <1>5, <1>8, <2>1, <2>3 DEF ConfirmCommit
<1>9. CASE ConfirmCommitted(c)
  <2>1. ConfirmAt(c, "committed") /\ ~ConfirmAt(c, "idle") /\ UNCHANGED <<object, charge>>
    BY <1>9 DEF ConfirmCommitted, ConfirmAt
  <2>2. /\ Holds(pending'[u], c) => u \in object'
        /\ Holds(pending'[u], c) /\ metered => charge'[u] = "committed"
    BY <1>1, <2>1 DEF ConfirmedBy, ConfirmInv, ConfirmAt
  <2>3. ConfirmGo(c, "insert") \/ ConfirmGo(c, "release")
    BY <1>9 DEF ConfirmCommitted
  <2> QED BY <1>3, <1>4, <1>5, <2>1, <2>2, <2>3 DEF ConfirmPc
<1>10. CASE ConfirmInsert(c)
  <2>1. ~ConfirmAt(c, "idle") /\ (ConfirmEnd(c) \/ ConfirmGo(c, "abandon"))
    BY <1>10 DEF ConfirmInsert, ConfirmAt
  <2> QED BY <1>2, <1>5, <2>1
<1> QED BY <1>2, <1>6, <1>7, <1>8, <1>9, <1>10 DEF ConfirmStep, ConfirmAbandon, ConfirmRelease

LEMMA ConfirmClaims ==
    ASSUME TypeOK, NEW c \in Confirmer, NEW u \in Upload, ConfirmClaim(c, u)
    PROVE  ConfirmInv(c)'
<1>1. (\E pc \in {"head", "fenced"} : confirm'[c] = [pc |-> pc, upload |-> u]) /\ url' = url /\ url[u] # "none"
  BY DEF ConfirmClaim, TypeOK
<1> QED BY <1>1 DEF ConfirmInv, ConfirmAt, U

\* Whose confirmation a step is.
LEMMA ConfirmOthers ==
    ASSUME TypeOK, Busy, Next, ~Crash, NEW c \in Confirmer,
           ~ConfirmStep(c), \A u \in Upload : ~ConfirmClaim(c, u)
    PROVE  confirm'[c] = confirm[c]
<1>1. ASSUME NEW u \in Upload, UploadStep(u)
      PROVE  confirm' = confirm
  BY <1>1 DEF UploadStep, Presign, PresignReserve, PresignNotReserved, PresignReserved, PresignIssue,
              PresignLost, LegacyStage, LegacyPut, LegacyInsert, LegacyUndo, Go
<1>2. ASSUME NEW u \in Upload, KeyStep(u)
      PROVE  confirm'[c] = confirm[c]
  <2>1. CASE \E d \in Confirmer : ConfirmClaim(d, u)
    BY <2>1 DEF ConfirmClaim, TypeOK
  <2> QED BY <1>2, <2>1 DEF KeyStep, Put, Delete, TaskClaim, SweepClaim, DrainClaim,
              TaskSet, Clock, Expire, UrlDies, PendingLapse, IntentLapse, DueNow
<1>3. ASSUME NEW d \in Confirmer, d # c, ConfirmStep(d)
      PROVE  confirm'[c] = confirm[c]
  BY <1>3 DEF ConfirmStep, ConfirmHead, ConfirmFinalize, ConfirmCommit, ConfirmCommitted,
              ConfirmInsert, ConfirmAbandon, ConfirmRelease, ConfirmGo, ConfirmEnd, TypeOK
<1>4. ASSUME NEW w \in Task, TaskStep(w)
      PROVE  confirm' = confirm
  BY <1>4 DEF TaskStep, SweepReserve, SweepReserved, SweepFinalize, SweepFinalized, SweepRefused,
              SweepStage, SweepFailed, DrainDelete, DrainDefer, DrainSettle, DrainRefused, DrainAck,
              DrainFailed, SweepCall, SweepRecord, TaskGo, TaskEnd, TaskSet
<1>5. ASSUME NEW a \in Account,
             PurgeFence(a) \/ PurgeSettle(a) \/ PurgeSettled(a) \/ PurgeDelete(a) \/ PurgeDone(a)
      PROVE  confirm' = confirm
  BY <1>5 DEF PurgeFence, PurgeSettle, PurgeSettled, PurgeDelete, PurgeDone
<1> QED BY <1>1, <1>2, <1>3, <1>4, <1>5, StepCases

LEMMA ConfirmInvStep ==
    ASSUME IInv, Next, NEW c \in Confirmer
    PROVE  ConfirmInv(c)'
<1>1. TypeOK /\ Busy /\ metered' = metered /\ ConfirmInv(c) /\ \A u \in Upload : KeyInv(u)
  BY IInvBusy, MeteredStays DEF IInv, KeyInv, WholeInv, AttachmentIsWhole
<1>2. CASE Crash
  BY <1>2, CrashIdle
<1>3. CASE \E u \in Upload : ConfirmClaim(c, u)
  BY <1>1, <1>3, ConfirmClaims
<1>4. CASE ConfirmStep(c)
  <2>1. U(c) \in Upload
    BY <1>1, <1>4 DEF Busy, ConfirmStep, ConfirmHead, ConfirmFinalize, ConfirmCommit,
                      ConfirmCommitted, ConfirmInsert, ConfirmAbandon, ConfirmRelease, ConfirmAt
  <2>2. PICK u \in Upload : u = U(c)
    BY <2>1
  <2>3. Kept(u)
    BY <1>1, <1>4, <2>2, ConfirmKept
  <2> QED BY <1>1, <1>4, <2>2, <2>3, ConfirmMoves
<1>5. CASE ~Crash /\ ~ConfirmStep(c) /\ \A u \in Upload : ~ConfirmClaim(c, u)
  <2>1. confirm'[c] = confirm[c]
    BY <1>1, <1>5, ConfirmOthers
  <2>2. ~ConfirmAt(c, "idle") => ConfirmedBy(c, U(c))
    BY <1>1, <1>5, EveryKeyKept DEF Busy
  <2> QED BY <1>1, <2>1, <2>2, ConfirmRests
<1> QED BY <1>2, <1>3, <1>4, <1>5

TaskInv(w) ==
    /\ task[w].pc \in Sweeping => T(w) \in Upload /\ SweptAt(T(w))
    /\ task[w].pc \in Draining => T(w) \in Upload /\ task[w].quota \in Release /\ DrainedAt(T(w))

LEMMA TaskInvParts ==
    ASSUME NEW w \in Task
    PROVE  TaskInv(w) <=> SweepInv(w) /\ DrainInv(w)
BY DEF TaskInv, SweepInv, DrainInv, SweptAt, DrainedAt

LEMMA TaskRests ==
    ASSUME NEW w \in Task, TaskInv(w), task'[w] = task[w], T(w) \in Upload => Steady(T(w))
    PROVE  TaskInv(w)'
<1> SUFFICES ASSUME NEW u, u = T(w), u = T(w)' PROVE TaskInv(w)'
  BY DEF T
<1>1. u \in Upload /\ SweptAt(u) => SweptAt(u)'
  BY DEF Steady
<1>2. u \in Upload /\ DrainedAt(u) => DrainedAt(u)'
  BY DEF Steady
<1> QED BY <1>1, <1>2 DEF TaskInv, SweptAt, DrainedAt

\* A sweep stays one and a drain stays one, until they end.
LEMMA TaskMoves ==
    ASSUME TypeOK, NEW w \in Task, NEW u \in Upload, u = T(w), TaskInv(w), Steady(u), TaskStep(w)
    PROVE  TaskInv(w)'
<1>1. ASSUME NEW S \in {Sweeping, Draining}, task[w].pc \in S, task'[w].pc \in S,
             task'[w].upload = u, S = Draining => task'[w].quota = task[w].quota
      PROVE  TaskInv(w)'
  <2>1. T(w)' = u
    BY <1>1 DEF T
  <2>2. S = Sweeping => SweptAt(u)' /\ task'[w].pc \notin Draining
    BY <1>1 DEF TaskInv, Steady, Sweeping, Draining
  <2>3. S = Draining => DrainedAt(u)' /\ task'[w].pc \notin Sweeping /\ task'[w].quota \in Release
    BY <1>1 DEF TaskInv, Steady, Sweeping, Draining
  <2> QED BY <1>1, <2>1, <2>2, <2>3 DEF TaskInv, SweptAt, DrainedAt
<1>2. CASE TaskEnd(w)
  BY <1>2 DEF TaskEnd, TaskSet, IdleTask, TypeOK, TaskInv, Sweeping, Draining
<1>3. ASSUME NEW S \in {Sweeping, Draining}, task[w].pc \in S, NEW pc \in S, TaskGo(w, pc)
      PROVE  TaskInv(w)'
  <2>1. task'[w].pc = pc /\ task'[w].upload = u /\ task'[w].quota = task[w].quota
    BY <1>3 DEF TaskGo, TaskSet, TypeOK, CleanupTask, T
  <2> QED BY <1>1, <1>3, <2>1
<1>4. ASSUME NEW q, task[w].pc \in Sweeping, TaskSet(w, [task[w] EXCEPT !.pc = "stage", !.quota = q])
      PROVE  TaskInv(w)'
  <2>1. task'[w].pc = "stage" /\ task'[w].upload = u
    BY <1>4 DEF TaskSet, TypeOK, CleanupTask, T
  <2>2. "stage" \in Sweeping /\ Sweeping # Draining
    BY DEF Sweeping, Draining
  <2> QED BY <1>1, <1>4, <2>1, <2>2
<1>5. CASE SweepReserve(w) \/ SweepFinalize(w) \/ SweepRefused(w) \/ SweepReserved(w)
           \/ SweepFinalized(w) \/ SweepStage(w)
  <2>1. task[w].pc \in Sweeping
    BY <1>5 DEF SweepReserve, SweepFinalize, SweepRefused, SweepReserved, SweepFinalized, SweepStage,
                SweepCall, SweepRecord, TaskAt, Sweeping
  <2>2. \/ TaskEnd(w) \/ TaskGo(w, "reserved") \/ TaskGo(w, "finalized") \/ TaskGo(w, "sweepFailed")
        \/ \E q : TaskSet(w, [task[w] EXCEPT !.pc = "stage", !.quota = q])
    BY <1>5 DEF SweepReserve, SweepFinalize, SweepRefused, SweepReserved, SweepFinalized, SweepStage,
                SweepCall, SweepRecord
  <2>3. {"reserved", "finalized", "sweepFailed"} \subseteq Sweeping
    BY DEF Sweeping
  <2> QED BY <1>2, <1>3, <1>4, <2>1, <2>2, <2>3
<1>6. CASE DrainDelete(w) \/ DrainSettle(w) \/ DrainRefused(w)
  <2>1. task[w].pc \in Draining
    BY <1>6 DEF DrainDelete, DrainSettle, DrainRefused, TaskAt, Draining
  <2>2. TaskGo(w, "settle") \/ TaskGo(w, "defer") \/ TaskGo(w, "drainFailed") \/ TaskGo(w, "ack")
    BY <1>6 DEF DrainDelete, DrainSettle, DrainRefused
  <2>3. {"settle", "defer", "drainFailed", "ack"} \subseteq Draining
    BY DEF Draining
  <2> QED BY <1>3, <2>1, <2>2, <2>3
<1>7. CASE SweepFailed(w) \/ DrainDefer(w) \/ DrainAck(w) \/ DrainFailed(w)
  BY <1>2, <1>7 DEF SweepFailed, DrainDefer, DrainAck, DrainFailed
<1> QED BY <1>5, <1>6, <1>7 DEF TaskStep

LEMMA SweepClaims ==
    ASSUME TypeOK, NEW w \in Task, NEW u \in Upload, KeyInv(u), SweepClaim(w, u)
    PROVE  TaskInv(w)'
<1>1. /\ task'[w].pc = QuotaStep(pending[u].quota)
      /\ task'[w].upload = u
  BY DEF SweepClaim, TaskSet, TypeOK
<1>2. task'[w].pc \notin Draining
  BY <1>1 DEF QuotaStep, Draining
<1>3. pending[u] # None /\ pending'[u].owner = w
  BY DEF SweepClaim, Sweepable, TypeOK, Admission
<1>4. UNCHANGED <<attachment, expired, url, request>>
  BY DEF SweepClaim, TaskSet
<1>5. SweptAt(u)'
  BY <1>3, <1>4, NameAssumption DEF SweptAt, KeyInv, RowInv, SweepClaim, Sweepable, Presigning
<1>6. T(w)' = u
  BY <1>1 DEF T
<1> QED BY <1>2, <1>5, <1>6 DEF TaskInv, SweptAt

LEMMA DrainClaims ==
    ASSUME TypeOK, NEW w \in Task, NEW u \in Upload, KeyInv(u), DrainClaim(w, u)
    PROVE  TaskInv(w)'
<1>1. task'[w].pc = "delete" /\ task'[w].upload = u /\ task'[w].quota = intent[u].release
  BY DEF DrainClaim, TaskSet, TypeOK
<1>2. intent[u] # None /\ intent[u].due = "now" /\ intent[u].release \in Release
  BY DEF DrainClaim, Drainable, TypeOK, Intent
<1>3. UNCHANGED <<pending, attachment, request, odd>>
  BY DEF DrainClaim, TaskSet
<1>4. DrainedAt(u)'
  BY <1>2, <1>3 DEF DrainedAt, KeyInv, RowInv, HoldInv
<1>5. T(w)' = u
  BY <1>1 DEF T
<1>6. task'[w].pc \notin Sweeping
  BY <1>1 DEF Sweeping
<1> QED BY <1>1, <1>2, <1>4, <1>5, <1>6 DEF TaskInv, DrainedAt

LEMMA TaskOthers ==
    ASSUME TypeOK, Busy, Next, ~Crash, NEW w \in Task,
           ~TaskStep(w), \A u \in Upload : ~SweepClaim(w, u) /\ ~DrainClaim(w, u)
    PROVE  task'[w] = task[w]
<1>1. ASSUME NEW u \in Upload, UploadStep(u)
      PROVE  task' = task
  BY <1>1 DEF UploadStep, Presign, PresignReserve, PresignNotReserved, PresignReserved, PresignIssue,
              PresignLost, LegacyStage, LegacyPut, LegacyInsert, LegacyUndo, Go
<1>2. ASSUME NEW u \in Upload, KeyStep(u)
      PROVE  task'[w] = task[w]
  <2>1. CASE TaskClaim(u)
    <3>1. PICK v \in Task : \E r : v # w /\ TaskSet(v, r)
      BY <2>1 DEF TaskClaim, SweepClaim, DrainClaim
    <3> QED BY <3>1 DEF TaskSet, TypeOK
  <2> QED BY <1>2, <2>1 DEF KeyStep, Put, Delete, ConfirmClaim, Clock, Expire, UrlDies,
              PendingLapse, IntentLapse, DueNow
<1>3. ASSUME NEW c \in Confirmer, ConfirmStep(c)
      PROVE  task' = task
  BY <1>3 DEF ConfirmStep, ConfirmHead, ConfirmFinalize, ConfirmCommit, ConfirmCommitted,
              ConfirmInsert, ConfirmAbandon, ConfirmRelease, ConfirmGo, ConfirmEnd
<1>4. ASSUME NEW v \in Task, v # w, TaskStep(v)
      PROVE  task'[w] = task[w]
  <2>1. PICK r : TaskSet(v, r)
    BY <1>4 DEF TaskStep, SweepReserve, SweepReserved, SweepFinalize, SweepFinalized, SweepRefused,
                SweepStage, SweepFailed, DrainDelete, DrainDefer, DrainSettle, DrainRefused, DrainAck,
                DrainFailed, SweepCall, SweepRecord, TaskGo, TaskEnd
  <2> QED BY <1>4, <2>1 DEF TaskSet, TypeOK
<1>5. ASSUME NEW a \in Account,
             PurgeFence(a) \/ PurgeSettle(a) \/ PurgeSettled(a) \/ PurgeDelete(a) \/ PurgeDone(a)
      PROVE  task' = task
  BY <1>5 DEF PurgeFence, PurgeSettle, PurgeSettled, PurgeDelete, PurgeDone
<1> QED BY <1>1, <1>2, <1>3, <1>4, <1>5, StepCases

LEMMA TaskInvStep ==
    ASSUME IInv, Next, NEW w \in Task
    PROVE  SweepInv(w)' /\ DrainInv(w)'
<1>1. TypeOK /\ Busy /\ TaskInv(w) /\ \A u \in Upload : KeyInv(u)
  BY IInvBusy, TaskInvParts DEF IInv, KeyInv, WholeInv, AttachmentIsWhole
<1>2. CASE Crash
  BY <1>2, CrashIdle
<1>3. TaskInv(w)' => SweepInv(w)' /\ DrainInv(w)'
  BY DEF TaskInv, SweepInv, DrainInv, SweptAt, DrainedAt
<1>4. CASE \E u \in Upload : SweepClaim(w, u) \/ DrainClaim(w, u)
  BY <1>1, <1>3, <1>4, SweepClaims, DrainClaims
<1>5. \A u \in Upload : ~Crash => Steady(u)
  BY EveryKeyKept
<1>6. CASE TaskStep(w)
  <2>1. T(w) \in Upload
    BY <1>1, <1>6 DEF Busy, TaskStep, SweepReserve, SweepReserved, SweepFinalize, SweepFinalized,
         SweepRefused, SweepStage, SweepFailed, DrainDelete, DrainDefer, DrainSettle, DrainRefused,
         DrainAck, DrainFailed, SweepCall, SweepRecord, TaskAt
  <2>2. PICK u \in Upload : u = T(w)
    BY <2>1
  <2>3. SweepInv(w) /\ DrainInv(w)
    BY DEF IInv
  <2>4. Steady(u)
    BY <1>1, <1>6, <2>2, <2>3, TaskKept DEF Kept
  <2> QED BY <1>1, <1>3, <1>6, <2>2, <2>4, TaskMoves
<1>7. CASE ~Crash /\ ~TaskStep(w) /\ \A u \in Upload : ~SweepClaim(w, u) /\ ~DrainClaim(w, u)
  BY <1>1, <1>3, <1>5, <1>7, TaskOthers, TaskRests
<1> QED BY <1>2, <1>4, <1>6, <1>7
-----------------------------------------------------------------------------
(***************************************************************************)
(* Theorems                                                                *)
(***************************************************************************)
LEMMA InitInv == Init => IInv
<1> SUFFICES ASSUME Init PROVE IInv
  OBVIOUS
<1>1. \A u \in Upload : KeyInv(u)
  BY DEF Init, KeyInv, RowInv, HoldInv, ChargeInv, WholeInv, Presigning
<1>2. /\ \A c \in Confirmer : ConfirmInv(c)
      /\ \A w \in Task : SweepInv(w) /\ DrainInv(w)
  BY DEF Init, ConfirmInv, SweepInv, DrainInv, ConfirmAt, IdleConfirm, IdleTask, Sweeping, Draining
<1> QED BY <1>1, <1>2, InitTyped DEF IInv, KeyInv, WholeInv, AttachmentIsWhole

LEMMA StepInv == IInv /\ [Next]_vars => IInv'
<1>1. ASSUME IInv, Next PROVE IInv'
  <2>1. TypeOK' /\ \A u \in Upload : KeyInv(u)'
    BY <1>1, IInvBusy, TypeStep, KeyInvStep DEF IInv
  <2>2. \A c \in Confirmer : ConfirmInv(c)'
    BY <1>1, ConfirmInvStep
  <2>3. \A w \in Task : SweepInv(w)' /\ DrainInv(w)'
    BY <1>1, TaskInvStep
  <2> QED BY <2>1, <2>2, <2>3 DEF IInv, KeyInv, WholeInv, AttachmentIsWhole
<1>2. ASSUME IInv, UNCHANGED vars PROVE IInv'
  BY <1>2 DEF vars, IInv, TypeOK, RowInv, HoldInv, ChargeInv, ConfirmInv, SweepInv, DrainInv,
              AttachmentIsWhole, ConfirmAt, U, T, Holds, Presigning, Sweeping, Draining
<1> QED BY <1>1, <1>2

LEMMA SpecInv == Spec => []IInv
BY InitInv, StepInv, PTL DEF Spec

\* Rows, leases, requests and tasks keep their type, whatever lapses or crashes.
THEOREM TypeCorrect == Spec => []TypeOK
<1>1. IInv => TypeOK
  BY DEF IInv
<1> QED BY <1>1, SpecInv, PTL

\* At most one of admission, attachment and intent speaks for a key, for any
\* number of confirmations, sweeps and drains that lost their lease.
THEOREM AuthorityCorrect == Spec => []OneAuthority
<1>1. IInv => OneAuthority
  BY DEF IInv, RowInv, OneAuthority
<1> QED BY <1>1, SpecInv, PTL

\* An attachment has its object and its charge: no slow cleanup takes them away.
THEOREM WholeCorrect == Spec => []AttachmentIsWhole
<1>1. IInv => AttachmentIsWhole
  BY DEF IInv
<1> QED BY <1>1, SpecInv, PTL

-----------------------------------------------------------------------------
(***************************************************************************)
(* The saga implements UploadLife                                          *)
(***************************************************************************)
InProcess(u) == request[u] \in {"put", "insert"}

LifeIs(u) ==
    /\ u \in odd.overrun => LifeOf(u) = "astray"
    /\ u \notin odd.overrun /\ attachment[u] = "present" => LifeOf(u) = "kept"
    /\ u \notin odd.overrun /\ attachment[u] # "present" /\ (pending[u] # None \/ InProcess(u)) =>
        LifeOf(u) = "uploading"
    /\ u \notin odd.overrun /\ attachment[u] # "present" /\ pending[u] = None /\ ~InProcess(u) =>
        /\ intent[u] # None => LifeOf(u) = "dropping"
        /\ intent[u] = None => LifeOf(u) = IF request[u] = "new" THEN "absent" ELSE "gone"

LEMMA LifeValue ==
    ASSUME NEW u
    PROVE  LifeIs(u)
<1>1. CASE u \in odd.overrun
  BY <1>1 DEF LifeIs, LifeOf
<1>2. CASE u \notin odd.overrun /\ attachment[u] = "present"
  BY <1>2 DEF LifeIs, LifeOf
<1>3. CASE u \notin odd.overrun /\ attachment[u] # "present" /\ (pending[u] # None \/ InProcess(u))
  BY <1>3 DEF LifeIs, LifeOf, InProcess
<1>4. CASE u \notin odd.overrun /\ attachment[u] # "present" /\ pending[u] = None /\ ~InProcess(u)
  BY <1>4 DEF LifeIs, LifeOf, InProcess
<1> QED BY <1>1, <1>2, <1>3, <1>4

LEMMA LifeValueNext ==
    ASSUME NEW u
    PROVE  LifeIs(u)'
<1>1. CASE u \in odd'.overrun
  BY <1>1 DEF LifeIs, LifeOf
<1>2. CASE u \notin odd'.overrun /\ attachment'[u] = "present"
  BY <1>2 DEF LifeIs, LifeOf
<1>3. CASE u \notin odd'.overrun /\ attachment'[u] # "present" /\ (pending'[u] # None \/ InProcess(u)')
  BY <1>3 DEF LifeIs, LifeOf, InProcess
<1>4. CASE u \notin odd'.overrun /\ attachment'[u] # "present" /\ pending'[u] = None /\ ~InProcess(u)'
  BY <1>4 DEF LifeIs, LifeOf, InProcess
<1> QED BY <1>1, <1>2, <1>3, <1>4

\* What a step may do to the life of its key.
LifeMoves(u) ==
    \/ LifeOf(u)' = LifeOf(u)
    \/ LifeOf(u) = "absent" /\ LifeOf(u)' \in {"uploading", "gone"}
    \/ LifeOf(u) = "uploading" /\ LifeOf(u)' \in {"kept", "dropping", "astray"}
    \/ LifeOf(u) = "kept" /\ LifeOf(u)' = "dropping"
    \/ LifeOf(u) = "dropping" /\ LifeOf(u)' = "gone"
    \/ LifeOf(u) = "gone" /\ LifeOf(u)' = "dropping"

LEMMA LifeSame ==
    ASSUME NEW u,
           attachment'[u] = attachment[u], pending'[u] = None <=> pending[u] = None,
           intent'[u] = None <=> intent[u] = None, u \in odd'.overrun <=> u \in odd.overrun,
           InProcess(u)' <=> InProcess(u), request'[u] = "new" <=> request[u] = "new"
    PROVE  LifeOf(u)' = LifeOf(u)
BY LifeValue, LifeValueNext DEF LifeIs

LEMMA SameLife ==
    ASSUME NEW u \in Upload, Same(u)
    PROVE  LifeOf(u)' = LifeOf(u)
BY LifeSame DEF Same, InProcess

\* Giving up an upload.
LEMMA StageLives ==
    ASSUME TypeOK, NEW u \in Upload, NEW q \in QuotaState \cup Release, NEW b \in BOOLEAN,
           StagePending(u, q, b), attachment[u] = "none", ~InProcess(u), request[u] # "new",
           UNCHANGED <<request, odd>>
    PROVE  LifeMoves(u)
<1>1. NewIntent("pending_upload", ReleaseKind(q), b, "now") # None
  BY ReleaseKindType, NewIntentType, RowAssumption DEF Source, Due
<1>2. pending'[u] = None /\ intent'[u] # None /\ attachment' = attachment
  BY <1>1 DEF StagePending, TypeOK
<1>3. InProcess(u)' = InProcess(u)
  BY DEF InProcess
<1>4. u \in odd.overrun => LifeOf(u) = "astray" /\ LifeOf(u)' = "astray"
  BY LifeValue, LifeValueNext DEF LifeIs
<1>5. u \notin odd.overrun => LifeOf(u)' = "dropping" /\ LifeOf(u) \in {"uploading", "dropping", "gone"}
  BY <1>2, <1>3, LifeValue, LifeValueNext DEF LifeIs
<1> QED BY <1>4, <1>5 DEF LifeMoves

LEMMA DropLives ==
    ASSUME TypeOK, NEW u \in Upload, KeyInv(u), NEW S, Drop(S), u \in S, attachment[u] = "present",
           UNCHANGED <<pending, request, odd>>
    PROVE  \/ LifeOf(u)' = LifeOf(u)
           \/ LifeOf(u) = "kept" /\ LifeOf(u)' = "dropping"
<1>1. NewIntent("attachment", IF metered THEN "committed" ELSE "none", FALSE, "now") # None
  BY NewIntentType, RowAssumption DEF Source, Release, Due
<1>2. attachment'[u] = "deleted" /\ intent'[u] # None
  BY <1>1 DEF Drop
<1>3. pending[u] = None /\ ~InProcess(u)'
  BY DEF KeyInv, RowInv, InProcess
<1> QED BY <1>2, <1>3, LifeValue, LifeValueNext DEF LifeIs

LEMMA UploadLives ==
    ASSUME TypeOK, NEW u \in Upload, KeyInv(u), UploadStep(u), TypeOK'
    PROVE  LifeMoves(u)
<1> USE LifeValue, LifeValueNext
<1>1. CASE Presign(u)
  <2>1. UNCHANGED <<intent, attachment, odd>>
    BY <1>1 DEF Presign
  <2>2. /\ request[u] = "new" /\ ~InProcess(u) /\ ~InProcess(u)'
        /\ pending[u] = None /\ attachment[u] = "none" /\ intent[u] = None
        /\ request'[u] # "new"
    BY <1>1 DEF Presign, Go, At, TypeOK, KeyInv, RowInv, InProcess
  <2> QED BY <2>1, <2>2 DEF LifeIs, LifeMoves
<1>2. CASE PresignReserve(u)
  <2>1. UNCHANGED <<pending, intent, attachment>> /\ odd'.overrun = odd.overrun
    BY <1>2 DEF PresignReserve, Refuses, TypeOK
  <2>2. request'[u] # "new" /\ request[u] # "new" /\ ~InProcess(u) /\ ~InProcess(u)'
    BY <1>2 DEF PresignReserve, Go, At, TypeOK, InProcess
  <2> QED BY <2>1, <2>2, LifeSame DEF LifeMoves
<1>3. CASE PresignNotReserved(u) \/ PresignReserved(u) \/ PresignIssue(u) \/ PresignLost(u)
  <2>1. UNCHANGED <<intent, attachment, odd>>
    BY <1>3 DEF PresignNotReserved, PresignReserved, PresignIssue, PresignLost
  <2>2. request'[u] # "new" /\ request[u] # "new" /\ ~InProcess(u) /\ ~InProcess(u)'
    BY <1>3 DEF PresignNotReserved, PresignReserved, PresignIssue, PresignLost, Go, At, TypeOK, InProcess
  <2>3. pending'[u] = None <=> pending[u] = None
    <3>0. pending[u] # None => pending[u] \in Admission
      BY DEF TypeOK
    <3>1. \A row : row # None /\ Update(u, row) => (pending'[u] = None <=> pending[u] = None)
      BY DEF Update, TypeOK
    <3>2. CASE PresignNotReserved(u)
      <4> DEFINE row == [Released(pending[u]) EXCEPT !.quota =
                           IF At(u, "refused") THEN "not_required" ELSE "reserve_pending"]
      <4>1. pending[u] # None => row # None
        BY <3>0, RefusedRow DEF QuotaState
      <4>2. Update(u, row)
        BY <3>2 DEF PresignNotReserved
      <4> HIDE DEF row
      <4> QED BY <3>1, <4>1, <4>2 DEF Update
    <3>3. CASE PresignLost(u)
      <4>1. pending[u] # None => Released(pending[u]) # None
        BY <3>0, ReleasedRow
      <4> QED BY <3>1, <3>3, <4>1 DEF PresignLost, Update
    <3>4. CASE PresignReserved(u)
      <4>1. pending[u] # None /\ pending'[u] = [pending[u] EXCEPT !.quota = "reserved"]
        BY <3>4 DEF PresignReserved, Holds, TypeOK
      <4> QED BY <3>0, <4>1, RowAssumption DEF Admission, QuotaState
    <3>5. CASE PresignIssue(u)
      <4>1. pending[u] # None /\ pending'[u] = [Released(pending[u]) EXCEPT !.issued = TRUE]
        BY <3>5 DEF PresignIssue, Holds, TypeOK
      <4> QED BY <3>0, <4>1, RowAssumption DEF Released, Admission
    <3> QED BY <1>3, <3>2, <3>3, <3>4, <3>5
  <2> QED BY <2>1, <2>2, <2>3, LifeSame DEF LifeMoves
<1>4. CASE LegacyStage(u)
  <2>1. UNCHANGED <<pending, attachment, odd>>
    BY <1>4 DEF LegacyStage
  <2>2. /\ request[u] = "new" /\ ~InProcess(u) /\ InProcess(u)'
        /\ pending[u] = None /\ attachment[u] = "none" /\ intent[u] = None
    BY <1>4 DEF LegacyStage, Go, At, TypeOK, KeyInv, RowInv, InProcess
  <2> QED BY <2>1, <2>2 DEF LifeIs, LifeMoves
<1>5. CASE LegacyPut(u) \/ LegacyInsert(u)
  <2>1. UNCHANGED <<pending, odd>> /\ InProcess(u) /\ pending[u] = None /\ attachment[u] = "none"
    BY <1>5 DEF LegacyPut, LegacyInsert, At, KeyInv, RowInv, InProcess
  <2>2. \/ InProcess(u)' /\ attachment' = attachment
        \/ ~InProcess(u)' /\ attachment' = attachment /\ intent' = intent /\ request'[u] # "new"
        \/ attachment'[u] = "present"
    BY <1>5 DEF LegacyPut, LegacyInsert, Go, TypeOK, InProcess
  <2>3. u \notin odd.overrun => intent[u] # None
    BY <2>1 DEF KeyInv, HoldInv, InProcess
  <2> QED BY <2>1, <2>2, <2>3 DEF LifeIs, LifeMoves
<1>6. CASE LegacyUndo(u)
  <2>1. /\ UNCHANGED <<pending, attachment, odd>>
        /\ request[u] = "undo" /\ request'[u] = "done"
    BY <1>6 DEF LegacyUndo, Go, At, TypeOK
  <2>2. intent'[u] = None <=> intent[u] = None
    <3>1. intent[u] # None => intent[u] \in Intent
      BY DEF TypeOK
    <3>2. intent[u] # None => [intent[u] EXCEPT !.due = "now"] # None
      BY <3>1, RowAssumption DEF Intent, Due
    <3> QED BY <1>6, <3>2 DEF LegacyUndo, TypeOK
  <2> QED BY <2>1, <2>2, LifeSame DEF LifeMoves, InProcess
<1> QED BY <1>1, <1>2, <1>3, <1>4, <1>5, <1>6 DEF UploadStep

LEMMA ConfirmLives ==
    ASSUME TypeOK, NEW c \in Confirmer, NEW u \in Upload, u = U(c), ConfirmInv(c), KeyInv(u),
           ConfirmStep(c)
    PROVE  LifeMoves(u)
<1>0. request' = request /\ InProcess(u)' = InProcess(u)
  BY DEF ConfirmStep, ConfirmHead, ConfirmFinalize, ConfirmCommit, ConfirmCommitted, ConfirmInsert,
         ConfirmAbandon, ConfirmRelease, ConfirmGo, ConfirmEnd, InProcess
<1>1. CASE ConfirmHead(c) \/ ConfirmCommit(c)
  <2>1. UNCHANGED <<pending, intent, attachment>> /\ odd'.overrun = odd.overrun
    BY <1>1 DEF ConfirmHead, ConfirmCommit, TypeOK
  <2> QED BY <1>0, <2>1, LifeSame DEF LifeMoves
<1>2. CASE ConfirmFinalize(c) \/ ConfirmCommitted(c)
  <2>1. UNCHANGED <<intent, attachment, odd>>
    BY <1>2 DEF ConfirmFinalize, ConfirmCommitted
  <2>2. \/ pending' = pending
        \/ /\ Holds(pending[u], c)
           /\ \E q \in QuotaState : pending'[u] = [pending[u] EXCEPT !.quota = q]
    BY <1>2 DEF ConfirmFinalize, ConfirmCommitted, QuotaState, TypeOK
  <2>3. Holds(pending[u], c) => pending[u] # None /\ pending[u] \in Admission
    BY DEF Holds, TypeOK
  <2>4. pending'[u] = None <=> pending[u] = None
    BY <2>2, <2>3, RowAssumption DEF Admission
  <2> QED BY <1>0, <2>1, <2>4, LifeSame DEF LifeMoves
<1>3. CASE ConfirmInsert(c)
  <2>1. UNCHANGED <<intent, odd>>
    BY <1>3 DEF ConfirmInsert
  <2>2. \/ UNCHANGED <<pending, attachment>>
        \/ /\ pending[u] # None /\ attachment[u] = "none"
           /\ attachment'[u] = "present"
    BY <1>3 DEF ConfirmInsert, Holds, KeyInv, RowInv, TypeOK
  <2> QED BY <1>0, <2>1, <2>2, LifeSame, LifeValue, LifeValueNext DEF LifeIs, LifeMoves
<1>4. CASE ConfirmAbandon(c)
  <2>1. CASE Proven(c)
    <3>1. /\ pending[u] # None /\ pending[u].quota \in QuotaState /\ pending[u].issued \in BOOLEAN
          /\ StagePending(u, pending[u].quota, pending[u].issued)
      BY <1>4, <2>1 DEF ConfirmAbandon, Proven, Holds, TypeOK, Admission
    <3>2. attachment[u] = "none" /\ ~InProcess(u) /\ request[u] # "new" /\ odd' = odd
      BY <1>4, <3>1 DEF KeyInv, RowInv, Presigning, InProcess, ConfirmAbandon
    <3> QED BY <1>0, <3>1, <3>2, StageLives
  <2>2. CASE ~Proven(c)
    BY <1>0, <1>4, <2>2, LifeSame DEF ConfirmAbandon, LifeMoves
  <2> QED BY <2>1, <2>2
<1>5. CASE ConfirmRelease(c)
  <2>1. UNCHANGED <<intent, attachment, odd>>
    BY <1>5 DEF ConfirmRelease
  <2>2. \/ pending' = pending
        \/ pending[u] # None /\ pending'[u] = Released(pending[u])
    BY <1>5 DEF ConfirmRelease, Update, TypeOK
  <2>3. pending[u] # None => pending[u] \in Admission
    BY DEF TypeOK
  <2>4. pending'[u] = None <=> pending[u] = None
    BY <2>2, <2>3, ReleasedRow
  <2> QED BY <1>0, <2>1, <2>4, LifeSame DEF LifeMoves
<1> QED BY <1>1, <1>2, <1>3, <1>4, <1>5 DEF ConfirmStep

LEMMA TaskLives ==
    ASSUME TypeOK, NEW w \in Task, NEW u \in Upload, u = T(w), SweepInv(w), DrainInv(w), KeyInv(u),
           TaskStep(w)
    PROVE  LifeMoves(u)
<1>0. request' = request /\ InProcess(u)' = InProcess(u)
  <2>1. request' = request
    BY DEF TaskStep, SweepReserve, SweepReserved, SweepFinalize, SweepFinalized, SweepRefused,
           SweepStage, SweepFailed, DrainDelete, DrainDefer, DrainSettle, DrainRefused, DrainAck,
           DrainFailed, SweepCall, SweepRecord, TaskGo, TaskEnd, TaskSet
  <2> QED BY <2>1 DEF InProcess
<1>1. CASE SweepReserve(w) \/ SweepFinalize(w) \/ SweepRefused(w) \/ DrainDelete(w) \/ DrainSettle(w)
           \/ DrainRefused(w)
  <2>1. UNCHANGED <<pending, intent, attachment>> /\ odd'.overrun = odd.overrun
    BY <1>1 DEF SweepReserve, SweepFinalize, SweepCall, SweepRefused, DrainDelete, DrainSettle,
                DrainRefused, TypeOK
  <2> QED BY <1>0, <2>1, LifeSame DEF LifeMoves
<1>2. CASE SweepReserved(w) \/ SweepFinalized(w)
  <2>1. UNCHANGED <<intent, attachment, odd>>
    BY <1>2 DEF SweepReserved, SweepFinalized, SweepRecord
  <2>2. PICK q \in QuotaState :
           \/ pending' = pending
           \/ pending[u] # None /\ pending' = [pending EXCEPT ![T(w)] = [pending[T(w)] EXCEPT !.quota = q]]
    BY <1>2 DEF SweepReserved, SweepFinalized, SweepRecord, QuotaState, Holds
  <2>3. \/ pending' = pending
        \/ pending[u] # None /\ pending'[u] = [pending[u] EXCEPT !.quota = q]
    BY <2>2 DEF TypeOK
  <2>4. pending[u] # None => pending[u] \in Admission
    BY DEF TypeOK
  <2>5. pending'[u] = None <=> pending[u] = None
    BY <2>3, <2>4, RowAssumption DEF Admission
  <2> QED BY <1>0, <2>1, <2>5, LifeSame DEF LifeMoves
<1>3. CASE SweepStage(w)
  <2>1. /\ attachment[u] = "none" /\ ~InProcess(u) /\ request[u] # "new" /\ odd' = odd
        /\ task[w].quota \in QuotaState \cup Release /\ task[w].issued \in BOOLEAN
    BY <1>3 DEF SweepStage, SweepInv, TaskAt, Sweeping, InProcess, Presigning, TypeOK, CleanupTask
  <2>2. CASE StagePending(u, task[w].quota, task[w].issued)
    BY <1>0, <2>1, <2>2, StageLives
  <2>3. CASE UNCHANGED db
    BY <1>0, <2>1, <2>3, LifeSame DEF LifeMoves
  <2> QED BY <1>3, <2>2, <2>3 DEF SweepStage
<1>4. CASE SweepFailed(w)
  <2>1. UNCHANGED <<intent, attachment, odd>>
    BY <1>4 DEF SweepFailed
  <2> DEFINE r == [pending[T(w)] EXCEPT !.owner = None, !.live = TRUE]
  <2>2. pending[T(w)] # None => r # None
    <3>1. pending[T(w)] # None => pending[T(w)] \in Admission
      BY DEF TypeOK
    <3> QED BY <3>1, RowAssumption DEF Admission
  <2>3. \/ pending' = pending
        \/ pending[T(w)] # None /\ pending' = [pending EXCEPT ![T(w)] = r]
    BY <1>4 DEF SweepFailed, Update
  <2> HIDE DEF r
  <2>4. pending'[u] = None <=> pending[u] = None
    BY <2>2, <2>3 DEF TypeOK
  <2> QED BY <1>0, <2>1, <2>4, LifeSame DEF LifeMoves
<1>5. CASE DrainAck(w)
  <2>1. /\ pending[u] = None /\ request[u] # "new"
        /\ attachment[u] = "present" \/ InProcess(u) => u \in odd.overrun
    BY <1>5 DEF DrainAck, DrainInv, TaskAt, Draining, InProcess
  <2>2. UNCHANGED <<pending, attachment, odd>> /\ (intent'[u] = None \/ intent'[u] = intent[u])
    BY <1>5 DEF DrainAck, LeasedIntent, TypeOK
  <2> QED BY <1>0, <2>1, <2>2, LifeValue, LifeValueNext DEF LifeIs, LifeMoves
<1>6. CASE DrainDefer(w) \/ DrainFailed(w)
  <2>1. UNCHANGED <<pending, attachment, odd>>
    BY <1>6 DEF DrainDefer, DrainFailed
  <2>2. PICK d \in Due : LeasedIntent(w, [Released(intent[T(w)]) EXCEPT !.due = d])
    BY <1>6 DEF DrainDefer, DrainFailed, Due
  <2> DEFINE r == [Released(intent[T(w)]) EXCEPT !.due = d]
  <2>3. intent[T(w)] # None => intent[T(w)] \in Intent
    BY DEF TypeOK
  <2>4. intent[T(w)] # None => r # None
    BY <2>3, RowAssumption DEF Released, Intent
  <2>5. LeasedIntent(w, r)
    BY <2>2
  <2> HIDE DEF r
  <2>6. intent'[u] = None <=> intent[u] = None
    BY <2>4, <2>5 DEF LeasedIntent, Holds, TypeOK
  <2> QED BY <1>0, <2>1, <2>6, LifeSame DEF LifeMoves
<1> QED BY <1>1, <1>2, <1>3, <1>4, <1>5, <1>6 DEF TaskStep

LEMMA KeyLives ==
    ASSUME TypeOK, NEW u \in Upload, KeyInv(u), KeyStep(u)
    PROVE  LifeMoves(u)
<1>0. request' = request /\ InProcess(u)' = InProcess(u)
  <2>1. request' = request
    BY DEF KeyStep, Put, Delete, TaskClaim, SweepClaim, DrainClaim, TaskSet,
           ConfirmClaim, Clock, Expire, UrlDies, PendingLapse, IntentLapse, DueNow
  <2> QED BY <2>1 DEF InProcess
<1>1. CASE Put(u) \/ Expire(u) \/ UrlDies(u)
  <2>1. UNCHANGED <<pending, intent, attachment>> /\ odd'.overrun = odd.overrun
    BY <1>1 DEF Put, Expire, UrlDies, TypeOK
  <2> QED BY <1>0, <2>1, LifeSame DEF LifeMoves
<1>3. CASE Delete(u)
  BY <1>3, DropLives DEF Delete, LifeMoves
<1>4. CASE TaskClaim(u)
  <2>1. UNCHANGED <<attachment, odd>>
    BY <1>4 DEF TaskClaim, SweepClaim, DrainClaim
  <2>2. ASSUME NEW w \in Task, SweepClaim(w, u)
        PROVE  intent' = intent /\ (pending'[u] = None <=> pending[u] = None)
    <3>1. pending[u] # None /\ pending[u] \in Admission
      BY <2>2 DEF SweepClaim, Sweepable, TypeOK
    <3>2. pending'[u] = [pending[u] EXCEPT !.owner = w, !.live = TRUE]
      BY <2>2 DEF SweepClaim, TypeOK
    <3> QED BY <2>2, <3>1, <3>2, RowAssumption DEF SweepClaim, Admission
  <2>3. ASSUME NEW w \in Task, DrainClaim(w, u)
        PROVE  pending' = pending /\ (intent'[u] = None <=> intent[u] = None)
    <3>1. intent[u] # None /\ intent[u] \in Intent
      BY <2>3 DEF DrainClaim, Drainable, TypeOK
    <3>2. intent'[u] = [intent[u] EXCEPT !.owner = w, !.live = TRUE]
      BY <2>3 DEF DrainClaim, TypeOK
    <3>3. intent'[u] # None
      BY <3>1, <3>2, RowAssumption DEF Intent
    <3> QED BY <2>3, <3>1, <3>3 DEF DrainClaim
  <2> QED BY <1>0, <1>4, <2>1, <2>2, <2>3, LifeSame DEF LifeMoves, TaskClaim
<1>5. CASE \E c \in Confirmer : ConfirmClaim(c, u)
  <2>1. PICK c \in Confirmer : ConfirmClaim(c, u)
    BY <1>5
  <2>2. UNCHANGED <<intent, attachment, odd>> /\ pending[u] # None /\ pending[u] \in Admission
    BY <2>1 DEF ConfirmClaim, Claimable, TypeOK
  <2>3. \/ pending' = pending
        \/ pending'[u] = [pending[u] EXCEPT !.owner = c, !.live = TRUE]
    BY <2>1 DEF ConfirmClaim, TypeOK
  <2>4. pending'[u] # None
    BY <2>2, <2>3, RowAssumption DEF Admission
  <2> QED BY <1>0, <2>2, <2>4, LifeSame DEF LifeMoves
<1>6. CASE PendingLapse(u)
  <2>1. UNCHANGED <<intent, attachment, odd>> /\ pending[u] # None /\ pending[u] \in Admission
    BY <1>6 DEF PendingLapse, TypeOK
  <2>2. pending'[u] = [pending[u] EXCEPT !.live = FALSE]
    BY <1>6 DEF PendingLapse, TypeOK
  <2>3. pending'[u] # None
    BY <2>1, <2>2, RowAssumption DEF Admission
  <2> QED BY <1>0, <2>1, <2>3, LifeSame DEF LifeMoves
<1>7. CASE IntentLapse(u)
  <2>1. UNCHANGED <<pending, attachment, odd>> /\ intent[u] # None /\ intent[u] \in Intent
    BY <1>7 DEF IntentLapse, TypeOK
  <2>2. intent'[u] = [intent[u] EXCEPT !.live = FALSE]
    BY <1>7 DEF IntentLapse, TypeOK
  <2>3. intent'[u] # None
    BY <2>1, <2>2, RowAssumption DEF Intent
  <2> QED BY <1>0, <2>1, <2>3, LifeSame DEF LifeMoves
<1>8. CASE DueNow(u)
  <2>1. UNCHANGED <<pending, attachment>> /\ intent[u] # None /\ intent[u] \in Intent
    BY <1>8 DEF DueNow, TypeOK
  <2>2. intent'[u] = [intent[u] EXCEPT !.due = "now"]
    BY <1>8 DEF DueNow, TypeOK
  <2>3. intent'[u] # None
    BY <2>1, <2>2, RowAssumption DEF Intent, Due
  <2>4. \/ odd'.overrun = odd.overrun
        \/ InProcess(u) /\ odd'.overrun = odd.overrun \cup {u}
    BY <1>8 DEF DueNow, InProcess, TypeOK
  <2>5. InProcess(u) => attachment[u] = "none"
    BY DEF InProcess, KeyInv, RowInv
  <2>6. CASE odd'.overrun = odd.overrun
    BY <1>0, <2>1, <2>3, <2>6, LifeSame DEF LifeMoves
  <2>7. CASE InProcess(u) /\ odd'.overrun = odd.overrun \cup {u}
    BY <1>0, <2>1, <2>5, <2>7, LifeValue, LifeValueNext DEF LifeIs, LifeMoves
  <2> QED BY <2>4, <2>6, <2>7
<1> QED BY <1>1, <1>3, <1>4, <1>5, <1>6, <1>7, <1>8 DEF KeyStep, Clock

lives == [u \in Upload |-> LifeOf(u)]

LEMMA LivesInit == Init => Lives!Init
<1> SUFFICES ASSUME Init, NEW u \in Upload PROVE LifeOf(u) = "absent"
  BY DEF Lives!Init
<1> QED BY LifeValue DEF Init, LifeIs, InProcess

\* A step at one key is a step of its life.
LEMMA OneLife ==
    ASSUME NEW u \in Upload, LifeMoves(u), \A v \in Upload \ {u} : LifeOf(v)' = LifeOf(v)
    PROVE  [Lives!Next]_lives
<1>1. CASE LifeOf(u)' = LifeOf(u)
  BY <1>1 DEF lives
<1>2. ASSUME NEW from, NEW to, LifeOf(u) \in from, LifeOf(u)' = to
      PROVE  Lives!Move(u, from, to)
  BY <1>2 DEF Lives!Move
<1>3. CASE LifeOf(u) = "uploading" /\ LifeOf(u)' = "dropping"
  <2>1. Lives!Drop({u})
    BY <1>3 DEF Lives!Drop
  <2> QED BY <2>1 DEF Lives!Next
<1>4. CASE LifeOf(u) = "kept" /\ LifeOf(u)' = "dropping"
  <2>1. Lives!Drop({u})
    BY <1>4 DEF Lives!Drop
  <2> QED BY <2>1 DEF Lives!Next
<1>5. CASE LifeOf(u) = "absent" /\ LifeOf(u)' \in {"uploading", "gone"}
  BY <1>2, <1>5 DEF Lives!Next, Lives!Start, Lives!Refuse
<1>6. CASE LifeOf(u) = "uploading" /\ LifeOf(u)' \in {"kept", "astray"}
  BY <1>2, <1>6 DEF Lives!Next, Lives!Keep, Lives!GoAstray
<1>7. CASE LifeOf(u) = "dropping" /\ LifeOf(u)' = "gone"
  BY <1>2, <1>7 DEF Lives!Next, Lives!Remove
<1>8. CASE LifeOf(u) = "gone" /\ LifeOf(u)' = "dropping"
  BY <1>2, <1>8 DEF Lives!Next, Lives!RemoveAgain
<1> QED BY <1>1, <1>3, <1>4, <1>5, <1>6, <1>7, <1>8 DEF LifeMoves

\* A step that gives up or deletes many keys at once.
LEMMA ManyLives ==
    ASSUME \A u \in Upload :
              \/ LifeOf(u)' = LifeOf(u)
              \/ LifeOf(u) \in {"uploading", "kept"} /\ LifeOf(u)' = "dropping"
    PROVE  [Lives!Next]_lives
<1> DEFINE S == {u \in Upload : LifeOf(u) \in {"uploading", "kept"} /\ LifeOf(u)' = "dropping"}
<1>1. \A u \in S : LifeOf(u) \in {"uploading", "kept"}
  OBVIOUS
<1>2. \A u \in Upload : LifeOf(u)' = IF u \in S THEN "dropping" ELSE LifeOf(u)
  OBVIOUS
<1>3. S \in SUBSET Upload
  OBVIOUS
<1> HIDE DEF S
<1>4. Lives!Drop(S)
  BY <1>1, <1>2, <1>3 DEF Lives!Drop
<1> QED BY <1>3, <1>4 DEF Lives!Next

LEMMA PurgeLives ==
    ASSUME TypeOK, \A u \in Upload : KeyInv(u), NEW a \in Account,
           PurgeFence(a) \/ PurgeSettle(a) \/ PurgeSettled(a) \/ PurgeDelete(a) \/ PurgeDone(a)
    PROVE  [Lives!Next]_lives
<1> SUFFICES ASSUME NEW u \in Upload
             PROVE  \/ LifeOf(u)' = LifeOf(u)
                    \/ LifeOf(u) \in {"uploading", "kept"} /\ LifeOf(u)' = "dropping"
  BY ManyLives
<1>0. request' = request /\ InProcess(u)' = InProcess(u)
  BY DEF PurgeFence, PurgeSettle, PurgeSettled, PurgeDelete, PurgeDone, InProcess
<1>1. CASE PurgeSettle(a)
  <2>1. UNCHANGED <<attachment, odd>>
    BY <1>1 DEF PurgeSettle
  <2>2. CASE u \in Of(a) /\ pending[u] # None
    <3>1. pending[u].quota \in QuotaState /\ pending[u].issued \in BOOLEAN
      BY <2>2 DEF TypeOK, Admission
    <3>2. NewIntent("pending_upload", ReleaseKind(pending[u].quota), pending[u].issued, "now") # None
      BY <3>1, ReleaseKindType, NewIntentType, RowAssumption DEF Source, Due
    <3>3. pending'[u] = None
      BY <1>1, <2>2 DEF PurgeSettle
    <3>4. intent'[u] # None
      BY <1>1, <2>2, <3>2 DEF PurgeSettle
    <3>5. attachment[u] = "none" /\ ~InProcess(u)
      BY <2>2 DEF KeyInv, RowInv, Presigning, InProcess
    <3> QED BY <1>0, <2>1, <2>2, <3>3, <3>4, <3>5, LifeValue, LifeValueNext DEF LifeIs
  <2>3. CASE ~(u \in Of(a) /\ pending[u] # None)
    <3>1. pending'[u] = pending[u] /\ intent'[u] = intent[u]
      BY <1>1, <2>3 DEF PurgeSettle
    <3> QED BY <1>0, <2>1, <3>1, LifeSame
  <2> QED BY <2>2, <2>3
<1>2. CASE PurgeDelete(a)
  <2>1. UNCHANGED <<pending, odd>>
    BY <1>2 DEF PurgeDelete
  <2>2. CASE u \in Of(a) /\ attachment[u] = "present"
    BY <1>0, <1>2, <2>1, <2>2, DropLives DEF PurgeDelete
  <2>3. CASE ~(u \in Of(a) /\ attachment[u] = "present")
    <3>1. attachment'[u] = attachment[u] /\ intent'[u] = intent[u]
      BY <1>2, <2>3 DEF PurgeDelete, Drop
    <3> QED BY <1>0, <2>1, <3>1, LifeSame
  <2> QED BY <2>2, <2>3
<1>3. CASE PurgeFence(a) \/ PurgeSettled(a) \/ PurgeDone(a)
  BY <1>0, <1>3, LifeSame DEF PurgeFence, PurgeSettled, PurgeDone
<1> QED BY <1>1, <1>2, <1>3

\* A crash gives up the uploads that were only in the process.
LEMMA CrashLives ==
    ASSUME TypeOK, \A u \in Upload : KeyInv(u), Crash
    PROVE  [Lives!Next]_lives
<1> SUFFICES ASSUME NEW u \in Upload
             PROVE  \/ LifeOf(u)' = LifeOf(u)
                    \/ LifeOf(u) \in {"uploading", "kept"} /\ LifeOf(u)' = "dropping"
  BY ManyLives
<1>1. /\ UNCHANGED <<pending, intent, attachment, odd>>
      /\ request'[u] = IF request[u] = "new" THEN "new" ELSE "done"
  BY DEF Crash, At
<1>2. ~InProcess(u)'
  BY <1>1 DEF InProcess
<1>3. CASE InProcess(u)
  <2>1. /\ pending[u] = None /\ attachment[u] = "none"
        /\ u \notin odd.overrun => intent[u] # None
    BY <1>3 DEF InProcess, KeyInv, RowInv, HoldInv
  <2> QED BY <1>1, <1>2, <1>3, <2>1, LifeValue, LifeValueNext DEF LifeIs
<1>4. CASE ~InProcess(u)
  BY <1>1, <1>2, <1>4, LifeSame
<1> QED BY <1>3, <1>4

LEMMA LivesStep == IInv /\ [Next]_vars => [Lives!Next]_lives
<1>1. ASSUME IInv, Next PROVE [Lives!Next]_lives
  <2>1. TypeOK /\ TypeOK' /\ Busy /\ \A u \in Upload : KeyInv(u)
    BY <1>1, IInvBusy, TypeStep DEF IInv, KeyInv, WholeInv, AttachmentIsWhole
  <2>2. ASSUME NEW u \in Upload, UploadStep(u) \/ KeyStep(u)
        PROVE  [Lives!Next]_lives
    <3>1. LifeMoves(u)
      BY <2>1, <2>2, UploadLives, KeyLives
    <3>2. \A v \in Upload \ {u} : LifeOf(v)' = LifeOf(v)
      BY <2>1, <2>2, UploadElsewhere, KeyElsewhere, SameLife
    <3> QED BY <3>1, <3>2, OneLife
  <2>3. ASSUME NEW c \in Confirmer, U(c) \in Upload, ConfirmStep(c)
        PROVE  [Lives!Next]_lives
    <3>0. PICK u \in Upload : u = U(c)
      BY <2>3
    <3>1. ConfirmInv(c)
      BY <1>1 DEF IInv
    <3>2. LifeMoves(u)
      BY <2>1, <2>3, <3>0, <3>1, ConfirmLives
    <3>3. \A v \in Upload \ {u} : LifeOf(v)' = LifeOf(v)
      BY <2>1, <2>3, <3>0, ConfirmElsewhere, SameLife
    <3> QED BY <3>2, <3>3, OneLife
  <2>4. ASSUME NEW w \in Task, T(w) \in Upload, TaskStep(w)
        PROVE  [Lives!Next]_lives
    <3>0. PICK u \in Upload : u = T(w)
      BY <2>4
    <3>1. SweepInv(w) /\ DrainInv(w)
      BY <1>1 DEF IInv
    <3>2. LifeMoves(u)
      BY <2>1, <2>4, <3>0, <3>1, TaskLives
    <3>3. \A v \in Upload \ {u} : LifeOf(v)' = LifeOf(v)
      BY <2>1, <2>4, <3>0, TaskElsewhere, SameLife
    <3> QED BY <3>2, <3>3, OneLife
  <2> QED BY <1>1, <2>1, <2>2, <2>3, <2>4, StepCases, PurgeLives, CrashLives
<1>2. ASSUME UNCHANGED vars PROVE lives' = lives
  BY <1>2, LifeSame DEF vars, lives, InProcess
<1> QED BY <1>1, <1>2

\* Whatever becomes of leases, calls and the process, each key lives the simple
\* life of UploadLife: the saga implements it.
THEOREM LifeCorrect == Spec => LifeSpec
BY LivesInit, LivesStep, SpecInv, PTL DEF Spec, LifeSpec, Lives!Spec, lives
=============================================================================
