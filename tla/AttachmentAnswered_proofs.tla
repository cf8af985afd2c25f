----------------------- MODULE AttachmentAnswered_proofs -----------------------
(***************************************************************************)
(* Proofs about AttachmentStorage, for any uploads, accounts, requests and *)
(* tasks: no object and no charge is forgotten, and a finished purge       *)
(* leaves neither.                                                         *)
(*                                                                         *)
(* That a row answers for them is not inductive: it must also be known     *)
(* that the last pass of a drain comes when no PUT can follow, and that    *)
(* everything which may still settle the upload's charge (its row, its     *)
(* intent, slow sweeps and drains) would give all of it back.              *)
(***************************************************************************)
EXTENDS AttachmentStorage_proofs

USE DEF db, host, time, process, rest

Answered(u) == pending[u] # None \/ attachment[u] = "present" \/ intent[u] # None
Astray(u) == u \in odd.late \/ u \in odd.overrun

\* No PUT comes any more that somebody should wait for.
UrlOver(u) == url[u] # "live" \/ u \in expired \/ attachment[u] = "deleted"
NoObject(u) == u \notin object \/ Astray(u)

\* A row answers for what the client may still write, and an intent that is
\* not retained was made when the client could write no more.
ObjectInv(u) ==
    /\ Answered(u) \/ UrlOver(u)
    /\ Answered(u) \/ NoObject(u)
    /\ intent[u] # None /\ ~intent[u].retain => UrlOver(u)

\* A drain on its last pass has nobody's PUT to wait for.
Last(w) == task[w].pc \in {"settle", "ack"} \/ (TaskAt(w, "delete") /\ task[w].final)

LastInv(w) ==
    /\ task[w].pc \in Sweeping => task[w].issued \/ UrlOver(T(w))
    /\ Last(w) => UrlOver(T(w))
    /\ task[w].pc \in {"settle", "ack"} => NoObject(T(w))

-----------------------------------------------------------------------------
(***************************************************************************)
(* A step remembers oddities of its own key only.                          *)
(***************************************************************************)
SameOdd(u) ==
    /\ u \in odd'.late <=> u \in odd.late
    /\ u \in odd'.refused <=> u \in odd.refused

LEMMA UploadOdd ==
    ASSUME TypeOK, NEW u \in Upload, UploadStep(u), NEW v \in Upload \ {u}
    PROVE  SameOdd(v)
<1>1. odd' = odd \/ odd' = [odd EXCEPT !.refused = @ \cup {u}]
  BY DEF UploadStep, Presign, PresignReserve, Refuses, PresignNotReserved, PresignReserved,
         PresignIssue, PresignLost, LegacyStage, LegacyPut, LegacyInsert, LegacyUndo
<1> QED BY <1>1 DEF TypeOK, SameOdd

LEMMA ConfirmOdd ==
    ASSUME TypeOK, NEW c \in Confirmer, ConfirmStep(c), NEW v \in Upload, v # U(c)
    PROVE  SameOdd(v)
BY DEF TypeOK, SameOdd, ConfirmStep, ConfirmHead, ConfirmFinalize, ConfirmCommit, ConfirmCommitted,
       ConfirmInsert, ConfirmAbandon, ConfirmRelease

LEMMA TaskOdd ==
    ASSUME TypeOK, NEW w \in Task, TaskStep(w), NEW v \in Upload, v # T(w)
    PROVE  SameOdd(v)
<1>1. CASE SweepRefused(w) \/ DrainRefused(w)
  <2>1. odd' = [odd EXCEPT !.refused = @ \cup {T(w)}]
    BY <1>1 DEF SweepRefused, DrainRefused
  <2> QED BY <2>1 DEF TypeOK, SameOdd
<1>2. CASE DrainDelete(w)
  <2>1. odd' = odd \/ odd' = [odd EXCEPT !.late = @ \ {T(w)}]
    BY <1>2 DEF DrainDelete
  <2>2. CASE odd' = [odd EXCEPT !.late = @ \ {T(w)}]
    <3>1. odd'.late = odd.late \ {T(w)} /\ odd'.refused = odd.refused
      BY <2>2 DEF TypeOK
    <3> QED BY <3>1 DEF SameOdd
  <2> QED BY <2>1, <2>2 DEF SameOdd
<1>3. CASE UNCHANGED odd
  BY <1>3 DEF SameOdd
<1> QED BY <1>1, <1>2, <1>3 DEF TaskStep, SweepReserve, SweepReserved, SweepFinalize, SweepFinalized,
         SweepStage, SweepFailed, DrainDefer, DrainSettle, DrainAck, DrainFailed, SweepCall, SweepRecord

LEMMA KeyOdd ==
    ASSUME TypeOK, NEW u \in Upload, KeyStep(u), NEW v \in Upload \ {u}
    PROVE  SameOdd(v)
<1>1. CASE Put(u) \/ DueNow(u)
  <2>1. \/ odd' = odd
        \/ odd' = [odd EXCEPT !.late = @ \cup {u}]
        \/ odd' = [odd EXCEPT !.overrun = @ \cup {u}]
    BY <1>1 DEF Put, DueNow
  <2> QED BY <2>1 DEF TypeOK, SameOdd
<1>2. CASE UNCHANGED odd
  BY <1>2 DEF SameOdd
<1> QED BY <1>1, <1>2 DEF KeyStep, Delete, TaskClaim, SweepClaim, DrainClaim, ConfirmClaim,
         Clock, Expire, UrlDies, PendingLapse, IntentLapse

-----------------------------------------------------------------------------
(***************************************************************************)
(* Objects                                                                 *)
(***************************************************************************)
LEMMA ObjectSame ==
    ASSUME NEW u \in Upload, ObjectInv(u), Same(u), SameOdd(u)
    PROVE  ObjectInv(u)'
BY DEF ObjectInv, Same, SameOdd, Answered, UrlOver, NoObject, Astray

\* What a step leaves to tasks at work on the key.
Over(u) ==
    /\ SweptAt(u) \/ DrainedAt(u) => (UrlOver(u) => UrlOver(u)')
    /\ DrainedAt(u) /\ UrlOver(u) => (NoObject(u) => NoObject(u)')

LEMMA OverSame ==
    ASSUME NEW u \in Upload, Same(u), SameOdd(u)
    PROVE  Over(u)
BY DEF Over, Same, SameOdd, UrlOver, NoObject, Astray

\* The rows of a key may change without a PUT or an oddity.
LEMMA OverRows ==
    ASSUME NEW u \in Upload, UNCHANGED <<object, url, odd>>,
           u \in expired => u \in expired', attachment[u] = "deleted" => attachment'[u] = "deleted"
    PROVE  Over(u)
BY DEF Over, UrlOver, NoObject, Astray

LEMMA ObjectRows ==
    ASSUME NEW u \in Upload, ObjectInv(u), UNCHANGED <<object, url, odd>>,
           u \in expired => u \in expired', attachment[u] = "deleted" => attachment'[u] = "deleted",
           Answered(u) => Answered(u)',
           intent'[u] # None => intent[u] # None /\ intent'[u].retain = intent[u].retain
    PROVE  ObjectInv(u)'
BY DEF ObjectInv, Answered, UrlOver, NoObject, Astray

LEMMA ReleasedRows ==
    ASSUME NEW r \in Admission
    PROVE  /\ Released(r) # None
           /\ \A q \in QuotaState : [Released(r) EXCEPT !.quota = q] # None
           /\ [Released(r) EXCEPT !.issued = TRUE] # None
           /\ \A q \in QuotaState : [r EXCEPT !.quota = q] # None
<1>1. None \notin Admission
  BY RowAssumption
<1> QED BY <1>1, AdmissionFields

\* A change to an intent that changes neither what is retained nor what is held.
Alike(r, s) == s # None /\ s.retain = r.retain /\ s.release = r.release

LEMMA IntentRows ==
    ASSUME NEW r \in Intent
    PROVE  /\ \A d \in Due : Alike(r, [r EXCEPT !.due = d]) /\ Alike(r, [Released(r) EXCEPT !.due = d])
           /\ \A o \in Task : Alike(r, [r EXCEPT !.owner = o, !.live = TRUE])
           /\ Alike(r, [r EXCEPT !.live = FALSE])
<1>1. None \notin Intent
  BY RowAssumption
<1>2. ASSUME NEW d \in Due
      PROVE  Alike(r, [r EXCEPT !.due = d]) /\ Alike(r, [Released(r) EXCEPT !.due = d])
  <2>1. [r EXCEPT !.due = d] # None /\ [Released(r) EXCEPT !.due = d] # None
    BY <1>1, IntentFields
  <2>2. /\ [r EXCEPT !.due = d].retain = r.retain
        /\ [r EXCEPT !.due = d].release = r.release
    BY DEF Intent
  <2>3. /\ [Released(r) EXCEPT !.due = d].retain = r.retain
        /\ [Released(r) EXCEPT !.due = d].release = r.release
    BY DEF Intent, Released
  <2> QED BY <2>1, <2>2, <2>3 DEF Alike
<1>3. ASSUME NEW o \in Task
      PROVE  Alike(r, [r EXCEPT !.owner = o, !.live = TRUE])
  <2>1. [r EXCEPT !.owner = o, !.live = TRUE] # None
    BY <1>1, IntentFields
  <2>2. /\ [r EXCEPT !.owner = o, !.live = TRUE].retain = r.retain
        /\ [r EXCEPT !.owner = o, !.live = TRUE].release = r.release
    BY DEF Intent
  <2> QED BY <2>1, <2>2 DEF Alike
<1>4. Alike(r, [r EXCEPT !.live = FALSE])
  <2>1. [r EXCEPT !.live = FALSE] # None
    BY <1>1, IntentFields
  <2>2. [r EXCEPT !.live = FALSE].retain = r.retain /\ [r EXCEPT !.live = FALSE].release = r.release
    BY DEF Intent
  <2> QED BY <2>1, <2>2 DEF Alike
<1> QED BY <1>2, <1>3, <1>4

LEMMA UploadObject ==
    ASSUME TypeOK, NEW u \in Upload, KeyInv(u), ObjectInv(u), UploadStep(u)
    PROVE  ObjectInv(u)' /\ Over(u)
<1>1. CASE Presign(u) \/ PresignReserve(u)
  <2>1. /\ UNCHANGED <<object, url, expired, attachment, intent>>
        /\ odd'.late = odd.late /\ odd'.overrun = odd.overrun
        /\ pending[u] # None => pending'[u] # None
    BY <1>1 DEF Presign, PresignReserve, Refuses, At, KeyInv, RowInv, TypeOK
  <2> QED BY <2>1 DEF ObjectInv, Answered, Over, UrlOver, NoObject, Astray
<1>2. CASE PresignNotReserved(u) \/ PresignLost(u)
  <2>1. UNCHANGED <<object, url, expired, attachment, intent, odd>>
    BY <1>2 DEF PresignNotReserved, PresignLost
  <2>2. pending[u] # None => pending'[u] # None
    <3>1. \A row : Update(u, row) => pending'[u] = pending[u] \/ pending'[u] = row
      BY DEF Update, TypeOK
    <3>2. pending[u] # None => pending[u] \in Admission
      BY DEF TypeOK
    <3>3. PICK q \in QuotaState :
             Update(u, Released(pending[u])) \/ Update(u, [Released(pending[u]) EXCEPT !.quota = q])
      BY <1>2 DEF PresignNotReserved, PresignLost, QuotaState
    <3> QED BY <3>1, <3>2, <3>3, ReleasedRows
  <2> QED BY <2>1, <2>2, ObjectRows, OverRows DEF Answered
<1>3. CASE PresignReserved(u)
  <2>1. UNCHANGED <<object, url, expired, attachment, intent, odd>>
    BY <1>3 DEF PresignReserved
  <2>2. pending'[u] # None
    <3>1. pending[u] \in Admission
      BY <1>3 DEF PresignReserved, Holds, TypeOK
    <3>2. pending'[u] = [pending[u] EXCEPT !.quota = "reserved"]
      BY <1>3 DEF PresignReserved, TypeOK
    <3> QED BY <3>1, <3>2, ReleasedRows DEF QuotaState
  <2> QED BY <2>1, <2>2, ObjectRows, OverRows DEF Answered
<1>4. CASE PresignIssue(u)
  <2>1. UNCHANGED <<object, expired, attachment, intent, odd>>
    BY <1>4 DEF PresignIssue
  <2>2. pending[u] \in Admission /\ pending[u].owner = "presign" /\ pending[u] # None
    BY <1>4 DEF PresignIssue, Holds, TypeOK
  <2>3. pending'[u] = [Released(pending[u]) EXCEPT !.issued = TRUE]
    BY <1>4 DEF PresignIssue, TypeOK
  <2>4. pending'[u] # None
    BY <2>2, <2>3, ReleasedRows
  <2>5. intent[u] = None
    BY <2>2 DEF KeyInv, RowInv
  <2> QED BY <2>1, <2>2, <2>4, <2>5 DEF ObjectInv, Answered, Over, SweptAt, DrainedAt
<1>5. CASE LegacyStage(u)
  <2>1. /\ UNCHANGED <<object, url, expired, attachment, odd>>
        /\ url[u] = "none" /\ intent'[u] # None
    <3>1. NewIntent("uncommitted_upload", "none", FALSE, "hold") # None
      BY NewIntentType, RowAssumption DEF Source, Release, Due
    <3> QED BY <1>5, <3>1 DEF LegacyStage, At, TypeOK, KeyInv, RowInv
  <2> QED BY <2>1, OverRows DEF ObjectInv, Answered, UrlOver
<1>6. CASE LegacyPut(u)
  <2>1. /\ UNCHANGED <<pending, intent, attachment, url, expired, odd>>
        /\ request[u] = "put"
    BY <1>6 DEF LegacyPut, At
  <2>2. u \in odd.overrun \/ intent[u] # None
    BY <2>1 DEF KeyInv, HoldInv
  <2>3. DrainedAt(u) => u \in odd.overrun
    BY <2>1 DEF DrainedAt
  <2> QED BY <2>1, <2>2, <2>3 DEF ObjectInv, Answered, Over, UrlOver, NoObject, Astray
<1>7. CASE LegacyInsert(u)
  <2>1. UNCHANGED <<object, url, expired, odd>> /\ attachment[u] = "none"
    BY <1>7 DEF LegacyInsert, At, KeyInv, RowInv
  <2>2. \/ attachment'[u] = "present" /\ intent'[u] = None
        \/ UNCHANGED <<pending, intent, attachment>>
    BY <1>7 DEF LegacyInsert, TypeOK
  <2> QED BY <2>1, <2>2, OverRows DEF ObjectInv, Answered, UrlOver, NoObject, Astray
<1>8. CASE LegacyUndo(u)
  <2>1. UNCHANGED <<object, url, expired, odd, pending, attachment>>
    BY <1>8 DEF LegacyUndo
  <2>2. intent'[u] = intent[u] \/ (intent[u] # None /\ intent'[u] = [intent[u] EXCEPT !.due = "now"])
    BY <1>8 DEF LegacyUndo, TypeOK
  <2>3. intent[u] # None => intent[u] \in Intent
    BY DEF TypeOK
  <2>4. /\ intent[u] # None <=> intent'[u] # None
        /\ intent[u] # None => intent'[u].retain = intent[u].retain
    BY <2>2, <2>3, IntentRows DEF Due, Alike
  <2> QED BY <2>1, <2>4, ObjectRows, OverRows DEF Answered
<1> QED BY <1>1, <1>2, <1>3, <1>4, <1>5, <1>6, <1>7, <1>8 DEF UploadStep

LEMMA StageObject ==
    ASSUME TypeOK, NEW u \in Upload, ObjectInv(u), NEW q \in QuotaState \cup Release, NEW b \in BOOLEAN,
           StagePending(u, q, b), b \/ UrlOver(u), UNCHANGED <<object, url, expired, odd>>
    PROVE  ObjectInv(u)' /\ Over(u)
<1> DEFINE r == NewIntent("pending_upload", ReleaseKind(q), b, "now")
<1>1. attachment' = attachment /\ intent'[u] = IF intent[u] # None THEN intent[u] ELSE r
  BY DEF StagePending, TypeOK
<1>2. r \in Intent /\ r.retain = b
  BY NewIntentType, ReleaseKindType DEF Source, Due, NewIntent
<1>3. r # None
  BY <1>2, RowAssumption
<1> HIDE DEF r
<1>4. Answered(u)' /\ (~intent'[u].retain => UrlOver(u))
  BY <1>1, <1>2, <1>3 DEF ObjectInv, Answered
<1>5. UrlOver(u)' = UrlOver(u)
  BY <1>1 DEF UrlOver
<1> QED BY <1>1, <1>4, <1>5, OverRows DEF ObjectInv

\* A row whose URL was never signed is no obstacle.
LEMMA UnissuedOver ==
    ASSUME NEW u \in Upload, KeyInv(u), pending[u] # None
    PROVE  pending[u].issued \/ UrlOver(u)
BY DEF KeyInv, RowInv, UrlOver

LEMMA ConfirmObject ==
    ASSUME TypeOK, NEW c \in Confirmer, NEW u \in Upload, u = U(c), ConfirmInv(c), KeyInv(u),
           ObjectInv(u), ConfirmStep(c)
    PROVE  ObjectInv(u)' /\ Over(u)
<1>1. CASE ConfirmHead(c) \/ ConfirmCommit(c)
  <2>1. /\ UNCHANGED <<object, url, expired, attachment, intent, pending>>
        /\ odd'.late = odd.late /\ odd'.overrun = odd.overrun
    BY <1>1 DEF ConfirmHead, ConfirmCommit, TypeOK
  <2> QED BY <2>1 DEF ObjectInv, Answered, Over, UrlOver, NoObject, Astray
<1>2. CASE ConfirmFinalize(c) \/ ConfirmCommitted(c)
  <2>1. UNCHANGED <<object, url, expired, attachment, intent, odd>>
    BY <1>2 DEF ConfirmFinalize, ConfirmCommitted
  <2>2. PICK q \in QuotaState :
           \/ pending' = pending
           \/ pending[u] # None /\ pending' = [pending EXCEPT ![u] = [pending[u] EXCEPT !.quota = q]]
    BY <1>2 DEF ConfirmFinalize, ConfirmCommitted, QuotaState, Holds
  <2>3. pending[u] # None => pending'[u] # None
    BY <2>2, ReleasedRows DEF TypeOK
  <2> QED BY <2>1, <2>3, ObjectRows, OverRows DEF Answered
<1>3. CASE ConfirmInsert(c)
  <2>1. UNCHANGED <<object, url, expired, odd, intent>>
    BY <1>3 DEF ConfirmInsert
  <2>2. \/ attachment'[u] = "present" /\ attachment[u] = "none"
        \/ UNCHANGED <<pending, attachment>>
    BY <1>3 DEF ConfirmInsert, TypeOK, Holds, KeyInv, RowInv
  <2>3. Answered(u) => Answered(u)'
    BY <2>1, <2>2 DEF Answered
  <2> QED BY <2>1, <2>2, <2>3, ObjectRows, OverRows
<1>4. CASE ConfirmAbandon(c)
  <2>1. UNCHANGED <<object, url, expired, odd>>
    BY <1>4 DEF ConfirmAbandon
  <2>2. CASE Proven(c)
    <3>1. pending[u] # None /\ pending[u] \in Admission
      BY <2>2 DEF Proven, Holds, TypeOK
    <3>2. StagePending(u, pending[u].quota, pending[u].issued)
      BY <1>4, <2>2 DEF ConfirmAbandon
    <3> QED BY <2>1, <3>1, <3>2, StageObject, UnissuedOver DEF Admission
  <2>3. CASE UNCHANGED <<pending, intent, attachment>>
    BY <2>1, <2>3, ObjectRows, OverRows DEF Answered
  <2> QED BY <1>4, <2>2, <2>3 DEF ConfirmAbandon
<1>5. CASE ConfirmRelease(c)
  <2>1. UNCHANGED <<object, url, expired, odd, intent, attachment>>
    BY <1>5 DEF ConfirmRelease
  <2>2. pending' = pending \/ (pending[u] # None /\ pending' = [pending EXCEPT ![u] = Released(pending[u])])
    BY <1>5 DEF ConfirmRelease, Update
  <2>3. pending[u] # None => pending'[u] # None
    BY <2>2, ReleasedRows DEF TypeOK
  <2> QED BY <2>1, <2>3, ObjectRows, OverRows DEF Answered
<1> QED BY <1>1, <1>2, <1>3, <1>4, <1>5 DEF ConfirmStep

\* A drain's later writes change only when its intent is due, or end it.
LEMMA LeasedRows ==
    ASSUME TypeOK, NEW w \in Task, NEW u \in Upload, u = T(w), DrainDefer(w) \/ DrainFailed(w)
    PROVE  \/ intent'[u] = intent[u]
           \/ intent[u] # None /\ Alike(intent[u], intent'[u])
<1>1. PICK d \in Due : LeasedIntent(w, [Released(intent[T(w)]) EXCEPT !.due = d])
  BY DEF DrainDefer, DrainFailed, Due
<1>2. CASE Holds(intent[u], w)
  <2>1. intent[u] # None /\ intent[u] \in Intent
    BY <1>2 DEF Holds, TypeOK
  <2>2. intent'[u] = [Released(intent[u]) EXCEPT !.due = d]
    BY <1>1, <1>2 DEF LeasedIntent, TypeOK
  <2> QED BY <2>1, <2>2, IntentRows
<1>3. CASE ~Holds(intent[u], w)
  BY <1>1, <1>3 DEF LeasedIntent
<1> QED BY <1>2, <1>3

LEMMA TaskObject ==
    ASSUME TypeOK, NEW w \in Task, NEW u \in Upload, u = T(w), SweepInv(w), DrainInv(w), LastInv(w),
           KeyInv(u), ObjectInv(u), TaskStep(w)
    PROVE  ObjectInv(u)' /\ Over(u)
<1>1. CASE SweepReserve(w) \/ SweepFinalize(w) \/ SweepRefused(w) \/ DrainSettle(w) \/ DrainRefused(w)
  <2>1. /\ UNCHANGED <<object, url, expired, attachment, intent, pending>>
        /\ odd'.late = odd.late /\ odd'.overrun = odd.overrun
    BY <1>1 DEF SweepReserve, SweepFinalize, SweepRefused, DrainSettle, DrainRefused, SweepCall, TypeOK
  <2> QED BY <2>1 DEF ObjectInv, Answered, Over, UrlOver, NoObject, Astray
<1>2. CASE SweepReserved(w) \/ SweepFinalized(w)
  <2>1. UNCHANGED <<object, url, expired, attachment, intent, odd>>
    BY <1>2 DEF SweepReserved, SweepFinalized, SweepRecord
  <2>2. PICK q \in QuotaState :
           \/ pending' = pending
           \/ pending[u] # None /\ pending' = [pending EXCEPT ![u] = [pending[u] EXCEPT !.quota = q]]
    BY <1>2 DEF SweepReserved, SweepFinalized, SweepRecord, QuotaState, Holds
  <2>3. pending[u] # None => pending'[u] # None
    BY <2>2, ReleasedRows DEF TypeOK
  <2> QED BY <2>1, <2>3, ObjectRows, OverRows DEF Answered
<1>3. CASE SweepStage(w)
  <2>1. UNCHANGED <<object, url, expired, odd>> /\ task[w].pc \in Sweeping
    BY <1>3 DEF SweepStage, TaskAt, Sweeping
  <2>2. CASE StagePending(u, task[w].quota, task[w].issued)
    <3>1. intent[u] = None => task[w].issued \/ UrlOver(u)
      BY <2>1 DEF LastInv
    <3>2. task[w].issued \in BOOLEAN /\ task[w].quota \in QuotaState \cup Release
      BY DEF TypeOK, CleanupTask
    <3> QED BY <2>1, <2>2, <3>1, <3>2, StageObject DEF LastInv
  <2>3. CASE UNCHANGED <<pending, intent, attachment>>
    BY <2>1, <2>3, ObjectRows, OverRows DEF Answered
  <2> QED BY <1>3, <2>2, <2>3 DEF SweepStage
<1>4. CASE SweepFailed(w)
  <2>1. UNCHANGED <<object, url, expired, odd, intent, attachment>>
    BY <1>4 DEF SweepFailed
  <2> DEFINE r == [pending[u] EXCEPT !.owner = None, !.live = TRUE]
  <2>2. pending' = pending \/ (pending[u] # None /\ pending' = [pending EXCEPT ![u] = r])
    BY <1>4 DEF SweepFailed, Update
  <2>3. pending[u] # None => r # None
    <3>1. pending[u] # None => r \in Admission
      BY AdmissionFields DEF TypeOK
    <3> QED BY <3>1, RowAssumption
  <2> HIDE DEF r
  <2>4. pending[u] # None => pending'[u] # None
    BY <2>2, <2>3 DEF TypeOK
  <2> QED BY <2>1, <2>4, ObjectRows, OverRows DEF Answered
<1>5. CASE DrainDelete(w)
  <2>1. /\ UNCHANGED <<pending, intent, attachment, url, expired>>
        /\ \/ u \notin object'
           \/ UNCHANGED <<object, odd>>
        /\ odd'.overrun = odd.overrun
    BY <1>5 DEF DrainDelete, TypeOK
  <2> QED BY <2>1 DEF ObjectInv, Answered, Over, UrlOver, NoObject, Astray
<1>6. CASE DrainDefer(w) \/ DrainFailed(w)
  <2>1. UNCHANGED <<object, url, expired, odd, pending, attachment>>
    BY <1>6 DEF DrainDefer, DrainFailed
  <2>2. \/ intent'[u] = intent[u]
        \/ intent[u] # None /\ Alike(intent[u], intent'[u])
    BY <1>6, LeasedRows
  <2> QED BY <2>1, <2>2, ObjectRows, OverRows DEF Answered, Alike
<1>7. CASE DrainAck(w)
  <2>1. /\ UNCHANGED <<object, url, expired, odd, pending, attachment>>
        /\ UrlOver(u) /\ NoObject(u)
    BY <1>7 DEF DrainAck, LastInv, Last, TaskAt
  <2>2. intent'[u] \in {None, intent[u]}
    BY <1>7 DEF DrainAck, LeasedIntent, TypeOK
  <2>3. UrlOver(u)' /\ NoObject(u)'
    BY <2>1 DEF UrlOver, NoObject, Astray
  <2> QED BY <2>1, <2>2, <2>3, OverRows DEF ObjectInv
<1> QED BY <1>1, <1>2, <1>3, <1>4, <1>5, <1>6, <1>7 DEF TaskStep

LEMMA KeyObject ==
    ASSUME TypeOK, NEW u \in Upload, KeyInv(u), ObjectInv(u), KeyStep(u)
    PROVE  ObjectInv(u)' /\ Over(u)
<1>1. CASE Put(u)
  <2>1. /\ UNCHANGED <<pending, intent, attachment, url, expired>>
        /\ url[u] = "live"
        /\ odd'.overrun = odd.overrun
        /\ u \in expired \/ attachment[u] = "deleted" => u \in odd'.late
    BY <1>1 DEF Put, TypeOK
  <2> QED BY <2>1 DEF ObjectInv, Answered, Over, UrlOver, NoObject, Astray
<1>2. CASE Expire(u)
  <2>1. UNCHANGED <<object, url, odd, pending, intent, attachment>> /\ expired \subseteq expired'
    BY <1>2 DEF Expire
  <2> QED BY <2>1, ObjectRows, OverRows DEF Answered
<1>3. CASE UrlDies(u)
  <2>1. /\ UNCHANGED <<object, expired, odd, pending, intent, attachment>>
        /\ u \in expired
    BY <1>3 DEF UrlDies
  <2> QED BY <2>1 DEF ObjectInv, Answered, Over, UrlOver, NoObject, Astray
<1>5. CASE Delete(u)
  <2>1. UNCHANGED <<object, url, expired, odd, pending>>
    BY <1>5 DEF Delete
  <2> DEFINE r == NewIntent("attachment", IF metered THEN "committed" ELSE "none", FALSE, "now")
  <2>2. attachment'[u] = "deleted" /\ intent'[u] = r
    BY <1>5 DEF Delete, Drop
  <2>3. r # None
    BY NewIntentType, RowAssumption DEF Source, Release, Due
  <2> HIDE DEF r
  <2> QED BY <2>1, <2>2, <2>3, OverRows DEF ObjectInv, Answered, UrlOver
<1>6. CASE PendingLapse(u) \/ \E c \in Confirmer : ConfirmClaim(c, u)
  <2>1. UNCHANGED <<object, url, expired, odd, intent, attachment>>
    BY <1>6 DEF PendingLapse, ConfirmClaim
  <2>2. pending'[u] # None
    <3>1. pending[u] \in Admission
      BY <1>6 DEF PendingLapse, ConfirmClaim, Claimable, TypeOK
    <3>2. PICK o \in {None} \cup Confirmer \cup Task, l \in BOOLEAN :
             \/ pending' = pending
             \/ pending' = [pending EXCEPT ![u] = [pending[u] EXCEPT !.live = FALSE]]
             \/ pending' = [pending EXCEPT ![u] = [pending[u] EXCEPT !.owner = o, !.live = l]]
      BY <1>6 DEF PendingLapse, ConfirmClaim
    <3>3. pending'[u] \in Admission
      <4>1. [pending[u] EXCEPT !.live = FALSE] \in Admission
        BY <3>1 DEF Admission
      <4>2. [pending[u] EXCEPT !.owner = o, !.live = l] \in Admission
        BY <3>1 DEF Admission
      <4> QED BY <3>1, <3>2, <4>1, <4>2 DEF TypeOK
    <3> QED BY <3>3, RowAssumption
  <2> QED BY <2>1, <2>2, ObjectRows, OverRows DEF Answered
<1>7. ASSUME NEW w \in Task, SweepClaim(w, u)
      PROVE  ObjectInv(u)' /\ Over(u)
  <2>1. UNCHANGED <<object, url, expired, odd, intent, attachment>>
    BY <1>7 DEF SweepClaim
  <2>2. pending'[u] # None
    <3>1. pending[u] \in Admission
      BY <1>7 DEF SweepClaim, Sweepable, TypeOK
    <3>2. pending'[u] = [pending[u] EXCEPT !.owner = w, !.live = TRUE]
      BY <1>7 DEF SweepClaim, TypeOK
    <3>3. pending'[u] \in Admission
      BY <3>1, <3>2 DEF Admission
    <3> QED BY <3>3, RowAssumption
  <2> QED BY <2>1, <2>2, ObjectRows, OverRows DEF Answered
<1>8. CASE IntentLapse(u) \/ \E w \in Task : DrainClaim(w, u)
  <2>1. UNCHANGED <<object, url, expired, odd, pending, attachment>>
    BY <1>8 DEF IntentLapse, DrainClaim
  <2>2. Alike(intent[u], intent'[u])
    <3>1. intent[u] \in Intent
      BY <1>8 DEF IntentLapse, DrainClaim, Drainable, TypeOK
    <3>2. CASE IntentLapse(u)
      BY <3>1, <3>2, IntentRows DEF IntentLapse, TypeOK
    <3>3. ASSUME NEW w \in Task, DrainClaim(w, u)
          PROVE  Alike(intent[u], intent'[u])
      <4>1. intent'[u] = [intent[u] EXCEPT !.owner = w, !.live = TRUE]
        BY <3>3 DEF DrainClaim, TypeOK
      <4>2. Alike(intent[u], [intent[u] EXCEPT !.owner = w, !.live = TRUE])
        BY <3>1, IntentRows
      <4> QED BY <4>1, <4>2
    <3> QED BY <1>8, <3>2, <3>3
  <2>3. intent[u] # None
    BY <1>8 DEF IntentLapse, DrainClaim, Drainable
  <2> QED BY <2>1, <2>2, <2>3, ObjectRows, OverRows DEF Answered, Alike
<1>9. CASE DueNow(u)
  <2>1. /\ UNCHANGED <<object, url, expired, pending, attachment>>
        /\ odd'.late = odd.late /\ odd.overrun \subseteq odd'.overrun
    BY <1>9 DEF DueNow, TypeOK
  <2>2. Alike(intent[u], intent'[u])
    BY <1>9, IntentRows DEF DueNow, TypeOK, Due
  <2>3. intent[u] # None
    BY <1>9 DEF DueNow
  <2> QED BY <2>1, <2>2, <2>3 DEF Alike, ObjectInv, Answered, Over, UrlOver, NoObject, Astray
<1> QED BY <1>1, <1>2, <1>3, <1>5, <1>6, <1>7, <1>8, <1>9 DEF KeyStep, TaskClaim, Clock

LEMMA PurgeObject ==
    ASSUME TypeOK, NEW u \in Upload, KeyInv(u), ObjectInv(u), NEW a \in Account,
           PurgeFence(a) \/ PurgeSettle(a) \/ PurgeSettled(a) \/ PurgeDelete(a) \/ PurgeDone(a)
    PROVE  ObjectInv(u)' /\ Over(u) /\ SameOdd(u)
<1>1. CASE PurgeSettle(a)
  <2>1. UNCHANGED <<object, url, expired, odd, attachment>>
    BY <1>1 DEF PurgeSettle
  <2>2. CASE u \in Of(a) /\ pending[u] # None
    <3> DEFINE r == NewIntent("pending_upload", ReleaseKind(pending[u].quota), pending[u].issued, "now")
    <3>1. intent'[u] = IF intent[u] = None THEN r ELSE intent[u]
      BY <1>1, <2>2 DEF PurgeSettle
    <3>2. pending[u].quota \in QuotaState /\ pending[u].issued \in BOOLEAN
      BY <2>2 DEF TypeOK, Admission
    <3>3. r \in Intent /\ r.retain = pending[u].issued
      BY <3>2, NewIntentType, ReleaseKindType DEF Source, Due, NewIntent
    <3>4. r # None
      BY <3>3, RowAssumption
    <3> HIDE DEF r
    <3>5. Answered(u)' /\ (~intent'[u].retain => UrlOver(u))
      BY <2>2, <3>1, <3>3, <3>4, UnissuedOver DEF Answered, ObjectInv
    <3>6. UrlOver(u)' = UrlOver(u)
      BY <2>1 DEF UrlOver
    <3> QED BY <2>1, <3>5, <3>6, OverRows DEF ObjectInv, SameOdd
  <2>3. CASE ~(u \in Of(a) /\ pending[u] # None)
    <3>1. pending'[u] = pending[u] /\ intent'[u] = intent[u]
      BY <1>1, <2>3 DEF PurgeSettle
    <3> QED BY <2>1, <3>1, OverRows, ObjectRows DEF SameOdd, Answered
  <2> QED BY <2>2, <2>3
<1>2. CASE PurgeDelete(a)
  <2>1. UNCHANGED <<object, url, expired, odd, pending>>
    BY <1>2 DEF PurgeDelete
  <2>2. CASE u \in Of(a) /\ attachment[u] = "present"
    <3> DEFINE r == NewIntent("attachment", IF metered THEN "committed" ELSE "none", FALSE, "now")
    <3>1. attachment'[u] = "deleted" /\ intent'[u] = r
      BY <1>2, <2>2 DEF PurgeDelete, Drop
    <3>2. r # None
      BY NewIntentType, RowAssumption DEF Source, Release, Due
    <3> HIDE DEF r
    <3> QED BY <2>1, <3>1, <3>2, OverRows DEF ObjectInv, Answered, UrlOver, SameOdd
  <2>3. CASE ~(u \in Of(a) /\ attachment[u] = "present")
    <3>1. attachment'[u] = attachment[u] /\ intent'[u] = intent[u]
      BY <1>2, <2>3 DEF PurgeDelete, Drop
    <3> QED BY <2>1, <3>1, OverRows, ObjectRows DEF SameOdd, Answered
  <2> QED BY <2>2, <2>3
<1>3. CASE PurgeFence(a) \/ PurgeSettled(a) \/ PurgeDone(a)
  <2>1. UNCHANGED <<object, url, expired, odd, pending, intent, attachment>>
    BY <1>3 DEF PurgeFence, PurgeSettled, PurgeDone
  <2> QED BY <2>1, OverRows, ObjectRows DEF SameOdd, Answered
<1> QED BY <1>1, <1>2, <1>3

LEMMA CrashObject ==
    ASSUME TypeOK, NEW u \in Upload, ObjectInv(u), Crash
    PROVE  ObjectInv(u)'
<1>1. UNCHANGED <<pending, intent, attachment, object, url, expired, odd>>
  BY DEF Crash
<1> QED BY <1>1, ObjectRows DEF Answered

LEMMA EveryObject ==
    ASSUME IInv, Next, NEW v \in Upload, ObjectInv(v), \A w \in Task : LastInv(w)
    PROVE  ObjectInv(v)' /\ (Crash \/ Over(v))
<1>1. TypeOK /\ Busy /\ KeyInv(v)
  BY IInvBusy DEF IInv, KeyInv, WholeInv, AttachmentIsWhole
<1>2. Same(v) /\ SameOdd(v) => ObjectInv(v)' /\ Over(v)
  BY ObjectSame, OverSame
<1>3. ASSUME NEW u \in Upload, UploadStep(u) \/ KeyStep(u)
      PROVE  ObjectInv(v)' /\ Over(v)
  <2>1. CASE u = v
    BY <1>1, <1>3, <2>1, UploadObject, KeyObject
  <2>2. CASE u # v
    BY <1>1, <1>2, <1>3, <2>2, UploadElsewhere, KeyElsewhere, UploadOdd, KeyOdd
  <2> QED BY <2>1, <2>2
<1>4. ASSUME NEW c \in Confirmer, U(c) \in Upload, ConfirmStep(c)
      PROVE  ObjectInv(v)' /\ Over(v)
  <2>1. ConfirmInv(c)
    BY DEF IInv
  <2>2. CASE v = U(c)
    BY <1>1, <1>4, <2>1, <2>2, ConfirmObject
  <2> QED BY <1>1, <1>2, <1>4, <2>2, ConfirmElsewhere, ConfirmOdd
<1>5. ASSUME NEW w \in Task, T(w) \in Upload, TaskStep(w)
      PROVE  ObjectInv(v)' /\ Over(v)
  <2>1. SweepInv(w) /\ DrainInv(w) /\ LastInv(w)
    BY DEF IInv
  <2>2. CASE v = T(w)
    BY <1>1, <1>5, <2>1, <2>2, TaskObject
  <2> QED BY <1>1, <1>2, <1>5, <2>2, TaskElsewhere, TaskOdd
<1>6. ASSUME NEW a \in Account,
             PurgeFence(a) \/ PurgeSettle(a) \/ PurgeSettled(a) \/ PurgeDelete(a) \/ PurgeDone(a)
      PROVE  ObjectInv(v)' /\ Over(v)
  BY <1>1, <1>6, PurgeObject
<1> QED BY <1>1, <1>3, <1>4, <1>5, <1>6, CrashObject, StepCases

LEMMA LastRests ==
    ASSUME NEW w \in Task, TaskInv(w), LastInv(w), task'[w] = task[w], T(w) \in Upload => Over(T(w))
    PROVE  LastInv(w)'
<1>1. CASE task[w].pc \in Sweeping \cup Draining
  <2>1. PICK u \in Upload : u = T(w) /\ u = T(w)'
    BY <1>1 DEF TaskInv, T
  <2>2. task[w].pc \in Sweeping => (UrlOver(u) => UrlOver(u)')
    BY <2>1 DEF TaskInv, Over
  <2>3. task[w].pc \in Draining => /\ UrlOver(u) => UrlOver(u)'
                                   /\ UrlOver(u) /\ NoObject(u) => NoObject(u)'
    BY <2>1 DEF TaskInv, Over
  <2>4. Last(w)' = Last(w)
    BY DEF Last, TaskAt
  <2>5. Last(w) => task[w].pc \in Draining
    BY DEF Last, TaskAt, Draining
  <2>6. task[w].pc \in {"settle", "ack"} => Last(w)
    BY DEF Last
  <2>7. LastInv(w) <=> /\ task[w].pc \in Sweeping => task[w].issued \/ UrlOver(u)
                       /\ Last(w) => UrlOver(u)
                       /\ task[w].pc \in {"settle", "ack"} => NoObject(u)
    BY <2>1 DEF LastInv
  <2>8. LastInv(w)' <=> /\ task'[w].pc \in Sweeping => task'[w].issued \/ UrlOver(u)'
                        /\ Last(w)' => UrlOver(u)'
                        /\ task'[w].pc \in {"settle", "ack"} => NoObject(u)'
    BY <2>1 DEF LastInv, UrlOver, NoObject, Astray
  <2> QED BY <2>2, <2>3, <2>4, <2>5, <2>6, <2>7, <2>8
<1>2. CASE task[w].pc \notin Sweeping \cup Draining
  BY <1>2 DEF LastInv, Last, TaskAt, Draining
<1> QED BY <1>1, <1>2

LEMMA LastMoves ==
    ASSUME TypeOK, NEW w \in Task, NEW u \in Upload, u = T(w), TaskInv(w), LastInv(w), Over(u), TaskStep(w)
    PROVE  LastInv(w)'
<1>1. CASE TaskEnd(w)
  BY <1>1 DEF TaskEnd, TaskSet, IdleTask, TypeOK, LastInv, Last, TaskAt, Sweeping
<1>2. ASSUME NEW pc \in TaskPc, TaskGo(w, pc)
      PROVE  /\ task'[w].pc = pc /\ task'[w].upload = u
             /\ task'[w].issued = task[w].issued /\ task'[w].final = task[w].final
  BY <1>2 DEF TaskGo, TaskSet, TypeOK, CleanupTask, T
<1>3. ASSUME task[w].pc \in Sweeping, task'[w].pc \in Sweeping, task'[w].upload = u,
             task'[w].issued = task[w].issued
      PROVE  LastInv(w)'
  <2>1. T(w)' = u
    BY <1>3 DEF T
  <2>2. task'[w].issued \/ UrlOver(u)'
    BY <1>3 DEF LastInv, TaskInv, Over
  <2>3. ~Last(w)' /\ task'[w].pc \notin {"settle", "ack"}
    BY <1>3 DEF Last, TaskAt, Sweeping
  <2> QED BY <2>1, <2>2, <2>3 DEF LastInv, UrlOver
<1>4. CASE SweepReserve(w) \/ SweepFinalize(w) \/ SweepRefused(w) \/ SweepReserved(w)
           \/ SweepFinalized(w) \/ SweepStage(w)
  <2>1. task[w].pc \in Sweeping
    BY <1>4 DEF SweepReserve, SweepFinalize, SweepRefused, SweepReserved, SweepFinalized, SweepStage,
                SweepCall, SweepRecord, TaskAt, Sweeping
  <2>2. \/ TaskEnd(w) \/ TaskGo(w, "reserved") \/ TaskGo(w, "finalized") \/ TaskGo(w, "sweepFailed")
        \/ \E q : TaskSet(w, [task[w] EXCEPT !.pc = "stage", !.quota = q])
    BY <1>4 DEF SweepReserve, SweepFinalize, SweepRefused, SweepReserved, SweepFinalized, SweepStage,
                SweepCall, SweepRecord
  <2>3. {"reserved", "finalized", "sweepFailed", "stage"} \subseteq Sweeping \cap TaskPc
    BY DEF Sweeping, TaskPc
  <2>4. ASSUME NEW q, TaskSet(w, [task[w] EXCEPT !.pc = "stage", !.quota = q])
        PROVE  task'[w].pc = "stage" /\ task'[w].upload = u /\ task'[w].issued = task[w].issued
    BY <2>4 DEF TaskSet, TypeOK, CleanupTask, T
  <2> QED BY <1>1, <1>2, <1>3, <2>1, <2>2, <2>3, <2>4
<1>5. CASE DrainDelete(w)
  <2>1. TaskAt(w, "delete") /\ task[w].pc \in Draining
    BY <1>5 DEF DrainDelete, TaskAt, Draining
  <2>2. task[w].final => UrlOver(u) /\ UrlOver(u)'
    BY <2>1 DEF LastInv, Last, TaskInv, Over
  <2>3. CASE TaskGo(w, IF task[w].final THEN "settle" ELSE "defer") /\ object' = object \ {u}
    <3>1. /\ task'[w].pc = IF task[w].final THEN "settle" ELSE "defer"
          /\ task'[w].upload = u
      BY <1>2, <2>3 DEF TaskPc
    <3>2. NoObject(u)' /\ T(w)' = u
      BY <2>3, <3>1 DEF NoObject, T
    <3> QED BY <2>2, <3>1, <3>2 DEF LastInv, Last, TaskAt, Sweeping, UrlOver, NoObject, Astray
  <2>4. CASE TaskGo(w, "drainFailed")
    <3>1. task'[w].pc = "drainFailed"
      BY <1>2, <2>4 DEF TaskPc
    <3> QED BY <3>1 DEF LastInv, Last, TaskAt, Sweeping
  <2> QED BY <1>5, <2>3, <2>4 DEF DrainDelete
<1>6. CASE DrainSettle(w) \/ DrainRefused(w)
  <2>1. TaskAt(w, "settle") /\ task[w].pc \in Draining
    BY <1>6 DEF DrainSettle, DrainRefused, TaskAt, Draining
  <2>2. UrlOver(u)' /\ NoObject(u)'
    BY <2>1 DEF LastInv, Last, TaskAt, TaskInv, Over
  <2>3. PICK pc \in {"ack", "drainFailed"} : TaskGo(w, pc)
    BY <1>6 DEF DrainSettle, DrainRefused
  <2>4. task'[w].pc \in {"ack", "drainFailed"} /\ T(w)' = u
    BY <1>2, <2>3 DEF TaskPc, T
  <2> QED BY <2>2, <2>4 DEF LastInv, Last, TaskAt, Sweeping, UrlOver, NoObject, Astray
<1>7. CASE SweepFailed(w) \/ DrainDefer(w) \/ DrainAck(w) \/ DrainFailed(w)
  BY <1>1, <1>7 DEF SweepFailed, DrainDefer, DrainAck, DrainFailed
<1> QED BY <1>4, <1>5, <1>6, <1>7 DEF TaskStep

LEMMA LastSweep ==
    ASSUME TypeOK, NEW w \in Task, NEW u \in Upload, KeyInv(u), SweepClaim(w, u)
    PROVE  LastInv(w)'
<1>1. /\ task'[w].pc = QuotaStep(pending[u].quota)
      /\ task'[w].upload = u /\ task'[w].issued = pending[u].issued
  BY DEF SweepClaim, TaskSet, TypeOK
<1>2. task'[w].pc \notin Draining
  BY <1>1 DEF QuotaStep, Draining
<1>3. pending[u] # None /\ UNCHANGED <<url, expired, attachment>>
  BY DEF SweepClaim, Sweepable, TaskSet
<1>4. task'[w].issued \/ UrlOver(u)'
  BY <1>1, <1>3, UnissuedOver DEF UrlOver
<1>5. T(w)' = u
  BY <1>1 DEF T
<1> QED BY <1>2, <1>4, <1>5 DEF LastInv, Last, TaskAt, Draining, UrlOver

LEMMA LastDrain ==
    ASSUME TypeOK, NEW w \in Task, NEW u \in Upload, ObjectInv(u), DrainClaim(w, u)
    PROVE  LastInv(w)'
<1>1. /\ task'[w].pc = "delete" /\ task'[w].upload = u
      /\ task'[w].final = (~intent[u].retain \/ u \in expired)
  BY DEF DrainClaim, TaskSet, TypeOK
<1>2. intent[u] # None /\ UNCHANGED <<url, expired, attachment>>
  BY DEF DrainClaim, Drainable, TaskSet
<1>3. task'[w].final => UrlOver(u)'
  BY <1>1, <1>2 DEF ObjectInv, UrlOver
<1>4. T(w)' = u
  BY <1>1 DEF T
<1> QED BY <1>1, <1>3, <1>4 DEF LastInv, Last, TaskAt, Sweeping, UrlOver

LEMMA LastStep ==
    ASSUME IInv, Next, NEW w \in Task, \A v \in Task : LastInv(v), \A u \in Upload : ObjectInv(u)
    PROVE  LastInv(w)'
<1>1. TypeOK /\ Busy /\ TaskInv(w) /\ LastInv(w) /\ \A u \in Upload : KeyInv(u)
  BY IInvBusy, TaskInvParts DEF IInv, KeyInv, WholeInv, AttachmentIsWhole
<1>2. CASE Crash
  <2>1. task'[w].pc = "idle"
    BY <1>2 DEF Crash, IdleTask
  <2> QED BY <2>1 DEF LastInv, Last, TaskAt, Sweeping
<1>3. CASE \E u \in Upload : SweepClaim(w, u) \/ DrainClaim(w, u)
  BY <1>1, <1>3, LastSweep, LastDrain
<1>4. \A u \in Upload : ~Crash => Over(u)
  BY EveryObject
<1>5. CASE TaskStep(w) /\ ~Crash
  <2>1. T(w) \in Upload
    BY <1>1, <1>5 DEF Busy, TaskStep, SweepReserve, SweepReserved, SweepFinalize, SweepFinalized,
         SweepRefused, SweepStage, SweepFailed, DrainDelete, DrainDefer, DrainSettle, DrainRefused,
         DrainAck, DrainFailed, SweepCall, SweepRecord, TaskAt
  <2>2. PICK u \in Upload : u = T(w)
    BY <2>1
  <2> QED BY <1>1, <1>4, <1>5, <2>2, LastMoves
<1>6. CASE ~Crash /\ ~TaskStep(w) /\ \A u \in Upload : ~SweepClaim(w, u) /\ ~DrainClaim(w, u)
  BY <1>1, <1>4, <1>6, TaskOthers, LastRests
<1> QED BY <1>2, <1>3, <1>5, <1>6

ObjectsInv == (\A u \in Upload : ObjectInv(u)) /\ (\A w \in Task : LastInv(w))

LEMMA InitObjects == ASSUME Init PROVE ObjectsInv
<1>1. \A u \in Upload : ObjectInv(u)
  BY DEF Init, ObjectInv, UrlOver, NoObject
<1>2. \A w \in Task : task[w].pc = "idle"
  BY DEF Init, IdleTask
<1> QED BY <1>1, <1>2 DEF ObjectsInv, LastInv, Last, TaskAt, Sweeping

LEMMA ObjectsStep == IInv /\ ObjectsInv /\ [Next]_vars => ObjectsInv'
<1>1. ASSUME IInv, ObjectsInv, Next PROVE ObjectsInv'
  <2>1. \A u \in Upload : ObjectInv(u)'
    BY <1>1, EveryObject DEF ObjectsInv
  <2>2. \A w \in Task : LastInv(w)'
    BY <1>1, LastStep DEF ObjectsInv
  <2> QED BY <2>1, <2>2 DEF ObjectsInv
<1>2. ASSUME ObjectsInv, UNCHANGED vars PROVE ObjectsInv'
  BY <1>2 DEF vars, ObjectsInv, ObjectInv, LastInv, Last, Answered, UrlOver, NoObject, Astray, TaskAt, T
<1> QED BY <1>1, <1>2

\* No object is forgotten: whatever lapses or crashes, and whichever drain a
\* lost lease lets run on, a row answers for the object until the last pass
\* has deleted it, unless a PUT came that nobody waits for.
THEOREM ObjectCorrect == Spec => []ObjectAnswered
<1>1. Init => ObjectsInv
  BY InitObjects
<1>2. IInv /\ ObjectsInv => ObjectAnswered
  BY DEF IInv, TypeOK, ObjectsInv, ObjectInv, ObjectAnswered, Answered, NoObject, Astray
<1> QED BY <1>1, <1>2, ObjectsStep, SpecInv, PTL DEF Spec

-----------------------------------------------------------------------------
(***************************************************************************)
(* Charges                                                                 *)
(***************************************************************************)
\* The kinds of release under which the charge may yet be finalized.
Final == {"finalize_pending", "committed"}
Whole(f, release) == release \in Final <=> f

\* An intent of this kind would give the charge back, and is one of the kinds
\* of this upload's stage: f says whether a confirmation finalized it.
Gives(release, x, f) == Settle(release, x) = "released" /\ Whole(f, release)
Fits(release, u, f) == Gives(release, charge[u], f)

\* What the host did to a charge takes nothing from who could give it back.
Keeps(x, y, f) ==
    /\ \A r \in Release : Settle(r, x) = "released" /\ Whole(f, r) => Settle(r, y) = "released"
    /\ x # "none" => y # "none"
    /\ x \in {"committed", "released"} => y \in {"committed", "released"}
    /\ x = "released" => y = "released"

LEMMA SettleValue ==
    ASSUME NEW x \in Charge
    PROVE  /\ Settle("none", x) = x
           /\ Settle("reserve_pending", x) = IF x = "committed" THEN x ELSE "released"
           /\ Settle("reservation", x) = IF x = "reserved" THEN "released" ELSE x
           /\ Settle("finalize_pending", x) = IF x \in {"reserved", "committed"} THEN "released" ELSE x
           /\ Settle("committed", x) = IF x = "committed" THEN "released" ELSE x
BY DEF Settle, Charge, Reserve, Finalize, ReleaseReservation, ReleaseCommitted

LEMMA KeepsSame == ASSUME NEW x, NEW f PROVE Keeps(x, x, f)
BY DEF Keeps

LEMMA KeepsReserve ==
    ASSUME NEW x \in Charge, NEW f \in BOOLEAN
    PROVE  Keeps(x, Reserve(x), f)
<1>1. Reserve(x) \in Charge
  BY DEF Reserve, Charge
<1>2. ASSUME NEW r \in Release, Settle(r, x) = "released", Whole(f, r)
      PROVE  Settle(r, Reserve(x)) = "released"
  <2>1. CASE x = "none"
    BY <1>1, <1>2, <2>1, SettleValue DEF Release, Reserve
  <2>2. CASE x # "none"
    BY <1>2, <2>2 DEF Reserve
  <2> QED BY <2>1, <2>2
<1> QED BY <1>2 DEF Keeps, Reserve

LEMMA KeepsFinalize ==
    ASSUME NEW x \in Charge
    PROVE  Keeps(x, Finalize(x), TRUE)
<1>1. Finalize(x) \in Charge
  BY DEF Finalize, Charge
<1>2. ASSUME NEW r \in Release, Settle(r, x) = "released", Whole(TRUE, r)
      PROVE  Settle(r, Finalize(x)) = "released"
  <2>1. r \in Final
    BY <1>2 DEF Whole
  <2>2. CASE x = "reserved"
    BY <1>1, <1>2, <2>1, <2>2, SettleValue DEF Final, Finalize
  <2>3. CASE x # "reserved"
    BY <1>2, <2>3 DEF Finalize
  <2> QED BY <2>2, <2>3
<1> QED BY <1>2 DEF Keeps, Finalize

LEMMA KeepsSettle ==
    ASSUME NEW x \in Charge, NEW f \in BOOLEAN, NEW q \in Release,
           Settle(q, x) = "released", Whole(f, q), NEW y \in PartOf(q, x)
    PROVE  Keeps(x, y, f)
<1>1. y \in Charge
  BY SettleType
<1>2. CASE y = x
  BY <1>2, KeepsSame
<1>3. CASE q = "reserve_pending" /\ y = Reserve(x)
  BY <1>3, KeepsReserve
<1>4. CASE q = "finalize_pending" /\ y = Finalize(x)
  <2>1. f = TRUE
    BY <1>4 DEF Whole, Final
  <2> QED BY <1>4, <2>1, KeepsFinalize
<1>5. CASE y = "released"
  BY <1>5, SettleValue DEF Keeps, Release, Charge
<1> QED BY <1>2, <1>3, <1>4, <1>5 DEF PartOf

\* What the rows say of the charge, and that the upload is at stage f.
KeyPlay(u, f) ==
    /\ u \notin odd.overrun
    /\ request[u] \in Presigning => url[u] = "none"
    /\ request[u] # "refused"
    /\ f \/ attachment[u] = "present" => url[u] # "none"
    /\ pending[u] # None => Fits(ReleaseKind(pending[u].quota), u, f)
    /\ intent[u] # None => Fits(intent[u].release, u, f)
    /\ ~Answered(u) => charge[u] \in {"none", "released"}
    /\ ~Answered(u) /\ request[u] \in Presigning => charge[u] = "released"

\* A confirmation that finalizes the charge has brought the upload to stage f.
ConfirmPlay(c, u, f) == confirm[c].pc \in {"commit", "committed"} /\ U(c) = u => f

\* A slow sweep would stage, and a slow drain settle, what gives the charge back.
SweepPlay(w, u, f) ==
    task[w].pc \in Sweeping =>
        /\ Fits(ReleaseKind(task[w].quota), u, f)
        /\ task[w].pc \in {"reserve", "reserved"} => task[w].quota = "reserve_pending"
        /\ task[w].pc \in {"finalize", "finalized"} => task[w].quota = "finalize_pending"
        /\ TaskAt(w, "reserved") => charge[u] # "none"
        /\ TaskAt(w, "finalized") => charge[u] \in {"committed", "released"}

DrainPlay(w, u, f) ==
    task[w].pc \in Draining =>
        /\ Fits(task[w].quota, u, f)
        /\ TaskAt(w, "ack") => charge[u] = "released"

AtWork(w, u) == T(w) = u /\ task[w].pc \in Sweeping \cup Draining

TaskPlay(w, u, f) ==
    AtWork(w, u) =>
        /\ SweepPlay(w, u, f)
        /\ DrainPlay(w, u, f)
        /\ ~Answered(u) => charge[u] = "released"

InPlay(u, f) ==
    /\ KeyPlay(u, f)
    /\ \A c \in Confirmer : ConfirmPlay(c, u, f)
    /\ \A w \in Task : TaskPlay(w, u, f)

LedgerInv(u) == metered /\ u \notin odd.refused => \E f \in BOOLEAN : InPlay(u, f)

\* The kinds of release that rows and tasks name are of their type.
LEMMA RowKinds ==
    ASSUME TypeOK, NEW u \in Upload
    PROVE  /\ pending[u] # None => pending[u] \in Admission /\ ReleaseKind(pending[u].quota) \in Release
           /\ intent[u] # None => intent[u] \in Intent /\ intent[u].release \in Release
           /\ charge[u] \in Charge
<1>1. pending[u] # None => pending[u] \in Admission
  BY DEF TypeOK
<1>2. intent[u] # None => intent[u] \in Intent
  BY DEF TypeOK
<1>3. charge[u] \in Charge
  BY DEF TypeOK, Charge
<1> QED BY <1>1, <1>2, <1>3, ReleaseKindType DEF Admission, Intent

LEMMA FitsKept ==
    ASSUME NEW u \in Upload, NEW f, NEW r \in Release, Fits(r, u, f), Keeps(charge[u], charge'[u], f)
    PROVE  Gives(r, charge'[u], f)
BY DEF Fits, Gives, Keeps

\* What a step at a key leaves behind: the stage it had, or the stage of a
\* confirmation with no task at work on the key, or a refusal.
Stays(u, f) ==
    /\ KeyPlay(u, f)'
    /\ Keeps(charge[u], charge'[u], f)
    /\ ~Answered(u)' => ~Answered(u) \/ charge'[u] = "released"

Turns(u) ==
    /\ KeyPlay(u, TRUE)'
    /\ \A w \in Task : ~AtWork(w, u)
    /\ charge'[u] = charge[u]

Play(u, f) == u \in odd'.refused \/ Stays(u, f) \/ Turns(u)

Goes(u) ==
    /\ u \notin odd'.overrun
    /\ request'[u] \in Presigning => url'[u] = "none"
    /\ request'[u] # "refused"
    /\ url[u] # "none" => url'[u] # "none"

LEMMA SamePlay ==
    ASSUME NEW u \in Upload, NEW f, KeyPlay(u, f), Same(u)
    PROVE  Stays(u, f)
<1>1. charge'[u] = charge[u] /\ (Answered(u)' <=> Answered(u))
  BY DEF Same, Answered
<1>2. Keeps(charge[u], charge'[u], f)
  BY <1>1, KeepsSame
<1>3. KeyPlay(u, f)'
  BY DEF KeyPlay, Same, Fits, Answered
<1> QED BY <1>1, <1>2, <1>3 DEF Stays

\* Rows that name the same kinds, or go no further than they were.
LEMMA PlayRows ==
    ASSUME TypeOK, NEW u \in Upload, NEW f \in BOOLEAN, KeyPlay(u, f), Goes(u),
           Keeps(charge[u], charge'[u], f),
           charge'[u] = charge[u] \/ (~Answered(u) => charge[u] = "released"),
           request'[u] \in Presigning => request[u] \in Presigning,
           attachment'[u] = "present" => attachment[u] = "present",
           pending'[u] # None => pending[u] # None /\ pending'[u].quota = pending[u].quota,
           intent'[u] # None => intent[u] # None /\ intent'[u].release = intent[u].release,
           Answered(u) => Answered(u)'
    PROVE  Stays(u, f)
<1>1. pending'[u] # None => Gives(ReleaseKind(pending'[u].quota), charge'[u], f)
  <2>1. SUFFICES ASSUME pending'[u] # None
                 PROVE  Gives(ReleaseKind(pending[u].quota), charge'[u], f)
    OBVIOUS
  <2>2. ReleaseKind(pending[u].quota) \in Release /\ Fits(ReleaseKind(pending[u].quota), u, f)
    BY <2>1, RowKinds DEF KeyPlay
  <2> QED BY <2>2, FitsKept
<1>2. intent'[u] # None => Gives(intent'[u].release, charge'[u], f)
  <2>1. SUFFICES ASSUME intent'[u] # None
                 PROVE  Gives(intent[u].release, charge'[u], f)
    OBVIOUS
  <2>2. intent[u].release \in Release /\ Fits(intent[u].release, u, f)
    BY <2>1, RowKinds DEF KeyPlay
  <2> QED BY <2>2, FitsKept
<1>3. /\ ~Answered(u)' => charge'[u] \in {"none", "released"}
      /\ ~Answered(u)' /\ request'[u] \in Presigning => charge'[u] = "released"
      /\ ~Answered(u)' => ~Answered(u) \/ charge'[u] = "released"
  BY DEF KeyPlay, Keeps
<1>4. f \/ attachment'[u] = "present" => url'[u] # "none"
  BY DEF KeyPlay, Goes
<1>5. KeyPlay(u, f)'
  BY <1>1, <1>2, <1>3, <1>4 DEF KeyPlay, Goes, Fits
<1> QED BY <1>3, <1>5 DEF Stays

\* A row of another kind that fits as well.
LEMMA PlayQuota ==
    ASSUME TypeOK, NEW u \in Upload, NEW f \in BOOLEAN, NEW g \in BOOLEAN, KeyPlay(u, f), Goes(u),
           UNCHANGED <<intent, attachment, charge>>, intent[u] = None,
           g => url'[u] # "none",
           pending'[u] # None, Fits(ReleaseKind(pending'[u].quota), u, g)
    PROVE  KeyPlay(u, g)' /\ Answered(u)'
<1>1. Answered(u)'
  BY DEF Answered
<1>2. Gives(ReleaseKind(pending'[u].quota), charge'[u], g)
  BY DEF Fits
<1>3. intent'[u] = None
  OBVIOUS
<1>4. g \/ attachment'[u] = "present" => url'[u] # "none"
  BY DEF KeyPlay, Goes
<1> QED BY <1>1, <1>2, <1>3, <1>4 DEF KeyPlay, Goes, Fits

LEMMA PlayStage ==
    ASSUME TypeOK, NEW u \in Upload, NEW f \in BOOLEAN, KeyPlay(u, f), Goes(u),
           NEW q \in QuotaState \cup Release, NEW b \in BOOLEAN, StagePending(u, q, b),
           Fits(ReleaseKind(q), u, f), charge' = charge
    PROVE  Stays(u, f)
<1> DEFINE r == NewIntent("pending_upload", ReleaseKind(q), b, "now")
<1>1. /\ attachment' = attachment /\ pending'[u] = None
      /\ intent'[u] = IF intent[u] # None THEN intent[u] ELSE r
  BY DEF StagePending, TypeOK
<1>2. r \in Intent /\ r.release = ReleaseKind(q)
  BY NewIntentType, ReleaseKindType DEF Source, Due, NewIntent
<1>3. r # None
  BY <1>2, RowAssumption
<1> HIDE DEF r
<1>4. Answered(u)'
  BY <1>1, <1>3 DEF Answered
<1>5. Gives(intent'[u].release, charge'[u], f)
  <2>1. Fits(intent'[u].release, u, f)
    BY <1>1, <1>2 DEF KeyPlay
  <2> QED BY <2>1 DEF Fits
<1>6. KeyPlay(u, f)'
  BY <1>1, <1>4, <1>5 DEF KeyPlay, Goes, Fits
<1> QED BY <1>4, <1>6, KeepsSame DEF Stays

\* Before a URL exists nothing is finalized.
LEMMA EarlyCharge ==
    ASSUME TypeOK, NEW u \in Upload, NEW f \in BOOLEAN, KeyPlay(u, f), url[u] = "none",
           pending[u] # None
    PROVE  f = FALSE /\ charge[u] \in {"none", "reserved", "released"}
<1>1. f = FALSE
  BY DEF KeyPlay
<1>2. PICK r \in Release : r \notin Final /\ Settle(r, charge[u]) = "released"
  BY <1>1, RowKinds DEF KeyPlay, Fits, Gives, Whole
<1>3. charge[u] # "committed"
  BY <1>2, RowKinds, SettleValue DEF Release, Final
<1> QED BY <1>1, <1>3, RowKinds DEF Charge

LEMMA UploadPlay ==
    ASSUME TypeOK, metered, NEW u \in Upload, u \notin odd.refused, NEW f \in BOOLEAN,
           KeyInv(u), KeyPlay(u, f), UploadStep(u)
    PROVE  Play(u, f)
<1>0. Keeps(charge[u], charge[u], f)
  BY KeepsSame
<1>1. CASE Presign(u)
  <2>1. /\ request[u] = "new" /\ UNCHANGED <<intent, attachment, charge, url, odd>>
        /\ url[u] = "none" /\ charge[u] = "none" /\ pending[u] = None /\ intent[u] = None
        /\ attachment[u] = "none"
    BY <1>1 DEF Presign, At, KeyInv, RowInv
  <2>2. Goes(u)
    BY <1>1, <2>1 DEF Presign, Go, TypeOK, Goes, KeyPlay, Presigning
  <2>3. CASE Fenced(u)
    <3>1. pending' = pending /\ request'[u] = "done"
      BY <1>1, <2>3 DEF Presign, Go, TypeOK
    <3> QED BY <1>0, <2>1, <2>2, <3>1, PlayRows DEF Play, Answered, Presigning
  <2>4. CASE ~Fenced(u)
    <3> DEFINE r == [quota |-> IF metered THEN "reserve_pending" ELSE "not_required",
                     issued |-> FALSE, owner |-> "presign", live |-> TRUE]
    <3>1. pending'[u] = r
      BY <1>1, <2>4 DEF Presign, TypeOK
    <3>2. r \in Admission /\ r.quota = "reserve_pending"
      BY DEF Admission, QuotaState
    <3>3. r # None
      BY <3>2, RowAssumption
    <3> HIDE DEF r
    <3>4. f = FALSE
      BY <2>1 DEF KeyPlay
    <3>5. Fits(ReleaseKind(pending'[u].quota), u, f)
      BY <2>1, <3>1, <3>2, <3>4, SettleValue DEF Fits, Gives, Whole, Final, ReleaseKind, Charge
    <3>6. KeyPlay(u, f)' /\ Answered(u)'
      BY <2>1, <2>2, <3>1, <3>3, <3>4, <3>5, PlayQuota
    <3> QED BY <1>0, <2>1, <3>6 DEF Play, Stays
  <2> QED BY <2>3, <2>4
<1>2. CASE PresignReserve(u)
  <2>1. /\ request[u] = "reserve" /\ UNCHANGED <<pending, intent, attachment, url>>
        /\ odd'.overrun = odd.overrun
        /\ \/ u \in odd'.refused
           \/ charge'[u] \in {charge[u], Reserve(charge[u])} /\ request'[u] \in {"reserved", "unavailable"}
    BY <1>2 DEF PresignReserve, Refuses, Go, At, TypeOK
  <2>2. CASE u \in odd'.refused
    BY <2>2 DEF Play
  <2>3. CASE charge'[u] \in {charge[u], Reserve(charge[u])} /\ request'[u] \in {"reserved", "unavailable"}
    <3>1. Keeps(charge[u], charge'[u], f)
      BY <1>0, <2>3, KeepsReserve, RowKinds
    <3>2. /\ ~Answered(u) => charge[u] = "released"
          /\ request[u] \in Presigning
      BY <2>1 DEF KeyPlay, Presigning
    <3>3. Goes(u)
      BY <2>1, <2>3, <3>2 DEF KeyPlay, Goes
    <3> QED BY <2>1, <3>1, <3>2, <3>3, PlayRows DEF Play, Answered
  <2> QED BY <2>1, <2>2, <2>3
<1>3. CASE PresignNotReserved(u)
  <2>1. /\ UNCHANGED <<intent, attachment, charge, url, odd>>
        /\ request[u] = "unavailable" /\ request'[u] = "done"
    BY <1>3 DEF PresignNotReserved, Go, At, TypeOK, KeyPlay
  <2>2. Goes(u) /\ url[u] = "none"
    BY <2>1 DEF KeyPlay, Goes, Presigning
  <2> DEFINE r == [Released(pending[u]) EXCEPT !.quota = "reserve_pending"]
  <2>3. \/ pending' = pending
        \/ pending[u] # None /\ pending' = [pending EXCEPT ![u] = r]
    BY <1>3, <2>1 DEF PresignNotReserved, Update, At
  <2>4. CASE pending' = pending
    BY <1>0, <2>1, <2>2, <2>4, PlayRows DEF Play, Answered, Presigning
  <2>5. CASE pending[u] # None /\ pending' = [pending EXCEPT ![u] = r]
    <3>1. pending[u] \in Admission
      BY <2>5, RowKinds
    <3>2. r # None
      BY <3>1, ReleasedRows DEF QuotaState
    <3>3. r.quota = "reserve_pending"
      BY <3>1 DEF Released, Admission
    <3> HIDE DEF r
    <3>4. pending'[u] = r
      BY <2>5 DEF TypeOK
    <3>5. f = FALSE /\ charge[u] \in {"none", "reserved", "released"}
      BY <2>2, <2>5, EarlyCharge
    <3>6. Fits(ReleaseKind(pending'[u].quota), u, f)
      BY <3>3, <3>4, <3>5, RowKinds, SettleValue DEF Fits, Gives, Whole, Final, ReleaseKind
    <3>7. intent[u] = None
      BY <2>5 DEF KeyInv, RowInv
    <3>8. KeyPlay(u, f)' /\ Answered(u)'
      BY <2>1, <2>2, <3>2, <3>4, <3>5, <3>6, <3>7, PlayQuota
    <3> QED BY <1>0, <2>1, <3>8 DEF Play, Stays
  <2> QED BY <2>3, <2>4, <2>5
<1>4. CASE PresignReserved(u)
  <2>1. /\ UNCHANGED <<intent, attachment, charge, url, odd>>
        /\ request[u] = "reserved" /\ request'[u] = "issue"
        /\ pending[u] # None
        /\ pending' = [pending EXCEPT ![u] = [pending[u] EXCEPT !.quota = "reserved"]]
    BY <1>4 DEF PresignReserved, Go, At, Holds, TypeOK
  <2>2. Goes(u) /\ url[u] = "none"
    BY <2>1 DEF KeyPlay, Goes, Presigning
  <2> DEFINE r == [pending[u] EXCEPT !.quota = "reserved"]
  <2>3. pending[u] \in Admission
    BY <2>1, RowKinds
  <2>4. r # None
    BY <2>3, ReleasedRows DEF QuotaState
  <2>5. r.quota = "reserved" /\ pending'[u] = r
    BY <2>1, <2>3 DEF Admission, TypeOK
  <2> HIDE DEF r
  <2>6. f = FALSE /\ charge[u] = "reserved"
    BY <2>1, <2>2, EarlyCharge DEF KeyInv, ChargeInv
  <2>7. Fits(ReleaseKind(pending'[u].quota), u, f)
    BY <2>5, <2>6, RowKinds, SettleValue DEF Fits, Gives, Whole, Final, ReleaseKind
  <2>8. intent[u] = None
    BY <2>1 DEF KeyInv, RowInv
  <2>9. KeyPlay(u, f)' /\ Answered(u)'
    BY <2>1, <2>2, <2>4, <2>5, <2>6, <2>7, <2>8, PlayQuota
  <2> QED BY <1>0, <2>1, <2>9 DEF Play, Stays
<1>5. CASE PresignIssue(u) \/ PresignLost(u)
  <2>1. /\ UNCHANGED <<intent, attachment, charge, odd>>
        /\ request'[u] = "done" /\ (url[u] # "none" => url'[u] # "none")
    BY <1>5 DEF PresignIssue, PresignLost, Go, TypeOK
  <2>2. Goes(u)
    BY <2>1 DEF KeyPlay, Goes, Presigning
  <2>3. \/ pending' = pending
        \/ /\ pending[u] # None
           /\ \/ pending' = [pending EXCEPT ![u] = Released(pending[u])]
              \/ pending' = [pending EXCEPT ![u] = [Released(pending[u]) EXCEPT !.issued = TRUE]]
    BY <1>5 DEF PresignIssue, PresignLost, Update, Holds
  <2>4. \/ pending'[u] = pending[u]
        \/ pending[u] # None /\ pending'[u] # None /\ pending'[u].quota = pending[u].quota
    <3>1. pending[u] # None => /\ Released(pending[u]).quota = pending[u].quota
                               /\ [Released(pending[u]) EXCEPT !.issued = TRUE].quota = pending[u].quota
      BY RowKinds DEF Released, Admission
    <3>2. pending[u] # None => /\ Released(pending[u]) # None
                               /\ [Released(pending[u]) EXCEPT !.issued = TRUE] # None
      BY RowKinds, ReleasedRows
    <3> QED BY <2>3, <3>1, <3>2 DEF TypeOK
  <2> QED BY <1>0, <2>1, <2>2, <2>4, PlayRows DEF Play, Answered, Presigning
<1>6. CASE LegacyStage(u) \/ LegacyPut(u) \/ LegacyInsert(u)
  BY <1>6 DEF LegacyStage, LegacyPut, LegacyInsert, At, KeyInv, ChargeInv
<1>7. CASE LegacyUndo(u)
  <2>1. UNCHANGED <<pending, attachment, charge, odd, url>> /\ request'[u] = "done"
    BY <1>7 DEF LegacyUndo, Go, TypeOK
  <2>2. Goes(u)
    BY <2>1 DEF KeyPlay, Goes, Presigning
  <2>3. \/ intent'[u] = intent[u]
        \/ intent[u] # None /\ Alike(intent[u], intent'[u])
    BY <1>7, RowKinds, IntentRows DEF LegacyUndo, TypeOK, Due
  <2> QED BY <1>0, <2>1, <2>2, <2>3, PlayRows DEF Play, Answered, Presigning, Alike
<1> QED BY <1>1, <1>2, <1>3, <1>4, <1>5, <1>6, <1>7 DEF UploadStep

\* While a confirmation holds the row, or readers see the attachment, no task
\* is at work on the key.
LEMMA Alone ==
    ASSUME NEW u \in Upload, \A w \in Task : SweepInv(w) /\ DrainInv(w),
           \/ pending[u] # None /\ pending[u].owner \in Confirmer
           \/ attachment[u] = "present" /\ u \notin odd.overrun
    PROVE  \A w \in Task : ~AtWork(w, u)
BY DEF SweepInv, DrainInv, AtWork

LEMMA ConfirmLedger ==
    ASSUME TypeOK, metered, NEW c \in Confirmer, NEW u \in Upload, u = U(c), u \notin odd.refused,
           NEW f \in BOOLEAN, ConfirmInv(c), KeyInv(u), KeyPlay(u, f), ConfirmPlay(c, u, f),
           \A w \in Task : SweepInv(w) /\ DrainInv(w), ConfirmStep(c)
    PROVE  u \in odd'.refused \/ (Stays(u, f) /\ ConfirmPlay(c, u, f)') \/ Turns(u)
<1>0. Keeps(charge[u], charge[u], f)
  BY KeepsSame
<1>1. ASSUME UNCHANGED <<url, request>>, odd'.overrun = odd.overrun
      PROVE  Goes(u)
  BY <1>1 DEF Goes, KeyPlay
<1>2. ASSUME NEW pc \in {"finalize", "insert", "abandon", "release"}, ConfirmGo(c, pc)
      PROVE  ConfirmPlay(c, u, f)'
  BY <1>2 DEF ConfirmGo, TypeOK, Confirmation, ConfirmPlay
<1>3. ASSUME ConfirmEnd(c)
      PROVE  ConfirmPlay(c, u, f)'
  BY <1>3 DEF ConfirmEnd, IdleConfirm, TypeOK, ConfirmPlay
<1>4. CASE ConfirmHead(c)
  <2>1. UNCHANGED <<pending, intent, attachment, charge, url, odd, request>>
    BY <1>4 DEF ConfirmHead, ConfirmGo
  <2>2. ConfirmPlay(c, u, f)'
    BY <1>2, <1>4 DEF ConfirmHead
  <2> QED BY <1>0, <1>1, <2>1, <2>2, PlayRows DEF Answered
<1>5. CASE ConfirmFinalize(c)
  <2>1. UNCHANGED <<intent, attachment, charge, url, odd, request>>
    BY <1>5 DEF ConfirmFinalize, ConfirmGo
  <2>2. CASE ConfirmGo(c, "release") /\ pending' = pending
    <3>1. ConfirmPlay(c, u, f)'
      BY <1>2, <2>2
    <3> QED BY <1>0, <1>1, <2>1, <2>2, <3>1, PlayRows DEF Answered
  <2>3. CASE Holds(pending[u], c) /\ pending' = [pending EXCEPT ![u].quota = "finalize_pending"]
    <3> DEFINE r == [pending[u] EXCEPT !.quota = "finalize_pending"]
    <3>1. pending[u] # None /\ pending[u] \in Admission /\ pending[u].owner = c
      BY <2>3, RowKinds DEF Holds
    <3>2. r # None
      BY <3>1, ReleasedRows DEF QuotaState
    <3>3. r.quota = "finalize_pending" /\ pending'[u] = r
      BY <2>3, <3>1 DEF Admission, TypeOK
    <3> HIDE DEF r
    <3>4. url[u] # "none"
      BY <1>5 DEF ConfirmFinalize, ConfirmInv, ConfirmAt
    <3>5. charge[u] \in {"reserved", "committed"} /\ intent[u] = None
      BY <3>1, <3>4 DEF KeyInv, RowInv, ChargeInv
    <3>6. Fits(ReleaseKind(pending'[u].quota), u, TRUE)
      BY <3>3, <3>5, RowKinds, SettleValue DEF Fits, Gives, Whole, Final, ReleaseKind
    <3>7. KeyPlay(u, TRUE)'
      BY <1>1, <2>1, <3>2, <3>3, <3>4, <3>5, <3>6, PlayQuota
    <3> QED BY <2>1, <3>1, <3>7, Alone DEF Turns
  <2> QED BY <1>5, <2>2, <2>3 DEF ConfirmFinalize
<1>6. CASE ConfirmCommit(c)
  <2>1. /\ UNCHANGED <<pending, intent, attachment, url, request>>
        /\ f = TRUE /\ odd'.overrun = odd.overrun
    BY <1>6 DEF ConfirmCommit, ConfirmGo, ConfirmPlay, ConfirmAt, TypeOK
  <2>2. CASE u \in odd'.refused
    BY <2>2
  <2>3. CASE charge'[u] \in {charge[u], Finalize(charge[u])}
    <3>1. Keeps(charge[u], charge'[u], f)
      BY <1>0, <2>1, <2>3, KeepsFinalize, RowKinds
    <3>2. charge'[u] = charge[u] \/ (~Answered(u) => charge[u] = "released")
      BY <2>3 DEF KeyPlay, Finalize
    <3>3. Stays(u, f)
      BY <1>1, <2>1, <3>1, <3>2, PlayRows DEF Answered
    <3> QED BY <2>1, <3>3 DEF ConfirmPlay
  <2>4. u \in odd'.refused \/ charge'[u] \in {charge[u], Finalize(charge[u])}
    BY <1>6 DEF ConfirmCommit, TypeOK
  <2> QED BY <2>2, <2>3, <2>4
<1>7. CASE ConfirmCommitted(c)
  <2>1. /\ UNCHANGED <<intent, attachment, charge, url, odd, request>>
        /\ f = TRUE
    BY <1>7 DEF ConfirmCommitted, ConfirmGo, ConfirmPlay, ConfirmAt
  <2>2. CASE pending' = pending
    <3>1. Stays(u, f)
      BY <1>0, <1>1, <2>1, <2>2, PlayRows DEF Answered
    <3> QED BY <2>1, <3>1 DEF ConfirmPlay
  <2>3. CASE Holds(pending[u], c) /\ pending' = [pending EXCEPT ![u].quota = "committed"]
    <3> DEFINE r == [pending[u] EXCEPT !.quota = "committed"]
    <3>1. pending[u] # None /\ pending[u] \in Admission
      BY <2>3, RowKinds DEF Holds
    <3>2. r # None
      BY <3>1, ReleasedRows DEF QuotaState
    <3>3. r.quota = "committed" /\ pending'[u] = r
      BY <2>3, <3>1 DEF Admission, TypeOK
    <3> HIDE DEF r
    <3>4. url[u] # "none" /\ charge[u] = "committed"
      BY <1>7, <2>3 DEF ConfirmCommitted, ConfirmInv, ConfirmAt
    <3>5. intent[u] = None
      BY <3>1 DEF KeyInv, RowInv
    <3>6. Fits(ReleaseKind(pending'[u].quota), u, f)
      BY <2>1, <3>3, <3>4, RowKinds, SettleValue DEF Fits, Gives, Whole, Final, ReleaseKind
    <3>7. KeyPlay(u, f)' /\ Answered(u)'
      BY <1>1, <2>1, <3>2, <3>3, <3>4, <3>5, <3>6, PlayQuota
    <3>8. Stays(u, f)
      BY <1>0, <2>1, <3>7 DEF Stays
    <3> QED BY <2>1, <3>8 DEF ConfirmPlay
  <2> QED BY <1>7, <2>2, <2>3 DEF ConfirmCommitted
<1>8. CASE ConfirmInsert(c)
  <2>1. UNCHANGED <<intent, charge, url, odd, request>> /\ url[u] # "none"
    BY <1>8 DEF ConfirmInsert, ConfirmGo, ConfirmEnd, ConfirmInv, ConfirmAt
  <2>2. ConfirmPlay(c, u, f)'
    BY <1>2, <1>3, <1>8 DEF ConfirmInsert
  <2>3. CASE UNCHANGED <<attachment, pending>>
    BY <1>0, <1>1, <2>1, <2>2, <2>3, PlayRows DEF Answered
  <2>4. CASE Holds(pending[u], c) /\ attachment'[u] = "present" /\ pending'[u] = None
    <3>1. intent[u] = None
      BY <2>4 DEF Holds, KeyInv, RowInv
    <3>2. KeyPlay(u, f)' /\ Answered(u)'
      BY <1>1, <2>1, <2>4, <3>1 DEF KeyPlay, Goes, Answered
    <3> QED BY <1>0, <2>1, <2>2, <3>2 DEF Stays
  <2> QED BY <1>8, <2>3, <2>4 DEF ConfirmInsert, TypeOK
<1>9. CASE ConfirmAbandon(c)
  <2>1. UNCHANGED <<charge, url, odd, request>>
    BY <1>9 DEF ConfirmAbandon, ConfirmEnd
  <2>2. ConfirmPlay(c, u, f)'
    BY <1>3, <1>9 DEF ConfirmAbandon
  <2>3. CASE Proven(c)
    <3>1. pending[u] # None /\ pending[u] \in Admission
      BY <2>3, RowKinds DEF Proven, Holds
    <3>2. /\ StagePending(u, pending[u].quota, pending[u].issued)
          /\ pending[u].quota \in QuotaState \cup Release /\ pending[u].issued \in BOOLEAN
      BY <1>9, <2>3, <3>1 DEF ConfirmAbandon, Admission
    <3>3. Fits(ReleaseKind(pending[u].quota), u, f)
      BY <3>1 DEF KeyPlay
    <3> QED BY <1>1, <2>1, <2>2, <3>2, <3>3, PlayStage
  <2>4. CASE UNCHANGED <<pending, intent, attachment>>
    BY <1>0, <1>1, <2>1, <2>2, <2>4, PlayRows DEF Answered
  <2> QED BY <1>9, <2>3, <2>4 DEF ConfirmAbandon
<1>10. CASE ConfirmRelease(c)
  <2>1. UNCHANGED <<intent, attachment, charge, url, odd, request>>
    BY <1>10 DEF ConfirmRelease, ConfirmEnd
  <2>2. ConfirmPlay(c, u, f)'
    BY <1>3, <1>10 DEF ConfirmRelease
  <2>3. \/ pending' = pending
        \/ pending[u] # None /\ pending' = [pending EXCEPT ![u] = Released(pending[u])]
    BY <1>10 DEF ConfirmRelease, Update
  <2>4. \/ pending'[u] = pending[u]
        \/ pending[u] # None /\ pending'[u] # None /\ pending'[u].quota = pending[u].quota
    <3>1. pending[u] # None => Released(pending[u]).quota = pending[u].quota
      BY RowKinds DEF Released, Admission
    <3>2. pending[u] # None => Released(pending[u]) # None
      BY RowKinds, ReleasedRows
    <3> QED BY <2>3, <3>1, <3>2 DEF TypeOK
  <2> QED BY <1>0, <1>1, <2>1, <2>2, <2>4, PlayRows DEF Answered
<1> QED BY <1>4, <1>5, <1>6, <1>7, <1>8, <1>9, <1>10 DEF ConfirmStep

LEMMA SweepGoes ==
    ASSUME TypeOK, NEW w \in Task, NEW u \in Upload, NEW f \in BOOLEAN, u = T(w), task[w].pc \in Sweeping,
           TaskPlay(w, u, f), Stays(u, f), task'[w].pc \in Sweeping, task'[w].upload = u,
           Gives(ReleaseKind(task'[w].quota), charge'[u], f),
           task'[w].pc \in {"reserve", "reserved"} => task'[w].quota = "reserve_pending",
           task'[w].pc \in {"finalize", "finalized"} => task'[w].quota = "finalize_pending",
           task'[w].pc = "reserved" => charge'[u] # "none",
           task'[w].pc = "finalized" => charge'[u] \in {"committed", "released"}
    PROVE  TaskPlay(w, u, f)'
<1>1. ~Answered(u)' => charge'[u] = "released"
  BY DEF TaskPlay, AtWork, Stays, Keeps
<1>2. task'[w].pc \notin Draining
  BY DEF Sweeping, Draining
<1> QED BY <1>1, <1>2 DEF TaskPlay, SweepPlay, DrainPlay, Fits, TaskAt

LEMMA DrainGoes ==
    ASSUME TypeOK, NEW w \in Task, NEW u \in Upload, NEW f \in BOOLEAN, u = T(w), task[w].pc \in Draining,
           DrainInv(w), TaskPlay(w, u, f), Stays(u, f), task'[w].pc \in Draining, task'[w].upload = u,
           task'[w].quota = task[w].quota, task'[w].pc = "ack" => charge'[u] = "released"
    PROVE  TaskPlay(w, u, f)'
<1>1. ~Answered(u)' => charge'[u] = "released"
  BY DEF TaskPlay, AtWork, Stays, Keeps
<1>2. task'[w].pc \notin Sweeping
  BY DEF Sweeping, Draining
<1>3. task[w].quota \in Release /\ Fits(task[w].quota, u, f)
  BY DEF DrainInv, TaskPlay, DrainPlay, AtWork
<1>4. Gives(task'[w].quota, charge'[u], f)
  BY <1>3, FitsKept DEF Stays
<1> QED BY <1>1, <1>2, <1>4 DEF TaskPlay, SweepPlay, DrainPlay, Fits, TaskAt

LEMMA SweepLedger ==
    ASSUME TypeOK, metered, NEW w \in Task, NEW u \in Upload, u = T(w), u \notin odd.refused,
           NEW f \in BOOLEAN, SweepInv(w), KeyInv(u), KeyPlay(u, f), TaskPlay(w, u, f),
           task[w].pc \in Sweeping, TaskStep(w)
    PROVE  u \in odd'.refused \/ (Stays(u, f) /\ TaskPlay(w, u, f)')
<1>0. Keeps(charge[u], charge[u], f)
  BY KeepsSame
<1>1. ASSUME UNCHANGED <<url, request>>, odd'.overrun = odd.overrun
      PROVE  Goes(u)
  BY <1>1 DEF Goes, KeyPlay
<1>2. /\ Fits(ReleaseKind(task[w].quota), u, f) /\ SweepPlay(w, u, f)
      /\ ~Answered(u) => charge[u] = "released"
      /\ task[w].quota \in QuotaState \cup Release /\ ReleaseKind(task[w].quota) \in Release
  BY ReleaseKindType DEF TaskPlay, SweepPlay, AtWork, TypeOK, CleanupTask
<1>3. ASSUME NEW pc \in {"reserved", "finalized", "sweepFailed"}, TaskGo(w, pc), Stays(u, f),
             pc = "reserved" => charge'[u] # "none" /\ task[w].quota = "reserve_pending",
             pc = "finalized" => charge'[u] \in {"committed", "released"} /\ task[w].quota = "finalize_pending"
      PROVE  TaskPlay(w, u, f)'
  <2>1. task'[w].pc = pc /\ task'[w].upload = u /\ task'[w].quota = task[w].quota
    BY <1>3 DEF TaskGo, TaskSet, TypeOK, CleanupTask, T
  <2>2. Gives(ReleaseKind(task'[w].quota), charge'[u], f)
    BY <1>2, <1>3, <2>1, FitsKept DEF Stays
  <2>3. pc \in Sweeping
    BY DEF Sweeping
  <2> QED BY <1>3, <2>1, <2>2, <2>3, SweepGoes
<1>4. ASSUME TaskEnd(w)
      PROVE  TaskPlay(w, u, f)'
  BY <1>4 DEF TaskEnd, TaskSet, IdleTask, TypeOK, TaskPlay, AtWork, Sweeping, Draining
<1>5. CASE SweepReserve(w)
  <2>1. /\ UNCHANGED <<pending, intent, attachment, url, odd, request>>
        /\ TaskAt(w, "reserve")
        /\ \/ charge'[u] = Reserve(charge[u]) /\ TaskGo(w, "reserved")
           \/ charge'[u] \in {charge[u], Reserve(charge[u])} /\ TaskGo(w, "sweepFailed")
    BY <1>5 DEF SweepReserve, SweepCall, TaskGo, TaskSet, TypeOK
  <2>2. Keeps(charge[u], charge'[u], f)
    BY <1>0, <2>1, KeepsReserve, RowKinds
  <2>3. Stays(u, f)
    BY <1>1, <1>2, <2>1, <2>2, PlayRows DEF Answered
  <2>4. task[w].quota = "reserve_pending" /\ Reserve(charge[u]) # "none"
    BY <1>2, <2>1 DEF SweepPlay, TaskAt, Reserve
  <2> QED BY <1>3, <2>1, <2>3, <2>4
<1>6. CASE SweepFinalize(w)
  <2>1. /\ UNCHANGED <<pending, intent, attachment, url, odd, request>>
        /\ TaskAt(w, "finalize")
        /\ \/ charge'[u] = Finalize(charge[u]) /\ TaskGo(w, "finalized")
           \/ charge'[u] \in {charge[u], Finalize(charge[u])} /\ TaskGo(w, "sweepFailed")
    BY <1>6 DEF SweepFinalize, SweepCall, TaskGo, TaskSet, TypeOK
  <2>2. task[w].quota = "finalize_pending"
    BY <1>2, <2>1 DEF SweepPlay, TaskAt
  <2>3. f = TRUE /\ charge[u] # "none"
    BY <1>2, <2>2, RowKinds, SettleValue DEF Fits, Gives, Whole, Final, ReleaseKind
  <2>4. Keeps(charge[u], charge'[u], f)
    BY <1>0, <2>1, <2>3, KeepsFinalize, RowKinds
  <2>5. Stays(u, f)
    BY <1>1, <1>2, <2>1, <2>4, PlayRows DEF Answered
  <2>6. Finalize(charge[u]) \in {"committed", "released"}
    BY <2>3, RowKinds DEF Finalize, Charge
  <2> QED BY <1>3, <2>1, <2>2, <2>5, <2>6
<1>7. CASE SweepRefused(w)
  BY <1>7 DEF SweepRefused, TypeOK
<1>8. ASSUME NEW pc \in {"reserved", "finalized"}, NEW q \in QuotaState, SweepRecord(w, pc, q),
             Gives(ReleaseKind(q), charge[u], f), q \notin {"reserve_pending", "finalize_pending"}
      PROVE  Stays(u, f) /\ TaskPlay(w, u, f)'
  <2>1. UNCHANGED <<intent, attachment, charge, url, odd, request>>
    BY <1>8 DEF SweepRecord, TaskGo, TaskSet
  <2>2. Stays(u, f)
    <3>1. CASE pending' = pending
      BY <1>0, <1>1, <2>1, <3>1, PlayRows DEF Answered
    <3>2. CASE Holds(pending[u], w) /\ pending' = [pending EXCEPT ![u].quota = q]
      <4> DEFINE r == [pending[u] EXCEPT !.quota = q]
      <4>1. pending[u] # None /\ pending[u] \in Admission
        BY <3>2, RowKinds DEF Holds
      <4>2. r # None
        BY <4>1, ReleasedRows
      <4>3. r.quota = q /\ pending'[u] = r
        BY <3>2, <4>1 DEF Admission, TypeOK
      <4> HIDE DEF r
      <4>4. intent[u] = None
        BY <4>1 DEF KeyInv, RowInv
      <4>5. Fits(ReleaseKind(pending'[u].quota), u, f)
        BY <1>8, <4>3 DEF Fits
      <4>6. f => url'[u] # "none"
        BY <2>1 DEF KeyPlay
      <4>7. KeyPlay(u, f)' /\ Answered(u)'
        BY <1>1, <2>1, <4>2, <4>3, <4>4, <4>5, <4>6, PlayQuota
      <4> QED BY <1>0, <2>1, <4>7 DEF Stays
    <3> QED BY <1>8, <3>1, <3>2 DEF SweepRecord
  <2>3. CASE TaskGo(w, "sweepFailed")
    BY <1>3, <2>2, <2>3
  <2>4. CASE TaskSet(w, [task[w] EXCEPT !.pc = "stage", !.quota = q])
    <3>1. task'[w].pc = "stage" /\ task'[w].upload = u /\ task'[w].quota = q
      BY <2>4 DEF TaskSet, TypeOK, CleanupTask, T
    <3>2. Gives(ReleaseKind(task'[w].quota), charge'[u], f)
      BY <1>8, <2>1, <3>1
    <3>3. "stage" \in Sweeping
      BY DEF Sweeping
    <3> QED BY <2>2, <3>1, <3>2, <3>3, SweepGoes
  <2> QED BY <1>8, <2>2, <2>3, <2>4 DEF SweepRecord
<1>9. CASE SweepReserved(w)
  <2>1. task[w].quota = "reserve_pending" /\ charge[u] # "none"
    BY <1>2, <1>9 DEF SweepReserved, SweepRecord, SweepPlay, TaskAt
  <2>2. f = FALSE /\ charge[u] \in {"reserved", "released"}
    BY <1>2, <2>1, RowKinds, SettleValue DEF Fits, Gives, Whole, Final, ReleaseKind, Charge
  <2>3. Gives(ReleaseKind("reserved"), charge[u], f)
    BY <2>2, RowKinds, SettleValue DEF Gives, Whole, Final, ReleaseKind
  <2> QED BY <1>8, <1>9, <2>3 DEF SweepReserved, QuotaState
<1>10. CASE SweepFinalized(w)
  <2>1. task[w].quota = "finalize_pending" /\ charge[u] \in {"committed", "released"}
    BY <1>2, <1>10 DEF SweepFinalized, SweepRecord, SweepPlay, TaskAt
  <2>2. f = TRUE
    BY <1>2, <2>1 DEF Fits, Gives, Whole, Final, ReleaseKind
  <2>3. Gives(ReleaseKind("committed"), charge[u], f)
    BY <2>1, <2>2, RowKinds, SettleValue DEF Gives, Whole, Final, ReleaseKind
  <2> QED BY <1>8, <1>10, <2>3 DEF SweepFinalized, QuotaState
<1>11. CASE SweepStage(w)
  <2>1. UNCHANGED <<charge, url, odd, request>>
    BY <1>11 DEF SweepStage, TaskEnd, TaskGo, TaskSet
  <2>2. CASE StagePending(u, task[w].quota, task[w].issued) /\ TaskEnd(w)
    <3>1. task[w].issued \in BOOLEAN
      BY DEF TypeOK, CleanupTask
    <3> QED BY <1>1, <1>2, <1>4, <2>1, <2>2, <3>1, PlayStage
  <2>3. CASE TaskGo(w, "sweepFailed") /\ UNCHANGED <<pending, intent, attachment>>
    <3>1. Stays(u, f)
      BY <1>0, <1>1, <2>1, <2>3, PlayRows DEF Answered
    <3> QED BY <1>3, <2>3, <3>1
  <2> QED BY <1>11, <2>2, <2>3 DEF SweepStage
<1>12. CASE SweepFailed(w)
  <2>1. UNCHANGED <<intent, attachment, charge, url, odd, request>> /\ TaskEnd(w)
    BY <1>12 DEF SweepFailed, TaskEnd, TaskSet
  <2> DEFINE r == [pending[u] EXCEPT !.owner = None, !.live = TRUE]
  <2>2. pending' = pending \/ (pending[u] # None /\ pending' = [pending EXCEPT ![u] = r])
    BY <1>12 DEF SweepFailed, Update
  <2>3. pending[u] # None => r # None /\ r.quota = pending[u].quota
    <3>1. pending[u] # None => r \in Admission /\ r.quota = pending[u].quota
      BY RowKinds DEF Admission
    <3> QED BY <3>1, RowAssumption
  <2> HIDE DEF r
  <2>4. \/ pending'[u] = pending[u]
        \/ pending[u] # None /\ pending'[u] # None /\ pending'[u].quota = pending[u].quota
    BY <2>2, <2>3 DEF TypeOK
  <2>5. Stays(u, f)
    BY <1>0, <1>1, <2>1, <2>4, PlayRows DEF Answered
  <2> QED BY <1>4, <2>1, <2>5
<1>13. ~(DrainDelete(w) \/ DrainDefer(w) \/ DrainSettle(w) \/ DrainRefused(w) \/ DrainAck(w) \/ DrainFailed(w))
  BY DEF DrainDelete, DrainDefer, DrainSettle, DrainRefused, DrainAck, DrainFailed, TaskAt, Sweeping
<1> QED BY <1>5, <1>6, <1>7, <1>9, <1>10, <1>11, <1>12, <1>13 DEF TaskStep

LEMMA DrainLedger ==
    ASSUME TypeOK, metered, NEW w \in Task, NEW u \in Upload, u = T(w), u \notin odd.refused,
           NEW f \in BOOLEAN, DrainInv(w), KeyPlay(u, f), TaskPlay(w, u, f),
           task[w].pc \in Draining, TaskStep(w)
    PROVE  u \in odd'.refused \/ (Stays(u, f) /\ TaskPlay(w, u, f)')
<1>0. Keeps(charge[u], charge[u], f)
  BY KeepsSame
<1>1. ASSUME UNCHANGED <<url, request>>, odd'.overrun = odd.overrun
      PROVE  Goes(u)
  BY <1>1 DEF Goes, KeyPlay
<1>2. /\ task[w].quota \in Release /\ Fits(task[w].quota, u, f) /\ DrainPlay(w, u, f)
      /\ ~Answered(u) => charge[u] = "released"
  BY DEF DrainInv, TaskPlay, DrainPlay, AtWork
<1>3. ASSUME NEW pc \in {"settle", "defer", "ack", "drainFailed"}, TaskGo(w, pc), Stays(u, f),
             pc = "ack" => charge'[u] = "released"
      PROVE  TaskPlay(w, u, f)'
  <2>1. task'[w].pc = pc /\ task'[w].upload = u /\ task'[w].quota = task[w].quota
    BY <1>3 DEF TaskGo, TaskSet, TypeOK, CleanupTask, T
  <2>2. pc \in Draining
    BY DEF Draining
  <2> QED BY <1>3, <2>1, <2>2, DrainGoes
<1>4. ASSUME TaskEnd(w)
      PROVE  TaskPlay(w, u, f)'
  BY <1>4 DEF TaskEnd, TaskSet, IdleTask, TypeOK, TaskPlay, AtWork, Sweeping, Draining
<1>5. CASE DrainDelete(w)
  <2>1. /\ UNCHANGED <<pending, intent, attachment, charge, url, request>>
        /\ odd'.overrun = odd.overrun
        /\ TaskGo(w, "settle") \/ TaskGo(w, "defer") \/ TaskGo(w, "drainFailed")
    BY <1>5 DEF DrainDelete, TaskGo, TaskSet, TypeOK
  <2>2. Stays(u, f)
    BY <1>0, <1>1, <2>1, PlayRows DEF Answered
  <2> QED BY <1>3, <2>1, <2>2
<1>6. CASE DrainDefer(w) \/ DrainFailed(w)
  <2>1. UNCHANGED <<pending, attachment, charge, url, odd, request>> /\ TaskEnd(w)
    BY <1>6 DEF DrainDefer, DrainFailed, TaskEnd, TaskSet
  <2>2. intent'[u] = intent[u] \/ (intent[u] # None /\ Alike(intent[u], intent'[u]))
    BY <1>6, LeasedRows
  <2>3. Stays(u, f)
    BY <1>0, <1>1, <2>1, <2>2, PlayRows DEF Answered, Alike
  <2> QED BY <1>4, <2>1, <2>3
<1>7. CASE DrainSettle(w)
  <2>1. /\ UNCHANGED <<pending, intent, attachment, url, odd, request>>
        /\ \/ charge'[u] = Settle(task[w].quota, charge[u]) /\ TaskGo(w, "ack")
           \/ charge'[u] \in PartOf(task[w].quota, charge[u]) /\ TaskGo(w, "drainFailed")
    BY <1>7 DEF DrainSettle, TaskGo, TaskSet, TypeOK
  <2>2. Settle(task[w].quota, charge[u]) = "released" /\ Whole(f, task[w].quota)
    BY <1>2 DEF Fits, Gives
  <2>3. charge'[u] \in PartOf(task[w].quota, charge[u])
    BY <2>1 DEF PartOf
  <2>4. Keeps(charge[u], charge'[u], f)
    BY <1>2, <2>2, <2>3, KeepsSettle, RowKinds
  <2>5. Stays(u, f)
    BY <1>1, <1>2, <2>1, <2>4, PlayRows DEF Answered
  <2> QED BY <1>3, <2>1, <2>2, <2>5
<1>8. CASE DrainRefused(w)
  BY <1>8 DEF DrainRefused, TypeOK
<1>9. CASE DrainAck(w)
  <2>1. UNCHANGED <<pending, attachment, charge, url, odd, request>> /\ TaskEnd(w)
    BY <1>9 DEF DrainAck, TaskEnd, TaskSet
  <2>2. intent'[u] \in {None, intent[u]}
    BY <1>9 DEF DrainAck, LeasedIntent, TypeOK
  <2>3. charge[u] = "released"
    BY <1>2, <1>9 DEF DrainAck, DrainPlay
  <2>4. KeyPlay(u, f)'
    BY <1>1, <2>1, <2>2, <2>3 DEF KeyPlay, Goes, Fits
  <2> QED BY <1>0, <1>4, <2>1, <2>3, <2>4 DEF Stays
<1>10. ~(SweepReserve(w) \/ SweepReserved(w) \/ SweepFinalize(w) \/ SweepFinalized(w)
         \/ SweepRefused(w) \/ SweepStage(w) \/ SweepFailed(w))
  BY DEF SweepReserve, SweepReserved, SweepFinalize, SweepFinalized, SweepRefused, SweepStage,
         SweepFailed, SweepCall, SweepRecord, TaskAt, Draining
<1> QED BY <1>5, <1>6, <1>7, <1>8, <1>9, <1>10 DEF TaskStep

\* A deletion: the intent that takes the attachment's place gives its charge back.
LEMMA DropLedger ==
    ASSUME TypeOK, metered, NEW u \in Upload, NEW f \in BOOLEAN, KeyInv(u), KeyPlay(u, f),
           \A w \in Task : SweepInv(w) /\ DrainInv(w), NEW S, Drop(S), u \in S,
           attachment[u] = "present", UNCHANGED <<pending, charge, url, odd, request>>
    PROVE  Turns(u)
<1> DEFINE r == NewIntent("attachment", IF metered THEN "committed" ELSE "none", FALSE, "now")
<1>1. attachment'[u] = "deleted" /\ intent'[u] = r
  BY DEF Drop
<1>2. r # None /\ r.release = "committed"
  BY NewIntentType, RowAssumption DEF Source, Release, Due, NewIntent
<1> HIDE DEF r
<1>3. pending[u] = None
  BY DEF KeyInv, RowInv
<1>4. charge[u] = "committed" /\ url[u] # "none"
  BY DEF KeyInv, WholeInv, KeyPlay
<1>5. Gives(intent'[u].release, charge'[u], TRUE)
  BY <1>1, <1>2, <1>4, SettleValue, RowKinds DEF Gives, Whole, Final
<1>6. KeyPlay(u, TRUE)'
  BY <1>1, <1>2, <1>3, <1>4, <1>5 DEF KeyPlay, Fits, Answered
<1>7. \A w \in Task : ~AtWork(w, u)
  BY Alone DEF KeyPlay
<1> QED BY <1>6, <1>7 DEF Turns

LEMMA KeyLedger ==
    ASSUME TypeOK, metered, NEW u \in Upload, u \notin odd.refused, NEW f \in BOOLEAN,
           KeyInv(u), KeyPlay(u, f), \A w \in Task : SweepInv(w) /\ DrainInv(w), KeyStep(u)
    PROVE  Stays(u, f) \/ Turns(u)
<1>0. Keeps(charge[u], charge[u], f)
  BY KeepsSame
<1>1. ASSUME UNCHANGED request, url[u] = "none" => url'[u] = "none", url[u] # "none" => url'[u] # "none",
             odd'.overrun = odd.overrun
      PROVE  Goes(u)
  BY <1>1 DEF Goes, KeyPlay
<1>2. CASE Put(u) \/ Expire(u) \/ UrlDies(u)
  <2>1. /\ UNCHANGED <<pending, intent, attachment, charge, request>>
        /\ odd'.overrun = odd.overrun
        /\ url'[u] = url[u] \/ (url[u] = "live" /\ url'[u] = "dead")
    BY <1>2 DEF Put, Expire, UrlDies, TypeOK
  <2>2. Goes(u)
    BY <1>1, <2>1
  <2> QED BY <1>0, <2>1, <2>2, PlayRows DEF Answered
<1>4. CASE Delete(u)
  BY <1>4, DropLedger DEF Delete
<1>5. CASE PendingLapse(u) \/ (\E c \in Confirmer : ConfirmClaim(c, u)) \/ (\E w \in Task : SweepClaim(w, u))
  <2>1. UNCHANGED <<intent, attachment, charge, url, odd, request>>
    BY <1>5 DEF PendingLapse, ConfirmClaim, SweepClaim, TaskSet
  <2>2. pending[u] # None /\ pending[u] \in Admission
    BY <1>5, RowKinds DEF PendingLapse, ConfirmClaim, SweepClaim, Claimable, Sweepable
  <2>3. pending'[u] # None /\ pending'[u].quota = pending[u].quota
    <3>1. PICK o \in {None} \cup Confirmer \cup Task, l \in BOOLEAN :
             \/ pending' = pending
             \/ pending' = [pending EXCEPT ![u] = [pending[u] EXCEPT !.live = FALSE]]
             \/ pending' = [pending EXCEPT ![u] = [pending[u] EXCEPT !.owner = o, !.live = l]]
      BY <1>5 DEF PendingLapse, ConfirmClaim, SweepClaim
    <3>2. /\ [pending[u] EXCEPT !.live = FALSE] \in Admission
          /\ [pending[u] EXCEPT !.live = FALSE].quota = pending[u].quota
      BY <2>2 DEF Admission
    <3>3. /\ [pending[u] EXCEPT !.owner = o, !.live = l] \in Admission
          /\ [pending[u] EXCEPT !.owner = o, !.live = l].quota = pending[u].quota
      BY <2>2 DEF Admission
    <3>4. pending'[u] \in Admission /\ pending'[u].quota = pending[u].quota
      BY <2>2, <3>1, <3>2, <3>3 DEF TypeOK
    <3> QED BY <3>4, RowAssumption
  <2> QED BY <1>0, <1>1, <2>1, <2>2, <2>3, PlayRows DEF Answered
<1>6. CASE IntentLapse(u) \/ DueNow(u) \/ (\E w \in Task : DrainClaim(w, u))
  <2>1. UNCHANGED <<pending, attachment, charge, url, request>>
    BY <1>6 DEF IntentLapse, DueNow, DrainClaim, TaskSet
  <2>2. odd'.overrun = odd.overrun
    BY <1>6 DEF IntentLapse, DueNow, DrainClaim, KeyInv, ChargeInv
  <2>3. intent[u] # None /\ intent[u] \in Intent
    BY <1>6, RowKinds DEF IntentLapse, DueNow, DrainClaim, Drainable
  <2>4. Alike(intent[u], intent'[u])
    <3>0. CASE DueNow(u)
      BY <2>3, <3>0, IntentRows DEF DueNow, TypeOK, Due
    <3>1. CASE IntentLapse(u)
      BY <2>3, <3>1, IntentRows DEF IntentLapse, TypeOK
    <3>2. ASSUME NEW w \in Task, DrainClaim(w, u)
          PROVE  Alike(intent[u], intent'[u])
      <4>1. intent'[u] = [intent[u] EXCEPT !.owner = w, !.live = TRUE]
        BY <3>2 DEF DrainClaim, TypeOK
      <4>2. Alike(intent[u], [intent[u] EXCEPT !.owner = w, !.live = TRUE])
        BY <2>3, IntentRows
      <4> QED BY <4>1, <4>2
    <3> QED BY <1>6, <3>0, <3>1, <3>2
  <2> QED BY <1>0, <1>1, <2>1, <2>2, <2>3, <2>4, PlayRows DEF Answered, Alike
<1> QED BY <1>2, <1>4, <1>5, <1>6 DEF KeyStep, TaskClaim, Clock

LEMMA PurgeLedger ==
    ASSUME TypeOK, metered, NEW u \in Upload, u \notin odd.refused, NEW f \in BOOLEAN,
           KeyInv(u), KeyPlay(u, f), \A w \in Task : SweepInv(w) /\ DrainInv(w), NEW a \in Account,
           PurgeFence(a) \/ PurgeSettle(a) \/ PurgeSettled(a) \/ PurgeDelete(a) \/ PurgeDone(a)
    PROVE  Stays(u, f) \/ Turns(u)
<1>0. Keeps(charge[u], charge[u], f)
  BY KeepsSame
<1>1. UNCHANGED <<charge, url, odd, request>>
  BY DEF PurgeFence, PurgeSettle, PurgeSettled, PurgeDelete, PurgeDone
<1>2. Goes(u)
  BY <1>1 DEF Goes, KeyPlay
<1>3. CASE pending'[u] = pending[u] /\ intent'[u] = intent[u] /\ attachment'[u] = attachment[u]
  BY <1>0, <1>1, <1>2, <1>3, PlayRows DEF Answered
<1>4. CASE PurgeSettle(a) /\ u \in Of(a) /\ pending[u] # None
  <2> DEFINE r == NewIntent("pending_upload", ReleaseKind(pending[u].quota), pending[u].issued, "now")
  <2>1. /\ attachment' = attachment /\ pending'[u] = None
        /\ intent'[u] = IF intent[u] = None THEN r ELSE intent[u]
    BY <1>4 DEF PurgeSettle
  <2>2. pending[u].quota \in QuotaState /\ pending[u].issued \in BOOLEAN
    BY <1>4, RowKinds DEF Admission
  <2>3. r \in Intent /\ r.release = ReleaseKind(pending[u].quota)
    BY <2>2, NewIntentType, ReleaseKindType DEF Source, Due, NewIntent
  <2>4. r # None
    BY <2>3, RowAssumption
  <2> HIDE DEF r
  <2>5. Fits(intent'[u].release, u, f)
    BY <1>4, <2>1, <2>3 DEF KeyPlay
  <2>6. Gives(intent'[u].release, charge'[u], f) /\ Answered(u)'
    BY <1>1, <2>1, <2>4, <2>5 DEF Fits, Answered
  <2>7. KeyPlay(u, f)'
    BY <1>1, <1>2, <2>1, <2>6 DEF KeyPlay, Goes, Fits
  <2> QED BY <1>0, <1>1, <2>6, <2>7 DEF Stays
<1>5. CASE PurgeDelete(a) /\ u \in Of(a) /\ attachment[u] = "present"
  BY <1>1, <1>5, DropLedger DEF PurgeDelete
<1> QED BY <1>3, <1>4, <1>5 DEF PurgeFence, PurgeSettle, PurgeSettled, PurgeDelete, PurgeDone, Drop

LEMMA RefusedStays == ASSUME TypeOK, Next PROVE odd.refused \subseteq odd'.refused
<1>1. ASSUME NEW u \in Upload, UploadStep(u)
      PROVE  odd.refused \subseteq odd'.refused
  <2>1. odd' = odd \/ odd' = [odd EXCEPT !.refused = @ \cup {u}]
    BY <1>1 DEF UploadStep, Presign, PresignReserve, Refuses, PresignNotReserved, PresignReserved,
                PresignIssue, PresignLost, LegacyStage, LegacyPut, LegacyInsert, LegacyUndo
  <2> QED BY <2>1 DEF TypeOK
<1>2. ASSUME NEW u \in Upload, KeyStep(u)
      PROVE  odd.refused \subseteq odd'.refused
  <2>1. CASE UNCHANGED odd
    BY <2>1
  <2>2. CASE Put(u) \/ DueNow(u)
    BY <2>2 DEF Put, DueNow, TypeOK
  <2> QED BY <1>2, <2>1, <2>2 DEF KeyStep, Delete, TaskClaim, SweepClaim, DrainClaim,
              ConfirmClaim, Clock, Expire, UrlDies, PendingLapse, IntentLapse
<1>3. ASSUME NEW c \in Confirmer, ConfirmStep(c)
      PROVE  odd.refused \subseteq odd'.refused
  BY <1>3 DEF TypeOK, ConfirmStep, ConfirmHead, ConfirmFinalize, ConfirmCommit, ConfirmCommitted,
              ConfirmInsert, ConfirmAbandon, ConfirmRelease
<1>4. ASSUME NEW w \in Task, TaskStep(w)
      PROVE  odd.refused \subseteq odd'.refused
  <2>1. CASE UNCHANGED odd
    BY <2>1
  <2>2. CASE SweepRefused(w) \/ DrainRefused(w) \/ DrainDelete(w)
    BY <2>2 DEF SweepRefused, DrainRefused, DrainDelete, TypeOK
  <2> QED BY <1>4, <2>1, <2>2 DEF TaskStep, SweepReserve, SweepReserved, SweepFinalize, SweepFinalized,
         SweepStage, SweepFailed, DrainDefer, DrainSettle, DrainAck, DrainFailed, SweepCall, SweepRecord
<1>5. ASSUME NEW a \in Account,
             PurgeFence(a) \/ PurgeSettle(a) \/ PurgeSettled(a) \/ PurgeDelete(a) \/ PurgeDone(a)
      PROVE  odd.refused \subseteq odd'.refused
  BY <1>5 DEF PurgeFence, PurgeSettle, PurgeSettled, PurgeDelete, PurgeDone
<1>6. CASE Crash
  BY <1>6 DEF Crash
<1> QED BY <1>1, <1>2, <1>3, <1>4, <1>5, <1>6 DEF Next, KeyStep

\* What a key's own rows and charge do in a step, by whoever's step it is.
LEMMA EveryLedger ==
    ASSUME IInv, Next, ~Crash, metered, NEW v \in Upload, v \notin odd'.refused, NEW f \in BOOLEAN,
           InPlay(v, f)
    PROVE  Stays(v, f) \/ Turns(v)
<1>1. /\ TypeOK /\ Busy /\ KeyInv(v) /\ KeyPlay(v, f)
      /\ \A w \in Task : SweepInv(w) /\ DrainInv(w)
  BY IInvBusy DEF IInv, KeyInv, WholeInv, AttachmentIsWhole, InPlay
<1>2. v \notin odd.refused
  BY <1>1, RefusedStays
<1>3. Same(v) => Stays(v, f)
  BY <1>1, SamePlay
<1>4. ASSUME NEW u \in Upload, UploadStep(u) \/ KeyStep(u)
      PROVE  Stays(v, f) \/ Turns(v)
  <2>1. CASE u = v
    BY <1>1, <1>2, <1>4, <2>1, UploadPlay, KeyLedger DEF Play
  <2>2. CASE u # v
    BY <1>1, <1>3, <1>4, <2>2, UploadElsewhere, KeyElsewhere
  <2> QED BY <2>1, <2>2
<1>5. ASSUME NEW c \in Confirmer, U(c) \in Upload, ConfirmStep(c)
      PROVE  Stays(v, f) \/ Turns(v)
  <2>1. ConfirmInv(c) /\ ConfirmPlay(c, v, f)
    BY DEF IInv, InPlay
  <2>2. CASE v = U(c)
    BY <1>1, <1>2, <1>5, <2>1, <2>2, ConfirmLedger
  <2> QED BY <1>1, <1>3, <1>5, <2>2, ConfirmElsewhere
<1>6. ASSUME NEW w \in Task, T(w) \in Upload, TaskStep(w)
      PROVE  Stays(v, f) \/ Turns(v)
  <2>1. SweepInv(w) /\ DrainInv(w) /\ TaskPlay(w, v, f)
    BY DEF IInv, InPlay
  <2>2. task[w].pc \in Sweeping \cup Draining
    BY <1>6 DEF TaskStep, SweepReserve, SweepReserved, SweepFinalize, SweepFinalized,
         SweepRefused, SweepStage, SweepFailed, DrainDelete, DrainDefer, DrainSettle, DrainRefused,
         DrainAck, DrainFailed, SweepCall, SweepRecord, TaskAt, Sweeping, Draining
  <2>3. CASE v = T(w)
    BY <1>1, <1>2, <1>6, <2>1, <2>2, <2>3, SweepLedger, DrainLedger
  <2> QED BY <1>1, <1>3, <1>6, <2>3, TaskElsewhere
<1>7. ASSUME NEW a \in Account,
             PurgeFence(a) \/ PurgeSettle(a) \/ PurgeSettled(a) \/ PurgeDelete(a) \/ PurgeDone(a)
      PROVE  Stays(v, f) \/ Turns(v)
  BY <1>1, <1>2, <1>7, PurgeLedger
<1> QED BY <1>1, <1>4, <1>5, <1>6, <1>7, StepCases

\* Tasks that a step leaves alone, or that claim the key.
LEMMA RestsPlay ==
    ASSUME TypeOK, NEW w \in Task, NEW v \in Upload, NEW f \in BOOLEAN, DrainInv(w),
           TaskPlay(w, v, f), Stays(v, f), task'[w] = task[w]
    PROVE  TaskPlay(w, v, f)'
<1>1. CASE ~AtWork(w, v)
  BY <1>1 DEF TaskPlay, AtWork, T
<1>2. CASE AtWork(w, v)
  <2>1. ~Answered(v)' => charge'[v] = "released"
    BY <1>2 DEF TaskPlay, Stays, Keeps
  <2>2. task[w].pc \in Sweeping => Gives(ReleaseKind(task'[w].quota), charge'[v], f)
    <3>1. ReleaseKind(task[w].quota) \in Release
      BY ReleaseKindType DEF TypeOK, CleanupTask
    <3> QED BY <1>2, <3>1, FitsKept DEF TaskPlay, SweepPlay, Stays
  <2>3. task[w].pc \in Draining => Gives(task'[w].quota, charge'[v], f)
    BY <1>2, FitsKept DEF TaskPlay, DrainPlay, DrainInv, Stays
  <2>4. SweepPlay(w, v, f)'
    BY <1>2, <2>2 DEF TaskPlay, SweepPlay, Fits, Stays, Keeps, TaskAt
  <2>5. DrainPlay(w, v, f)'
    BY <1>2, <2>3 DEF TaskPlay, DrainPlay, Fits, Stays, Keeps, TaskAt
  <2> QED BY <2>1, <2>4, <2>5 DEF TaskPlay
<1> QED BY <1>1, <1>2

LEMMA ClaimsPlay ==
    ASSUME TypeOK, NEW w \in Task, NEW u \in Upload, SweepClaim(w, u) \/ DrainClaim(w, u),
           NEW v \in Upload, NEW g \in BOOLEAN, KeyPlay(v, g)'
    PROVE  TaskPlay(w, v, g)'
<1>1. task'[w].upload = u
  BY DEF SweepClaim, DrainClaim, TaskSet, TypeOK
<1>2. CASE u # v
  BY <1>1, <1>2 DEF TaskPlay, AtWork, T
<1>3. CASE u = v /\ SweepClaim(w, u)
  <2>1. task'[w].pc = QuotaStep(pending[u].quota) /\ task'[w].quota = pending[u].quota
    BY <1>3 DEF SweepClaim, TaskSet, TypeOK
  <2>2. pending[u] \in Admission /\ pending'[u] = [pending[u] EXCEPT !.owner = w, !.live = TRUE]
    BY <1>3, RowKinds DEF SweepClaim, Sweepable, TypeOK
  <2>3. pending'[u] \in Admission /\ pending'[u].quota = pending[u].quota
    BY <2>2 DEF Admission
  <2>4. Gives(ReleaseKind(task'[w].quota), charge'[v], g) /\ Answered(v)'
    BY <1>3, <2>1, <2>3, RowAssumption DEF KeyPlay, Fits, Answered
  <2>5. task'[w].pc \in {"reserve", "finalize", "stage"}
    BY <2>1 DEF QuotaStep
  <2>6. /\ task'[w].pc = "reserve" => task'[w].quota = "reserve_pending"
        /\ task'[w].pc = "finalize" => task'[w].quota = "finalize_pending"
    BY <2>1 DEF QuotaStep
  <2> QED BY <2>4, <2>5, <2>6 DEF TaskPlay, SweepPlay, DrainPlay, Fits, TaskAt, Draining
<1>4. CASE u = v /\ DrainClaim(w, u)
  <2>1. task'[w].pc = "delete" /\ task'[w].quota = intent[u].release
    BY <1>4 DEF DrainClaim, TaskSet, TypeOK
  <2>2. intent[u] \in Intent /\ intent'[u] = [intent[u] EXCEPT !.owner = w, !.live = TRUE]
    BY <1>4, RowKinds DEF DrainClaim, Drainable, TypeOK
  <2>3. Alike(intent[u], intent'[u])
    BY <2>2, IntentRows
  <2>4. Gives(task'[w].quota, charge'[v], g) /\ Answered(v)'
    BY <1>4, <2>1, <2>3 DEF KeyPlay, Fits, Answered, Alike
  <2> QED BY <2>1, <2>4 DEF TaskPlay, SweepPlay, DrainPlay, Fits, TaskAt, Sweeping
<1> QED BY <1>2, <1>3, <1>4

LEMMA StagePlay ==
    ASSUME IInv, Next, ~Crash, metered, NEW v \in Upload, v \notin odd'.refused, NEW f \in BOOLEAN,
           InPlay(v, f)
    PROVE  \E g \in BOOLEAN : InPlay(v, g)'
<1>1. /\ TypeOK /\ Busy /\ KeyInv(v) /\ KeyPlay(v, f) /\ v \notin odd.refused
      /\ \A w \in Task : SweepInv(w) /\ DrainInv(w) /\ TaskPlay(w, v, f)
      /\ \A c \in Confirmer : ConfirmInv(c) /\ ConfirmPlay(c, v, f)
  BY IInvBusy, RefusedStays DEF IInv, KeyInv, WholeInv, AttachmentIsWhole, InPlay
<1>2. PICK g \in BOOLEAN : \/ Turns(v) /\ g = TRUE
                           \/ ~Turns(v) /\ Stays(v, f) /\ g = f
  BY EveryLedger
<1>3. KeyPlay(v, g)'
  BY <1>2 DEF Turns, Stays
<1>4. ASSUME NEW c \in Confirmer
      PROVE  ConfirmPlay(c, v, g)'
  <2>1. CASE g = TRUE
    BY <2>1 DEF ConfirmPlay
  <2>2. CASE ~Turns(v) /\ g = f
    <3>1. CASE \E u \in Upload : ConfirmClaim(c, u)
      BY <1>1, <3>1 DEF ConfirmClaim, TypeOK, ConfirmPlay
    <3>2. CASE ConfirmStep(c) /\ U(c) = v
      BY <1>1, <2>2, <3>2, ConfirmLedger
    <3>3. CASE ConfirmStep(c) /\ U(c) # v
      <4>1. ConfirmEnd(c) \/ \E pc : ConfirmGo(c, pc)
        BY <3>3 DEF ConfirmStep, ConfirmHead, ConfirmFinalize, ConfirmCommit, ConfirmCommitted,
                    ConfirmInsert, ConfirmAbandon, ConfirmRelease
      <4>2. CASE ConfirmEnd(c)
        BY <1>1, <4>2 DEF ConfirmEnd, IdleConfirm, TypeOK, ConfirmPlay
      <4>3. ASSUME NEW pc, ConfirmGo(c, pc)
            PROVE  U(c)' # v
        BY <1>1, <3>3, <4>3 DEF ConfirmGo, TypeOK, Confirmation, U
      <4> QED BY <4>1, <4>2, <4>3 DEF ConfirmPlay
    <3>4. CASE ~ConfirmStep(c) /\ \A u \in Upload : ~ConfirmClaim(c, u)
      <4>1. confirm'[c] = confirm[c]
        BY <1>1, <3>4, ConfirmOthers
      <4> QED BY <1>1, <2>2, <4>1 DEF ConfirmPlay, U
    <3> QED BY <3>1, <3>2, <3>3, <3>4
  <2> QED BY <1>2, <2>1, <2>2
<1>5. ASSUME NEW w \in Task
      PROVE  TaskPlay(w, v, g)'
  <2>1. CASE \E u \in Upload : SweepClaim(w, u) \/ DrainClaim(w, u)
    BY <1>1, <1>3, <2>1, ClaimsPlay
  <2>2. CASE TaskStep(w)
    <3>1. task[w].pc \in Sweeping \cup Draining
      BY <2>2 DEF TaskStep, SweepReserve, SweepReserved, SweepFinalize, SweepFinalized,
         SweepRefused, SweepStage, SweepFailed, DrainDelete, DrainDefer, DrainSettle, DrainRefused,
         DrainAck, DrainFailed, SweepCall, SweepRecord, TaskAt, Sweeping, Draining
    <3>2. CASE T(w) = v
      <4>1. AtWork(w, v)
        BY <3>1, <3>2 DEF AtWork
      <4>2. ~Turns(v) /\ g = f
        BY <1>2, <4>1 DEF Turns
      <4> QED BY <1>1, <2>2, <3>1, <3>2, <4>2, SweepLedger, DrainLedger
    <3>3. CASE T(w) # v
      <4>1. PICK r : task' = [task EXCEPT ![w] = r] /\ (r = IdleTask \/ r.upload = T(w))
        <5>1. \A pc : [task[w] EXCEPT !.pc = pc].upload = T(w)
          BY <1>1 DEF TypeOK, CleanupTask, T
        <5>2. \A q : [task[w] EXCEPT !.pc = "stage", !.quota = q].upload = T(w)
          BY <1>1 DEF TypeOK, CleanupTask, T
        <5>3. \/ TaskEnd(w) \/ (\E pc : TaskGo(w, pc))
              \/ \E q : TaskSet(w, [task[w] EXCEPT !.pc = "stage", !.quota = q])
          BY <2>2 DEF TaskStep, SweepReserve, SweepReserved, SweepFinalize, SweepFinalized,
             SweepRefused, SweepStage, SweepFailed, DrainDelete, DrainDefer, DrainSettle, DrainRefused,
             DrainAck, DrainFailed, SweepCall, SweepRecord
        <5> QED BY <5>1, <5>2, <5>3 DEF TaskEnd, TaskGo, TaskSet
      <4>2. task'[w] = r
        BY <1>1, <4>1 DEF TypeOK
      <4> QED BY <3>3, <4>1, <4>2 DEF TaskPlay, AtWork, T, IdleTask, Sweeping, Draining
    <3> QED BY <3>2, <3>3
  <2>3. CASE ~TaskStep(w) /\ \A u \in Upload : ~SweepClaim(w, u) /\ ~DrainClaim(w, u)
    <3>1. task'[w] = task[w]
      BY <1>1, <2>3, TaskOthers
    <3>2. CASE Turns(v)
      BY <3>1, <3>2 DEF Turns, TaskPlay, AtWork, T
    <3>3. CASE Stays(v, f) /\ g = f
      BY <1>1, <3>1, <3>3, RestsPlay
    <3> QED BY <1>2, <3>2, <3>3
  <2> QED BY <2>1, <2>2, <2>3
<1>6. InPlay(v, g)'
  BY <1>3, <1>4, <1>5 DEF InPlay
<1> QED BY <1>6

LEMMA CrashPlay ==
    ASSUME TypeOK, NEW v \in Upload, NEW f \in BOOLEAN, InPlay(v, f), Crash
    PROVE  InPlay(v, f)'
<1>1. /\ UNCHANGED <<pending, intent, attachment, charge, url, odd>>
      /\ request'[v] \in {"new", "done"}
      /\ \A c \in Confirmer : confirm'[c].pc = "idle"
      /\ \A w \in Task : task'[w].pc = "idle"
  BY DEF Crash, IdleConfirm, IdleTask
<1>2. KeyPlay(v, f)'
  BY <1>1 DEF InPlay, KeyPlay, Fits, Answered, Presigning
<1> QED BY <1>1, <1>2 DEF InPlay, ConfirmPlay, TaskPlay, AtWork, Sweeping, Draining

-----------------------------------------------------------------------------
\* Where no workspace is metered the host is never asked for anything.
FreeKey(u) ==
    ~metered =>
        /\ charge[u] = "none"
        /\ request[u] \notin {"reserve", "unavailable", "refused", "reserved"}
        /\ pending[u] # None => pending[u].quota = "not_required"
        /\ intent[u] # None => intent[u].release = "none"

FreeConfirm(c) == ~metered => confirm[c].pc \notin {"finalize", "commit", "committed"}

FreeTask(w) ==
    ~metered =>
        /\ task[w].pc \in Sweeping =>
              task[w].pc \in {"stage", "sweepFailed"} /\ task[w].quota = "not_required"
        /\ task[w].pc \in Draining => task[w].quota = "none"

LedgersInv ==
    /\ \A u \in Upload : LedgerInv(u) /\ FreeKey(u)
    /\ \A c \in Confirmer : FreeConfirm(c)
    /\ \A w \in Task : FreeTask(w)

FreeRows(u) ==
    /\ pending[u] # None => pending[u].quota = "not_required"
    /\ intent[u] # None => intent[u].release = "none"

LEMMA FreeAdmission ==
    ASSUME NEW r \in Admission, r.quota = "not_required"
    PROVE  /\ Released(r).quota = "not_required"
           /\ [Released(r) EXCEPT !.issued = TRUE].quota = "not_required"
           /\ [r EXCEPT !.live = FALSE].quota = "not_required"
           /\ \A o, l : [r EXCEPT !.owner = o, !.live = l].quota = "not_required"
BY DEF Admission, Released

LEMMA FreeStage ==
    ASSUME TypeOK, NEW u \in Upload, FreeRows(u), NEW b \in BOOLEAN,
           StagePending(u, "not_required", b)
    PROVE  FreeRows(u)'
<1> DEFINE r == NewIntent("pending_upload", ReleaseKind("not_required"), b, "now")
<1>1. pending'[u] = None /\ intent'[u] = IF intent[u] # None THEN intent[u] ELSE r
  BY DEF StagePending, TypeOK
<1>2. r.release = "none"
  BY DEF NewIntent, ReleaseKind
<1> HIDE DEF r
<1> QED BY <1>1, <1>2 DEF FreeRows

LEMMA FreeDrop ==
    ASSUME ~metered, NEW S, Drop(S), NEW u \in Upload, FreeRows(u), UNCHANGED pending
    PROVE  FreeRows(u)'
BY DEF Drop, NewIntent, FreeRows

\* Intents that a step leaves alike name what they named.
LEMMA FreeIntents ==
    ASSUME NEW u \in Upload, FreeRows(u), UNCHANGED pending,
           intent'[u] = intent[u] \/ intent'[u] = None \/ (intent[u] # None /\ Alike(intent[u], intent'[u]))
    PROVE  FreeRows(u)'
BY DEF FreeRows, Alike

LEMMA UploadFree ==
    ASSUME TypeOK, ~metered, NEW u \in Upload, FreeKey(u), UploadStep(u)
    PROVE  FreeRows(u)' /\ charge'[u] = "none"
           /\ request'[u] \notin {"reserve", "unavailable", "refused", "reserved"}
<1>0. FreeRows(u) /\ (pending[u] # None => pending[u] \in Admission)
  BY RowKinds DEF FreeKey, FreeRows
<1>1. CASE Presign(u)
  BY <1>0, <1>1 DEF Presign, Go, TypeOK, FreeKey, FreeRows
<1>2. CASE PresignReserve(u) \/ PresignNotReserved(u) \/ PresignReserved(u)
  BY <1>2 DEF PresignReserve, PresignNotReserved, PresignReserved, At, FreeKey
<1>3. CASE PresignIssue(u) \/ PresignLost(u)
  <2>1. /\ UNCHANGED <<intent, charge>> /\ request'[u] = "done"
        /\ \/ pending' = pending
           \/ /\ pending[u] # None
              /\ \/ pending' = [pending EXCEPT ![u] = Released(pending[u])]
                 \/ pending' = [pending EXCEPT ![u] = [Released(pending[u]) EXCEPT !.issued = TRUE]]
    BY <1>3 DEF PresignIssue, PresignLost, Update, Holds, Go, TypeOK
  <2>2. pending[u] # None => /\ Released(pending[u]).quota = "not_required"
                             /\ [Released(pending[u]) EXCEPT !.issued = TRUE].quota = "not_required"
    BY <1>0, FreeAdmission DEF FreeRows
  <2> QED BY <1>0, <2>1, <2>2 DEF FreeRows, FreeKey, TypeOK
<1>4. CASE LegacyStage(u)
  BY <1>0, <1>4 DEF LegacyStage, NewIntent, Go, TypeOK, FreeKey, FreeRows
<1>5. CASE LegacyPut(u) \/ LegacyInsert(u)
  BY <1>0, <1>5 DEF LegacyPut, LegacyInsert, Go, TypeOK, FreeKey, FreeRows
<1>6. CASE LegacyUndo(u)
  <2>1. /\ UNCHANGED <<pending, charge>> /\ request'[u] = "done"
        /\ intent'[u] = intent[u] \/ (intent[u] # None /\ Alike(intent[u], intent'[u]))
    BY <1>6, RowKinds, IntentRows DEF LegacyUndo, Go, TypeOK, Due
  <2> QED BY <1>0, <2>1, FreeIntents DEF FreeKey
<1> QED BY <1>1, <1>2, <1>3, <1>4, <1>5, <1>6 DEF UploadStep

LEMMA ConfirmFree ==
    ASSUME TypeOK, ~metered, NEW c \in Confirmer, NEW u \in Upload, u = U(c), FreeKey(u),
           FreeConfirm(c), ConfirmStep(c)
    PROVE  /\ FreeRows(u)' /\ charge' = charge /\ request' = request
           /\ confirm'[c].pc \notin {"finalize", "commit", "committed"}
<1>0. FreeRows(u) /\ (pending[u] # None => pending[u] \in Admission)
  BY RowKinds DEF FreeKey, FreeRows
<1>1. ASSUME NEW pc \in {"insert", "abandon", "release"}, ConfirmGo(c, pc)
      PROVE  request' = request /\ confirm'[c].pc \notin {"finalize", "commit", "committed"}
  BY <1>1 DEF ConfirmGo, TypeOK, Confirmation
<1>2. ASSUME ConfirmEnd(c)
      PROVE  request' = request /\ confirm'[c].pc \notin {"finalize", "commit", "committed"}
  BY <1>2 DEF ConfirmEnd, IdleConfirm, TypeOK
<1>3. CASE ConfirmHead(c)
  BY <1>0, <1>1, <1>3 DEF ConfirmHead, FreeRows
<1>4. CASE ConfirmFinalize(c) \/ ConfirmCommit(c) \/ ConfirmCommitted(c)
  BY <1>4 DEF ConfirmFinalize, ConfirmCommit, ConfirmCommitted, ConfirmAt, FreeConfirm
<1>5. CASE ConfirmInsert(c)
  BY <1>0, <1>1, <1>2, <1>5 DEF ConfirmInsert, FreeRows, TypeOK
<1>6. CASE ConfirmAbandon(c)
  <2>1. charge' = charge /\ ConfirmEnd(c)
    BY <1>6 DEF ConfirmAbandon
  <2>2. CASE Proven(c)
    <3>1. pending[u].issued \in BOOLEAN /\ pending[u].quota = "not_required"
      BY <1>0, <2>2 DEF Proven, Holds, Admission, FreeRows
    <3>2. StagePending(u, "not_required", pending[u].issued)
      BY <1>6, <2>2, <3>1 DEF ConfirmAbandon
    <3> QED BY <1>0, <1>2, <2>1, <3>1, <3>2, FreeStage
  <2>3. CASE UNCHANGED <<pending, intent>>
    BY <1>0, <1>2, <2>1, <2>3 DEF FreeRows
  <2> QED BY <1>6, <2>2, <2>3 DEF ConfirmAbandon
<1>7. CASE ConfirmRelease(c)
  <2>1. /\ UNCHANGED <<intent, charge>> /\ ConfirmEnd(c)
        /\ \/ pending' = pending
           \/ pending[u] # None /\ pending' = [pending EXCEPT ![u] = Released(pending[u])]
    BY <1>7 DEF ConfirmRelease, Update
  <2>2. pending[u] # None => Released(pending[u]).quota = "not_required"
    BY <1>0, FreeAdmission DEF FreeRows
  <2> QED BY <1>0, <1>2, <2>1, <2>2 DEF FreeRows, TypeOK
<1> QED BY <1>3, <1>4, <1>5, <1>6, <1>7 DEF ConfirmStep

LEMMA TaskFree ==
    ASSUME TypeOK, ~metered, NEW w \in Task, NEW u \in Upload, u = T(w), FreeKey(u),
           FreeTask(w), TaskStep(w)
    PROVE  FreeRows(u)' /\ charge'[u] = charge[u] /\ request' = request /\ FreeTask(w)'
<1>0. FreeRows(u) /\ (pending[u] # None => pending[u] \in Admission) /\ charge[u] = "none"
  BY RowKinds DEF FreeKey, FreeRows
<1>1. ASSUME NEW pc, TaskGo(w, pc)
      PROVE  request' = request /\ task'[w].pc = pc /\ task'[w].quota = task[w].quota
  BY <1>1 DEF TaskGo, TaskSet, TypeOK, CleanupTask
<1>2. ASSUME TaskEnd(w)
      PROVE  request' = request /\ FreeTask(w)'
  BY <1>2 DEF TaskEnd, TaskSet, IdleTask, TypeOK, FreeTask, Sweeping, Draining
<1>3. CASE SweepReserve(w) \/ SweepReserved(w) \/ SweepFinalize(w) \/ SweepFinalized(w) \/ SweepRefused(w)
  BY <1>3 DEF SweepReserve, SweepReserved, SweepFinalize, SweepFinalized, SweepRefused, SweepCall,
              SweepRecord, TaskAt, FreeTask, Sweeping
<1>4. CASE SweepStage(w)
  <2>1. /\ charge' = charge /\ task[w].quota = "not_required" /\ task[w].issued \in BOOLEAN
        /\ task[w].pc \in Sweeping
    BY <1>4 DEF SweepStage, TaskAt, FreeTask, Sweeping, TypeOK, CleanupTask
  <2>2. CASE TaskGo(w, "sweepFailed") /\ UNCHANGED db
    BY <1>0, <1>1, <2>1, <2>2 DEF FreeRows, FreeTask, Draining
  <2>3. CASE StagePending(u, task[w].quota, task[w].issued) /\ TaskEnd(w)
    BY <1>0, <1>2, <2>1, <2>3, FreeStage
  <2> QED BY <1>4, <2>2, <2>3 DEF SweepStage
<1>5. CASE SweepFailed(w)
  <2>1. /\ UNCHANGED <<intent, charge>> /\ TaskEnd(w)
        /\ \/ pending' = pending
           \/ /\ pending[u] # None
              /\ pending' = [pending EXCEPT ![u] = [pending[u] EXCEPT !.owner = None, !.live = TRUE]]
    BY <1>5 DEF SweepFailed, Update
  <2>2. pending[u] # None => [pending[u] EXCEPT !.owner = None, !.live = TRUE].quota = "not_required"
    BY <1>0, FreeAdmission DEF FreeRows
  <2> QED BY <1>0, <1>2, <2>1, <2>2 DEF FreeRows, TypeOK
<1>6. CASE DrainDelete(w)
  <2>1. /\ UNCHANGED <<pending, intent, charge>> /\ task[w].quota = "none"
        /\ \E pc \in {"settle", "defer", "drainFailed"} : TaskGo(w, pc)
    BY <1>6 DEF DrainDelete, TaskAt, FreeTask, Draining
  <2> QED BY <1>0, <1>1, <2>1 DEF FreeRows, FreeTask, Sweeping
<1>7. CASE DrainSettle(w)
  <2>1. /\ UNCHANGED <<pending, intent>> /\ task[w].quota = "none"
        /\ \E pc \in {"ack", "drainFailed"} : TaskGo(w, pc)
        /\ charge'[u] = Settle("none", charge[u]) \/ charge'[u] \in PartOf("none", charge[u])
    BY <1>7 DEF DrainSettle, TaskAt, FreeTask, Draining, TypeOK
  <2>2. charge'[u] = "none"
    BY <1>0, <2>1, SettleValue DEF PartOf, Charge
  <2> QED BY <1>0, <1>1, <2>1, <2>2 DEF FreeRows, FreeTask, Sweeping
<1>8. CASE DrainRefused(w)
  BY <1>8 DEF DrainRefused, TaskAt, FreeTask, Draining
<1>9. CASE DrainDefer(w) \/ DrainAck(w) \/ DrainFailed(w)
  <2>1. pending' = pending /\ charge' = charge /\ TaskEnd(w)
    BY <1>9 DEF DrainDefer, DrainAck, DrainFailed
  <2>2. CASE DrainAck(w)
    BY <1>0, <1>2, <2>1, <2>2, FreeIntents DEF DrainAck, LeasedIntent, TypeOK
  <2>3. CASE DrainDefer(w) \/ DrainFailed(w)
    BY <1>0, <1>2, <2>1, <2>3, LeasedRows, FreeIntents
  <2> QED BY <1>9, <2>2, <2>3
<1> QED BY <1>3, <1>4, <1>5, <1>6, <1>7, <1>8, <1>9 DEF TaskStep

LEMMA KeyFree ==
    ASSUME TypeOK, ~metered, NEW u \in Upload, FreeKey(u), KeyStep(u)
    PROVE  FreeRows(u)' /\ charge' = charge /\ request' = request
<1>0. FreeRows(u) /\ (pending[u] # None => pending[u] \in Admission)
  BY RowKinds DEF FreeKey, FreeRows
<1>1. charge' = charge /\ request' = request
  BY DEF KeyStep, Put, Delete, TaskClaim, SweepClaim, DrainClaim, TaskSet,
         ConfirmClaim, Clock, Expire, UrlDies, PendingLapse, IntentLapse, DueNow
<1>2. CASE Put(u) \/ Expire(u) \/ UrlDies(u)
  BY <1>0, <1>2 DEF Put, Expire, UrlDies, FreeRows
<1>4. CASE Delete(u)
  BY <1>0, <1>1, <1>4, FreeDrop DEF Delete
<1>5. ASSUME NEW r, r.quota = "not_required", pending' = [pending EXCEPT ![u] = r], intent' = intent
      PROVE  FreeRows(u)'
  BY <1>0, <1>5 DEF FreeRows, TypeOK
<1>6. ASSUME NEW c \in Confirmer, ConfirmClaim(c, u)
      PROVE  FreeRows(u)'
  <2>1. /\ pending[u] # None
        /\ \/ pending' = pending
           \/ pending' = [pending EXCEPT ![u] = [pending[u] EXCEPT !.owner = c, !.live = TRUE]]
    BY <1>6 DEF ConfirmClaim, Claimable
  <2>2. [pending[u] EXCEPT !.owner = c, !.live = TRUE].quota = "not_required"
    BY <1>0, <2>1, FreeAdmission DEF FreeRows
  <2>3. CASE pending' = pending
    BY <1>0, <1>6, <2>3 DEF ConfirmClaim, FreeRows
  <2> QED BY <1>5, <1>6, <2>1, <2>2, <2>3 DEF ConfirmClaim
<1>7. ASSUME NEW w \in Task, SweepClaim(w, u)
      PROVE  FreeRows(u)'
  <2>1. pending[u] # None /\ pending' = [pending EXCEPT ![u] = [pending[u] EXCEPT !.owner = w, !.live = TRUE]]
    BY <1>7 DEF SweepClaim, Sweepable
  <2>2. [pending[u] EXCEPT !.owner = w, !.live = TRUE].quota = "not_required"
    BY <1>0, <2>1, FreeAdmission DEF FreeRows
  <2> QED BY <1>5, <1>7, <2>1, <2>2 DEF SweepClaim
<1>8. CASE PendingLapse(u)
  <2>1. pending[u] # None /\ pending' = [pending EXCEPT ![u] = [pending[u] EXCEPT !.live = FALSE]]
    BY <1>8 DEF PendingLapse
  <2>2. [pending[u] EXCEPT !.live = FALSE].quota = "not_required"
    BY <1>0, <2>1, FreeAdmission DEF FreeRows
  <2> QED BY <1>1, <1>5, <1>8, <2>1, <2>2 DEF PendingLapse
<1>9. ASSUME NEW w \in Task, DrainClaim(w, u)
      PROVE  FreeRows(u)'
  <2>1. UNCHANGED pending /\ intent[u] # None /\ Alike(intent[u], intent'[u])
    BY <1>9, RowKinds, IntentRows DEF DrainClaim, Drainable, TypeOK
  <2> QED BY <1>0, <1>1, <2>1, FreeIntents
<1>10. CASE IntentLapse(u)
  <2>1. UNCHANGED pending /\ intent[u] # None /\ Alike(intent[u], intent'[u])
    BY <1>10, RowKinds, IntentRows DEF IntentLapse, TypeOK
  <2> QED BY <1>0, <1>1, <2>1, FreeIntents
<1>11. CASE DueNow(u)
  <2>1. UNCHANGED pending /\ intent[u] # None /\ Alike(intent[u], intent'[u])
    BY <1>11, RowKinds, IntentRows DEF DueNow, TypeOK, Due
  <2> QED BY <1>0, <1>1, <2>1, FreeIntents
<1> QED BY <1>1, <1>2, <1>4, <1>6, <1>7, <1>8, <1>9, <1>10, <1>11 DEF KeyStep, TaskClaim, Clock

LEMMA PurgeFree ==
    ASSUME TypeOK, ~metered, NEW u \in Upload, FreeKey(u), NEW a \in Account,
           PurgeFence(a) \/ PurgeSettle(a) \/ PurgeSettled(a) \/ PurgeDelete(a) \/ PurgeDone(a)
    PROVE  FreeRows(u)' /\ charge' = charge /\ UNCHANGED <<request, confirm, task>>
<1>0. FreeRows(u)
  BY DEF FreeKey, FreeRows
<1>1. charge' = charge /\ UNCHANGED <<request, confirm, task>>
  BY DEF PurgeFence, PurgeSettle, PurgeSettled, PurgeDelete, PurgeDone
<1>2. CASE PurgeFence(a) \/ PurgeSettled(a) \/ PurgeDone(a)
  BY <1>0, <1>1, <1>2 DEF PurgeFence, PurgeSettled, PurgeDone, FreeRows
<1>3. CASE PurgeSettle(a)
  <2>1. /\ pending'[u] = pending[u] \/ pending'[u] = None
        /\ \/ intent'[u] = intent[u]
           \/ /\ pending[u] # None
              /\ intent'[u] = NewIntent("pending_upload", ReleaseKind(pending[u].quota),
                                        pending[u].issued, "now")
    BY <1>3 DEF PurgeSettle
  <2> QED BY <1>0, <1>1, <2>1 DEF FreeRows, NewIntent, ReleaseKind
<1>4. CASE PurgeDelete(a)
  BY <1>0, <1>1, <1>4, FreeDrop DEF PurgeDelete
<1> QED BY <1>1, <1>2, <1>3, <1>4

LEMMA ClaimFree ==
    ASSUME TypeOK, ~metered, NEW u \in Upload, FreeKey(u), NEW w \in Task,
           SweepClaim(w, u) \/ DrainClaim(w, u)
    PROVE  FreeTask(w)'
<1>1. CASE SweepClaim(w, u)
  <2>1. pending[u].quota = "not_required"
    BY <1>1 DEF SweepClaim, Sweepable, FreeKey
  <2>2. task'[w].pc = "stage" /\ task'[w].quota = "not_required"
    BY <1>1, <2>1 DEF SweepClaim, TaskSet, TypeOK, QuotaStep
  <2> QED BY <2>2 DEF FreeTask, Draining
<1>2. CASE DrainClaim(w, u)
  <2>1. task'[w].pc = "delete" /\ task'[w].quota = "none"
    BY <1>2 DEF DrainClaim, Drainable, TaskSet, TypeOK, FreeKey
  <2> QED BY <2>1 DEF FreeTask, Sweeping
<1> QED BY <1>1, <1>2

LEMMA FreeStep ==
    ASSUME IInv, LedgersInv, ~metered, Next
    PROVE  /\ \A v \in Upload : FreeKey(v)'
           /\ \A c \in Confirmer : FreeConfirm(c)'
           /\ \A w \in Task : FreeTask(w)'
<1>1. /\ TypeOK /\ Busy
      /\ \A v \in Upload : FreeKey(v)
      /\ \A c \in Confirmer : FreeConfirm(c)
      /\ \A w \in Task : FreeTask(w)
  BY IInvBusy DEF IInv, LedgersInv
<1>2. ASSUME NEW v \in Upload
      PROVE  FreeKey(v)'
  <2>1. FreeRows(v)' /\ charge'[v] = charge[v] /\ request'[v] = request[v] => FreeKey(v)'
    BY <1>1 DEF FreeKey, FreeRows
  <2>2. Same(v) => FreeKey(v)'
    BY <1>1 DEF FreeKey, Same
  <2>3. ASSUME NEW u \in Upload, UploadStep(u)
        PROVE  FreeKey(v)'
    <3>1. CASE u = v
      BY <1>1, <2>3, <3>1, UploadFree DEF FreeKey, FreeRows
    <3> QED BY <1>1, <2>2, <2>3, <3>1, UploadElsewhere
  <2>4. ASSUME NEW u \in Upload, KeyStep(u)
        PROVE  FreeKey(v)'
    <3>1. CASE u = v
      BY <1>1, <2>1, <2>4, <3>1, KeyFree
    <3> QED BY <1>1, <2>2, <2>4, <3>1, KeyElsewhere
  <2>5. ASSUME NEW c \in Confirmer, U(c) \in Upload, ConfirmStep(c)
        PROVE  FreeKey(v)'
    <3>1. CASE v = U(c)
      BY <1>1, <2>1, <2>5, <3>1, ConfirmFree
    <3> QED BY <1>1, <2>2, <2>5, <3>1, ConfirmElsewhere
  <2>6. ASSUME NEW w \in Task, T(w) \in Upload, TaskStep(w)
        PROVE  FreeKey(v)'
    <3>1. CASE v = T(w)
      BY <1>1, <2>1, <2>6, <3>1, TaskFree
    <3> QED BY <1>1, <2>2, <2>6, <3>1, TaskElsewhere
  <2>7. ASSUME NEW a \in Account,
               PurgeFence(a) \/ PurgeSettle(a) \/ PurgeSettled(a) \/ PurgeDelete(a) \/ PurgeDone(a)
        PROVE  FreeKey(v)'
    BY <1>1, <2>1, <2>7, PurgeFree
  <2>8. CASE Crash
    BY <1>1, <2>8 DEF Crash, FreeKey
  <2> QED BY <1>1, <2>3, <2>4, <2>5, <2>6, <2>7, <2>8, StepCases
<1>3. ASSUME NEW c \in Confirmer
      PROVE  FreeConfirm(c)'
  <2>1. CASE Crash
    BY <2>1 DEF Crash, FreeConfirm, IdleConfirm
  <2>2. CASE ConfirmStep(c)
    <3>1. U(c) \in Upload
      BY <1>1, <2>2 DEF Busy, ConfirmStep, ConfirmHead, ConfirmFinalize, ConfirmCommit,
         ConfirmCommitted, ConfirmInsert, ConfirmAbandon, ConfirmRelease, ConfirmAt
    <3> QED BY <1>1, <2>2, <3>1, ConfirmFree DEF FreeConfirm
  <2>3. CASE \E u \in Upload : ConfirmClaim(c, u)
    BY <1>1, <2>3 DEF ConfirmClaim, TypeOK, FreeConfirm
  <2>4. CASE ~Crash /\ ~ConfirmStep(c) /\ \A u \in Upload : ~ConfirmClaim(c, u)
    <3>1. confirm'[c] = confirm[c]
      BY <1>1, <2>4, ConfirmOthers
    <3> QED BY <1>1, <3>1 DEF FreeConfirm
  <2> QED BY <2>1, <2>2, <2>3, <2>4
<1>4. ASSUME NEW w \in Task
      PROVE  FreeTask(w)'
  <2>1. CASE Crash
    BY <2>1 DEF Crash, FreeTask, IdleTask, Sweeping, Draining
  <2>2. CASE TaskStep(w)
    <3>1. T(w) \in Upload
      BY <1>1, <2>2 DEF Busy, TaskStep, SweepReserve, SweepReserved, SweepFinalize, SweepFinalized,
         SweepRefused, SweepStage, SweepFailed, DrainDelete, DrainDefer, DrainSettle, DrainRefused,
         DrainAck, DrainFailed, SweepCall, SweepRecord, TaskAt
    <3> QED BY <1>1, <2>2, <3>1, TaskFree
  <2>3. CASE \E u \in Upload : SweepClaim(w, u) \/ DrainClaim(w, u)
    BY <1>1, <2>3, ClaimFree
  <2>4. CASE ~Crash /\ ~TaskStep(w) /\ \A u \in Upload : ~SweepClaim(w, u) /\ ~DrainClaim(w, u)
    <3>1. task'[w] = task[w]
      BY <1>1, <2>4, TaskOthers
    <3> QED BY <1>1, <3>1 DEF FreeTask
  <2> QED BY <2>1, <2>2, <2>3, <2>4
<1> QED BY <1>2, <1>3, <1>4

LEMMA InitLedgers == ASSUME Init PROVE LedgersInv
<1>1. ASSUME NEW u \in Upload
      PROVE  InPlay(u, FALSE)
  BY DEF Init, InPlay, KeyPlay, ConfirmPlay, TaskPlay, AtWork, Answered, IdleConfirm, IdleTask,
         Presigning, Sweeping, Draining
<1>2. \A u \in Upload : LedgerInv(u)
  BY <1>1 DEF LedgerInv
<1>3. \A u \in Upload : FreeKey(u)
  BY DEF Init, FreeKey
<1>4. \A c \in Confirmer : FreeConfirm(c)
  BY DEF Init, FreeConfirm, IdleConfirm
<1>5. \A w \in Task : FreeTask(w)
  BY DEF Init, FreeTask, IdleTask, Sweeping, Draining
<1> QED BY <1>2, <1>3, <1>4, <1>5 DEF LedgersInv

LEMMA LedgersStep == IInv /\ LedgersInv /\ [Next]_vars => LedgersInv'
<1>1. ASSUME IInv, LedgersInv, Next
      PROVE  LedgersInv'
  <2>1. metered' = metered
    BY <1>1, MeteredStays
  <2>2. CASE metered
    <3>1. ASSUME NEW v \in Upload, v \notin odd'.refused
          PROVE  \E g \in BOOLEAN : InPlay(v, g)'
      <4>1. TypeOK /\ v \notin odd.refused
        BY <1>1, <3>1, RefusedStays DEF IInv
      <4>2. PICK f \in BOOLEAN : InPlay(v, f)
        BY <1>1, <2>2, <4>1 DEF LedgersInv, LedgerInv
      <4>3. CASE Crash
        BY <4>1, <4>2, <4>3, CrashPlay
      <4> QED BY <1>1, <2>2, <3>1, <4>2, <4>3, StagePlay
    <3>2. \A v \in Upload : LedgerInv(v)'
      BY <3>1 DEF LedgerInv
    <3> QED BY <2>1, <2>2, <3>2 DEF LedgersInv, FreeKey, FreeConfirm, FreeTask
  <2>3. CASE ~metered
    BY <1>1, <2>1, <2>3, FreeStep DEF LedgersInv, LedgerInv
  <2> QED BY <2>2, <2>3
<1>2. ASSUME LedgersInv, UNCHANGED vars
      PROVE  LedgersInv'
  <2>1. \A u \in Upload, f \in BOOLEAN : InPlay(u, f) => InPlay(u, f)'
    BY <1>2 DEF vars, InPlay, KeyPlay, ConfirmPlay, TaskPlay, SweepPlay, DrainPlay, AtWork, Fits,
                Answered, T, U, TaskAt
  <2>2. \A u \in Upload : LedgerInv(u)'
    BY <1>2, <2>1 DEF vars, LedgersInv, LedgerInv
  <2> QED BY <1>2, <2>2 DEF vars, LedgersInv, FreeKey, FreeConfirm, FreeTask
<1> QED BY <1>1, <1>2

\* Every charge has a row that will keep it or release it, unless the host
\* refused something of this upload: whatever of presign, confirmation, sweep,
\* drain and purge is still at work, the last of them to settle gives it back.
THEOREM ChargeCorrect == Spec => []ChargeAnswered
<1>1. IInv /\ LedgersInv => ChargeAnswered
  <2>1. SUFFICES ASSUME IInv, LedgersInv, NEW u \in Upload, charge[u] \in {"reserved", "committed"},
                        u \notin odd.refused
                 PROVE  Answered(u)
    BY DEF ChargeAnswered, Answered
  <2>2. CASE metered
    <3>1. PICK f \in BOOLEAN : InPlay(u, f)
      BY <2>1, <2>2 DEF LedgersInv, LedgerInv
    <3> QED BY <2>1, <3>1 DEF InPlay, KeyPlay
  <2>3. CASE ~metered
    BY <2>1, <2>3 DEF LedgersInv, FreeKey
  <2> QED BY <2>2, <2>3
<1>2. Init => LedgersInv
  BY InitLedgers
<1> QED BY <1>1, <1>2, LedgersStep, SpecInv, PTL DEF Spec

-----------------------------------------------------------------------------
(***************************************************************************)
(* The purge of an account                                                 *)
(***************************************************************************)
\* Behind the fence no admission appears, and at the end no attachment or intent.
PurgeInv(u) ==
    /\ purge[OwnerOf[u]] \in {"deleting", "purged"} => pending[u] = None
    /\ purge[OwnerOf[u]] = "purged" => attachment[u] # "present" /\ intent[u] = None

\* While its account is being purged a key gets no row it did not have, except
\* the one that stands for another.
Behind(u) ==
    Fenced(u) =>
        /\ pending[u] = None => pending'[u] = None
        /\ attachment[u] # "present" => attachment'[u] # "present"
        /\ ~Answered(u) => intent'[u] = None

LEMMA SameBehind == ASSUME NEW u \in Upload, Same(u) PROVE Behind(u)
BY DEF Same, Behind, Answered

LEMMA UploadBehind ==
    ASSUME TypeOK, NEW u \in Upload, UploadStep(u)
    PROVE  Behind(u) /\ purge' = purge
<1>1. CASE Presign(u) \/ PresignReserve(u)
  BY <1>1 DEF Presign, PresignReserve, Behind, Answered
<1>2. CASE PresignNotReserved(u) \/ PresignReserved(u) \/ PresignIssue(u) \/ PresignLost(u)
  BY <1>2 DEF PresignNotReserved, PresignReserved, PresignIssue, PresignLost, Update, Behind, Answered
<1>3. CASE LegacyStage(u) \/ LegacyPut(u) \/ LegacyInsert(u) \/ LegacyUndo(u)
  BY <1>3 DEF LegacyStage, LegacyPut, LegacyInsert, LegacyUndo, Behind, Answered, TypeOK
<1> QED BY <1>1, <1>2, <1>3 DEF UploadStep

LEMMA StageBehind ==
    ASSUME TypeOK, NEW u \in Upload, NEW q, NEW b, StagePending(u, q, b), pending[u] # None
    PROVE  Behind(u)
BY DEF StagePending, Behind, Answered, TypeOK

LEMMA ConfirmBehind ==
    ASSUME TypeOK, NEW c \in Confirmer, NEW u \in Upload, u = U(c), ConfirmStep(c)
    PROVE  Behind(u) /\ purge' = purge
<1>1. CASE ConfirmHead(c) \/ ConfirmFinalize(c) \/ ConfirmCommit(c) \/ ConfirmCommitted(c)
  BY <1>1 DEF ConfirmHead, ConfirmFinalize, ConfirmCommit, ConfirmCommitted, Behind, Answered
<1>2. CASE ConfirmInsert(c) \/ ConfirmRelease(c)
  BY <1>2 DEF ConfirmInsert, ConfirmRelease, Update, Behind, Answered
<1>3. CASE ConfirmAbandon(c)
  <2>1. CASE Proven(c)
    BY <1>3, <2>1, StageBehind DEF ConfirmAbandon, Proven, Holds
  <2>2. CASE UNCHANGED <<pending, intent, attachment>>
    BY <1>3, <2>2 DEF ConfirmAbandon, Behind, Answered
  <2> QED BY <1>3, <2>1, <2>2 DEF ConfirmAbandon
<1> QED BY <1>1, <1>2, <1>3 DEF ConfirmStep

LEMMA TaskBehind ==
    ASSUME TypeOK, NEW w \in Task, NEW u \in Upload, u = T(w), TaskStep(w)
    PROVE  Behind(u) /\ purge' = purge
<1>1. CASE SweepReserve(w) \/ SweepFinalize(w) \/ SweepRefused(w)
  BY <1>1 DEF SweepReserve, SweepFinalize, SweepRefused, SweepCall, Behind, Answered
<1>2. CASE SweepReserved(w) \/ SweepFinalized(w)
  BY <1>2 DEF SweepReserved, SweepFinalized, SweepRecord, Behind, Answered
<1>3. CASE SweepStage(w) \/ SweepFailed(w)
  BY <1>3 DEF SweepStage, SweepFailed, Holds, Update, Behind, Answered
<1>4. CASE DrainDelete(w) \/ DrainSettle(w) \/ DrainRefused(w)
  BY <1>4 DEF DrainDelete, DrainSettle, DrainRefused, Behind, Answered
<1>5. CASE DrainDefer(w) \/ DrainAck(w) \/ DrainFailed(w)
  BY <1>5 DEF DrainDefer, DrainAck, DrainFailed, LeasedIntent, Holds, Behind, Answered, TypeOK
<1> QED BY <1>1, <1>2, <1>3, <1>4, <1>5 DEF TaskStep

LEMMA KeyBehind ==
    ASSUME TypeOK, NEW u \in Upload, KeyStep(u)
    PROVE  Behind(u) /\ purge' = purge
<1>1. CASE Put(u) \/ Expire(u) \/ UrlDies(u)
  BY <1>1 DEF Put, Expire, UrlDies, Behind, Answered
<1>3. CASE Delete(u)
  BY <1>3 DEF Delete, Behind
<1>4. CASE TaskClaim(u) \/ \E c \in Confirmer : ConfirmClaim(c, u)
  BY <1>4 DEF TaskClaim, SweepClaim, DrainClaim, Sweepable, Drainable, ConfirmClaim, Claimable,
              Behind, Answered
<1>5. CASE PendingLapse(u) \/ IntentLapse(u) \/ DueNow(u)
  BY <1>5 DEF PendingLapse, IntentLapse, DueNow, Behind, Answered
<1> QED BY <1>1, <1>3, <1>4, <1>5 DEF KeyStep, Clock

LEMMA PurgeStep ==
    ASSUME TypeOK, NEW v \in Upload, PurgeInv(v), NEW a \in Account,
           PurgeFence(a) \/ PurgeSettle(a) \/ PurgeSettled(a) \/ PurgeDelete(a) \/ PurgeDone(a)
    PROVE  PurgeInv(v)'
<1>0. OwnerOf[v] \in Account
  BY OwnerAssumption
<1>1. CASE PurgeFence(a)
  BY <1>0, <1>1 DEF PurgeFence, PurgeGo, PurgeInv, TypeOK
<1>2. CASE PurgeSettle(a)
  BY <1>0, <1>2 DEF PurgeSettle, Of, PurgeInv, TypeOK
<1>3. CASE PurgeSettled(a)
  BY <1>0, <1>3 DEF PurgeSettled, PurgeGo, Unanswered, Of, PurgeInv, TypeOK
<1>4. CASE PurgeDelete(a)
  BY <1>0, <1>4 DEF PurgeDelete, Drop, Of, PurgeInv, TypeOK
<1>5. CASE PurgeDone(a)
  BY <1>0, <1>5 DEF PurgeDone, PurgeGo, Of, PurgeInv, TypeOK
<1> QED BY <1>1, <1>2, <1>3, <1>4, <1>5

PurgesInv == \A u \in Upload : PurgeInv(u)

LEMMA InitPurges == ASSUME Init PROVE PurgesInv
BY OwnerAssumption DEF Init, PurgesInv, PurgeInv

LEMMA PurgesStep == IInv /\ PurgesInv /\ [Next]_vars => PurgesInv'
<1>1. ASSUME IInv, PurgesInv, Next, NEW v \in Upload
      PROVE  PurgeInv(v)'
  <2>1. TypeOK /\ Busy /\ PurgeInv(v)
    BY <1>1, IInvBusy DEF IInv, PurgesInv
  <2>2. Behind(v) /\ purge' = purge => PurgeInv(v)'
    BY <2>1, OwnerAssumption DEF PurgeInv, Behind, Fenced, Answered
  <2>3. Same(v) /\ purge' = purge => PurgeInv(v)'
    BY <2>2, SameBehind
  <2>4. ASSUME NEW u \in Upload, UploadStep(u) \/ KeyStep(u)
        PROVE  PurgeInv(v)'
    <3>1. purge' = purge
      BY <2>1, <2>4, UploadBehind, KeyBehind
    <3>2. CASE u = v
      BY <2>1, <2>2, <2>4, <3>2, UploadBehind, KeyBehind
    <3> QED BY <2>1, <2>3, <2>4, <3>1, <3>2, UploadElsewhere, KeyElsewhere
  <2>5. ASSUME NEW c \in Confirmer, U(c) \in Upload, ConfirmStep(c)
        PROVE  PurgeInv(v)'
    <3>1. purge' = purge
      BY <2>1, <2>5, ConfirmBehind
    <3>2. CASE v = U(c)
      BY <2>1, <2>2, <2>5, <3>2, ConfirmBehind
    <3> QED BY <2>1, <2>3, <2>5, <3>1, <3>2, ConfirmElsewhere
  <2>6. ASSUME NEW w \in Task, T(w) \in Upload, TaskStep(w)
        PROVE  PurgeInv(v)'
    <3>1. purge' = purge
      BY <2>1, <2>6, TaskBehind
    <3>2. CASE v = T(w)
      BY <2>1, <2>2, <2>6, <3>2, TaskBehind
    <3> QED BY <2>1, <2>3, <2>6, <3>1, <3>2, TaskElsewhere
  <2>7. CASE Crash
    BY <2>1, <2>7 DEF Crash, PurgeInv
  <2> QED BY <1>1, <2>1, <2>4, <2>5, <2>6, <2>7, PurgeStep, StepCases
<1>2. ASSUME PurgesInv, UNCHANGED vars
      PROVE  PurgesInv'
  BY <1>2 DEF vars, PurgesInv, PurgeInv
<1> QED BY <1>1, <1>2 DEF PurgesInv

\* A finished purge leaves no row, object or charge of the account: the fence
\* lets no request, confirmation or sweep give a key a new row, and without a
\* row there is neither an object nor a charge.
THEOREM PurgeCorrect == Spec => []PurgeLeavesNothing
<1>1. PurgesInv /\ ObjectAnswered /\ ChargeAnswered => PurgeLeavesNothing
  BY OwnerAssumption DEF PurgesInv, PurgeInv, ObjectAnswered, ChargeAnswered, PurgeLeavesNothing
<1>2. Init => PurgesInv
  BY InitPurges
<1> QED BY <1>1, <1>2, PurgesStep, ObjectCorrect, ChargeCorrect, SpecInv, PTL DEF Spec
=============================================================================
