-------------------------- MODULE AttachmentStorage --------------------------
(***************************************************************************)
(* The life of an attachment's object in storage (backend/src/api/routes/  *)
(* attachments.ts and backend/src/lib/attachment-*-cleanup.ts): presigned  *)
(* and in-process uploads, confirmation, deletion, the expiry sweep, the   *)
(* cleanup outbox, the host's quota and the purge of an account.           *)
(*                                                                         *)
(* One storage key belongs to one upload.  PostgreSQL is pending, intent,  *)
(* attachment and purge; object is SeaweedFS and charge is the host's      *)
(* quota ledger, one operation key per upload.  One action is one          *)
(* transaction or one external call.  Time is not counted: a lease, a URL  *)
(* or a waiting period may end at any step, so a lease can lapse under a   *)
(* holder that is merely slow.                                             *)
(***************************************************************************)
EXTENDS Integers

CONSTANTS
    None,
    Upload,     \* storage keys
    Account,
    OwnerOf,    \* the account that uploads
    Confirmer,  \* concurrent confirm requests
    Task        \* concurrent sweeps and outbox drains

\* Bounds on what the environment does: external calls that fail, reservations
\* the host refuses, crashes, and leases that lapse under a live holder.
CONSTANTS MaxFailures, MaxRefusals, MaxCrashes, MaxStalls

ASSUME OwnerAssumption == OwnerOf \in [Upload -> Account]
ASSUME NameAssumption ==
    /\ None \notin Confirmer \cup Task \cup Upload \cup {"presign"}
    /\ Confirmer \cap Task = {} /\ "presign" \notin Confirmer \cup Task
ASSUME BoundsAssumption ==
    \A n \in {MaxFailures, MaxRefusals, MaxCrashes, MaxStalls} : n \in Nat

QuotaState == {"not_required", "reserve_pending", "reserved", "finalize_pending", "committed"}
Release == {"none", "reserve_pending", "reservation", "finalize_pending", "committed"}
Source == {"attachment", "pending_upload", "uncommitted_upload"}

\* A lease is its owner and whether lease_expires_at is still to come.
Admission == [quota : QuotaState, issued : BOOLEAN,
              owner : {None, "presign"} \cup Confirmer \cup Task, live : BOOLEAN]

\* not_before: passed, a retry in 60 s, the end of the write hold, or URL expiry.
Due == {"now", "retry", "hold", "expiry"}
Intent == [source : Source, release : Release, retain : BOOLEAN, due : Due,
           owner : {None} \cup Task, live : BOOLEAN]

ASSUME RowAssumption == None \notin Admission \cup Intent

RequestPc == {"new", "reserve", "unavailable", "refused", "reserved", "issue",
              "put", "insert", "undo", "done"}
ConfirmPc == {"idle", "head", "finalize", "commit", "committed", "insert", "fenced",
              "abandon", "release"}
TaskPc == {"idle", "reserve", "reserved", "finalize", "finalized", "stage", "sweepFailed",
           "delete", "defer", "settle", "ack", "drainFailed"}

\* What a confirm request and a cleanup task keep across an await: the upload;
\* a task also the row it claimed and, for a drain, whether this is its last pass.
Confirmation == [pc : ConfirmPc, upload : Upload \cup {None}]
CleanupTask == [pc : TaskPc, upload : Upload \cup {None},
                quota : QuotaState \cup Release, issued : BOOLEAN, final : BOOLEAN]

VARIABLES
    metered,    \* DOCSMINT_WORKSPACE_ENABLED: uploads are charged to a workspace
    pending,    \* pending_attachment_uploads by key
    intent,     \* attachment_storage_cleanup_outbox by key
    attachment, \* attachments by key
    object,     \* keys that hold an object
    charge,     \* the host's quota ledger by operation key
    expired,    \* uploads whose expires_at has passed
    url,        \* the signed PUT URL the client was given
    request,    \* the presign or in-process upload request, by upload
    confirm,    \* confirm requests
    task,       \* sweeps and drains
    purge,      \* how far the purge of an account is; its fence is up from the start
    odd,        \* history: writes past the hold, PUTs nobody waits for, refused uploads
    spent       \* how much of each environment bound is used

db == <<pending, intent, attachment>>
host == <<object, charge>>
time == <<expired, url>>
process == <<request, confirm, task>>
rest == <<metered, purge>>
vars == <<db, host, time, process, rest, odd, spent>>

IdleConfirm == [pc |-> "idle", upload |-> None]
IdleTask == [pc |-> "idle", upload |-> None, quota |-> "none", issued |-> FALSE, final |-> FALSE]

Init ==
    /\ metered \in BOOLEAN
    /\ pending = [u \in Upload |-> None]
    /\ intent = [u \in Upload |-> None]
    /\ attachment = [u \in Upload |-> "none"]
    /\ object = {}
    /\ charge = [u \in Upload |-> "none"]
    /\ expired = {}
    /\ url = [u \in Upload |-> "none"]
    /\ request = [u \in Upload |-> "new"]
    /\ confirm = [c \in Confirmer |-> IdleConfirm]
    /\ task = [w \in Task |-> IdleTask]
    /\ purge = [a \in Account |-> "none"]
    /\ odd = [overrun |-> {}, late |-> {}, refused |-> {}]
    /\ spent = [failures |-> 0, refusals |-> 0, crashes |-> 0, stalls |-> 0]

-----------------------------------------------------------------------------
(***************************************************************************)
(* The host's quota: every call is idempotent for the upload's key.        *)
(***************************************************************************)
Reserve(c) == IF c = "none" THEN "reserved" ELSE c
Finalize(c) == IF c = "reserved" THEN "committed" ELSE c
ReleaseReservation(c) == IF c = "reserved" THEN "released" ELSE c
ReleaseCommitted(c) == IF c = "committed" THEN "released" ELSE c

\* releaseQuota: one or two calls, by what the intent says is held.
Settle(release, c) ==
    CASE release = "none" -> c
      [] release = "reserve_pending" -> ReleaseReservation(Reserve(c))
      [] release = "reservation" -> ReleaseReservation(c)
      [] release = "finalize_pending" -> ReleaseCommitted(Finalize(c))
      [] release = "committed" -> ReleaseCommitted(c)

\* What is done of Settle when one of its calls fails.
PartOf(release, c) ==
    {c, IF release = "reserve_pending" THEN Reserve(c)
        ELSE IF release = "finalize_pending" THEN Finalize(c) ELSE c, Settle(release, c)}

Spend(what) == spent' = [spent EXCEPT ![what] = @ + 1]
Fails == spent.failures < MaxFailures /\ Spend("failures")

\* A reservation the host refuses; one it already holds it returns again.
Refuses(u) ==
    /\ charge[u] = "none"
    /\ spent.refusals < MaxRefusals
    /\ Spend("refusals")
    /\ odd' = [odd EXCEPT !.refused = @ \cup {u}]

(***************************************************************************)
(* Rows and leases                                                         *)
(***************************************************************************)
\* enforce_account_purge_fence: the triggers refuse the statement.
Fenced(u) == purge[OwnerOf[u]] # "none"

Holds(row, h) == row # None /\ row.owner = h
Released(row) == [row EXCEPT !.owner = None, !.live = FALSE]

\* An UPDATE that misses when the row is gone or the trigger refuses it.
Update(u, row) ==
    pending' = IF pending[u] = None \/ Fenced(u) THEN pending ELSE [pending EXCEPT ![u] = row]

\* Mutant: the persisted phase is handed on as it is.
ReleaseKindAsIs(quota) == quota

\* Mutant: a finalization under way is taken for a reservation.
ReleaseKindCoarse(quota) ==
    CASE quota = "not_required" -> "none"
      [] quota \in {"reserved", "finalize_pending"} -> "reservation"
      [] OTHER -> quota

ReleaseKind(quota) ==
    CASE quota = "not_required" -> "none"
      [] quota = "reserved" -> "reservation"
      [] OTHER -> quota

NewIntent(source, release, retain, due) ==
    [source |-> source, release |-> release, retain |-> retain, due |-> due,
     owner |-> None, live |-> FALSE]

\* stagePendingAttachmentCleanup and abandon_pending_attachment_upload.
StagePending(u, quota, issued) ==
    /\ intent' = IF intent[u] # None THEN intent
                 ELSE [intent EXCEPT ![u] =
                         NewIntent("pending_upload", ReleaseKind(quota), issued, "now")]
    /\ pending' = [pending EXCEPT ![u] = None]
    /\ UNCHANGED attachment

-----------------------------------------------------------------------------
(***************************************************************************)
(* Upload through a presigned URL                                          *)
(***************************************************************************)
At(u, pc) == request[u] = pc
Go(u, pc) == request' = [request EXCEPT ![u] = pc] /\ UNCHANGED <<confirm, task>>

\* The admission is durable before the quota is asked or a URL exists.
Presign(u) ==
    /\ At(u, "new")
    /\ IF Fenced(u) THEN Go(u, "done") /\ UNCHANGED pending
       ELSE /\ pending' = [pending EXCEPT ![u] =
                  [quota |-> IF metered THEN "reserve_pending" ELSE "not_required",
                   issued |-> FALSE, owner |-> "presign", live |-> TRUE]]
            /\ Go(u, IF metered THEN "reserve" ELSE "issue")
    /\ UNCHANGED <<intent, attachment, host, time, rest, odd, spent>>

PresignReserve(u) ==
    /\ At(u, "reserve")
    /\ \/ /\ charge' = [charge EXCEPT ![u] = Reserve(@)]
          /\ Go(u, "reserved")
          /\ UNCHANGED <<odd, spent>>
       \/ /\ \E c \in {charge[u], Reserve(charge[u])} : charge' = [charge EXCEPT ![u] = c]
          /\ Go(u, "unavailable")
          /\ Fails
          /\ UNCHANGED odd
       \/ /\ Refuses(u)
          /\ Go(u, "refused")
          /\ UNCHANGED charge
    /\ UNCHANGED <<db, object, time, rest>>

\* The failed reservation is recorded whoever holds the lease by now.
PresignNotReserved(u) ==
    /\ request[u] \in {"unavailable", "refused"}
    /\ Update(u, [Released(pending[u]) EXCEPT !.quota =
                    IF At(u, "refused") THEN "not_required" ELSE "reserve_pending"])
    /\ Go(u, "done")
    /\ UNCHANGED <<intent, attachment, host, time, rest, odd, spent>>

PresignReserved(u) ==
    /\ At(u, "reserved")
    /\ ~Fenced(u) /\ Holds(pending[u], "presign")
    /\ pending' = [pending EXCEPT ![u].quota = "reserved"]
    /\ Go(u, "issue")
    /\ UNCHANGED <<intent, attachment, host, time, rest, odd, spent>>

\* The URL was signed a moment ago; the client gets it if the lease still holds.
PresignIssue(u) ==
    /\ At(u, "issue")
    /\ ~Fenced(u) /\ Holds(pending[u], "presign")
    /\ pending' = [pending EXCEPT ![u] = [Released(@) EXCEPT !.issued = TRUE]]
    /\ url' = [url EXCEPT ![u] = "live"]
    /\ Go(u, "done")
    /\ UNCHANGED <<intent, attachment, host, expired, rest, odd, spent>>

\* The catch block, after a lost lease or a failed statement.
PresignLost(u) ==
    /\ request[u] \in {"reserved", "issue"}
    /\ \/ (Fenced(u) \/ ~Holds(pending[u], "presign")) /\ UNCHANGED spent
       \/ Fails
    /\ Update(u, Released(pending[u]))
    /\ Go(u, "done")
    /\ UNCHANGED <<intent, attachment, host, time, rest, odd>>

\* The client's PUT.  Nobody waits for one that arrives after expires_at, or
\* once the attachment it belongs to was deleted.
Put(u) ==
    /\ url[u] = "live"
    /\ object' = object \cup {u}
    /\ odd' = IF u \in expired \/ attachment[u] = "deleted"
              THEN [odd EXCEPT !.late = @ \cup {u}] ELSE odd
    /\ UNCHANGED <<db, charge, time, process, rest, spent>>

-----------------------------------------------------------------------------
(***************************************************************************)
(* Confirmation                                                            *)
(***************************************************************************)
U(c) == confirm[c].upload
ConfirmAt(c, pc) == confirm[c].pc = pc
ConfirmGo(c, pc) == confirm' = [confirm EXCEPT ![c].pc = pc] /\ UNCHANGED <<request, task>>
ConfirmEnd(c) == confirm' = [confirm EXCEPT ![c] = IdleConfirm] /\ UNCHANGED <<request, task>>

Claimable(u) == pending[u] # None /\ u \notin expired /\ ~pending[u].live

\* A claim that meets the fence is refused, and the request abandons the upload.
ConfirmClaim(c, u) ==
    /\ ConfirmAt(c, "idle")
    /\ url[u] # "none"
    /\ Claimable(u)
    /\ pending' = IF Fenced(u) THEN pending
                  ELSE [pending EXCEPT ![u] = [@ EXCEPT !.owner = c, !.live = TRUE]]
    /\ confirm' = [confirm EXCEPT ![c] = [pc |-> IF Fenced(u) THEN "fenced" ELSE "head", upload |-> u]]
    /\ UNCHANGED <<intent, attachment, host, time, request, task, rest, odd, spent>>

\* The request's checks and HEAD; either may reject it.
ConfirmHead(c) ==
    /\ ConfirmAt(c, "head")
    /\ \/ U(c) \in object /\ ConfirmGo(c, IF metered THEN "finalize" ELSE "insert")
       \/ ConfirmGo(c, "abandon")
    /\ UNCHANGED <<db, host, time, rest, odd, spent>>

ConfirmFinalize(c) ==
    /\ ConfirmAt(c, "finalize")
    /\ IF ~Fenced(U(c)) /\ Holds(pending[U(c)], c)
       THEN /\ pending' = [pending EXCEPT ![U(c)].quota = "finalize_pending"]
            /\ ConfirmGo(c, "commit")
       ELSE ConfirmGo(c, "release") /\ UNCHANGED pending
    /\ UNCHANGED <<intent, attachment, host, time, rest, odd, spent>>

\* admission.finalize: charged, retryable, or terminal.
ConfirmCommit(c) ==
    /\ ConfirmAt(c, "commit")
    /\ \/ /\ charge' = [charge EXCEPT ![U(c)] = Finalize(@)]
          /\ ConfirmGo(c, "committed")
          /\ UNCHANGED <<odd, spent>>
       \/ /\ \E x \in {charge[U(c)], Finalize(charge[U(c)])} :
                charge' = [charge EXCEPT ![U(c)] = x]
          /\ ConfirmGo(c, "release")
          /\ Fails
          /\ UNCHANGED odd
       \/ /\ charge[U(c)] # "committed"
          /\ spent.refusals < MaxRefusals /\ Spend("refusals")
          /\ odd' = [odd EXCEPT !.refused = @ \cup {U(c)}]
          /\ ConfirmGo(c, "abandon")
          /\ UNCHANGED charge
    /\ UNCHANGED <<db, object, time, rest>>

ConfirmCommitted(c) ==
    /\ ConfirmAt(c, "committed")
    /\ IF ~Fenced(U(c)) /\ Holds(pending[U(c)], c)
       THEN /\ pending' = [pending EXCEPT ![U(c)].quota = "committed"]
            /\ ConfirmGo(c, "insert")
       ELSE ConfirmGo(c, "release") /\ UNCHANGED pending
    /\ UNCHANGED <<intent, attachment, host, time, rest, odd, spent>>

\* Mutant: the lease is not checked again before the insert.
ConfirmInsertUnlocked(c) ==
    /\ ConfirmAt(c, "insert")
    /\ IF ~Fenced(U(c))
       THEN /\ attachment' = [attachment EXCEPT ![U(c)] = "present"]
            /\ pending' = [pending EXCEPT ![U(c)] = IF Holds(@, c) THEN None ELSE @]
            /\ ConfirmEnd(c)
       ELSE ConfirmGo(c, "abandon") /\ UNCHANGED <<attachment, pending>>
    /\ UNCHANGED <<intent, host, time, rest, odd, spent>>

\* The last transaction: relock, insert the attachment, delete the admission.
ConfirmInsert(c) ==
    /\ ConfirmAt(c, "insert")
    /\ IF ~Fenced(U(c)) /\ Holds(pending[U(c)], c) /\ pending[U(c)].live
       THEN /\ attachment' = [attachment EXCEPT ![U(c)] = "present"]
            /\ pending' = [pending EXCEPT ![U(c)] = None]
            /\ ConfirmEnd(c)
       ELSE ConfirmGo(c, "abandon") /\ UNCHANGED <<attachment, pending>>
    /\ UNCHANGED <<intent, host, time, rest, odd, spent>>

\* The signed token is authority over a row that nobody leases, the lease over one's own.
Proven(c) == IF ConfirmAt(c, "fenced") THEN pending[U(c)] # None /\ ~pending[U(c)].live
                                       ELSE Holds(pending[U(c)], c)

\* abandonPendingAttachmentUploadByProof and abandonClaimedPendingAttachmentUpload.
ConfirmAbandon(c) ==
    /\ ConfirmAt(c, "fenced") \/ ConfirmAt(c, "abandon")
    /\ IF Proven(c)
       THEN StagePending(U(c), pending[U(c)].quota, pending[U(c)].issued)
       ELSE UNCHANGED db
    /\ ConfirmEnd(c)
    /\ UNCHANGED <<host, time, rest, odd, spent>>

ConfirmRelease(c) ==
    /\ ConfirmAt(c, "release")
    /\ IF Holds(pending[U(c)], c) THEN Update(U(c), Released(pending[U(c)])) ELSE UNCHANGED pending
    /\ ConfirmEnd(c)
    /\ UNCHANGED <<intent, attachment, host, time, rest, odd, spent>>

-----------------------------------------------------------------------------
(***************************************************************************)
(* The expiry sweep and the drain of the cleanup outbox                    *)
(***************************************************************************)
T(w) == task[w].upload
TaskAt(w, pc) == task[w].pc = pc
TaskSet(w, rec) == task' = [task EXCEPT ![w] = rec] /\ UNCHANGED <<request, confirm>>
TaskGo(w, pc) == TaskSet(w, [task[w] EXCEPT !.pc = pc])
TaskEnd(w) == TaskSet(w, IdleTask)

Sweepable(u) ==
    /\ pending[u] # None /\ ~pending[u].live
    /\ u \in expired \/ ~pending[u].issued

QuotaStep(quota) ==
    CASE quota = "reserve_pending" -> "reserve"
      [] quota = "finalize_pending" -> "finalize"
      [] OTHER -> "stage"

\* claimExpiredPendingUploads is one statement over a page of every account's
\* rows: the trigger refuses it when one of them belongs to a fenced account.
SweepClaim(w, u) ==
    /\ TaskAt(w, "idle")
    /\ Sweepable(u)
    /\ \A v \in Upload : Sweepable(v) => ~Fenced(v)
    /\ pending' = [pending EXCEPT ![u] = [@ EXCEPT !.owner = w, !.live = TRUE]]
    /\ TaskSet(w, [pc |-> QuotaStep(pending[u].quota), upload |-> u,
                   quota |-> pending[u].quota, issued |-> pending[u].issued, final |-> FALSE])
    /\ UNCHANGED <<intent, attachment, host, time, rest, odd, spent>>

\* An external call of the sweep; a failed one may have taken effect.
SweepCall(w, pc, done, effect) ==
    /\ TaskAt(w, pc)
    /\ \/ charge' = [charge EXCEPT ![T(w)] = effect] /\ TaskGo(w, done) /\ UNCHANGED spent
       \/ /\ \E c \in {charge[T(w)], effect} : charge' = [charge EXCEPT ![T(w)] = c]
          /\ TaskGo(w, "sweepFailed")
          /\ Fails
    /\ UNCHANGED <<db, object, time, rest, odd>>

SweepReserve(w) == SweepCall(w, "reserve", "reserved", Reserve(charge[T(w)]))
SweepFinalize(w) == SweepCall(w, "finalize", "finalized", Finalize(charge[T(w)]))

\* A refusal: every later sweep asks again.
SweepRefused(w) ==
    /\ \/ TaskAt(w, "reserve") /\ charge[T(w)] = "none"
       \/ TaskAt(w, "finalize") /\ charge[T(w)] # "committed"
    /\ spent.refusals < MaxRefusals /\ Spend("refusals")
    /\ odd' = [odd EXCEPT !.refused = @ \cup {T(w)}]
    /\ TaskGo(w, "sweepFailed")
    /\ UNCHANGED <<db, host, time, rest>>

\* The phase is recorded if the lease is still held; the task goes on either way.
SweepRecord(w, pc, quota) ==
    /\ TaskAt(w, pc)
    /\ IF Fenced(T(w)) /\ Holds(pending[T(w)], w)
       THEN TaskGo(w, "sweepFailed") /\ UNCHANGED pending
       ELSE /\ IF Holds(pending[T(w)], w) THEN pending' = [pending EXCEPT ![T(w)].quota = quota]
                                          ELSE UNCHANGED pending
            /\ TaskSet(w, [task[w] EXCEPT !.pc = "stage", !.quota = quota])
    /\ UNCHANGED <<intent, attachment, host, time, rest, odd, spent>>

SweepReserved(w) == SweepRecord(w, "reserved", "reserved")
SweepFinalized(w) == SweepRecord(w, "finalized", "committed")

\* Insert the intent, delete the row by its id: the lease is not asked for.
SweepStage(w) ==
    /\ TaskAt(w, "stage")
    /\ IF Fenced(T(w))
       THEN TaskGo(w, "sweepFailed") /\ UNCHANGED db
       ELSE StagePending(T(w), task[w].quota, task[w].issued) /\ TaskEnd(w)
    /\ UNCHANGED <<host, time, rest, odd, spent>>

\* recordPendingFailure: nobody owns the row, which rests for a lease's time.
SweepFailed(w) ==
    /\ TaskAt(w, "sweepFailed")
    /\ IF Holds(pending[T(w)], w)
       THEN Update(T(w), [pending[T(w)] EXCEPT !.owner = None, !.live = TRUE])
       ELSE UNCHANGED pending
    /\ TaskEnd(w)
    /\ UNCHANGED <<intent, attachment, host, time, rest, odd, spent>>

Confirming(u) == pending[u] # None /\ pending[u].live /\ pending[u].owner \in Confirmer

\* Mutant: a dead lease is not taken over.
DrainableUnleased(u) == intent[u] # None /\ intent[u].due = "now" /\ intent[u].owner = None

Drainable(u) ==
    /\ intent[u] # None /\ intent[u].due = "now" /\ ~intent[u].live
    /\ ~Confirming(u)

\* Mutant: every pass is the last.
DrainClaimOnce(w, u) ==
    /\ TaskAt(w, "idle")
    /\ Drainable(u)
    /\ intent' = [intent EXCEPT ![u] = [@ EXCEPT !.owner = w, !.live = TRUE]]
    /\ TaskSet(w, [pc |-> "delete", upload |-> u, quota |-> intent[u].release, issued |-> FALSE,
                   final |-> TRUE])
    /\ UNCHANGED <<pending, attachment, host, time, rest, odd, spent>>

\* claimCleanupPage; whether this is the last pass is judged by the claim's time.
DrainClaim(w, u) ==
    /\ TaskAt(w, "idle")
    /\ Drainable(u)
    /\ intent' = [intent EXCEPT ![u] = [@ EXCEPT !.owner = w, !.live = TRUE]]
    /\ TaskSet(w, [pc |-> "delete", upload |-> u, quota |-> intent[u].release, issued |-> FALSE,
                   final |-> ~intent[u].retain \/ u \in expired])
    /\ UNCHANGED <<pending, attachment, host, time, rest, odd, spent>>

\* The objects of the page; one that stays fails the whole page, whatever went.
DrainDelete(w) ==
    /\ TaskAt(w, "delete")
    /\ \/ /\ object' = object \ {T(w)}
          /\ odd' = [odd EXCEPT !.late = @ \ {T(w)}]
          /\ \/ TaskGo(w, IF task[w].final THEN "settle" ELSE "defer") /\ UNCHANGED spent
             \/ TaskGo(w, "drainFailed") /\ Fails
       \/ TaskGo(w, "drainFailed") /\ Fails /\ UNCHANGED <<object, odd>>
    /\ UNCHANGED <<db, charge, time, rest>>

\* Every later write of the drain is to the intent it still leases.
LeasedIntent(w, row) ==
    intent' = IF Holds(intent[T(w)], w) THEN [intent EXCEPT ![T(w)] = row] ELSE intent

\* retainUntilFinalPass: the client may still PUT; come back when the URL is dead.
DrainDefer(w) ==
    /\ TaskAt(w, "defer")
    /\ LeasedIntent(w, [Released(intent[T(w)]) EXCEPT !.due = "expiry"])
    /\ TaskEnd(w)
    /\ UNCHANGED <<pending, attachment, host, time, rest, odd, spent>>

DrainSettle(w) ==
    /\ TaskAt(w, "settle")
    /\ \/ /\ charge' = [charge EXCEPT ![T(w)] = Settle(task[w].quota, @)]
          /\ TaskGo(w, "ack")
          /\ UNCHANGED spent
       \/ /\ \E c \in PartOf(task[w].quota, charge[T(w)]) : charge' = [charge EXCEPT ![T(w)] = c]
          /\ TaskGo(w, "drainFailed")
          /\ Fails
    /\ UNCHANGED <<db, object, time, rest, odd>>

\* The host refuses for good: the intent is retired with nothing released.
DrainRefused(w) ==
    /\ TaskAt(w, "settle")
    /\ \/ task[w].quota = "reserve_pending" /\ charge[T(w)] = "none"
       \/ task[w].quota = "finalize_pending" /\ charge[T(w)] # "committed"
    /\ spent.refusals < MaxRefusals /\ Spend("refusals")
    /\ odd' = [odd EXCEPT !.refused = @ \cup {T(w)}]
    /\ TaskGo(w, "ack")
    /\ UNCHANGED <<db, host, time, rest>>

DrainAck(w) ==
    /\ TaskAt(w, "ack")
    /\ LeasedIntent(w, None)
    /\ TaskEnd(w)
    /\ UNCHANGED <<pending, attachment, host, time, rest, odd, spent>>

\* The catch blocks, of the row and of its page: a call for another row of the page,
\* or the statement that ends it, fails this one wherever it stands.
DrainFailed(w) ==
    /\ \/ TaskAt(w, "drainFailed") /\ UNCHANGED spent
       \/ task[w].pc \in {"defer", "settle", "ack"} /\ Fails
    /\ LeasedIntent(w, [Released(intent[T(w)]) EXCEPT !.due = "retry"])
    /\ TaskEnd(w)
    /\ UNCHANGED <<pending, attachment, host, time, rest, odd>>

-----------------------------------------------------------------------------
(***************************************************************************)
(* The in-process upload, refused under workspace accounting               *)
(***************************************************************************)
\* Mutant: the intent is due while the write runs.
LegacyStageDue(u) ==
    /\ At(u, "new") /\ ~metered
    /\ ~Fenced(u)
    /\ intent' = [intent EXCEPT ![u] = NewIntent("uncommitted_upload", "none", FALSE, "now")]
    /\ Go(u, "put")
    /\ UNCHANGED <<pending, attachment, host, time, rest, odd, spent>>

LegacyStage(u) ==
    /\ At(u, "new") /\ ~metered
    /\ ~Fenced(u)
    /\ intent' = [intent EXCEPT ![u] = NewIntent("uncommitted_upload", "none", FALSE, "hold")]
    /\ Go(u, "put")
    /\ UNCHANGED <<pending, attachment, host, time, rest, odd, spent>>

LegacyPut(u) ==
    /\ At(u, "put")
    /\ \/ object' = object \cup {u} /\ Go(u, "insert") /\ UNCHANGED spent
       \/ object' \in {object, object \cup {u}} /\ Go(u, "undo") /\ Fails
    /\ UNCHANGED <<db, charge, time, rest, odd>>

\* Row in, intent out: the intent is deleted whoever holds its lease.
LegacyInsert(u) ==
    /\ At(u, "insert")
    /\ \/ /\ ~Fenced(u)
          /\ attachment' = [attachment EXCEPT ![u] = "present"]
          /\ intent' = [intent EXCEPT ![u] = None]
          /\ Go(u, "done")
          /\ UNCHANGED spent
       \/ Fenced(u) /\ Go(u, "undo") /\ UNCHANGED <<attachment, intent, spent>>
       \/ Fails /\ Go(u, "undo") /\ UNCHANGED <<attachment, intent>>
    /\ UNCHANGED <<pending, host, time, rest, odd>>

\* activateAttachmentStorageCleanup
LegacyUndo(u) ==
    /\ At(u, "undo")
    /\ intent' = IF intent[u] = None THEN intent ELSE [intent EXCEPT ![u].due = "now"]
    /\ Go(u, "done")
    /\ UNCHANGED <<pending, attachment, host, time, rest, odd, spent>>

(***************************************************************************)
(* Deletion                                                                *)
(***************************************************************************)
Drop(S) ==
    /\ attachment' = [u \in Upload |-> IF u \in S THEN "deleted" ELSE attachment[u]]
    /\ intent' = [u \in Upload |->
                    IF u \in S
                    THEN NewIntent("attachment", IF metered THEN "committed" ELSE "none", FALSE, "now")
                    ELSE intent[u]]

Delete(u) ==
    /\ attachment[u] = "present" /\ ~Fenced(u)
    /\ Drop({u})
    /\ UNCHANGED <<pending, host, time, process, rest, odd, spent>>

-----------------------------------------------------------------------------
(***************************************************************************)
(* Time, crashes                                                           *)
(***************************************************************************)
Expire(u) ==
    /\ pending[u] # None \/ intent[u] # None \/ url[u] = "live"
    /\ u \notin expired
    /\ expired' = expired \cup {u}
    /\ UNCHANGED <<db, host, url, process, rest, odd, spent>>

\* The URL is signed after expires_at is computed, and so outlives it.
UrlDies(u) ==
    /\ url[u] = "live" /\ u \in expired
    /\ url' = [url EXCEPT ![u] = "dead"]
    /\ UNCHANGED <<db, host, expired, process, rest, odd, spent>>

Presigning == {"reserve", "unavailable", "refused", "reserved", "issue"}

\* Is whoever took the lease of u's row still at work on it?
PendingHeld(u) ==
    LET o == pending[u].owner
    IN \/ o = "presign" /\ request[u] \in Presigning
       \/ o \in Confirmer /\ confirm[o].upload = u
       \/ o \in Task /\ task[o].upload = u

IntentHeld(u) == intent[u].owner \in Task /\ task[intent[u].owner].upload = u

\* A lease that runs out under a live holder is a stall, which is bounded.
Stalls(held) ==
    IF held THEN spent.stalls < MaxStalls /\ Spend("stalls") ELSE UNCHANGED spent

PendingLapse(u) ==
    /\ pending[u] # None /\ pending[u].live
    /\ Stalls(PendingHeld(u))
    /\ pending' = [pending EXCEPT ![u].live = FALSE]
    /\ UNCHANGED <<intent, attachment, host, time, process, rest, odd>>

IntentLapse(u) ==
    /\ intent[u] # None /\ intent[u].live
    /\ Stalls(IntentHeld(u))
    /\ intent' = [intent EXCEPT ![u].live = FALSE]
    /\ UNCHANGED <<pending, attachment, host, time, process, rest, odd>>

\* not_before is reached.  The hold of an in-process upload is five minutes,
\* whether or not its PUT has returned.
DueNow(u) ==
    /\ intent[u] # None /\ intent[u].due # "now"
    /\ intent[u].due = "expiry" => u \in expired
    /\ Stalls(intent[u].due = "hold" /\ request[u] \in {"put", "insert"})
    /\ odd' = IF intent[u].due = "hold" /\ request[u] \in {"put", "insert"}
              THEN [odd EXCEPT !.overrun = @ \cup {u}] ELSE odd
    /\ intent' = [intent EXCEPT ![u].due = "now"]
    /\ UNCHANGED <<pending, attachment, host, time, process, rest>>

\* The process dies with every request and task; rows and leases stay.
Crash ==
    /\ spent.crashes < MaxCrashes /\ Spend("crashes")
    /\ request' = [u \in Upload |-> IF At(u, "new") THEN "new" ELSE "done"]
    /\ confirm' = [c \in Confirmer |-> IdleConfirm]
    /\ task' = [w \in Task |-> IdleTask]
    /\ UNCHANGED <<db, host, time, rest, odd>>

-----------------------------------------------------------------------------
(***************************************************************************)
(* The purge of an account, as far as it concerns attachments              *)
(***************************************************************************)
Of(a) == {u \in Upload : OwnerOf[u] = a}
PurgeGo(a, step) == purge' = [purge EXCEPT ![a] = step] /\ UNCHANGED metered

PurgeFence(a) ==
    /\ purge[a] = "none"
    /\ PurgeGo(a, "settling")
    /\ UNCHANGED <<db, host, time, process, odd, spent>>

\* settle_pending_attachment_uploads: stages every admission, leased or not.
PurgeSettle(a) ==
    LET S == {u \in Of(a) : pending[u] # None}
    IN /\ purge[a] = "settling" /\ S # {}
       /\ intent' = [u \in Upload |->
                       IF u \in S /\ intent[u] = None
                       THEN NewIntent("pending_upload", ReleaseKind(pending[u].quota),
                                      pending[u].issued, "now")
                       ELSE intent[u]]
       /\ pending' = [u \in Upload |-> IF u \in S THEN None ELSE pending[u]]
       /\ UNCHANGED <<attachment, host, time, process, rest, odd, spent>>

Unanswered(a) == {u \in Of(a) : pending[u] # None \/ intent[u] # None}

\* The step is over once no intent of the account is left.
PurgeSettled(a) ==
    /\ purge[a] = "settling" /\ Unanswered(a) = {}
    /\ PurgeGo(a, "deleting")
    /\ UNCHANGED <<db, host, time, process, odd, spent>>

\* delete_attachment_objects
PurgeDelete(a) ==
    LET S == {u \in Of(a) : attachment[u] = "present"}
    IN /\ purge[a] = "deleting" /\ S # {}
       /\ Drop(S)
       /\ UNCHANGED <<pending, host, time, process, rest, odd, spent>>

\* Mutant: the purge does not look for retained intents.
PurgeDoneEarly(a) ==
    /\ purge[a] = "deleting"
    /\ \A u \in Of(a) : attachment[u] # "present"
    /\ PurgeGo(a, "purged")
    /\ UNCHANGED <<db, host, time, process, odd, spent>>

\* release_attachment_quota, and the rest of the purge.
PurgeDone(a) ==
    /\ purge[a] = "deleting"
    /\ \A u \in Of(a) : attachment[u] # "present" /\ intent[u] = None
    /\ PurgeGo(a, "purged")
    /\ UNCHANGED <<db, host, time, process, odd, spent>>

-----------------------------------------------------------------------------
UploadStep(u) ==
    \/ Presign(u) \/ PresignReserve(u) \/ PresignNotReserved(u) \/ PresignReserved(u)
    \/ PresignIssue(u) \/ PresignLost(u)
    \/ LegacyStage(u) \/ LegacyPut(u) \/ LegacyInsert(u) \/ LegacyUndo(u)

ConfirmStep(c) ==
    \/ ConfirmHead(c) \/ ConfirmFinalize(c) \/ ConfirmCommit(c) \/ ConfirmCommitted(c)
    \/ ConfirmInsert(c) \/ ConfirmAbandon(c) \/ ConfirmRelease(c)

TaskStep(w) ==
    \/ SweepReserve(w) \/ SweepReserved(w) \/ SweepFinalize(w) \/ SweepFinalized(w)
    \/ SweepRefused(w) \/ SweepStage(w) \/ SweepFailed(w)
    \/ DrainDelete(w) \/ DrainDefer(w) \/ DrainSettle(w) \/ DrainRefused(w)
    \/ DrainAck(w) \/ DrainFailed(w)

TaskClaim(u) == \E w \in Task : SweepClaim(w, u) \/ DrainClaim(w, u)

Clock(u) == Expire(u) \/ UrlDies(u) \/ PendingLapse(u) \/ IntentLapse(u) \/ DueNow(u)

Next ==
    \/ \E u \in Upload :
          \/ UploadStep(u) \/ Put(u) \/ Delete(u) \/ TaskClaim(u) \/ Clock(u)
          \/ \E c \in Confirmer : ConfirmClaim(c, u)
    \/ \E c \in Confirmer : ConfirmStep(c)
    \/ \E w \in Task : TaskStep(w)
    \/ \E a \in Account :
          PurgeFence(a) \/ PurgeSettle(a) \/ PurgeSettled(a) \/ PurgeDelete(a) \/ PurgeDone(a)
    \/ Crash

Spec == Init /\ [][Next]_vars

\* Requests and tasks run on, the sweep's interval comes round, time passes.
\* No client has to confirm, delete or purge.
FairSpec ==
    /\ Spec
    /\ \A u \in Upload : /\ WF_vars(UploadStep(u)) /\ WF_vars(TaskClaim(u))
                         /\ WF_vars(Expire(u)) /\ WF_vars(UrlDies(u)) /\ WF_vars(DueNow(u))
                         /\ WF_vars(PendingLapse(u)) /\ WF_vars(IntentLapse(u))
    /\ \A c \in Confirmer : WF_vars(ConfirmStep(c))
    /\ \A w \in Task : WF_vars(TaskStep(w))
-----------------------------------------------------------------------------
\* The state has its type.
TypeOK ==
    /\ metered \in BOOLEAN
    /\ pending \in [Upload -> Admission \cup {None}]
    /\ intent \in [Upload -> Intent \cup {None}]
    /\ attachment \in [Upload -> {"none", "present", "deleted"}]
    /\ object \subseteq Upload
    /\ charge \in [Upload -> {"none", "reserved", "committed", "released"}]
    /\ expired \subseteq Upload
    /\ url \in [Upload -> {"none", "live", "dead"}]
    /\ request \in [Upload -> RequestPc]
    /\ confirm \in [Confirmer -> Confirmation]
    /\ task \in [Task -> CleanupTask]
    /\ purge \in [Account -> {"none", "settling", "deleting", "purged"}]
    /\ odd \in [overrun : SUBSET Upload, late : SUBSET Upload, refused : SUBSET Upload]
    /\ spent \in [failures : 0..MaxFailures, refusals : 0..MaxRefusals,
                  crashes : 0..MaxCrashes, stalls : 0..MaxStalls]

\* At most one of the admission, the attachment and the cleanup intent speaks
\* for a storage key: confirmation, sweep, drain, deletion and purge hand it
\* over, whatever leases lapse under them (the lease of attachment-upload-
\* cleanup.ts, the conflict targets of the outbox).
OneAuthority ==
    \A u \in Upload :
        /\ pending[u] # None => attachment[u] = "none" /\ intent[u] = None
        /\ attachment[u] = "present" => intent[u] = None

\* An attachment a reader can open has its object and, under workspace
\* accounting, its charge, unless its in-process write outran the hold: no
\* slow sweep, drain or second confirmation takes them away.
AttachmentIsWhole ==
    \A u \in Upload :
        attachment[u] = "present" /\ u \notin odd.overrun =>
            u \in object /\ (metered => charge[u] = "committed")

\* Every object has a row that will keep it or delete it, unless a PUT came
\* that nobody waits for.
ObjectAnswered ==
    \A u \in object :
        \/ pending[u] # None \/ attachment[u] = "present" \/ intent[u] # None
        \/ u \in odd.late \/ u \in odd.overrun

\* Every charge has a row that will keep it or release it, unless the host
\* refused something of this upload.
ChargeAnswered ==
    \A u \in Upload :
        charge[u] \in {"reserved", "committed"} =>
            \/ pending[u] # None \/ attachment[u] = "present" \/ intent[u] # None
            \/ u \in odd.refused

\* A finished purge leaves no row, object or charge of the account.
PurgeLeavesNothing ==
    \A u \in Upload :
        purge[OwnerOf[u]] = "purged" =>
            /\ pending[u] = None /\ attachment[u] # "present" /\ intent[u] = None
            /\ u \in object => u \in odd.late \cup odd.overrun
            /\ charge[u] \in {"reserved", "committed"} => u \in odd.refused

\* The life of each key, as the rows and an in-process upload tell it.
LifeOf(u) ==
    CASE u \in odd.overrun -> "astray"
      [] u \notin odd.overrun /\ attachment[u] = "present" -> "kept"
      [] u \notin odd.overrun /\ attachment[u] # "present"
            /\ (pending[u] # None \/ request[u] \in {"put", "insert"}) -> "uploading"
      [] u \notin odd.overrun /\ attachment[u] # "present"
            /\ pending[u] = None /\ request[u] \notin {"put", "insert"} ->
               IF intent[u] # None THEN "dropping"
               ELSE IF request[u] = "new" THEN "absent" ELSE "gone"

\* The saga of upload, confirmation, sweep, drain, deletion and purge is, to a
\* reader, the simple life of UploadLife: nothing but a deletion takes an
\* attachment away and no slow confirmation brings a dropped upload back.
Lives == INSTANCE UploadLife WITH life <- [u \in Upload |-> LifeOf(u)]
LifeSpec == Lives!Spec

\* Every admission and every intent is settled in the end, unless the row of an
\* account under purge holds up the sweep's page.
Settled(u) == pending[u] = None /\ intent[u] = None
UploadSettles ==
    \A u \in Upload : []<>(Settled(u) \/ \E v \in Upload : Fenced(v) /\ pending[v] # None)
=============================================================================
