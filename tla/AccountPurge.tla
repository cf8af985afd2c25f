---------------------------- MODULE AccountPurge ----------------------------
(***************************************************************************)
(* Purging one account (backend/src/lib/lifecycle-service.ts) behind the   *)
(* fence its database triggers keep (packages/db/src/migrations): durable  *)
(* operations taken under a lease, their steps in order, calls that lose   *)
(* the lease, fail, die or are refused by the host, and the writes of the  *)
(* account that go on until the fence closes.                              *)
(*                                                                         *)
(* One action is one transaction or one call of an adapter.                *)
(***************************************************************************)
EXTENDS Integers, Sequences

CONSTANTS
    None,
    Key,        \* idempotency keys: each has an operation of its own
    Call,       \* calls of purgeUserData that may run at once
    Order,      \* the steps, in order
    MaxWrites   \* bound on the writes of the account

\* Steps that delete rows, in a transaction with the cleanup token.
Deleting ==
    {"settle_pending_attachment_uploads", "remove_subject_created_shares",
     "remove_document_versions", "remove_chunks_and_embeddings", "delete_attachment_objects",
     "remove_subject_documents", "remove_subject_folders", "remove_subject_tags",
     "remove_subject_categories", "remove_api_keys", "remove_auth_sessions",
     "remove_auth_accounts", "remove_subject_audit", "tombstone_subject_user"}

\* The triggers of document_embeddings refuse an INSERT and let every DELETE pass.
Guarded == Deleting \ {"remove_chunks_and_embeddings"}

\* Steps that call an adapter, a queue or object storage, without that token.
Calling ==
    {"cancel_account_jobs", "remove_collaboration_state", "remove_graph_state",
     "release_attachment_quota", "remove_attachment_rows", "clear_redis_state", "host"}

StepName == Deleting \cup Calling \cup {"write_deletion_audit"}

\* The order of the code.
CodeOrder ==
    <<"cancel_account_jobs", "settle_pending_attachment_uploads", "remove_collaboration_state",
      "remove_subject_created_shares", "remove_document_versions",
      "remove_chunks_and_embeddings", "remove_graph_state", "delete_attachment_objects",
      "release_attachment_quota", "remove_attachment_rows", "clear_redis_state", "host",
      "remove_subject_documents", "remove_subject_folders", "remove_subject_tags",
      "remove_subject_categories", "remove_api_keys", "remove_auth_sessions",
      "remove_auth_accounts", "remove_subject_audit", "tombstone_subject_user",
      "write_deletion_audit">>

ASSUME NameAssumption == None \notin Call
ASSUME OrderAssumption == Order \in Seq(StepName)
\* The deletion is put on record at the very end.
ASSUME RecordAssumption ==
    /\ Len(Order) > 0
    /\ \A i \in 1..Len(Order) : Order[i] = "write_deletion_audit" <=> i = Len(Order)
ASSUME BoundsAssumption == MaxWrites \in Nat

\* The rows a step deletes are called by its name.
Domain == {Order[i] : i \in 1..Len(Order)} \cap Deleting

OpStatus == {"absent", "pending", "running", "retryable", "completed", "rejected"}
Operation == [status : OpStatus, owner : Call \cup {None}, lapsed : BOOLEAN,
              fenced : BOOLEAN, done : SUBSET StepName]
NoOperation == [status |-> "absent", owner |-> None, lapsed |-> FALSE, fenced |-> FALSE,
                done |-> {}]

CallPc == {"idle", "lease", "load", "verify", "fence", "step", "persist", "fail", "reject"}
Running == [pc : CallPc, key : Key \cup {None}, done : SUBSET StepName,
            at : 1..(Len(Order) + 1)]
IdleCall == [pc |-> "idle", key |-> None, done |-> {}, at |-> 1]

VARIABLES
    op,         \* lifecycle_operations by idempotency key
    call,       \* what each call of purgeUserData keeps
    rows,       \* domains that hold rows of the account
    audits,     \* has the deletion been put on record?
    writes      \* how many writes the account has made

vars == <<op, call, rows, audits, writes>>

Init ==
    /\ op = [k \in Key |-> NoOperation]
    /\ call = [c \in Call |-> IdleCall]
    /\ rows = Domain
    /\ audits = FALSE
    /\ writes = 0

-----------------------------------------------------------------------------
(***************************************************************************)
(* The fence: enforce_account_purge_fence and lifecycle_cleanup_authorized *)
(***************************************************************************)
\* Mutant: the fence stands only while the operation runs.
FencingRunning(k) == op[k].fenced /\ op[k].status = "running"

Fencing(k) == op[k].fenced /\ op[k].status # "rejected"
Fenced == \E k \in Key : Fencing(k)

KeyOf(c) == call[c].key
Owns(c) == op[KeyOf(c)].owner = c
\* Mutant: the token of the operation without that of the lease.
AuthorizedUnowned(c) ==
    LET o == op[KeyOf(c)]
    IN o.status = "running" /\ o.fenced /\ ~o.lapsed

Authorized(c) ==
    LET o == op[KeyOf(c)]
    IN o.owner = c /\ o.status = "running" /\ o.fenced /\ ~o.lapsed

At(c, pc) == call[c].pc = pc
Goto(c, pc) == call' = [call EXCEPT ![c].pc = pc]
Leave(c) == call' = [call EXCEPT ![c] = IdleCall]
Update(k, rec) == op' = [op EXCEPT ![k] = rec]

-----------------------------------------------------------------------------
(***************************************************************************)
(* One call of purgeUserData                                               *)
(***************************************************************************)
\* getOrCreateOperation: a completed operation is answered at once.
Begin(c, k) ==
    /\ At(c, "idle") /\ op[k].status # "completed"
    /\ Update(k, IF op[k].status = "absent" THEN [NoOperation EXCEPT !.status = "pending"]
                 ELSE op[k])
    /\ call' = [call EXCEPT ![c] = [IdleCall EXCEPT !.pc = "lease", !.key = k]]
    /\ UNCHANGED <<rows, audits, writes>>

\* Mutant: a rejected operation is taken up again.
AcquirableAlways(o) ==
    \/ o.status \in {"pending", "retryable", "rejected"}
    \/ o.status = "running" /\ o.lapsed

Acquirable(o) ==
    \/ o.status \in {"pending", "retryable"}
    \/ o.status = "running" /\ o.lapsed

\* A call that is not given the lease throws.
AcquireLease(c) ==
    /\ At(c, "lease")
    /\ LET o == op[KeyOf(c)]
       IN IF Acquirable(o)
          THEN /\ Update(KeyOf(c), [o EXCEPT !.status = "running", !.owner = c, !.lapsed = FALSE])
               /\ Goto(c, "load")
          ELSE Leave(c) /\ UNCHANGED op
    /\ UNCHANGED <<rows, audits, writes>>

Load(c) ==
    /\ At(c, "load")
    /\ call' = [call EXCEPT ![c].pc = "verify", ![c].done = op[KeyOf(c)].done]
    /\ UNCHANGED <<op, rows, audits, writes>>

\* verifyPurgeFence: the host's answer, which may be final.
Verify(c) ==
    /\ At(c, "verify")
    /\ Goto(c, "fence") \/ Goto(c, "fail") \/ Goto(c, "reject")
    /\ UNCHANGED <<op, rows, audits, writes>>

PutFence(c) ==
    /\ At(c, "fence")
    /\ IF Owns(c) THEN Update(KeyOf(c), [op[KeyOf(c)] EXCEPT !.fenced = TRUE]) /\ Goto(c, "step")
                  ELSE Leave(c) /\ UNCHANGED op
    /\ UNCHANGED <<rows, audits, writes>>

Current(c) == Order[call[c].at]
AtStep(c) == At(c, "step") /\ call[c].at <= Len(Order) /\ Current(c) \notin call[c].done

\* runStep passes over what the operation has completed.
Skip(c) ==
    /\ At(c, "step") /\ call[c].at <= Len(Order) /\ Current(c) \in call[c].done
    /\ call' = [call EXCEPT ![c].at = @ + 1]
    /\ UNCHANGED <<op, rows, audits, writes>>

\* The audit step takes the record of an earlier purge along.
Recorded(d) == audits /\ d = "remove_subject_audit"

\* A guarded statement; one that touches no row meets no fence. A step of many pages
\* leaves its domain in rows until the last of them.
Delete(c) ==
    /\ AtStep(c) /\ Current(c) \in Deleting
    /\ LET d == Current(c)
       IN IF (d \in rows \cap Guarded \/ Recorded(d)) /\ Fenced /\ ~Authorized(c)
          THEN Goto(c, "fail") /\ UNCHANGED <<rows, audits>>
          ELSE /\ rows' = rows \ {d}
               /\ audits' = (audits /\ ~Recorded(d))
               /\ Goto(c, "persist")
    /\ UNCHANGED <<op, writes>>

\* The adapters know nothing of the lease.
CallAdapter(c) ==
    /\ AtStep(c) /\ Current(c) \in Calling
    /\ Goto(c, "persist")
    /\ UNCHANGED <<op, rows, audits, writes>>

WriteAudit(c) ==
    /\ AtStep(c) /\ Current(c) = "write_deletion_audit"
    /\ IF Fenced /\ ~Authorized(c) THEN Goto(c, "fail") /\ UNCHANGED audits
       ELSE audits' = TRUE /\ Goto(c, "persist")
    /\ UNCHANGED <<op, rows, writes>>

\* persistStep: only the running holder of a lease that has not expired goes on.
PersistStep(c) ==
    /\ At(c, "persist")
    /\ LET o == op[KeyOf(c)]
       IN IF Owns(c) /\ o.status = "running" /\ ~o.lapsed
          THEN /\ Update(KeyOf(c), [o EXCEPT !.done = @ \cup {Current(c)}])
               /\ call' = [call EXCEPT ![c].pc = "step", ![c].at = @ + 1,
                                       ![c].done = @ \cup {Current(c)}]
          ELSE Leave(c) /\ UNCHANGED op
    /\ UNCHANGED <<rows, audits, writes>>

\* Mutants: the owner stays, the fence goes with the attempt.
EndedOwned(o, status) == [o EXCEPT !.status = status, !.lapsed = FALSE]
EndedOpen(o, status) ==
    [o EXCEPT !.status = status, !.owner = None, !.lapsed = FALSE, !.fenced = FALSE]

Ended(o, status) == [o EXCEPT !.status = status, !.owner = None, !.lapsed = FALSE]

\* The last step is behind: the operation is completed by its owner.
Complete(c) ==
    /\ At(c, "step") /\ call[c].at > Len(Order)
    /\ IF Owns(c) THEN Update(KeyOf(c), Ended(op[KeyOf(c)], "completed")) ELSE UNCHANGED op
    /\ Leave(c)
    /\ UNCHANGED <<rows, audits, writes>>

\* A step, or its adapter, throws, before or after it had its effect; the host's own
\* steps may throw the error that is final.
Throw(c) ==
    /\ \/ (At(c, "persist") \/ AtStep(c)) /\ Goto(c, "fail")
       \/ AtStep(c) /\ Current(c) = "host" /\ Goto(c, "reject")
    /\ UNCHANGED <<op, rows, audits, writes>>

\* The catch block: the owner leaves the operation for a retry, or refused for good.
Abandon(c) ==
    /\ At(c, "fail") \/ At(c, "reject")
    /\ IF Owns(c)
       THEN Update(KeyOf(c), Ended(op[KeyOf(c)], IF At(c, "reject") THEN "rejected" ELSE "retryable"))
       ELSE UNCHANGED op
    /\ Leave(c)
    /\ UNCHANGED <<rows, audits, writes>>

-----------------------------------------------------------------------------
(***************************************************************************)
(* The world                                                               *)
(***************************************************************************)
\* A minute has passed since the lease was taken: nobody renews it.
Lapse(k) ==
    /\ op[k].status = "running" /\ ~op[k].lapsed
    /\ Update(k, [op[k] EXCEPT !.lapsed = TRUE])
    /\ UNCHANGED <<call, rows, audits, writes>>

Die(c) ==
    /\ ~At(c, "idle")
    /\ Leave(c)
    /\ UNCHANGED <<op, rows, audits, writes>>

\* A request of the account writes rows the triggers guard.
Write(d) ==
    /\ ~Fenced /\ writes < MaxWrites
    /\ rows' = rows \cup {d}
    /\ writes' = writes + 1
    /\ UNCHANGED <<op, call, audits>>

Continue(c) ==
    \/ AcquireLease(c) \/ Load(c) \/ Verify(c) \/ PutFence(c)
    \/ Skip(c) \/ Delete(c) \/ CallAdapter(c) \/ WriteAudit(c)
    \/ PersistStep(c) \/ Complete(c) \/ Throw(c) \/ Abandon(c)

Next ==
    \/ \E c \in Call : Continue(c) \/ Die(c) \/ \E k \in Key : Begin(c, k)
    \/ \E k \in Key : Lapse(k)
    \/ \E d \in Domain : Write(d)

Spec == Init /\ [][Next]_vars
-----------------------------------------------------------------------------
\* The state has its type, and only a running operation has an owner, so that no
\* call of an attempt that is over can still write to it.
TypeOK ==
    /\ op \in [Key -> Operation]
    /\ \A k \in Key : op[k].status # "running" => op[k].owner = None
    /\ call \in [Call -> Running]
    /\ rows \subseteq Domain
    /\ audits \in BOOLEAN
    /\ writes \in 0..MaxWrites

\* A completed purge has erased every domain of the account, whatever was written
\* while it was asked for and whichever calls lost their lease, failed or died.
PurgeErases == \A k \in Key : op[k].status = "completed" => rows = {}

\* It leaves its record, which no late call of the same operation takes along;
\* only another purge of the account does.
PurgeIsRecorded ==
    \A k \in Key : op[k].status = "completed" =>
        audits \/ \E other \in Key \ {k} : op[other].fenced

\* A step an operation has on record stays done until the host refuses the
\* operation: nothing is written back between two attempts of a purge.
StepsStayDone ==
    \A k \in Key : op[k].status # "rejected" => op[k].done \cap rows = {}

\* The fence opens only when the host refuses: no failure, death, takeover or
\* completion lets the account write again.
FenceHoldsOut ==
    [][Fenced => Fenced' \/ \E k \in Key : op[k].status = "running" /\ op'[k].status = "rejected"]_vars
=============================================================================
