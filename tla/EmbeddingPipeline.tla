-------------------------- MODULE EmbeddingPipeline --------------------------
(***************************************************************************)
(* The prepare and embed stages of the durable document pipeline           *)
(* (backend/src/queue), for one document: the API requests that start a    *)
(* generation, the workers that prepare, embed and activate it, the BullMQ *)
(* queue that carries their jobs, account cancellation, and the crash and  *)
(* startup recovery of the process.                                        *)
(*                                                                         *)
(* PostgreSQL is doc, run, batch and row; Redis is job and slot; api and   *)
(* worker are the handlers in flight.  One action is one transaction or    *)
(* one queue call; everything a handler keeps across an await is in its    *)
(* record.  The reads that open a handler are one action with no write     *)
(* among them.                                                             *)
(***************************************************************************)
EXTENDS DocumentContent

CONSTANTS
    BatchSize,  \* QUEUE_EMBED_BATCH_SIZE
    Primary,    \* the configured provider's profile
    Gen,        \* generation ids
    Worker,     \* concurrent job handlers
    Client,     \* concurrent API requests
    MaxActive,  \* QUEUE_MAX_ACTIVE_BATCHES_PER_DOCUMENT
    MaxTries    \* QUEUE_JOB_ATTEMPTS, of a job and of a run's recovery

\* Bounds on what the environment does.
CONSTANTS MaxEdits, MaxRequests, MaxProviderFailures, MaxInfraFailures, MaxCrashes, MaxCancels

ASSUME LimitAssumption ==
    /\ BatchSize \in Nat \ {0} /\ MaxActive \in Nat \ {0} /\ MaxTries \in Nat \ {0}
    /\ Primary \in Profile
ASSUME BoundAssumption ==
    \A n \in {MaxEdits, MaxRequests, MaxProviderFailures, MaxInfraFailures, MaxCrashes, MaxCancels} :
        n \in Nat

(***************************************************************************)
(* Batches of chunks                                                       *)
(***************************************************************************)
BatchOf(c) == (c - 1) \div BatchSize
Batch == {BatchOf(c) : c \in Chunk}
BatchesOf(r) == {BatchOf(c) : c \in Chunks(r)}
ChunksIn(r, b) == {c \in Chunks(r) : BatchOf(c) = b}

(***************************************************************************)
(* Statuses and job ids                                                    *)
(***************************************************************************)
RunStatus == {"pending", "processing", "retrying", "failed", "cancelled"}
StageStatus == {"pending", "processing", "ready", "retrying", "failed", "cancelled"}
BatchStatus == {"none", "pending", "processing", "ready", "retrying", "cancelled"}
ActiveStatuses == {"pending", "processing", "retrying"}

Run == [revision : Revision, full : BOOLEAN, context : Context \cup {None},
        status : RunStatus, prepare : StageStatus, embed : StageStatus,
        attempts : Nat]

ASSUME NoneGenAssumption == None \notin Gen /\ None \notin Run

Document == [revision : Revision, context : Context, active : Gen \cup {None},
             activeContext : Context \cup {None}, pending : Gen \cup {None}]

PrepareJob(g) == <<"prepare", g, 0>>
EmbedJob(g, b) == <<"embed", g, b>>
GraphJob(g) == <<"graph", g, 0>>
JobId == {PrepareJob(g) : g \in Gen} \cup {EmbedJob(g, b) : g \in Gen, b \in Batch}
         \cup {GraphJob(g) : g \in Gen}
GenOf(j) == j[2]
BatchIn(j) == j[3]

\* A job id in Redis: absent, live, or retained after it ended.
JobState == {"none", "waiting", "active", "completed", "failed"}
Job == [state : JobState, tries : 0..MaxTries, full : BOOLEAN,
        context : Context \cup {None}]
NoJob == [state |-> "none", tries |-> 0, full |-> FALSE, context |-> None]

\* A queued job; refreshMode and embeddingContextHash are copied into its
\* payload, so a handler may see them older than those of the run.
Queued(full, x) == [state |-> "waiting", tries |-> 0, full |-> full, context |-> x]

WorkerPc == {"idle", "prepareStale", "prepareRun", "completeEmpty", "claim",
             "embedStale", "storeBatch", "completeBatch", "claimNext",
             "activate", "embedReady", "enqueue", "finish"}
ClientPc == {"idle", "slot", "enqueue", "add", "recheck"}

\* What a handler and a request keep across an await.
Handler == [pc : WorkerPc, job : JobId \cup {None}, full : BOOLEAN,
            context : Context \cup {None}, rows : Rows, profile : Profile \cup {None},
            total : Nat, next : SUBSET JobId, added : SUBSET JobId]
Caller == [pc : ClientPc, revision : Revision \cup {None}, full : BOOLEAN,
           gen : Gen \cup {None}]

VARIABLES
    doc,     \* the documents row: revision, metadata context, active and pending generation
    run,     \* document_pipeline_runs by generation
    batch,   \* document_pipeline_batches by generation and index
    row,     \* document_embeddings by generation and chunk
    job,     \* BullMQ jobs by id
    slot,    \* revisions whose 5 s Redis dedup key is set
    api,     \* API requests after their own transaction committed
    worker,  \* job handlers
    removal, \* account cancellation: jobs still to be removed
    spent    \* how much of each environment bound is used

vars == <<doc, run, batch, row, job, slot, api, worker, removal, spent>>

Exists(g) == run[g] # None
Cancelled(g) == Exists(g) /\ run[g].status = "cancelled"

IdleWorker == [pc |-> "idle", job |-> None, full |-> FALSE, context |-> None,
               rows |-> NoRows, profile |-> None, total |-> 0, next |-> {},
               added |-> {}]
IdleClient == [pc |-> "idle", revision |-> None, full |-> FALSE, gen |-> None]

Spend(what) == spent' = [spent EXCEPT ![what] = @ + 1]


\* The state right after a document was created: its POST committed and the
\* enqueue it fires has not run yet.
Init ==
    /\ \E r \in Revision, x \in Context, c \in Client :
          /\ doc = [revision |-> r, context |-> x, active |-> None,
                    activeContext |-> None, pending |-> None]
          /\ api = [d \in Client |->
                      IF d = c THEN [IdleClient EXCEPT !.pc = "enqueue", !.revision = r]
                      ELSE IdleClient]
    /\ run = [g \in Gen |-> None]
    /\ batch = [g \in Gen |-> [b \in Batch |-> "none"]]
    /\ row = [g \in Gen |-> NoRows]
    /\ job = [j \in JobId |-> NoJob]
    /\ slot = {}
    /\ worker = [w \in Worker |-> IdleWorker]
    /\ removal = FALSE
    /\ spent = [edits |-> 0, requests |-> 0, provider |-> 0, infra |-> 0,
                crashes |-> 0, cancels |-> 0]

-----------------------------------------------------------------------------
(***************************************************************************)
(* API requests                                                            *)
(***************************************************************************)

\* Queue.add, of the jobs new maps their ids to: an id that Redis still knows,
\* live or retained, is ignored.
Add(jobs, new) ==
    [j \in JobId |-> IF j \in DOMAIN new /\ jobs[j].state = "none" THEN new[j] ELSE jobs[j]]

\* job.remove() of the given ids; a job a worker has locked stays.
Remove(jobs, ids) ==
    [j \in JobId |-> IF j \in ids /\ jobs[j].state # "active" THEN NoJob ELSE jobs[j]]

\* PATCH with a new content hash: the revision commits, the enqueue is fired
\* and forgotten.
Edit(c, r) ==
    /\ api[c].pc = "idle"
    /\ r # doc.revision
    /\ spent.edits < MaxEdits
    /\ Spend("edits")
    /\ doc' = [doc EXCEPT !.revision = r]
    /\ api' = [api EXCEPT ![c] = [IdleClient EXCEPT !.pc = "slot", !.revision = r]]
    /\ UNCHANGED <<run, batch, row, job, slot, worker, removal>>

\* The index endpoint, or a metadata mutation: the second may change the
\* context and asks for a full refresh in a new generation.
Request(c, x, full) ==
    /\ api[c].pc = "idle"
    /\ full \/ x = doc.context
    /\ spent.requests < MaxRequests
    /\ Spend("requests")
    /\ doc' = [doc EXCEPT !.context = x]
    /\ api' = [api EXCEPT ![c] = [pc |-> "enqueue", revision |-> doc.revision,
                                  full |-> full, gen |-> None]]
    /\ UNCHANGED <<run, batch, row, job, slot, worker, removal>>

\* claimEnqueueSlot: SET NX, lost if the revision was requested within the TTL.
ClaimSlot(c) ==
    /\ api[c].pc = "slot"
    /\ slot' = slot \cup {api[c].revision}
    /\ api' = [api EXCEPT ![c] = IF api[c].revision \in slot THEN IdleClient
                                 ELSE [@ EXCEPT !.pc = "enqueue"]]
    /\ UNCHANGED <<doc, run, batch, row, job, worker, removal, spent>>

SlotExpire(r) ==
    /\ r \in slot
    /\ slot' = slot \ {r}
    /\ UNCHANGED <<doc, run, batch, row, job, api, worker, removal, spent>>

ActiveRun(g) == Exists(g) /\ run[g].status \in ActiveStatuses

\* findOrCreate reuses an active run of the same revision unless forced.
Deduplicates(c, g) ==
    ~api[c].full /\ ActiveRun(g) /\ run[g].revision = api[c].revision

EnqueueDeduplicated(c) ==
    /\ api[c].pc = "enqueue"
    /\ \E g \in Gen : Deduplicates(c, g)
    /\ api' = [api EXCEPT ![c] = IdleClient]
    /\ UNCHANGED <<doc, run, batch, row, job, slot, worker, removal, spent>>

NewRun(r, full) ==
    [revision |-> r, full |-> full, context |-> None, status |-> "pending",
     prepare |-> "pending", embed |-> "pending", attempts |-> 0]

\* findOrCreate inserts a run; forceNewGeneration first cancels the active ones.
FindOrCreate(c, g) ==
    /\ api[c].pc = "enqueue"
    /\ ~Exists(g)
    /\ ~\E h \in Gen : Deduplicates(c, h)
    /\ run' = [h \in Gen |->
                 CASE h = g -> NewRun(api[c].revision, api[c].full)
                   [] h # g /\ api[c].full /\ ActiveRun(h) ->
                        [run[h] EXCEPT !.status = "cancelled"]
                   [] OTHER -> run[h]]
    /\ api' = [api EXCEPT ![c].pc = "add", ![c].gen = g]
    /\ UNCHANGED <<doc, batch, row, job, slot, worker, removal, spent>>

AddPrepare(c) ==
    /\ api[c].pc = "add"
    /\ job' = Add(job, [j \in {PrepareJob(api[c].gen)} |-> Queued(api[c].full, None)])
    /\ api' = [api EXCEPT ![c].pc = "recheck"]
    /\ UNCHANGED <<doc, run, batch, row, slot, worker, removal, spent>>

RecheckPrepare(c) ==
    /\ api[c].pc = "recheck"
    /\ job' = IF Cancelled(api[c].gen) THEN Remove(job, {PrepareJob(api[c].gen)}) ELSE job
    /\ api' = [api EXCEPT ![c] = IdleClient]
    /\ UNCHANGED <<doc, run, batch, row, slot, worker, removal, spent>>

-----------------------------------------------------------------------------
(***************************************************************************)
(* Shared by the prepare and the embed worker                              *)
(***************************************************************************)
JobOf(w) == worker[w].job
G(w) == GenOf(JobOf(w))

At(w, pc) == worker[w].pc = pc
Goto(w, pc) == worker' = [worker EXCEPT ![w].pc = pc] /\ UNCHANGED job

\* The handler returns: BullMQ moves its job to completed.
Ended(jobs, j) == [jobs EXCEPT ![j].state = "completed"]
Done(w) ==
    /\ worker' = [worker EXCEPT ![w] = IdleWorker]
    /\ job' = Ended(job, JobOf(w))

\* Mutant: one retry too many.
ThrowOnceMore(w) ==
    LET t == job[JobOf(w)].tries + 1 IN
    /\ worker' = [worker EXCEPT ![w] = IdleWorker]
    /\ job' = [job EXCEPT ![JobOf(w)] =
                 [@ EXCEPT !.state = IF t <= MaxTries THEN "waiting" ELSE "failed",
                           !.tries = t]]

\* The handler throws: BullMQ retries the job until its attempts are used up.
Throw(w) ==
    LET t == job[JobOf(w)].tries + 1 IN
    /\ worker' = [worker EXCEPT ![w] = IdleWorker]
    /\ job' = [job EXCEPT ![JobOf(w)] =
                 [@ EXCEPT !.state = IF t < MaxTries THEN "waiting" ELSE "failed",
                           !.tries = t]]

\* A delivered job whose run carries the cancellation fence does nothing.
DropCancelled(w, j) ==
    /\ At(w, "idle")
    /\ job[j].state = "waiting"
    /\ j[1] \in {"prepare", "embed"}
    /\ Cancelled(GenOf(j))
    /\ job' = Ended(job, j)
    /\ UNCHANGED <<doc, run, batch, row, slot, api, worker, removal, spent>>

\* Mutant: the job is not locked, so a second worker may take it.
TakeUnlocked(j) == UNCHANGED job

Take(j) == job' = [job EXCEPT ![j].state = "active"]

\* Mutant: a stale job ends without failing its run.
MarkStaleSilently(w, stage) ==
    /\ Goto(w, "finish")
    /\ UNCHANGED <<doc, run, batch, row, slot, api, removal, spent>>

\* markRunStale, fenced by run.status.
MarkStale(w, stage) ==
    /\ run' = IF Cancelled(G(w)) THEN run
              ELSE [run EXCEPT ![G(w)] = [@ EXCEPT !.status = "failed", ![stage] = "failed"]]
    /\ Goto(w, "finish")
    /\ UNCHANGED <<doc, batch, row, slot, api, removal, spent>>

\* The batches that another handler of w's generation has claimed and not begun
\* to queue: the SELECT of w may have come before the UPDATE of that claim.
Contended(w) ==
    {b \in Batch : /\ batch[G(w)][b] = "processing"
                   /\ \E v \in Worker \ {w} : /\ At(v, "enqueue") /\ worker[v].added = {}
                                              /\ EmbedJob(G(w), b) \in worker[v].next}

\* Of the n batches with the lowest indexes that the SELECT saw pending, those
\* whose UPDATE finds them pending still: the lost ones are skipped.
Claimable(g, n, lost) ==
    LET open == {b \in Batch : batch[g][b] = "pending"}
    IN IF Cancelled(g) THEN {} ELSE {b \in open : Cardinality({x \in open \cup lost : x < b}) < n}

\* claimPendingBatches, then enqueueEmbed of what was claimed.
ClaimBatches(w, n, lost) ==
    LET g == G(w)
        claimed == Claimable(g, n, lost)
    IN /\ batch' = [batch EXCEPT ![g] =
                      [b \in Batch |-> IF b \in claimed THEN "processing" ELSE @[b]]]
       /\ IF claimed = {} THEN Done(w)
          ELSE /\ worker' = [worker EXCEPT ![w].pc = "enqueue",
                                           ![w].next = {EmbedJob(g, b) : b \in claimed},
                                           ![w].full = run[g].full,
                                           ![w].context = run[g].context]
               /\ UNCHANGED job
       /\ UNCHANGED <<doc, run, row, slot, api, removal, spent>>

\* enqueueIfActive: check the fence and add.
Enqueue(w) ==
    /\ At(w, "enqueue")
    /\ \E j \in worker[w].next :
          /\ job' = IF Cancelled(G(w)) THEN job
                    ELSE Add(job, [i \in {j} |-> Queued(worker[w].full, worker[w].context)])
          /\ worker' = [worker EXCEPT
                ![w].next = @ \ {j},
                ![w].added = IF Cancelled(G(w)) THEN @ ELSE @ \cup {j},
                ![w].pc = IF worker[w].next = {j} THEN "finish" ELSE "enqueue"]
    /\ UNCHANGED <<doc, run, batch, row, slot, api, removal, spent>>

\* The checks after the adds, some of which came before a cancellation, and
\* the end of the job.
Finish(w) ==
    /\ At(w, "finish")
    /\ worker' = [worker EXCEPT ![w] = IdleWorker]
    /\ \E late \in SUBSET worker[w].added :
          /\ late # {} => Cancelled(G(w))
          /\ job' = Ended(Remove(job, late), JobOf(w))
    /\ UNCHANGED <<doc, run, batch, row, slot, api, removal, spent>>

\* The check before a write finds the fence, and the handler returns.
Abandon(w) ==
    /\ worker[w].pc \in {"prepareRun", "completeEmpty", "storeBatch", "completeBatch",
                         "activate", "enqueue"}
    /\ worker[w].pc = "enqueue" => worker[w].added = {}
    /\ Cancelled(G(w))
    /\ Done(w)
    /\ UNCHANGED <<doc, run, batch, row, slot, api, removal, spent>>

-----------------------------------------------------------------------------
(***************************************************************************)
(* The prepare worker                                                      *)
(***************************************************************************)

\* Mutant: a row is reused for its position, whatever its text.
ReusableByIndex(r, full) ==
    IF full \/ doc.activeContext # doc.context \/ doc.active = None THEN {}
    ELSE {c \in Chunks(r) : row[doc.active][c] # None}

\* planEmbeddingReuse: which chunks of revision r keep the active row.  A
\* changed chunk also refreshes its neighbours.
Reusable(r, full) ==
    LET same(c) == /\ doc.active # None
                   /\ row[doc.active][c] # None
                   /\ row[doc.active][c].text = TextOf[r][c]
                   /\ row[doc.active][c].profile = Primary
        changed == {c \in Chunks(r) : ~same(c)}
    IN IF full \/ doc.activeContext # doc.context THEN {}
       ELSE {c \in Chunks(r) : {c - 1, c, c + 1} \cap changed = {}}

\* loadDocument and the plan made from it.
PrepareLoad(w, g) ==
    LET j == PrepareJob(g)
        reuse == Reusable(run[g].revision, job[j].full)
    IN /\ At(w, "idle")
       /\ job[j].state = "waiting"
       /\ ~Cancelled(g)
       /\ Take(j)
       /\ worker' = [worker EXCEPT ![w] =
            IF doc.revision # run[g].revision
            THEN [IdleWorker EXCEPT !.pc = "prepareStale", !.job = j]
            ELSE [IdleWorker EXCEPT !.pc = "prepareRun", !.job = j, !.context = doc.context,
                    !.rows = [c \in Chunk |-> IF c \in reuse THEN row[doc.active][c] ELSE None]]]
       /\ UNCHANGED <<doc, run, batch, row, slot, api, removal, spent>>

PrepareStale(w) == At(w, "prepareStale") /\ MarkStale(w, "prepare")

\* prepareRun answers "duplicate" or "stale" without writing.
PrepareRepeated(w) ==
    /\ At(w, "prepareRun")
    /\ \/ run[G(w)].prepare = "ready" /\ Done(w)
       \/ run[G(w)].prepare = "cancelled" /\ Goto(w, "prepareStale")
    /\ UNCHANGED <<doc, run, batch, row, slot, api, removal, spent>>

\* prepareRun commits: reused rows, the pending pointer, the batches and the run.
PrepareRun(w) ==
    LET g == G(w)
        r == run[g].revision
    IN /\ At(w, "prepareRun")
       /\ run[g].prepare \notin {"ready", "cancelled"}
       /\ row' = [row EXCEPT ![g] =
                    [c \in Chunk |-> IF @[c] = None THEN worker[w].rows[c] ELSE @[c]]]
       /\ doc' = [doc EXCEPT !.pending = g]
       /\ batch' = [batch EXCEPT ![g] =
                      [b \in Batch |-> IF b \in BatchesOf(r) /\ @[b] = "none"
                                       THEN "pending" ELSE @[b]]]
       /\ run' = IF Cancelled(g) THEN run
                 ELSE [run EXCEPT ![g] = [@ EXCEPT
                         !.status = "processing", !.prepare = "ready", !.embed = "pending",
                         !.context = worker[w].context,
                         !.full = (Stored(worker[w].rows) = {})]]
       /\ Goto(w, IF Chunks(r) = {} THEN "completeEmpty" ELSE "claim")
       /\ UNCHANGED <<slot, api, removal, spent>>

\* Activation: make g the active generation and delete the rows of all others.
ActivateRows(g, x) ==
    /\ doc' = [doc EXCEPT !.active = g, !.pending = None, !.activeContext = x]
    /\ row' = [h \in Gen |-> IF h = g THEN row[g] ELSE NoRows]

CompleteEmpty(w) ==
    LET g == G(w) IN
    /\ At(w, "completeEmpty")
    /\ IF ~Cancelled(g) /\ doc.pending = g
       THEN /\ ActivateRows(g, worker[w].context)
            /\ run' = [run EXCEPT ![g].embed = "ready"]
       ELSE UNCHANGED <<doc, row, run>>
    /\ worker' = [worker EXCEPT ![w].pc = "enqueue", ![w].next = {GraphJob(g)}]
    /\ UNCHANGED <<batch, job, slot, api, removal, spent>>

\* Mutant: the window is off by one.
ClaimOneMore(w) == At(w, "claim") /\ \E lost \in SUBSET Contended(w) : ClaimBatches(w, MaxActive + 1, lost)

Claim(w) == At(w, "claim") /\ \E lost \in SUBSET Contended(w) : ClaimBatches(w, MaxActive, lost)

-----------------------------------------------------------------------------
(***************************************************************************)
(* The embed worker                                                        *)
(***************************************************************************)

\* The document, its context or its pending pointer has moved on.
EmbedIsStale(g, b) ==
    \/ doc.revision # run[g].revision
    \/ doc.pending # g /\ ~(batch[g][b] = "ready" /\ doc.active = g)
    \/ doc.context # job[EmbedJob(g, b)].context

\* loadDocument, and the provider's answer p for the chunks still missing.
EmbedLoad(w, g, b, p) ==
    LET j == EmbedJob(g, b)
        r == run[g].revision
        candidates == IF job[j].full THEN {} ELSE Stored(row[g])
        selected == ChunksIn(r, b) \ candidates
        ready == batch[g][b] = "ready"
        fetch == ~ready /\ selected # {}
    IN /\ At(w, "idle")
       /\ job[j].state = "waiting"
       /\ ~Cancelled(g)
       /\ ~EmbedIsStale(g, b)
       /\ Take(j)
       /\ \/ fetch
          \/ ready /\ \E c \in Stored(row[g]) : p = row[g][c].profile
          \/ ~fetch /\ (~ready \/ Stored(row[g]) = {}) /\ p = Primary
       /\ worker' = [worker EXCEPT ![w] = [IdleWorker EXCEPT
                       !.pc = IF fetch THEN "storeBatch" ELSE "completeBatch",
                       !.job = j, !.context = job[j].context, !.profile = p,
                       !.rows = [c \in Chunk |->
                          IF fetch /\ c \in selected
                          THEN [text |-> TextOf[r][c], context |-> doc.context, profile |-> p]
                          ELSE None]]]
       /\ UNCHANGED <<doc, run, batch, row, slot, api, removal, spent>>

EmbedLoadStale(w, g, b) ==
    LET j == EmbedJob(g, b) IN
    /\ At(w, "idle")
    /\ job[j].state = "waiting"
    /\ ~Cancelled(g)
    /\ EmbedIsStale(g, b)
    /\ Take(j)
    /\ worker' = [worker EXCEPT ![w] = [IdleWorker EXCEPT !.pc = "embedStale", !.job = j]]
    /\ UNCHANGED <<doc, run, batch, row, slot, api, removal, spent>>

EmbedStale(w) == At(w, "embedStale") /\ MarkStale(w, "embed")

\* storeBatch: replace the rows of the batch, unless it is cancelled or done.
StoreBatch(w) ==
    LET g == G(w)
        b == BatchIn(JobOf(w))
    IN /\ At(w, "storeBatch")
       /\ IF Cancelled(g) \/ batch[g][b] = "none"
          THEN Goto(w, "embedStale") /\ UNCHANGED row
          ELSE /\ Goto(w, "completeBatch")
               /\ row' = IF batch[g][b] = "ready" THEN row
                         ELSE [row EXCEPT ![g] = [c \in Chunk |->
                                 IF worker[w].rows[c] # None THEN worker[w].rows[c] ELSE @[c]]]
       /\ UNCHANGED <<doc, run, batch, slot, api, removal, spent>>

\* Mutant: batches not yet scheduled are not waited for.
CompleteBatchEager(w) ==
    LET g == G(w)
        b == BatchIn(JobOf(w))
        now == [batch[g] EXCEPT ![b] = IF @ = "none" THEN "none" ELSE "ready"]
        all == \A x \in Batch : now[x] # "processing"
    IN /\ At(w, "completeBatch")
       /\ IF Cancelled(g)
          THEN Goto(w, "claimNext") /\ UNCHANGED <<run, batch>>
          ELSE /\ batch' = [batch EXCEPT ![g] = now]
               /\ run' = [run EXCEPT ![g].embed = IF all THEN "ready" ELSE "processing"]
               /\ worker' = [worker EXCEPT ![w].pc = IF all THEN "activate" ELSE "claimNext",
                                           ![w].total = Cardinality(Stored(row[g]))]
               /\ UNCHANGED job
       /\ UNCHANGED <<doc, row, slot, api, removal, spent>>

\* completeBatch: the batch is ready; the last one sends the worker on to
\* activation with the number of rows counted in this transaction.
CompleteBatch(w) ==
    LET g == G(w)
        b == BatchIn(JobOf(w))
        now == [batch[g] EXCEPT ![b] = IF @ = "none" THEN "none" ELSE "ready"]
        all == \A x \in Batch : now[x] \in {"none", "ready"}
    IN /\ At(w, "completeBatch")
       /\ IF Cancelled(g)
          THEN Goto(w, "claimNext") /\ UNCHANGED <<run, batch>>
          ELSE /\ batch' = [batch EXCEPT ![g] = now]
               /\ run' = [run EXCEPT ![g].embed = IF all THEN "ready" ELSE "processing"]
               /\ worker' = [worker EXCEPT ![w].pc = IF all THEN "activate" ELSE "claimNext",
                                           ![w].total = Cardinality(Stored(row[g]))]
               /\ UNCHANGED job
       /\ UNCHANGED <<doc, row, slot, api, removal, spent>>

\* Mutant: a finished batch does not claim the next one.
ClaimNextForgotten(w) ==
    /\ At(w, "claimNext")
    /\ Done(w)
    /\ UNCHANGED <<doc, run, batch, row, slot, api, removal, spent>>

ClaimNext(w) == At(w, "claimNext") /\ \E lost \in SUBSET Contended(w) : ClaimBatches(w, 1, lost)

\* Mutant: the profiles of the rows are not compared.
ActivatableMixed(w) ==
    /\ doc.pending = G(w)
    /\ Cardinality(Stored(row[G(w)])) = worker[w].total
    /\ worker[w].total > 0

\* What activateEmbeddingGeneration requires of the candidate rows.
Activatable(w) ==
    LET g == G(w) IN
    /\ doc.pending = g
    /\ Cardinality(Stored(row[g])) = worker[w].total
    /\ worker[w].total > 0
    /\ \A c \in Stored(row[g]) : row[g][c].profile = worker[w].profile

AlreadyActive(w) == doc.active = G(w) /\ doc.pending = None

\* Mutant: activation does not look at the fence.
ActivateUnfenced(w) ==
    /\ At(w, "activate")
    /\ ~AlreadyActive(w)
    /\ Activatable(w)
    /\ ActivateRows(G(w), worker[w].context)
    /\ Goto(w, "embedReady")
    /\ UNCHANGED <<run, batch, slot, api, removal, spent>>

Activate(w) ==
    /\ At(w, "activate")
    /\ ~Cancelled(G(w))
    /\ ~AlreadyActive(w)
    /\ Activatable(w)
    /\ ActivateRows(G(w), worker[w].context)
    /\ Goto(w, "embedReady")
    /\ UNCHANGED <<run, batch, slot, api, removal, spent>>

ActivateAgain(w) ==
    /\ At(w, "activate")
    /\ ~Cancelled(G(w))
    /\ AlreadyActive(w)
    /\ doc.activeContext = worker[w].context
    /\ Goto(w, "embedReady")
    /\ UNCHANGED <<doc, run, batch, row, slot, api, removal, spent>>

ActivateRefused(w) ==
    /\ At(w, "activate")
    /\ \/ Cancelled(G(w))
       \/ AlreadyActive(w) /\ doc.activeContext # worker[w].context
       \/ ~AlreadyActive(w) /\ ~Activatable(w)
    /\ Throw(w)
    /\ UNCHANGED <<doc, run, batch, row, slot, api, removal, spent>>

\* setStageStatus(embed, ready), then the graph job.
EmbedReady(w) ==
    /\ At(w, "embedReady")
    /\ run' = IF Cancelled(G(w)) THEN run ELSE [run EXCEPT ![G(w)].embed = "ready"]
    /\ worker' = [worker EXCEPT ![w].pc = "enqueue", ![w].next = {GraphJob(G(w))}]
    /\ UNCHANGED <<doc, batch, row, job, slot, api, removal, spent>>

-----------------------------------------------------------------------------
(***************************************************************************)
(* Failures, cancellation, crash and recovery                              *)
(***************************************************************************)

\* getEmbedding fails, or answers for one batch with two profiles.
ProviderFails(w) ==
    /\ At(w, "storeBatch")
    /\ spent.provider < MaxProviderFailures
    /\ Spend("provider")
    /\ Throw(w)
    /\ UNCHANGED <<doc, run, batch, row, slot, api, removal>>

\* PostgreSQL or Redis refuses the handler's next call.
InfraFails(w) ==
    /\ worker[w].pc # "idle"
    /\ spent.infra < MaxInfraFailures
    /\ Spend("infra")
    /\ Throw(w)
    /\ UNCHANGED <<doc, run, batch, row, slot, api, removal>>

\* cancelAccountPipelineJobs: the fence first, the waiting jobs afterwards.
CancelRuns ==
    LET hit == {g \in Gen : Exists(g) /\ run[g].status \in ActiveStatuses} IN
    /\ spent.cancels < MaxCancels
    /\ Spend("cancels")
    /\ run' = [g \in Gen |-> IF g \in hit
                 THEN [run[g] EXCEPT !.status = "cancelled", !.prepare = "cancelled",
                                     !.embed = "cancelled"]
                 ELSE run[g]]
    /\ batch' = [g \in Gen |-> [b \in Batch |->
                   IF g \in hit /\ batch[g][b] # "none" THEN "cancelled" ELSE batch[g][b]]]
    /\ removal' = TRUE
    /\ UNCHANGED <<doc, row, job, slot, api, worker>>

RemoveJobs ==
    /\ removal
    /\ removal' = FALSE
    /\ job' = Remove(job, {j \in JobId : job[j].state = "waiting"})
    /\ UNCHANGED <<doc, run, batch, row, slot, api, worker, spent>>

\* selectRecoveryStage, for the stages of this module.
RecoveryStage(g) ==
    CASE run[g].status = "pending" /\ run[g].prepare = "pending" -> "prepare"
      [] run[g].prepare \in {"processing", "retrying"} -> "prepare"
      [] run[g].embed \in {"processing", "retrying"} -> "embed"
      [] run[g].embed = "ready" /\ doc.pending = g /\ doc.active # g -> "embed"
      [] OTHER -> "none"

\* The jobs findStalled rebuilds: one ready batch to retry an activation,
\* otherwise every batch under way.
RecoveryJobs(g) ==
    LET done == {b \in Batch : batch[g][b] = "ready"}
        open == {b \in Batch : batch[g][b] \in {"processing", "retrying"}}
    IN CASE RecoveryStage(g) = "prepare" -> {PrepareJob(g)}
         [] RecoveryStage(g) = "embed" /\ run[g].embed = "ready" ->
              {EmbedJob(g, b) : b \in {x \in done : \A y \in done : y <= x}}
         [] RecoveryStage(g) = "embed" /\ run[g].embed # "ready" ->
              {EmbedJob(g, b) : b \in open}
         [] OTHER -> {}

Recoverable == {g \in Gen : /\ Exists(g)
                            /\ run[g].status \in ActiveStatuses
                            /\ RecoveryJobs(g) # {}}
Exhausted(g) == run[g].attempts >= MaxTries

\* claimRetry, or markExhausted when the recovery attempts are used up.
Recovered(g) ==
    IF Exhausted(g)
    THEN [run[g] EXCEPT !.status = "failed", ![RecoveryStage(g)] = "failed"]
    ELSE [run[g] EXCEPT !.status = "retrying", ![RecoveryStage(g)] = "retrying",
                        !.attempts = @ + 1]

\* What a restart finds in Redis: every job, only the live ones (retention
\* evicted the ended ones), or nothing.  A job that was active is stalled and
\* BullMQ delivers it again.
AfterCrash(survives) ==
    [j \in JobId |->
        IF \/ survives = "none"
           \/ survives = "live" /\ job[j].state \in {"completed", "failed"}
        THEN NoJob
        ELSE [job[j] EXCEPT !.state = IF @ = "active" THEN "waiting" ELSE @]]

\* The process dies with every handler in flight.  Before the workers of the
\* next one start, recovery requeues the runs of S: those last touched longer
\* ago than QUEUE_RECOVERY_STALE_AFTER_MS.
Restart(survives, S) ==
    /\ spent.crashes < MaxCrashes
    /\ Spend("crashes")
    /\ worker' = [w \in Worker |-> IdleWorker]
    /\ api' = [c \in Client |-> IdleClient]
    /\ run' = [g \in Gen |-> IF g \in S THEN Recovered(g) ELSE run[g]]
    /\ job' = Add(AfterCrash(survives),
                  [j \in UNION {RecoveryJobs(g) : g \in {h \in S : ~Exhausted(h)}} |->
                     Queued(run[GenOf(j)].full, run[GenOf(j)].context)])
    /\ UNCHANGED <<doc, batch, row, slot, removal>>

-----------------------------------------------------------------------------
ApiStep(c) ==
    \/ ClaimSlot(c) \/ EnqueueDeduplicated(c)
    \/ \E g \in Gen : FindOrCreate(c, g)
    \/ AddPrepare(c) \/ RecheckPrepare(c)

Handle(w) ==
    \/ \E j \in JobId : DropCancelled(w, j)
    \/ \E g \in Gen : PrepareLoad(w, g)
    \/ PrepareStale(w) \/ PrepareRepeated(w) \/ PrepareRun(w)
    \/ CompleteEmpty(w) \/ Claim(w)
    \/ \E g \in Gen, b \in Batch : EmbedLoadStale(w, g, b)
    \/ \E g \in Gen, b \in Batch, p \in Profile : EmbedLoad(w, g, b, p)
    \/ EmbedStale(w) \/ StoreBatch(w) \/ CompleteBatch(w) \/ ClaimNext(w)
    \/ Activate(w) \/ ActivateAgain(w) \/ ActivateRefused(w) \/ EmbedReady(w)
    \/ Enqueue(w) \/ Finish(w) \/ Abandon(w)

Environment ==
    \/ \E c \in Client, r \in Revision : Edit(c, r)
    \/ \E c \in Client, x \in Context, full \in BOOLEAN : Request(c, x, full)
    \/ \E r \in Revision : SlotExpire(r)
    \/ \E w \in Worker : ProviderFails(w) \/ InfraFails(w)
    \/ CancelRuns
    \/ \E survives \in {"all", "live", "none"}, S \in SUBSET Recoverable :
          Restart(survives, S)

Next ==
    \/ \E c \in Client : ApiStep(c)
    \/ \E w \in Worker : Handle(w)
    \/ RemoveJobs
    \/ Environment

Spec == Init /\ [][Next]_vars

(***************************************************************************)
(* A started request, a started handler and a waiting job all make         *)
(* progress: the event loop runs every continuation and BullMQ hands every *)
(* waiting job to a free worker.  Users, failures and crashes are not fair.*)
(***************************************************************************)
FairSpec ==
    /\ Spec
    /\ \A c \in Client : WF_vars(ApiStep(c))
    /\ \A w \in Worker : WF_vars(Handle(w))

-----------------------------------------------------------------------------
(***************************************************************************)
(* Properties                                                              *)
(***************************************************************************)

\* Every table, queue and handler holds what the schema and the code allow,
\* and no job or run is retried beyond QUEUE_JOB_ATTEMPTS.
TypeOK ==
    /\ doc \in Document
    /\ run \in [Gen -> Run \cup {None}]
    /\ batch \in [Gen -> [Batch -> BatchStatus]]
    /\ row \in [Gen -> Rows]
    /\ job \in [JobId -> Job]
    /\ slot \in SUBSET Revision
    /\ api \in [Client -> Caller]
    /\ worker \in [Worker -> Handler]
    /\ removal \in BOOLEAN
    /\ spent \in [edits : 0..MaxEdits, requests : 0..MaxRequests,
                  provider : 0..MaxProviderFailures, infra : 0..MaxInfraFailures,
                  crashes : 0..MaxCrashes, cancels : 0..MaxCancels]

Busy(w) == worker[w].pc # "idle"

\* A handler holds a job that is active for it alone and queues work of its own
\* generation only; a job in Redis, live or retained, belongs to a run; a live
\* one has an attempt left; a request past findOrCreate has its run.
Ownership ==
    /\ \A w \in Worker : Busy(w) =>
          /\ JobOf(w) \in JobId
          /\ job[JobOf(w)].state = "active"
          /\ \A j \in worker[w].next : GenOf(j) = G(w)
    /\ \A v, w \in Worker : Busy(v) /\ Busy(w) /\ JobOf(v) = JobOf(w) => v = w
    /\ \A j \in JobId : job[j].state # "none" => Exists(GenOf(j))
    /\ \A j \in JobId : job[j].state \in {"waiting", "active"} => job[j].tries < MaxTries
    /\ \A c \in Client :
          /\ api[c].pc \in {"slot", "enqueue"} => api[c].revision # None
          /\ api[c].pc \in {"add", "recheck"} => api[c].gen # None /\ Exists(api[c].gen)

\* Search joins document_embeddings on documents.active_embedding_generation;
\* what it finds implements SearchIndex: only whole generations, each complete
\* for its revision, of one context and one profile, and each swapped in by a
\* single step.
Index == INSTANCE SearchIndex WITH
            index <- IF doc.active = None THEN NoRows ELSE row[doc.active]
IndexSpec == Index!Spec

\* The cancellation fence of a run is never taken down, and a generation
\* behind it never becomes the one that search reads, whichever handler was
\* how far when the fence went up.
FenceHolds ==
    [][\A g \in Gen : Cancelled(g) =>
          /\ Cancelled(g)'
          /\ doc'.active = g => doc.active = g]_vars

\* At most QUEUE_MAX_ACTIVE_BATCHES_PER_DOCUMENT batches of a generation are
\* scheduled at once: each finished batch claims one more, nothing else does.
BatchWindow ==
    \A g \in Gen : Cardinality({b \in Batch : batch[g][b] = "processing"}) <= MaxActive

\* Something still moves the run on: a request that is about to queue its
\* prepare job, or a job of the run that is waiting or being handled.
Carried(g) ==
    \/ \E c \in Client : api[c].pc = "add" /\ api[c].gen = g
    \/ \E j \in JobId : GenOf(j) = g /\ job[j].state \in {"waiting", "active"}

\* No unfinished run is stranded: between findOrCreate and Queue.add, between
\* claiming batches and queueing them, and while a newer run supersedes it,
\* every run has somebody left to finish it.
RunCarried == \A g \in Gen : ActiveRun(g) => Carried(g)

Settled(g) ==
    /\ Exists(g)
    /\ run[g].status \in {"failed", "cancelled"} \/ job[GraphJob(g)].state # "none"

\* Every run the API starts leaves these stages: it failed, it was cancelled by
\* a newer request, or its graph job is queued.
RunSettles == \A g \in Gen : Exists(g) ~> Settled(g)

\* README.md: "Document edits and metadata changes refresh the search index
\* automatically in the background": after the last edit the active generation
\* comes to be one of the current revision.
EditsReachTheIndex ==
    <>[](doc.active # None /\ run[doc.active].revision = doc.revision)
=============================================================================
