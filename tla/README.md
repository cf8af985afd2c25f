# DocsMint in TLA+

DocsMint stores documents, and indexes them for search through a durable
background pipeline: every change of a document starts a *generation* that is
prepared, embedded batch by batch, activated, put in the knowledge graph,
summarized and finalized. The pipeline is driven by BullMQ jobs in Redis and by
rows in PostgreSQL, and has to stay correct while edits, metadata changes,
cancellations, provider failures and crashes overlap. Around it are a saga that
uploads and removes attachments, one that purges accounts, and rooms in which a
document is edited by several people at once. This directory models the parts
where those meet, checks them with TLC and proves facts about them with TLAPS.

Paths below are relative to `src/backend/src/` unless they start with `src/`.

## 1. The system

| Component | State it keeps | Operations | Hard behaviour |
|---|---|---|---|
| Document API (`api/routes/documents.ts`) | `documents`: content hash, metadata, active and pending generation | create, PATCH, index request | the enqueue is fired after the commit and not awaited |
| Re-embed requests (`lib/reembed.ts`, `lib/reembed-cron.ts`) | 5 s Redis slots, metadata outbox, `metadata_changed_at` | claim a slot, enqueue, outbox page, cron tick | slot taken by an older edit; flag cleared before the enqueue |
| Pipeline enqueue (`queue/enqueue.ts`) | `document_pipeline_runs`, the prepare queue | findOrCreate, force a new generation, add, re-check | crash between commit and add; cancellation between add and re-check |
| Prepare worker (`queue/workers/prepare.worker.ts`) | job in flight: plan, rows to reuse | load, plan, prepareRun, completeEmpty, claim, enqueue | reads before awaits and writes after them |
| Embed worker (`queue/workers/embed.worker.ts`, `embedding/generation.ts`) | job in flight: vectors, counts | load, provider call, storeBatch, completeBatch, claim next, activate | batches in parallel; activation deletes the rows of all other generations |
| Graph, summarize, finalize (`queue/workers`, `queue/stage-policies.ts`) | stage statuses, graph, summaries | extract, summarize, derive the final status | a retry races finalization |
| Startup recovery (`queue/recovery.ts`) | `attempts`, `updatedAt` | find stalled runs, claim a retry, mark exhausted | what it must pass over and what it must not |
| Account cancellation (`queue/account-pipeline-cancellation.ts`) | `status = cancelled` as a durable fence | fence all runs, then remove waiting jobs | active jobs go on and have to meet the fence |
| Provider limiter (`queue/provider-limiter.ts`) | semaphore, rate window, circuit | withPermit | microtask order, error paths, starvation |
| Owner fair scheduler (`queue/fair-scheduler.ts`) | leases in a Redis sorted set | acquire, release | leases expire and are not renewed |
| Attachments (`api/routes/attachments.ts`, `lib/attachment-*`) | upload admissions, cleanup intents, attachment rows, objects, the host's quota | presign, confirm, upload in process, delete, sweep, drain | leases that lapse under a live holder; PUTs nobody waits for; calls to three stores in a row |
| Account purge (`lib/lifecycle-service.ts`, `lib/account-purge-fence.ts`, migrations 0042 and 0044) | the durable operation: lease, completed steps, fence | take the lease, fence, run steps, persist, complete | a call that lost its lease goes on; attempts skip what an earlier one did |
| Collaboration (`lib/yjs-provider.ts`, `api/routes/collaboration.ts`) | rooms, loads and teardowns under way, sessions, `yjs:doc:` in Redis | open, load, edit, save, persist, close, tear down | a socket opens while the room is loaded or torn down; failed loads; crashes |
| Search (`search/`) | none; reads the active generation | retrieve, fuse, rerank | must never meet a half written generation |

How they interact: the API commits a document and calls the enqueue; the
enqueue inserts a run and adds a prepare job; the prepare worker inserts the
batches, points `documents.pending_embedding_generation` at the generation and
adds the first embed jobs; each embed job stores the vectors of a batch, adds
the next job or, being the last one, activates the generation and adds the
graph job. The graph job queues the summary or finalize, the summary queues
finalize. Workers of all runs share the document row; an advisory lock per
document makes each of the transactions that write the document and its vectors
atomic, and nothing spans two of them. The claim of a batch takes no lock: its
`UPDATE` decides row by row. Cancellation and recovery write the same run rows from outside.
An upload's storage key is spoken for in turn by an admission, an attachment and
a cleanup intent; requests, the sweep, the drain and the purge hand it over in
transactions, with calls to the object storage and to the host's quota between
them. The purge takes every other component to its end: it cancels the jobs,
settles and deletes attachments, and keeps the account out by the fence that
triggers of the database read.

What makes each component correct:

* pipeline to search: what a query reads is always one complete generation, of
  one revision, one metadata context and one provider profile, and it changes
  only by being replaced as a whole;
* runs: a run is always carried by somebody until it ends; a cancelled run
  never comes back and its generation is never activated; a batch window bounds
  the work of one document;
* documents: the last edit reaches the index;
* limiter: permits are conserved, waiters are served in turn, the limit is a cap;
* later stages: the final status agrees with the stages, what a stage claims is
  stored, every job gets a slot, a claim for a retry is not forgotten;
* attachments: one authority for each key; an attachment has its object and its
  charge; every object and every charge is answered for; nothing dropped returns;
* purge: what is completed is erased and recorded, and the fence holds until then
  and after;
* collaboration: sessions edit the room that is saved, nothing that reached Redis
  is lost, and whoever opens is admitted or told.

## 2. The modules

| Module | Models |
|---|---|
| `DocumentContent` | content of a document: revisions as sequences of chunk texts, vector rows, generations of rows |
| `SearchIndex` | abstract specification: the rows search reads, replaced only as a whole by `Publish` |
| `EmbeddingPipeline` | enqueue, prepare worker, embed worker, activation, BullMQ jobs, cancellation, crash, recovery; shown to implement `SearchIndex` |
| `PipelineTail` | one generation from its graph job to its final status: the three later stages, owner slots, retry of warnings, cancellation, recovery step by step |
| `ProviderLimiter` | `withPermit` for one limiter key |
| `UploadLife` | abstract specification: a storage key is uploaded, kept, dropped, in this order |
| `AttachmentStorage` | presign, confirm, in-process upload, delete, sweep, drain and the attachment steps of a purge; shown to implement `UploadLife` |
| `AccountPurge` | `purgeUserData` with its leases, steps and fence |
| `CollaborationRoom` | the room of one document in one process |
| `MC...` | contents, constants that a .cfg cannot write, and symmetry for TLC |
| `..._proofs` | theorems about the module of that name; `AttachmentAnswered_proofs` and `PipelineTailCarried_proofs` hold a second part of those about `AttachmentStorage` and `PipelineTail` |

### EmbeddingPipeline

One document; what happens to another one is independent but for worker slots.

* `doc` is the `documents` row, `run`, `batch` and `row` are
  `document_pipeline_runs`, `document_pipeline_batches` and
  `document_embeddings`. A run keeps its overall status and those of its prepare
  and embed stages. `job` is Redis: a job id is absent, waiting, active, or
  retained after it ended, with its attempts and the two payload fields that may
  grow stale (`refreshMode`, `embeddingContextHash`). `slot` holds the five
  second deduplication keys.
* `api` and `worker` are the handlers in flight: a program counter and what the
  handler keeps across an await, such as the rows to reuse, the vectors fetched,
  the count of rows. An action is one transaction or one queue call. Reads that
  open a handler, with no write among them, are one action; so is
  the provider call, which depends on nothing shared.
* Delivery: `PrepareLoad` and `EmbedLoad` take a waiting job of any id, in any
  order. `Throw` counts an attempt and returns the job to the queue or fails it.
  There is no `failed` listener in the code, so an exhausted job leaves its run
  as it is. `Add` ignores an id Redis knows, retained ones included, as BullMQ
  does.
* Claims: two handlers may select the same pending batch, and the `UPDATE` of the
  second changes no row. `ClaimBatches` puts the loser's whole claim after the winner's
  commit and lets it have selected (`lost`) what a handler claimed that has not begun to
  queue (`Contended`); a claim writes nothing the winner's queueing reads, so a
  loser that comes later is one of these. A claim whose two statements stand apart
  for longer than another worker takes to embed a batch is left out.
* The fence: `Cancelled` is what `isCancelled` reads. `Abandon` is any of
  the checks before a write finding it; the model does not force the check to
  come right before the write, because the code does not.
* Environment: edits, index requests and metadata changes, expiry of slots,
  provider and infrastructure failures (`ProviderFails`, `InfraFails`), account
  cancellation in two steps (`CancelRuns`, `RemoveJobs`), and `Restart`: the
  process dies, Redis keeps all jobs, only the live ones, or none, and recovery
  claims any set of stalled runs before the workers start (`index.ts` awaits it).

Abstractions: vectors, models and dimensions are the profile that produced them;
chunk hashes are the texts; owners, workspaces, error codes and timestamps are
left out, so recovery may take any run its query could find old enough. A failed
enqueue in the API is seen only as a crash. `prepareRun` is modelled
with the revision check of its own run, which never fails, left out. The
documents in these instances are not deleted.

### ProviderLimiter

One action is a stretch of JavaScript between two awaits. `release()` resolves a
promise, and the waiter goes on in a later microtask: the phase `woken`. The
window holds ages instead of timestamps and timers count down, so no clock
grows.

### PipelineTail

The generation has been activated and its graph job is queued: the composition
with `EmbeddingPipeline`, whose model ends with that job, is by this row and job.
`run` is the rest of the `document_pipeline_runs` row, `job` and `lease` are
Redis, `worker`, `client` and `recovery` what handlers, requests to retry
warnings and the recovery keep across an await.

* `doc` says how far the document has moved on: the guards that compare content
  (`readCurrent`, `persistIfCurrent`, `lockCurrentGeneration`) need `current`,
  `isCurrentPipelineGeneration` only that no newer generation is active.
* Job ids decide what is deduplicated: `First`, `Retry` and the finalize id a
  graph job derives from its `requestedAt`, which is modelled by the number of
  the request (`requested`). A job that failed keeps its id.
* A handler runs between `Acquire` and `Leave`: `withOwnerSlot` releases what is
  left of its lease. A lease may lapse under its holder (`Lapse`), and a crash
  leaves it behind (`"left"`) until it lapses.
* The provider's answer is whether it succeeded, warned or threw; entities and
  summaries are whether those of this generation are stored.
* The graph handler asks once, after `extract`, whether it was cancelled. The check
  changes nothing, so `Compensate` and the marks are both possible when the run is
  cancelled: the check met the cancellation, or came before it, and then the
  projection stays and the fenced mark does nothing. A cancellation that the
  transaction of `persistEntities` met is seen by the check.
* An outage of Redis fails any call of a retry request (`Unclaim`): its claim is given
  back by `RetryRestore`, and a request that joined another one's has none.

### AttachmentStorage

Each key has an admission (`pending`), an `attachment` and a cleanup `intent`;
`object` is the bucket and `charge` the host's ledger, whose calls are idempotent
by key as `src/packages/sdk/src/storage-quota.ts` demands. Requests, sweeps and
drains keep what they read across awaits (`request`, `confirm`, `task`). A failed
external call may have had its effect. No clock runs: a lease, a URL and a
waiting period end at any step, but under a live holder only `MaxStalls` times.
`odd` is history and guards nothing: it names the uploads whose write outran the
five minute hold, those whose PUT came when nobody waited for it, and those of
which the host refused something. The properties excuse these, each by its name.
`Fenced` is the trigger: the update fails, or the row is not touched.
A claim of a confirmation that meets it is one transaction and the abandonment by the
signed token (`"fenced"`) another: between the two a sweep or the purge may take the row.
Sweeps and drains take pages. A row of a page is a task of its own, which waits while
the others are worked on; a sweep deals with each row apart, but a drain fails all
rows of its page for one that fails, after their objects may have gone and their
charges may have been settled (`DrainDelete`, `DrainFailed`).
The page of the sweep is one statement over the rows of every account, so one
fenced row holds all of it up until its account's purge has settled it.

### AccountPurge

`op` is `lifecycle_operations` by idempotency key, `call` what each running
`purgeUserData` keeps, `rows` the domains the account has rows in. A step that
deletes is refused by the trigger while the fence stands unless the transaction
names the running operation and its unexpired lease (`Authorized`); the triggers of
`document_embeddings` guard its inserts alone (`Guarded`), and a step that calls an
adapter is refused by nobody. A step that goes by pages
(`settle_pending_attachment_uploads`, `delete_attachment_objects`) is one action: a
page that leaves rows leaves the domain in `rows`, so that its end is the last page
and what stops it earlier is `Throw`. A host step may throw the error that is final. `Order` is a constant, so the proofs hold
for any order of the steps (`RecordCorrect` for any that ends with the record); TLC
checks a short one that has a step of each kind.

### CollaborationRoom

A Yjs document is the set of updates it has merged, since merging is idempotent
and commutative. `current`, `loading` and `closing` are the three maps of
`yjs-provider.ts` at one key; an incarnation is one room object, so sessions that
keep an old object are seen. An action is a stretch of JavaScript between two
awaits. `spent.failed` holds the kinds of calls that failed, so that a property
can be stated for what no failure of its own kind has broken.

## 3. The runs

| Run | Asks | Instance |
|---|---|---|
| `pipeline_edits` | `IndexSpec`, `RunCarried` | two edits, three generations, two workers, two batches of at most two chunks, window one |
| `pipeline_refresh` | `IndexSpec` | a metadata change or an index request, two contexts, two profiles, window two |
| `pipeline_crash` | `IndexSpec` | an edit and a crash anywhere |
| `pipeline_cancel` | `TypeOK`, `Ownership`, `FenceHolds` | account cancellation, one provider and one infrastructure failure, an empty revision |
| `pipeline_liveness` | `BatchWindow`; `RunSettles` under `FairSpec` | an edit, to or from the empty document; four batches of one chunk, window two, so that claims contend; no failures |
| `tail` | `TypeOK`, `ReadyIsHonest`, `ClaimsAreStored`, `TailCarried`, `CancelledStays` | two workers, one retry request, one provider failure, one Redis outage, edits, supersession and account cancellation; either provider setting |
| `tail_crash` | `JobsEnd` under `FairSpec` | one worker, one crash with Redis kept or lost, one provider failure, one lease that lapses under its holder |
| `attachments` | `TypeOK`, `OneAuthority`, `AttachmentIsWhole`, `ObjectAnswered`, `ChargeAnswered`, `PurgeLeavesNothing`, `LifeSpec`; `UploadSettles` under `FairSpec` | one upload of one account, one confirmation at a time, two sweeps or drains; one failure, one refusal, one crash, one lease that lapses under its holder |
| `purge` | `TypeOK`, `PurgeErases`, `PurgeIsRecorded`, `StepsStayDone`, `FenceHoldsOut` | two operations, two calls, a step of each kind in the code's order (one of an adapter, one of the host, an unguarded and a guarded deletion), one write of the account |
| `collab` | `TypeOK`, `AttachedIsLive`, `LiveIsSubscribed`, `SavedIsWhole`, `Heard`, `SavedGrows`; `OpenSettles` under `FairSpec` | two sockets, one update, two rooms one after the other; one kind of call that fails, one socket that leaves early, one crash |
| `limiter` | `TypeOK`, `PermitAccounting`, `NoIdleCapacity`, `QueueIsExact`, `WaiterServed` | three calls, one permit, a quota of one per window, a retry, a circuit |
| `pipeline_uptodate` | `EditsReachTheIndex`, which TLC finds violated | two edits, no failures |

`IndexSpec` and `LifeSpec` are the refinements: `SearchIndex` with `index` mapped
to the rows of the active generation, and `UploadLife` with `life` mapped to what
the rows and an in-process upload say of a key. Most of the pipeline exists for
the first; the second says that no slow confirmation, sweep or drain brings back
what was dropped or drops what is kept. No test reaches either, since they depend
on the order in which transactions of several actors commit.

### Known disagreements

`pipeline_uptodate` shows a disagreement with `src/README.md`: two prepare jobs
commit in the wrong order, the pending pointer ends at the older generation,
batches of both fail as stale, and the last edit is never indexed, without a
failure or a crash. The models show these as well; no run is kept for them, and
the properties above are stated so as not to promise the opposite:

* Pipeline. An edit during the provider call leaves the old revision to be
  activated (`embedding/generation.ts:98`, against `src/docs/ARCHITECTURE.md:148-149`).
  `prepareRun` makes a cancelled generation the pending one (`queue/adapters.ts:560`,
  against `:242-243`). A prepare job that fails after `prepareRun` is retried as a
  duplicate, enqueues nothing, and recovery passes its run over
  (`queue/workers/prepare.worker.ts:257`). A generation whose rows another
  activation deleted, prepared again, is activated without their rows
  (`queue/adapters.ts:906`): its prepare job fails after the commit, fails again after
  an edit made it stale, and runs a third time once the old content is back.
* Limiter. A call between a release and the wake-up it caused takes the same
  permit (`queue/provider-limiter.ts:31`): the limit is no strict cap.
* Later stages. `queue/stage-policies.ts:82` calls a summary failure terminal, so
  that no attempt races finalization; a retryable one is thrown all the same
  (`:173`). Two retry requests at once leave a run processing for ever: one adds
  the job, the other removes what that job has queued. After a Redis outage
  finalization may be queued beside the retry of a graph job, and writes `failed`.
* Attachments. A charge the host refuses to finalize or release for good is
  acknowledged unreleased (`lib/attachment-storage-cleanup.ts:405-412`, against
  `src/docs/ARCHITECTURE.md:285-289`). A purge does not wait for the URLs it could
  still be written through (against `src/docs/API.md:246-248`).
* Purge. Once the host has refused the operation of one key, the fence is open,
  and a call of it that lost its lease deletes what it was about to without a
  token (`src/docs/ARCHITECTURE.md:266-267` says deletes need it).
* Collaboration. A socket that closes before it is admitted leaves a session
  nobody closes, and a room that is never torn down. A failed subscribe leaves an
  unsubscribed room. A socket refused after it joined the peers keeps the
  listener of a room that has gone. Debounced persists may commit out of order.
  After a crash the older state in Redis wins over newer content in the
  database, as it does over a REST edit; a read of Redis that fails seeds the room
  from the row and overwrites the saved state. The account cleanup deletes
  `yjs:doc:<document>` (`lib/account-runtime-cleanup-core.ts:243`), but rooms are
  saved under a key that names the user or the workspace (`lib/yjs-provider.ts:78`).

### Bounds

`MaxTries` is at least two, so a retried job and an exhausted one both occur.
Two workers are enough for two steps of different jobs to interleave, and two
batches for a last batch that is not the first. Every request can need a
generation, so the passing runs have one more than the requests and edits they
allow. One crash at most: BullMQ delivers a stalled job again once
(`maxStalledCount`), a second crash would fail it. `pipeline_liveness`
has four batches and a window of two, so that two batches that end together
contend for the next one while another is pending still. `pipeline_crash` checks
neither `BatchWindow` nor `RunCarried`: a redelivered ready batch claims one
batch more, and a crash between commit and add leaves a run to the
next recovery. `IndexSpec` is not claimed for repeated infrastructure failures
with edits back to an older content, where a generation may be activated with
rows missing (above).

`tail` has two handlers, for two stages of one run at once, one retry request,
and an outage besides a provider failure, for an add that is refused after a
commit; the crash is left to `tail_crash`, where nothing else fails.
`attachments` has one upload: uploads of different keys meet only in the page of
the sweep (`SweepClaim`), in the page of a drain, where `DrainFailed` stands for what
another row does to this one, and in the purge, whose steps go by account; its two
tasks let a sweep or drain be overtaken by another after one lapsed lease.
`purge` has two keys, because a second operation is not stopped by the first, and
two calls, because a lease is lost to a call.  `collab` needs two rooms for the
second to be loaded while the first is torn down or still held by a session, and
two sockets for one to stay; one update suffices to tell a state that has it from
one that has not. `OpenSettles` excuses sockets that would need a third room.

Deadlock is not checked in the runs of bounded environments: an idle system with
nothing left to do is their normal end.

### Fairness

`FairSpec` of the pipeline makes each started API request and each worker weakly
fair: the event loop runs every continuation, and BullMQ hands a waiting job to
a free worker. Users, failures, crashes and cancellations are not fair. A worker
as a whole is fair, not each job: any job may be overtaken. In `PipelineTail` the
expiry of leases is fair too, as Redis's clock runs. In the limiter the
clock and every step of an admitted call are weakly fair, since microtasks and
timers run and provider calls have a timeout; starting a call is not. In
`AttachmentStorage` requests and tasks run on, time passes, and some task turns
to each key again, for the sweep and the drain run at an interval and order their
pages by age; no client has to confirm, delete or purge. In `CollaborationRoom`
Redis and the database answer or fail.

## 4. Proofs

`ProviderLimiter_proofs` proves for any finite set of calls and all values of the
other constants, from the assumptions on them in `ProviderLimiter`:

* `TypeCorrect`: `TypeOK`. The retry counter stays within `MaxRetries`, the
  failure counter within the threshold, ages within the window.
* `QueueCorrect`: `QueueIsExact`, inductive together with `TypeOK`. A release
  removes the head, and distinctness shows that nobody else entered twice.
* `PermitsCorrect`: `PermitAccounting`. The set of holders gains or loses one
  call exactly when the counter moves; this needs the type invariant and facts
  about cardinalities.
* `CapacityCorrect`: `NoIdleCapacity`. It needs both others: a release lowers
  the counter by one and turns the head of the queue, who was waiting and so
  was not woken already, into one more woken call.

`EmbeddingPipeline_proofs` proves for any set of generations, workers, requests,
revisions and profiles, any batch size, window and number of attempts, and any
bound on edits, failures, crashes and cancellations, from the assumptions in
`DocumentContent` and `EmbeddingPipeline` (documents are finite, `None` is no
value, limits are positive):

* `TypeCorrect`: `TypeOK`.
* `OwnershipCorrect`: `Ownership`. A handler's job is active for it alone, a job
  in Redis belongs to a run and has an attempt left while it is live, a request
  past findOrCreate has its run.
* `FenceCorrect`: `FenceHolds`, the fence of a cancelled run stays and its
  generation is never activated, with any number of handlers in flight, crashes
  and recoveries.
* `IndexCorrect`: `IndexSpec`, the refinement of `SearchIndex`, for behaviours with
  one crash or one failed database or queue call at most (`Faults`), and any number
  of edits, requests, provider failures and cancellations. With two it is false (see
  Known disagreements), so the hypothesis stays.
* `WindowCorrect`: `BatchWindow`, for behaviours without a crash or a failed database
  or queue call (`Faults = 0`), with any number of edits, requests, provider failures
  and cancellations. With one it is false: a handler cut off after `completeBatch` is
  delivered again, completes its batch again and claims one more.
* `CarriedCorrect`: `RunCarried`, for behaviours that are `Undisturbed`: no crash and
  no failed database or queue call, no account cancellation, a job's attempts exceed
  the provider's failures by two at least, and the provider keeps the configured
  profile; with any number of edits, requests and refused activations. None of these
  can be left out. TLC finds a stranded run with one failed call (a prepare job is
  delivered again as a duplicate), one crash (between findOrCreate and Queue.add), one
  cancellation (its second half removes a job queued since), two profiles (the
  activation is refused until no attempt is left) or two attempts and one failure of
  the provider (the activation that is then refused was the last).

The invariant is `Inv`, the conjunction of `TypeOK` and `Ownership` split by who
holds the state: tables, queue and handlers, requests, bounds. The types alone
are not inductive: that a handler writes to a run that exists, and that `Throw`
does not count past `MaxTries`, needs to know that its job is active and that
nobody else holds it. The step is proved once per part: `NextTables` (which also
shows that no run disappears and that the fence is kept), and with it
`NextQueue`, `NextRequests`, `NextBounds`. The queue is proved along four shapes
of a step: a handler starts with a job, goes on with it, ends, or the queue moves
by itself (`HandlerStarts`, `HandlerMoves`, `HandlerEnds`, `QueueStep`).

What search reads needs `Whole` besides, which TLC checked on the instances of the
pipeline runs before it was proved. Each generation is written once (`Once`): a
request that is to queue its prepare job finds nothing written, and a handler that may
still commit `prepareRun` finds nothing written or a run marked done. That is where
the one fault goes: without any, an open prepare stage has written nothing, so the
first repeated delivery meets one of the two. The pending generation holds sound rows
and a batch for each of its chunks, ready batches all their rows (`Filling`); a
handler that stores or activates knows its context, and that all batches are ready
(`HandlerData`, `HandlerFills`). So an activation meets exactly the rows of its
revision (`FilledComplete`). The active generation is whole and has no batch left to
write (`ActiveWhole`), which is what a late handler would need to spoil it. A step
that writes no row is `OpenStep`, a step of one handler that moves only itself and
its job `HandlerStep`; `PrepareRun`, `StoreBatch`, `CompleteBatch` and the two swaps
are done one by one.

The window needs `Scheduling`: it counts, besides the batches under way, those that
are done and whose handler has not claimed another yet, ties a job to the state of its
batch, and keeps a batch that was claimed with one handler until its job is queued
(`Window`, `Places`).

That no run is stranded needs `Carrying` on top of all three. It names who stands for
what is left to do (`Chain`): a batch under way has a live job or the handler that is
to queue it; while batches wait, one is under way or about to be claimed; when all are
done one job is left to activate the generation (`Single`), or the graph job is near.
Before that, the prepare stage is open until it has committed (`Opening`). A job that
is retried is the hard case: it has failed at most as often as the provider, and once
more because its activation was refused; by then another generation has taken over,
so the attempt that follows finds it stale and ends the run (`Retries`, `Doomed`). A
step of one handler is shown once and for all to leave other generations alone
(`HisCarrying`); for its own it hands on what it stood for (`Passes`, `PassesOnWay`).
TLC checked `Carrying` on four instances before it was proved.

`AccountPurge_proofs` proves, for any finite sequence of steps in any order and any
number of keys, calls and writes:

* `TypeCorrect`: `TypeOK`, with the part that only a running operation has an
  owner.
* `EraseCorrect`: `PurgeErases`, and `StepsCorrect`: `StepsStayDone`.
* `FenceCorrect`: `FenceHoldsOut`.
* `RecordCorrect`: `PurgeIsRecorded`, for orders in which the record comes last
  (`RecordAssumption`).

The argument is that a domain leaves `rows` for good once a fenced operation has
erased it. The invariant says so for whoever may yet make it count: what an
operation has on record as done, what its call believes done, and the step it is
about to persist are disjoint from `rows`, as long as the operation is not
rejected and the call still owns it; an owner past `PutFence` has its fence up,
and a call has everything before its place in `Order` done. A step of a call that
lost its lease can only shrink `rows`. The record is safe because a call that
knows every step on record has nothing left to run, one that does not stands before
the record or loses to the fence, and only a fenced operation may delete it.

`AttachmentStorage_proofs` proves, for any uploads, accounts, confirmations and
tasks and all bounds:

* `TypeCorrect`: `TypeOK`, `AuthorityCorrect`: `OneAuthority`, and `WholeCorrect`:
  `AttachmentIsWhole`.
* `LifeCorrect`: `LifeSpec`, the refinement of `UploadLife`.

It assumes that every upload has an account (`OwnerAssumption`), that whoever may
hold a lease is told apart (`NameAssumption`), that a missing row is no row
(`RowAssumption`) and that the bounds are numbers. A lease that lapses does not stop its holder, so the invariant says what
each of those at work may still rely on: an in-process write, that its intent rests until it has outrun
the hold; a confirmation that holds the row, that the object is there and, once
committed, the charge; a sweep, that nobody can confirm what it has claimed,
whoever holds it next; a drain, that no admission is left and that what is still
written or attached at its key has outrun the hold. A step is about one key; the lemmas show
once that everyone at work on another key keeps what he relies on, and then, step
by step, that those at the same key do.

`AttachmentAnswered_proofs` goes on from there, under the same assumptions:

* `ObjectCorrect`: `ObjectAnswered`.
* `ChargeCorrect`: `ChargeAnswered`.
* `PurgeCorrect`: `PurgeLeavesNothing`.

That a row answers for an object is not inductive: a drain removes the last row
after it removed the object, and a PUT may come between. `ObjectInv` and `LastInv`
say that the last pass comes when no PUT can follow that somebody waits for: an
intent that is not retained was made when the client could write no more. For charges
the rows and whoever is at work (slow sweeps and drains too) name a kind of release.
`InPlay` says that all that are in play would give the whole charge back whichever
settles first, and that all of them expect a charge that may be finalized or none
does; a key turns from one stage to the other only when its confirmation holds the
row and nobody else is at work (`Turns`), or when the attachment is deleted. What a
call does to the charge takes nothing from the others (`Keeps`), so each actor is
treated once and for all keys. Where nothing is metered nobody asks the host
(`FreeKey`, `FreeConfirm`, `FreeTask`). For the purge it is enough, besides these
two, that behind the fence no key gets a row but in place of another (`Behind`).

`PipelineTail_proofs` proves, for any workers, clients, owner slots and bounds:

* `TypeCorrect`: `TypeOK`, and `CancelledCorrect`: `CancelledStays`, over crashes and
  recoveries.
* `HonestCorrect`: `ReadyIsHonest`.

The first two rest on `BaseInv`: a handler's job is active for it alone, what it
plans to write can be written, a job that may run has an attempt left, and the row
a claim of the recovery compares with was active, which is why a row that equals
it is not a cancelled one. `HonestCorrect` adds `QuietInv`: a stage that is behind
stays so, because its job has ended or its handler has only the next job left to
queue (`Through`), and whatever finalization has judged ready is behind. A handler
can change a stage only from a place that contradicts `Through`.

`PipelineTailCarried_proofs` goes on from there, for the same constants:

* `ClaimsCorrect`: `ClaimsAreStored`.
* `TailCorrect`: `TailCarried`.

A handler that is to call its stage ready has stored what the stage stands for, and
only a handler of a cancelled run takes a projection back. `StoredInv` says so from the
write of the projection to the mark; a cancellation between the two is harmless as
long as no second handler of the graph stage is there to take back what the first one
stored, which `SlotInv` shows for one slot whose lease does not expire under a live
handler. With two slots, or a lapsed lease, the property is false for a cancelled
run, and is not stated there.

`CarriedInv` says who carries a run that is not over: the jobs of its first pass, the
one request that has claimed a retry, or the jobs of that retry. Within a pass
(`Chain`) a job that ended has its successor, because an attempt that queued nothing
met an outage (`Attempts`: the attempts of a job without a successor are at most the
outages so far), so the last attempt comes only after `MaxTries` of them; nobody but a
cancellation takes the successor back, and the last job ends only with the run. The
hypotheses of the property are what each of these needs: a crash may lose the queue, a
second request drops jobs the first one's job has queued, and with as many outages as
attempts a stage does end without its successor.

`CollaborationRoom_proofs` proves, for any finite set of sockets, any updates and any
number of rooms, failures, early closes and crashes:

* `TypeCorrect`: `TypeOK`, and `LiveCorrect`: `AttachedIsLive`.
* `SubscribedCorrect`: `LiveIsSubscribed`, and `HeardCorrect`: `Heard`.
* `WholeCorrect`: `SavedIsWhole`, and `GrowsCorrect`: `SavedGrows`, the action
  property, from the same invariant and the lemma that every save is of the last
  room made.

It assumes that the sockets are finite (`SocketAssumption`) and that `None` is no
room, row or document (`NameAssumption`, `RowAssumption`). None of the properties is
inductive: a count is right only if nobody waits for a load there is not, and a save
loses nothing only if the room it saves has all that Redis has. `RoomsInv` says that
the last room made is the only one that is current, loaded or torn down; `CountInv`
bounds its count by its sessions even after a socket was refused, which types need;
`SessionInv` makes this an equality until then and ties peers and listener to it;
`ChannelInv` and `SaveInv` speak of the channel and of what that room has merged. The
counting steps are those that let all who wait in at once (`AdmitKept`) and that
count the last one out (`CloseKept`).


Only model-checked: the liveness properties, which are outside the prover's reach.
Every safety property of the passing runs is proved, some under the hypotheses that
are stated with them above.

## 5. Not modelled

* Authorisation, sharing, ranking, the user interface, the command line, the SDK
  and MCP server, migrations, scripts: stateless, single transactions, or
  translations of a call into a request.
* The metadata outbox and the cron of `lib/reembed-cron.ts`. `metadata_changed_at`
  is cleared before the enqueue, which may fail; no property covers it.
* Recovery run by the script beside live workers. `PipelineTail` interleaves its
  steps with the queue and with cancellation, but starts workers after it.
* Redis in the account cleanup (`lib/account-runtime-cleanup-core.ts`): its
  snapshots and key patterns; the steps of `AccountPurge` that call it do nothing.
* Other processes of a collaboration room, the limits of its message queue and
  the client. Updates between a load and its subscribe are lost to the room.
* The browser's offline store keeps drafts and cached reads; its mutation queue is
  disabled and nothing is replayed.
* What the graph stage does to entities and edges; how text is split and vectors
  are made; deletion of documents, versions and folders.
