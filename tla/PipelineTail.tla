---------------------------- MODULE PipelineTail ----------------------------
(***************************************************************************)
(* One generation after its activation (backend/src/queue): the graph,     *)
(* summarize and finalize stages, the owner slots their jobs run under,    *)
(* the request that retries stages which ended with a warning, account     *)
(* cancellation, and the recovery that runs before the workers start.      *)
(*                                                                         *)
(* PostgreSQL is run, projected and summarized; Redis is job and lease.    *)
(* One action is one transaction, queue call or provider call; reads that  *)
(* change nothing and that no later write relies on join the next step.    *)
(***************************************************************************)
EXTENDS Integers, FiniteSets

CONSTANTS
    None,
    Worker,         \* handlers that may run at once, of any stage
    Client,         \* concurrent requests to retry warnings
    Limit,          \* owner slots by stage
    MaxTries,       \* attempts of a job
    MaxAttempts     \* recoveries of a run

\* Bounds on what the environment does.
CONSTANTS MaxRetries, MaxFailures, MaxOutages, MaxCrashes, MaxStalls

Stage == {"graph", "summarize", "finalize"}

ASSUME NameAssumption == None \notin Worker \cup Client
ASSUME LimitAssumption == Limit \in [Stage -> Nat \ {0}]
ASSUME BoundsAssumption ==
    /\ MaxTries \in Nat \ {0}
    /\ {MaxAttempts, MaxRetries, MaxFailures, MaxOutages, MaxCrashes, MaxStalls} \subseteq Nat

StageStatus == {"pending", "processing", "ready", "retrying", "failed", "skipped", "cancelled"}
RunStatus == {"processing", "retrying", "ready", "ready_with_warnings", "failed", "cancelled"}
ActiveStatuses == {"processing", "retrying"}

\* What graph_error_code and summarize_error_code say: may a warning be retried?
Run == [status : RunStatus, graph : StageStatus, summarize : StageStatus,
        finalize : StageStatus, graphRetryable : BOOLEAN, summarizeRetryable : BOOLEAN,
        attempts : 0..MaxAttempts]

\* JOB_IDS, warningRetryJobId and the finalize id a graph job derives from its
\* requestedAt: the number of the retry request, or 0 for the first pass.
JobId == {<<s, k, 0>> : s \in {"graph", "summarize"}, k \in {"first", "retry"}}
         \cup {<<"finalize", "first", 0>>}
         \cup {<<"finalize", "graph", n>> : n \in 0..MaxRetries}
First(stage) == <<stage, "first", 0>>
Retry(stage) == <<stage, "retry", 0>>
StageOf(j) == j[1]

\* A job that ended keeps its id: a later add of that id is ignored.
Job == [state : {"absent", "waiting", "active", "ended"}, tries : 0..MaxTries,
        requested : 0..MaxRetries]
NoJob == [state |-> "absent", tries |-> 0, requested |-> 0]

WorkerPc == {"idle", "slot", "next", "recheck", "cancelRun",
             "graphRead", "graphMark", "extract", "persist", "graphDone", "graphStale",
             "graphWarned", "graphThrown", "graphFailed",
             "sumStart", "sumMark", "sumGuard", "sumRead", "sumPersist", "sumRecord",
             "sumReady", "sumLost", "sumThrown", "sumFailed", "sumNext",
             "finRead", "finWrite"}

\* What a handler keeps: its job, what it decided to do with it, whether the
\* error it met is retryable, and whether it throws when it is through.
Handler == [pc : WorkerPc, job : JobId \cup {None}, plan : {"none"} \cup Stage \cup RunStatus \cup StageStatus,
            retryable : BOOLEAN, throws : BOOLEAN]
IdleWorker == [pc |-> "idle", job |-> None, plan |-> "none", retryable |-> FALSE, throws |-> FALSE]

ClientPc == {"idle", "dropGraph", "dropSummarize", "dropFinalize", "look", "add", "restore"}
Request == [pc : ClientPc, graph : BOOLEAN, summarize : BOOLEAN, deduplicated : BOOLEAN,
            started : BOOLEAN, number : 0..MaxRetries]
IdleClient == [pc |-> "idle", graph |-> FALSE, summarize |-> FALSE, deduplicated |-> FALSE,
               started |-> FALSE, number |-> 0]

\* A lease of a handler at work, or one that a handler left behind in a crash.
Lease == Worker \X {"held", "left"}

RecoveryPc == {"off", "find", "claim", "exhaust", "add"}

VARIABLES
    run,        \* the document_pipeline_runs row of the generation
    doc,        \* current, edited (newer content), or replaced (newer generation active)
    projected,  \* the graph holds the projection of this generation
    summarized, \* document_knowledge_summaries holds its summary
    enabled,    \* GRAPH_EXTRACT_ENABLED and its provider, as summarize asks for it
    job,        \* BullMQ jobs by id
    lease,      \* owner slots by stage
    worker,     \* handlers in flight
    client,     \* retry requests in flight
    recovery,   \* the recovery at start: what it found, and the row it saw
    sweeping,   \* account cancellation is removing waiting jobs
    spent       \* how much of each bound is used

store == <<projected, summarized>>
queue == <<job, lease>>
host == <<enabled, recovery, sweeping>>
vars == <<run, doc, store, queue, worker, client, host, spent>>

Added == [state |-> "waiting", tries |-> 0, requested |-> 0]
Off == [pc |-> "off", stage |-> "graph", seen |-> None]

\* The embed job has activated the generation and queued the graph job; an
\* earlier recovery may have used up the attempts of the run.
Init ==
    /\ \E n \in {0, MaxAttempts} :
          run = [status |-> "processing", graph |-> "pending", summarize |-> "pending",
                 finalize |-> "pending", graphRetryable |-> FALSE,
                 summarizeRetryable |-> FALSE, attempts |-> n]
    /\ doc = "current"
    /\ projected = FALSE
    /\ summarized = FALSE
    /\ enabled \in BOOLEAN
    /\ job = [j \in JobId |-> IF j = First("graph") THEN Added ELSE NoJob]
    /\ lease = [s \in Stage |-> {}]
    /\ worker = [w \in Worker |-> IdleWorker]
    /\ client = [c \in Client |-> IdleClient]
    /\ recovery = Off
    /\ sweeping = FALSE
    /\ spent = [retries |-> 0, failures |-> 0, outages |-> 0, crashes |-> 0, stalls |-> 0]

Spend(what, limit) == spent[what] < limit /\ spent' = [spent EXCEPT ![what] = @ + 1]
\* A provider refuses, or Redis does.
Fails == Spend("failures", MaxFailures)
Outage == Spend("outages", MaxOutages)

-----------------------------------------------------------------------------
(***************************************************************************)
(* The run row                                                             *)
(***************************************************************************)
Cancelled == run.status = "cancelled"

\* setStageStatus and the other updates fenced by status <> 'cancelled'.
Fenced(row) == run' = IF Cancelled THEN run ELSE row
SetStage(stage, status, retryable) ==
    Fenced(IF stage = "graph"
           THEN [run EXCEPT !.graph = status, !.graphRetryable = retryable]
           ELSE [run EXCEPT !.summarize = status, !.summarizeRetryable = retryable])
Set(stage, status) == SetStage(stage, status, FALSE)
SetFailed(stage, retryable) == SetStage(stage, "failed", retryable)

AllCancelled == [run EXCEPT !.status = "cancelled", !.graph = "cancelled",
                            !.summarize = "cancelled", !.finalize = "cancelled"]

\* isCurrentPipelineGeneration, which does not compare the content.
IsCurrent == doc # "replaced" /\ run.status \notin {"cancelled", "failed"}

\* The queries that take the content: the generation and the revision are current.
Readable == doc = "current"

\* Mutant: a stage that is still at work does not count.
DeriveFinalStatusLoosely(r) ==
    CASE r.status = "cancelled" -> "cancelled"
      [] r.status # "cancelled" /\ "failed" \in {r.graph, r.summarize} -> "ready_with_warnings"
      [] OTHER -> "ready"

\* The embed stage is ready, or the run is cancelled with it.
DeriveFinalStatus(r) ==
    CASE r.status = "cancelled" -> "cancelled"
      [] r.status # "cancelled" /\ "failed" \in {r.graph, r.summarize} -> "ready_with_warnings"
      [] r.status # "cancelled" /\ {r.graph, r.summarize} \subseteq {"ready", "skipped"} -> "ready"
      [] OTHER -> "failed"

-----------------------------------------------------------------------------
(***************************************************************************)
(* Jobs, slots and handlers                                                *)
(***************************************************************************)
Live(j) == job[j].state \in {"waiting", "active"}
Add(j, number) ==
    job' = IF job[j].state = "absent" THEN [job EXCEPT ![j] = [Added EXCEPT !.requested = number]]
           ELSE job
\* job.remove() throws on a job a worker has locked.
Locked(j) == job[j].state = "active"
Remove(j) == job' = IF Locked(j) THEN job ELSE [job EXCEPT ![j] = NoJob]

At(w, pc) == worker[w].pc = pc
JobOf(w) == worker[w].job
Goto(w, pc) == worker' = [worker EXCEPT ![w].pc = pc]
Keep(w, pc, plan) == worker' = [worker EXCEPT ![w].pc = pc, ![w].plan = plan]
Throwing(w, pc, retryable) ==
    worker' = [worker EXCEPT ![w].pc = pc, ![w].retryable = retryable, ![w].throws = TRUE]

\* Mutant: the attempt is compared with the limit before it is counted.
ThrownOnceMore(r) ==
    [r EXCEPT !.state = IF r.tries < MaxTries THEN "waiting" ELSE "ended", !.tries = @ + 1]

\* A failed attempt: the job waits again, or has failed for good.
Thrown(r) ==
    [r EXCEPT !.state = IF r.tries + 1 < MaxTries THEN "waiting" ELSE "ended", !.tries = @ + 1]
Completed(r) == [NoJob EXCEPT !.state = "ended"]
After(w) == IF worker[w].throws THEN Thrown(job[JobOf(w)]) ELSE Completed(job[JobOf(w)])

\* The handler returns or throws, and withOwnerSlot releases what is left of its lease.
Leave(w) ==
    /\ worker' = [worker EXCEPT ![w] = IdleWorker]
    /\ lease' = [lease EXCEPT ![StageOf(JobOf(w))] = @ \ {<<w, "held">>}]
Complete(w) == Leave(w) /\ job' = [job EXCEPT ![JobOf(w)] = Completed(@)]
Throw(w) == Leave(w) /\ job' = [job EXCEPT ![JobOf(w)] = Thrown(@)]
End(w) == Leave(w) /\ job' = [job EXCEPT ![JobOf(w)] = After(w)]

Running == recovery.pc = "off"

Take(w, j) ==
    /\ Running /\ At(w, "idle") /\ job[j].state = "waiting"
    /\ job' = [job EXCEPT ![j].state = "active"]
    /\ worker' = [worker EXCEPT ![w] = [IdleWorker EXCEPT !.pc = "slot", !.job = j]]
    /\ UNCHANGED <<run, doc, store, lease, client, host, spent>>

\* The acquire script: purge what has expired, count, add.
Acquire(w) ==
    LET s == StageOf(JobOf(w))
    IN /\ At(w, "slot")
       /\ Cardinality(lease[s]) < Limit[s]
       /\ lease' = [lease EXCEPT ![s] = @ \cup {<<w, "held">>}]
       /\ Goto(w, IF s = "graph" THEN "graphRead" ELSE IF s = "summarize" THEN "sumStart"
                  ELSE "finRead")
       /\ UNCHANGED <<run, doc, store, job, client, host, spent>>

\* Mutant: the lease of a dead holder is not purged.
LapseHeld(s, l) ==
    /\ l \in lease[s] /\ l[2] = "held"
    /\ spent.stalls < MaxStalls /\ spent' = [spent EXCEPT !.stalls = @ + 1]
    /\ lease' = [lease EXCEPT ![s] = @ \ {l}]
    /\ UNCHANGED <<run, doc, store, job, worker, client, host>>

\* Sixty seconds pass; nobody renews a lease, whether or not its holder lives.
Lapse(s, l) ==
    /\ l \in lease[s]
    /\ IF l[2] = "held" THEN Spend("stalls", MaxStalls) ELSE UNCHANGED spent
    /\ lease' = [lease EXCEPT ![s] = @ \ {l}]
    /\ UNCHANGED <<run, doc, store, job, worker, client, host>>

\* cancelStalePipelineRun
CancelRun(w) ==
    /\ At(w, "cancelRun")
    /\ Fenced(AllCancelled)
    /\ Complete(w)
    /\ UNCHANGED <<doc, store, client, host, spent>>

\* enqueueSummarize and the two enqueueFinalize: which job comes next.
Following(w) ==
    LET j == JobOf(w)
    IN IF worker[w].plan = "finalize" /\ StageOf(j) = "graph"
       THEN <<"finalize", "graph", job[j].requested>>
       ELSE IF StageOf(j) = "graph" THEN <<"summarize", j[2], 0>> ELSE First("finalize")

\* enqueueIfActive up to the add.
Enqueue(w) ==
    /\ At(w, "next")
    /\ \/ Cancelled /\ End(w) /\ UNCHANGED <<run, spent>>
       \/ /\ ~Cancelled
          /\ Add(Following(w), job[JobOf(w)].requested)
          /\ Goto(w, "recheck")
          /\ UNCHANGED <<run, lease, spent>>
       \/ /\ ~Cancelled /\ Outage
          /\ IF StageOf(JobOf(w)) = "graph" /\ ~worker[w].throws
             THEN Goto(w, "graphFailed") /\ UNCHANGED <<run, job, lease>>
             ELSE Throw(w) /\ UNCHANGED run
    /\ UNCHANGED <<doc, store, client, host>>

\* ... and after it: a job added for a run cancelled meanwhile is taken back.
Recheck(w) ==
    LET j == Following(w)
        left == [job EXCEPT ![JobOf(w)] = After(w)]
    IN /\ At(w, "recheck")
       /\ Leave(w)
       /\ job' = IF Cancelled /\ ~Locked(j) THEN [left EXCEPT ![j] = NoJob] ELSE left
       /\ UNCHANGED <<run, doc, store, client, host, spent>>

-----------------------------------------------------------------------------
(***************************************************************************)
(* The graph stage                                                         *)
(***************************************************************************)
GraphRead(w) ==
    /\ At(w, "graphRead")
    /\ IF Cancelled THEN Complete(w)
       ELSE /\ Keep(w, "graphMark", IF run.summarize \in {"ready", "skipped"} THEN "finalize"
                                    ELSE "summarize")
            /\ UNCHANGED <<job, lease>>
    /\ UNCHANGED <<run, doc, store, client, host, spent>>

\* Mutant: a stage that was ready stays ready while it is tried again.
GraphMarkNew(w) ==
    /\ At(w, "graphMark")
    /\ IF Cancelled THEN Complete(w) /\ UNCHANGED run
       ELSE /\ (IF run.graph = "ready" THEN UNCHANGED run ELSE Set("graph", "processing"))
            /\ Goto(w, "extract") /\ UNCHANGED <<job, lease>>
    /\ UNCHANGED <<doc, store, client, host, spent>>

GraphMark(w) ==
    /\ At(w, "graphMark")
    /\ IF Cancelled THEN Complete(w) /\ UNCHANGED run
       ELSE Set("graph", "processing") /\ Goto(w, "extract") /\ UNCHANGED <<job, lease>>
    /\ UNCHANGED <<doc, store, client, host, spent>>

\* Load the document, ask the provider.  A warning may be one worth a retry.
Extract(w) ==
    /\ At(w, "extract")
    /\ \/ Cancelled /\ Complete(w) /\ UNCHANGED spent
       \/ /\ ~Cancelled
          /\ Goto(w, IF Readable THEN "persist" ELSE "graphFailed")
          /\ UNCHANGED <<job, lease, spent>>
       \/ /\ ~Cancelled /\ Readable
          /\ \/ Throwing(w, "graphThrown", TRUE)
             \/ \E r \in BOOLEAN :
                   worker' = [worker EXCEPT ![w].pc = "graphWarned", ![w].retryable = r]
          /\ Fails
          /\ UNCHANGED <<job, lease>>
    /\ UNCHANGED <<run, doc, store, client, host>>

\* persistEntities, behind lockCurrentGeneration.
Persist(w) ==
    /\ At(w, "persist") /\ ~Cancelled
    /\ IF Readable /\ run.status # "failed" /\ run.graph = "processing"
       THEN projected' = TRUE /\ Goto(w, "graphDone")
       ELSE Goto(w, "graphStale") /\ UNCHANGED projected
    /\ UNCHANGED <<run, doc, summarized, queue, client, host, spent>>

\* compensateExtract: the check after extract, or its transaction, met a cancellation.
\* One that comes after the check leaves the projection, and the marks below do nothing.
Compensate(w) ==
    /\ worker[w].pc \in {"persist", "graphDone", "graphStale", "graphWarned", "graphThrown"}
    /\ Cancelled
    /\ projected' = FALSE
    /\ Complete(w)
    /\ UNCHANGED <<run, doc, summarized, client, host, spent>>

GraphDone(w) ==
    /\ At(w, "graphDone")
    /\ Set("graph", "ready")
    /\ Goto(w, "next")
    /\ UNCHANGED <<doc, store, queue, client, host, spent>>

GraphStale(w) ==
    /\ At(w, "graphStale")
    /\ Set("graph", "cancelled")
    /\ Goto(w, "cancelRun")
    /\ UNCHANGED <<doc, store, queue, client, host, spent>>

\* A warning goes on, a provider error goes on and is thrown.
GraphWarned(w) ==
    /\ worker[w].pc \in {"graphWarned", "graphThrown"}
    /\ SetFailed("graph", worker[w].retryable)
    /\ Goto(w, "next")
    /\ UNCHANGED <<doc, store, queue, client, host, spent>>

\* processGraphStageFailure: anything else is thrown after the summary is queued.
GraphFailed(w) ==
    /\ At(w, "graphFailed")
    /\ IF Cancelled THEN Throw(w) /\ UNCHANGED run
       ELSE /\ SetFailed("graph", FALSE)
            /\ worker' = [worker EXCEPT ![w].pc = "next", ![w].plan = "summarize", ![w].throws = TRUE]
            /\ UNCHANGED <<job, lease>>
    /\ UNCHANGED <<doc, store, client, host, spent>>

-----------------------------------------------------------------------------
(***************************************************************************)
(* The summarize stage                                                     *)
(***************************************************************************)
\* continueIfCurrent before each step: on, off, or off and cancel the run.
SummaryGuard(w, pc, next) ==
    /\ At(w, pc)
    /\ IF Cancelled THEN Complete(w)
       ELSE Goto(w, IF IsCurrent THEN next ELSE "cancelRun") /\ UNCHANGED <<job, lease>>
    /\ UNCHANGED <<run, doc, store, client, host, spent>>

SummaryStart(w) == SummaryGuard(w, "sumStart", "sumMark")
SummaryCheck(w) == SummaryGuard(w, "sumGuard", "sumRead")
SummaryRetry(w) == SummaryGuard(w, "sumThrown", "sumFailed")
SummaryNext(w) == SummaryGuard(w, "sumNext", "next")

SummaryMark(w) ==
    /\ At(w, "sumMark")
    /\ Set("summarize", IF enabled THEN "processing" ELSE "skipped")
    /\ Goto(w, IF enabled THEN "sumGuard" ELSE "sumNext")
    /\ UNCHANGED <<doc, store, queue, client, host, spent>>

\* Read the document, ask the provider; an empty document is skipped.
Summarize(w) ==
    /\ At(w, "sumRead")
    /\ \/ /\ IF Readable THEN Goto(w, "sumPersist") \/ Keep(w, "sumRecord", "skipped")
                         ELSE Goto(w, "sumLost")
          /\ UNCHANGED spent
       \/ /\ Readable
          /\ \/ Throwing(w, "sumThrown", TRUE)
             \/ Goto(w, "sumThrown")
          /\ Fails
    /\ UNCHANGED <<run, doc, store, queue, client, host>>

PersistIfCurrent(w) ==
    /\ At(w, "sumPersist")
    /\ IF Readable /\ run.status \notin {"cancelled", "failed"} /\ run.summarize = "processing"
       THEN summarized' = TRUE /\ Keep(w, "sumRecord", "ready")
       ELSE Goto(w, "sumLost") /\ UNCHANGED summarized
    /\ UNCHANGED <<run, doc, projected, queue, client, host, spent>>

SummaryRecord(w) ==
    /\ At(w, "sumRecord")
    /\ IF Cancelled THEN Complete(w)
       ELSE Goto(w, IF IsCurrent THEN "sumReady" ELSE "sumLost") /\ UNCHANGED <<job, lease>>
    /\ UNCHANGED <<run, doc, store, client, host, spent>>

SummaryReady(w) ==
    /\ At(w, "sumReady")
    /\ Set("summarize", worker[w].plan)
    /\ Goto(w, "sumNext")
    /\ UNCHANGED <<doc, store, queue, client, host, spent>>

SummaryLost(w) ==
    /\ At(w, "sumLost")
    /\ Set("summarize", "cancelled")
    /\ IF Cancelled THEN Complete(w) ELSE Goto(w, "cancelRun") /\ UNCHANGED <<job, lease>>
    /\ UNCHANGED <<doc, store, client, host, spent>>

\* A failure queues finalize; a retryable one is thrown after that.
SummaryFailed(w) ==
    /\ At(w, "sumFailed")
    /\ SetFailed("summarize", worker[w].retryable)
    /\ Goto(w, "sumNext")
    /\ UNCHANGED <<doc, store, queue, client, host, spent>>

-----------------------------------------------------------------------------
(***************************************************************************)
(* The finalize stage                                                      *)
(***************************************************************************)
FinalizeRead(w) ==
    /\ At(w, "finRead")
    /\ Keep(w, "finWrite", DeriveFinalStatus(run))
    /\ UNCHANGED <<run, doc, store, queue, client, host, spent>>

\* Mutant: the final status is written over a cancellation.
FinalizeWriteUnfenced(w) ==
    /\ At(w, "finWrite")
    /\ run' = [run EXCEPT !.status = worker[w].plan, !.finalize = "ready"]
    /\ Complete(w)
    /\ UNCHANGED <<doc, store, client, host, spent>>

FinalizeWrite(w) ==
    /\ At(w, "finWrite")
    /\ Fenced([run EXCEPT !.status = worker[w].plan,
                          !.finalize = IF worker[w].plan = "cancelled" THEN "cancelled" ELSE "ready"])
    /\ Complete(w)
    /\ UNCHANGED <<doc, store, client, host, spent>>

-----------------------------------------------------------------------------
(***************************************************************************)
(* POST /documents/:id/pipeline/retry-warnings                             *)
(***************************************************************************)
Ask(c, rec) == client' = [client EXCEPT ![c] = rec]
Forward(c, pc) == Ask(c, [client[c] EXCEPT !.pc = pc])
Entry(c) == Retry(IF client[c].graph THEN "graph" ELSE "summarize")

\* Claim the failed stages in one transaction, or join a retry under way.
RetryClaim(c) ==
    /\ Running /\ client[c].pc = "idle" /\ Readable
    /\ Spend("retries", MaxRetries)
    /\ \/ LET graph == run.graph = "failed" /\ run.graphRetryable
              summarize == run.summarize = "failed" /\ run.summarizeRetryable
          IN /\ run.status = "ready_with_warnings" /\ (graph \/ summarize)
             /\ run' = [run EXCEPT !.status = "processing", !.finalize = "pending",
                                   !.graph = IF graph THEN "retrying" ELSE @,
                                   !.graphRetryable = @ /\ ~graph,
                                   !.summarize = IF summarize THEN "retrying" ELSE @,
                                   !.summarizeRetryable = @ /\ ~summarize]
             /\ Ask(c, [pc |-> IF graph THEN "dropGraph" ELSE "dropSummarize", graph |-> graph,
                        summarize |-> summarize, deduplicated |-> FALSE, started |-> FALSE,
                        number |-> spent.retries + 1])
       \/ LET graph == run.graph \in ActiveStatuses
              summarize == run.summarize \in ActiveStatuses
          IN /\ run.status = "processing" /\ (graph \/ summarize)
             /\ Ask(c, [pc |-> "look", graph |-> graph, summarize |-> summarize,
                        deduplicated |-> TRUE, number |-> spent.retries + 1,
                        started |-> "processing" \in {run.graph, run.summarize}])
             /\ UNCHANGED run
    /\ UNCHANGED <<doc, store, queue, worker, host>>

\* A call of Redis that throws leads to the catch block, which a request that claimed
\* nothing passes through.
Unclaim(c) ==
    /\ Ask(c, IF client[c].deduplicated THEN IdleClient ELSE [client[c] EXCEPT !.pc = "restore"])
    /\ UNCHANGED job

\* Remove the jobs of the first pass in turn; one that is active throws.
RetryDrop(c) ==
    /\ client[c].pc \in {"dropGraph", "dropSummarize", "dropFinalize"}
    /\ LET stage == CASE client[c].pc = "dropGraph" -> "graph"
                      [] client[c].pc = "dropSummarize" -> "summarize"
                      [] OTHER -> "finalize"
       IN \/ /\ Remove(First(stage))
             /\ Forward(c, IF Locked(First(stage)) THEN "restore"
                           ELSE IF stage = "graph" /\ client[c].summarize THEN "dropSummarize"
                           ELSE IF stage = "finalize" THEN "look" ELSE "dropFinalize")
             /\ UNCHANGED spent
          \/ Outage /\ Unclaim(c)
    /\ UNCHANGED <<run, doc, store, lease, worker, host>>

\* An earlier retry job that has ended makes room; one under way is joined.
RetryLook(c) ==
    /\ client[c].pc = "look"
    /\ \/ /\ IF client[c].deduplicated /\ client[c].started
             THEN Ask(c, IdleClient) /\ UNCHANGED job
             ELSE /\ job' = IF job[Entry(c)].state = "ended" THEN [job EXCEPT ![Entry(c)] = NoJob]
                            ELSE job
                  /\ Forward(c, "add")
          /\ UNCHANGED spent
       \/ Outage /\ Unclaim(c)
    /\ UNCHANGED <<run, doc, store, lease, worker, host>>

RetryAdd(c) ==
    /\ client[c].pc = "add"
    /\ \/ Add(Entry(c), client[c].number) /\ Ask(c, IdleClient) /\ UNCHANGED spent
       \/ Outage /\ Unclaim(c)
    /\ UNCHANGED <<run, doc, store, lease, worker, host>>

\* Mutant: the claim is not given back.
RetryRestoreNothing(c) ==
    /\ client[c].pc = "restore"
    /\ Ask(c, IdleClient)
    /\ UNCHANGED <<run, doc, store, queue, worker, host, spent>>

\* The catch block gives the claim back while the run is still processing.
RetryRestore(c) ==
    /\ client[c].pc = "restore"
    /\ LET graph == client[c].graph
           summarize == client[c].summarize
       IN run' = IF run.status # "processing" THEN run
                 ELSE [run EXCEPT !.status = "ready_with_warnings", !.finalize = "ready",
                                  !.graph = IF graph THEN "failed" ELSE @,
                                  !.graphRetryable = @ \/ graph,
                                  !.summarize = IF summarize THEN "failed" ELSE @,
                                  !.summarizeRetryable = @ \/ summarize]
    /\ Ask(c, IdleClient)
    /\ UNCHANGED <<doc, store, queue, worker, host, spent>>

-----------------------------------------------------------------------------
(***************************************************************************)
(* Edits, later generations, cancellation                                  *)
(***************************************************************************)
Edit ==
    /\ doc = "current" /\ doc' = "edited"
    /\ UNCHANGED <<run, store, queue, worker, client, host, spent>>

Replace ==
    /\ doc = "edited" /\ doc' = "replaced"
    /\ UNCHANGED <<run, store, queue, worker, client, host, spent>>

\* findOrCreate of a forced generation cancels the active run by its status alone.
Supersede ==
    /\ run.status \in ActiveStatuses
    /\ run' = [run EXCEPT !.status = "cancelled"]
    /\ UNCHANGED <<doc, store, queue, worker, client, host, spent>>

\* cancelAccountPipelineJobs: fence the active runs, then look for waiting jobs.
CancelAccount ==
    /\ ~sweeping /\ sweeping' = TRUE
    /\ run' = IF run.status \in ActiveStatuses THEN AllCancelled ELSE run
    /\ UNCHANGED <<doc, store, queue, worker, client, enabled, recovery, spent>>

RemoveWaiting(j) ==
    /\ sweeping /\ job[j].state = "waiting"
    /\ job' = [job EXCEPT ![j] = NoJob]
    /\ UNCHANGED <<run, doc, store, lease, worker, client, host, spent>>

-----------------------------------------------------------------------------
(***************************************************************************)
(* Crash and recovery                                                      *)
(***************************************************************************)
\* The process dies.  Redis hands the jobs it had active out again, or lost
\* everything; a lease it kept runs on.
Crash ==
    /\ Running /\ Spend("crashes", MaxCrashes)
    /\ worker' = [w \in Worker |-> IdleWorker]
    /\ client' = [c \in Client |-> IdleClient]
    /\ \/ /\ job' = [j \in JobId |-> [job[j] EXCEPT !.state = IF @ = "active" THEN "waiting" ELSE @]]
          /\ lease' = [s \in Stage |-> {<<l[1], "left">> : l \in lease[s]}]
       \/ /\ job' = [j \in JobId |-> NoJob]
          /\ lease' = [s \in Stage |-> {}]
    /\ recovery' = [Off EXCEPT !.pc = "find"]
    /\ UNCHANGED <<run, doc, store, enabled, sweeping>>

\* selectRecoveryStage, the embed stage being ready and its generation active.
RecoveryStage ==
    IF run.graph \in ActiveStatuses THEN "graph"
    ELSE IF run.summarize \in ActiveStatuses THEN "summarize"
    ELSE IF run.finalize \in ActiveStatuses THEN "finalize" ELSE "none"

Recover(rec) == recovery' = rec /\ UNCHANGED <<enabled, sweeping>>

\* findStalled, which passes over what was touched in the last two minutes.
RecoverFind ==
    /\ recovery.pc = "find"
    /\ \/ Recover(Off)
       \/ /\ run.status \in ActiveStatuses /\ RecoveryStage # "none"
          /\ Recover([pc |-> IF run.attempts < MaxAttempts THEN "claim" ELSE "exhaust",
                      stage |-> RecoveryStage, seen |-> run])
    /\ UNCHANGED <<run, doc, store, queue, worker, client, spent>>

\* claimRetry compares updated_at with what findStalled saw.
RecoverClaim ==
    /\ recovery.pc = "claim"
    /\ IF run = recovery.seen
       THEN /\ run' = [run EXCEPT !.status = "retrying", ![recovery.stage] = "retrying",
                                  !.attempts = @ + 1]
            /\ Recover([recovery EXCEPT !.pc = "add", !.seen = None])
       ELSE Recover(Off) /\ UNCHANGED run
    /\ UNCHANGED <<doc, store, queue, worker, client, spent>>

\* markExhausted has no such guard.
RecoverExhaust ==
    /\ recovery.pc = "exhaust"
    /\ run' = [run EXCEPT !.status = "failed", ![recovery.stage] = "failed"]
    /\ Recover(Off)
    /\ UNCHANGED <<doc, store, queue, worker, client, spent>>

RecoverAdd ==
    /\ recovery.pc = "add"
    /\ Add(First(recovery.stage), 0)
    /\ Recover(Off)
    /\ UNCHANGED <<run, doc, store, lease, worker, client, spent>>

-----------------------------------------------------------------------------
Handle(w) ==
    \/ Acquire(w) \/ CancelRun(w) \/ Enqueue(w) \/ Recheck(w)
    \/ GraphRead(w) \/ GraphMark(w) \/ Extract(w) \/ Persist(w) \/ Compensate(w)
    \/ GraphDone(w) \/ GraphStale(w) \/ GraphWarned(w) \/ GraphFailed(w)
    \/ SummaryStart(w) \/ SummaryCheck(w) \/ SummaryRetry(w) \/ SummaryNext(w)
    \/ SummaryMark(w) \/ Summarize(w) \/ PersistIfCurrent(w) \/ SummaryRecord(w)
    \/ SummaryReady(w) \/ SummaryLost(w) \/ SummaryFailed(w)
    \/ FinalizeRead(w) \/ FinalizeWrite(w)

Continue(c) == RetryDrop(c) \/ RetryLook(c) \/ RetryAdd(c) \/ RetryRestore(c)
RecoveryStep == RecoverFind \/ RecoverClaim \/ RecoverExhaust \/ RecoverAdd

Next ==
    \/ \E w \in Worker : Handle(w) \/ \E j \in JobId : Take(w, j)
    \/ \E s \in Stage : \E l \in Lease : Lapse(s, l)
    \/ \E c \in Client : RetryClaim(c) \/ Continue(c)
    \/ Edit \/ Replace \/ Supersede \/ CancelAccount
    \/ \E j \in JobId : RemoveWaiting(j)
    \/ Crash \/ RecoveryStep

Spec == Init /\ [][Next]_vars

\* Handlers, requests and the recovery run on, a free worker is given a job, and
\* a lease expires.  Users, failures and crashes are not fair.
FairSpec ==
    /\ Spec
    /\ \A w \in Worker : WF_vars(Handle(w)) /\ WF_vars(\E j \in JobId : Take(w, j))
    /\ \A s \in Stage : WF_vars(\E l \in Lease : Lapse(s, l))
    /\ \A c \in Client : WF_vars(Continue(c))
    /\ WF_vars(RecoveryStep)
-----------------------------------------------------------------------------
\* The state has its type, and no job is tried more often than it may be.
TypeOK ==
    /\ run \in Run
    /\ doc \in {"current", "edited", "replaced"}
    /\ projected \in BOOLEAN /\ summarized \in BOOLEAN /\ enabled \in BOOLEAN
    /\ job \in [JobId -> Job]
    /\ lease \in [Stage -> SUBSET Lease]
    /\ worker \in [Worker -> Handler]
    /\ client \in [Client -> Request]
    /\ recovery \in [pc : RecoveryPc, stage : Stage, seen : Run \cup {None}]
    /\ sweeping \in BOOLEAN
    /\ spent \in [retries : 0..MaxRetries, failures : 0..MaxFailures, outages : 0..MaxOutages,
                  crashes : 0..MaxCrashes, stalls : 0..MaxStalls]

\* A cancelled run stays cancelled, whatever handlers, finalizations, retry
\* requests and restores are under way; only markExhausted overwrites it.
CancelledStays == [][Cancelled => run'.status = "cancelled" \/ RecoverExhaust]_vars

\* Before anybody asks for a retry and while Redis takes every job, a run that is
\* called ready has both optional stages behind it, although finalization judges
\* an earlier row and a stage that failed is tried again beside it.
ReadyIsHonest ==
    run.status = "ready" /\ spent.crashes = 0 /\ spent.retries = 0 /\ spent.outages = 0 =>
        {run.graph, run.summarize} \subseteq {"ready", "skipped"}

\* What a stage that is ready stands for is stored, whatever was tried again,
\* retried, taken back or recovered in between.  Two graph handlers side by side,
\* in two slots or after a lease expired under a live one, are the exception: once
\* the run is cancelled, the one takes back what the other has stored.
ClaimsAreStored ==
    /\ run.graph = "ready" /\ (Cancelled => Limit["graph"] = 1 /\ spent.stalls = 0) => projected
    /\ run.summarize = "ready" => summarized

\* A run that is not over has a job or a request to carry it on, without a crash,
\* with one retry request, and while Redis refuses fewer jobs than a job has attempts:
\* no claim is made and then forgotten, and no stage ends without its successor,
\* whatever fails or is cancelled.  (Two requests at once do lose it: the one adds
\* the job, the other drops what that job queued.)
TailCarried ==
    /\ run.status \in ActiveStatuses /\ ~sweeping
    /\ spent.crashes = 0 /\ spent.retries < 2 /\ spent.outages < MaxTries
    => (\E j \in JobId : Live(j)) \/ (\E c \in Client : client[c].pc # "idle")

\* Every job gets a slot and ends, also when a crash left the slots taken.
JobsEnd == []<>(\A j \in JobId : ~Live(j))
=============================================================================
