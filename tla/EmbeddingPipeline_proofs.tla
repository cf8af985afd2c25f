----------------------- MODULE EmbeddingPipeline_proofs -----------------------
(***************************************************************************)
(* The embedding pipeline for any number of generations, workers, requests *)
(* and chunks, and any bound on edits, failures, crashes and cancellations:*)
(* its types, the ownership of jobs, the cancellation fence, that it       *)
(* implements SearchIndex with one crash or failed call, and, without any, *)
(* its window of batches and that no run is stranded.                      *)
(*                                                                         *)
(* TypeOK and Ownership are inductive together.  The invariant is split by *)
(* who holds the state: the tables, the queue with its handlers, and the   *)
(* requests; each part has a lemma per action that disturbs it.  What      *)
(* search reads needs a second invariant, Whole, on top of it, the window  *)
(* a third, Scheduling, and the runs a fourth, Carrying.                   *)
(***************************************************************************)
EXTENDS EmbeddingPipeline, FiniteSetTheorems, TLAPS

\* PostgreSQL: the tables keep their types.
TablesOK ==
    /\ doc \in Document
    /\ run \in [Gen -> Run \cup {None}]
    /\ batch \in [Gen -> [Batch -> BatchStatus]]
    /\ row \in [Gen -> Rows]

\* Redis and the handlers: types and ownership.
OwnsJob ==
    \A w \in Worker : Busy(w) =>
        /\ JobOf(w) \in JobId
        /\ job[JobOf(w)].state = "active"
        /\ \A j \in worker[w].next : GenOf(j) = G(w)
OwnsAlone == \A v, w \in Worker : Busy(v) /\ Busy(w) /\ JobOf(v) = JobOf(w) => v = w
JobHasRun == \A j \in JobId : job[j].state # "none" => Exists(GenOf(j))
LiveHasTries ==
    \A j \in JobId : job[j].state \in {"waiting", "active"} => job[j].tries < MaxTries

QueueOK ==
    /\ job \in [JobId -> Job]
    /\ worker \in [Worker -> Handler]
    /\ OwnsJob /\ OwnsAlone /\ JobHasRun /\ LiveHasTries

\* The API requests.
RequestsOK ==
    /\ api \in [Client -> Caller]
    /\ \A c \in Client :
          /\ api[c].pc \in {"slot", "enqueue"} => api[c].revision # None
          /\ api[c].pc \in {"add", "recheck"} => api[c].gen # None /\ Exists(api[c].gen)

BoundsOK ==
    /\ slot \in SUBSET Revision
    /\ removal \in BOOLEAN
    /\ spent \in [edits : 0..MaxEdits, requests : 0..MaxRequests,
                  provider : 0..MaxProviderFailures, infra : 0..MaxInfraFailures,
                  crashes : 0..MaxCrashes, cancels : 0..MaxCancels]

Inv == TablesOK /\ QueueOK /\ RequestsOK /\ BoundsOK

\* No run is ever deleted.
RunsKept == \A g \in Gen : Exists(g) => Exists(g)'

\* What FenceHolds says of one step.
FenceKept ==
    \A g \in Gen : Cancelled(g) =>
        /\ Cancelled(g)'
        /\ doc'.active = g => doc.active = g

LEMMA InvIsTypeAndOwnership == Inv <=> TypeOK /\ Ownership
  BY DEF Inv, TablesOK, QueueOK, RequestsOK, BoundsOK, TypeOK, Ownership,
         OwnsJob, OwnsAlone, JobHasRun, LiveHasTries

-----------------------------------------------------------------------------
(***************************************************************************)
(* Job ids, chunks and rows                                                *)
(***************************************************************************)

\* Every job id names a generation, and the ids made for a generation name it.
LEMMA JobIdFacts ==
    /\ \A j \in JobId : GenOf(j) \in Gen
    /\ \A g \in Gen : /\ PrepareJob(g) \in JobId /\ GenOf(PrepareJob(g)) = g
                      /\ GraphJob(g) \in JobId /\ GenOf(GraphJob(g)) = g
    /\ \A g \in Gen, b \in Batch : EmbedJob(g, b) \in JobId /\ GenOf(EmbedJob(g, b)) = g
  BY DEF JobId, GenOf, PrepareJob, GraphJob, EmbedJob

\* A chunk of a revision is a chunk, and has a text.
LEMMA ChunkText ==
    ASSUME NEW r \in Revision, NEW c \in Chunks(r)
    PROVE  c \in Chunk /\ TextOf[r][c] \in Text
<1>1. TextOf[r] \in Seq(Text)
  BY ContentAssumption
<1>2. TextOf[r][c] \in Text
  BY <1>1 DEF Chunks
<1> QED
  BY <1>2 DEF Chunk

\* The rows of a generation can be counted.
LEMMA StoredCount ==
    ASSUME NEW rows
    PROVE  Cardinality(Stored(rows)) \in Nat
  BY FiniteContentAssumption, FS_Subset, FS_CardinalityType DEF Stored

LEMMA NoRowsType == NoRows \in Rows
  BY DEF NoRows, Rows

LEMMA IdleWorkerType == IdleWorker \in Handler /\ IdleWorker.pc = "idle"
  BY NoRowsType DEF IdleWorker, Handler, WorkerPc

LEMMA IdleClientType == IdleClient \in Caller /\ IdleClient.pc = "idle"
  BY DEF IdleClient, Caller, ClientPc

LEMMA NoJobType == NoJob \in Job /\ NoJob.state = "none"
  BY LimitAssumption DEF NoJob, Job, JobState

\* A busy handler works on a job of a run that exists.
LEMMA BusyFacts ==
    ASSUME Inv, NEW w \in Worker, Busy(w)
    PROVE  /\ JobOf(w) \in JobId /\ G(w) \in Gen /\ Exists(G(w)) /\ run[G(w)] \in Run
           /\ worker[w] \in Handler
           /\ job[JobOf(w)] \in Job /\ job[JobOf(w)].state = "active"
           /\ job[JobOf(w)].tries < MaxTries
<1>1. JobOf(w) \in JobId /\ job[JobOf(w)].state = "active"
  BY DEF Inv, QueueOK, OwnsJob
<1>2. G(w) \in Gen
  BY <1>1, JobIdFacts DEF G
<1>3. Exists(G(w))
  BY <1>1 DEF Inv, QueueOK, JobHasRun, G
<1>4. run[G(w)] \in Run
  BY <1>2, <1>3 DEF Inv, TablesOK, Exists
<1>5. job[JobOf(w)].tries < MaxTries
  BY <1>1 DEF Inv, QueueOK, LiveHasTries
<1> QED
  BY <1>1, <1>2, <1>3, <1>4, <1>5 DEF Inv, QueueOK

\* A waiting job belongs to a run that exists.
LEMMA WaitingFacts ==
    ASSUME Inv, NEW j \in JobId, job[j].state = "waiting"
    PROVE  /\ GenOf(j) \in Gen /\ Exists(GenOf(j)) /\ run[GenOf(j)] \in Run
           /\ job[j] \in Job /\ job[j].tries < MaxTries
<1>1. GenOf(j) \in Gen
  BY JobIdFacts
<1>2. Exists(GenOf(j)) /\ job[j].tries < MaxTries
  BY DEF Inv, QueueOK, JobHasRun, LiveHasTries
<1>3. run[GenOf(j)] \in Run
  BY <1>1, <1>2 DEF Inv, TablesOK, Exists
<1> QED
  BY <1>1, <1>2, <1>3 DEF Inv, QueueOK

-----------------------------------------------------------------------------
(***************************************************************************)
(* The queue                                                               *)
(***************************************************************************)

\* What may become of a job that no handler of this step holds.
Untouched(j) ==
    \/ job'[j] = job[j]
    \/ job[j].state = "none" /\ Exists(GenOf(j)) /\ job'[j].state = "waiting" /\ job'[j].tries = 0
    \/ job[j].state # "active" /\ job'[j].state = "none"
    \/ job[j].state = "waiting" /\ job'[j].state = "completed"

QueueMoves == job' \in [JobId -> Job] /\ \A j \in JobId : Untouched(j)

LEMMA UntouchedJob ==
    ASSUME Inv, RunsKept, NEW j \in JobId, Untouched(j)
    PROVE  /\ job[j].state = "active" => job'[j].state = "active"
           /\ job'[j].state # "none" => Exists(GenOf(j))'
           /\ job'[j].state \in {"waiting", "active"} => job'[j].tries < MaxTries
<1>1. GenOf(j) \in Gen
  BY JobIdFacts
<1>2. Exists(GenOf(j)) => Exists(GenOf(j))'
  BY <1>1 DEF RunsKept
<1>3. /\ job[j].state # "none" => Exists(GenOf(j))
      /\ job[j].state \in {"waiting", "active"} => job[j].tries < MaxTries
  BY DEF Inv, QueueOK, JobHasRun, LiveHasTries
<1> QED
  BY <1>2, <1>3, LimitAssumption DEF Untouched

\* A step of the queue alone.
LEMMA QueueStep ==
    ASSUME Inv, RunsKept, QueueMoves, worker' = worker
    PROVE  QueueOK'
<1>1. \A j \in JobId :
        /\ job[j].state = "active" => job'[j].state = "active"
        /\ job'[j].state # "none" => Exists(GenOf(j))'
        /\ job'[j].state \in {"waiting", "active"} => job'[j].tries < MaxTries
  BY UntouchedJob DEF QueueMoves
<1>2. OwnsJob' /\ OwnsAlone'
  BY <1>1 DEF Inv, QueueOK, OwnsJob, OwnsAlone, Busy, JobOf, G
<1>3. JobHasRun' /\ LiveHasTries'
  BY <1>1 DEF JobHasRun, LiveHasTries
<1> QED
  BY <1>2, <1>3 DEF Inv, QueueOK, QueueMoves

\* A handler goes on with its job.
LEMMA HandlerMoves ==
    ASSUME Inv, RunsKept, QueueMoves, NEW w \in Worker, Busy(w),
           NEW h \in Handler, h.job = JobOf(w), \A j \in h.next : GenOf(j) = G(w),
           worker' = [worker EXCEPT ![w] = h]
    PROVE  QueueOK'
<1>1. \A j \in JobId :
        /\ job[j].state = "active" => job'[j].state = "active"
        /\ job'[j].state # "none" => Exists(GenOf(j))'
        /\ job'[j].state \in {"waiting", "active"} => job'[j].tries < MaxTries
  BY UntouchedJob DEF QueueMoves
<1>2. worker \in [Worker -> Handler]
  BY DEF Inv, QueueOK
<1>3. /\ worker' \in [Worker -> Handler] /\ worker'[w] = h
      /\ \A v \in Worker \ {w} : worker'[v] = worker[v]
  BY <1>2
<1>4. \A v \in Worker : Busy(v)' => Busy(v) /\ JobOf(v)' = JobOf(v)
  BY <1>3 DEF Busy, JobOf
<1>5. \A v \in Worker : Busy(v)' => \A j \in worker'[v].next : GenOf(j) = GenOf(JobOf(v))
  BY <1>3, <1>4 DEF Inv, QueueOK, OwnsJob, G
<1>6. OwnsJob'
  BY <1>1, <1>4, <1>5 DEF Inv, QueueOK, OwnsJob, G
<1>7. OwnsAlone'
  BY <1>4 DEF Inv, QueueOK, OwnsAlone
<1>8. JobHasRun' /\ LiveHasTries'
  BY <1>1 DEF JobHasRun, LiveHasTries
<1> QED
  BY <1>3, <1>6, <1>7, <1>8 DEF QueueOK, QueueMoves

\* A handler ends, and its job with it or back to the queue.
LEMMA HandlerEnds ==
    ASSUME Inv, RunsKept, NEW w \in Worker, Busy(w), NEW own \in JobId, own = JobOf(w),
           worker' = [worker EXCEPT ![w] = IdleWorker],
           job' \in [JobId -> Job],
           \A j \in JobId \ {own} : Untouched(j),
           job'[own].state # "active",
           job'[own].state = "waiting" => job'[own].tries < MaxTries
    PROVE  QueueOK'
<1>1. \A j \in JobId \ {own} :
        /\ job[j].state = "active" => job'[j].state = "active"
        /\ job'[j].state # "none" => Exists(GenOf(j))'
        /\ job'[j].state \in {"waiting", "active"} => job'[j].tries < MaxTries
  BY UntouchedJob
<1>2. worker \in [Worker -> Handler]
  BY DEF Inv, QueueOK
<1>3. /\ worker' \in [Worker -> Handler] /\ worker'[w] = IdleWorker
      /\ \A v \in Worker \ {w} : worker'[v] = worker[v]
  BY <1>2, IdleWorkerType
<1>4. \A v \in Worker : Busy(v)' => v # w /\ Busy(v) /\ worker'[v] = worker[v]
  BY <1>3, IdleWorkerType DEF Busy
<1>5. \A v \in Worker : Busy(v)' => JobOf(v) # own /\ JobOf(v)' = JobOf(v)
  BY <1>4 DEF Inv, QueueOK, OwnsAlone, JobOf
<1>6. OwnsJob'
  BY <1>1, <1>4, <1>5 DEF Inv, QueueOK, OwnsJob, G
<1>7. OwnsAlone'
  BY <1>4, <1>5 DEF Inv, QueueOK, OwnsAlone
<1>8. Exists(GenOf(own))'
  BY BusyFacts DEF RunsKept, G
<1>9. JobHasRun' /\ LiveHasTries'
  BY <1>1, <1>8 DEF JobHasRun, LiveHasTries
<1> QED
  BY <1>3, <1>6, <1>7, <1>9 DEF QueueOK

\* An idle worker takes a waiting job.
LEMMA HandlerStarts ==
    ASSUME Inv, RunsKept, NEW w \in Worker, At(w, "idle"),
           NEW j \in JobId, job[j].state = "waiting", Take(j),
           NEW h \in Handler, h.job = j, h.next = {}, worker' = [worker EXCEPT ![w] = h]
    PROVE  QueueOK'
<1>1. worker \in [Worker -> Handler] /\ job \in [JobId -> Job]
  BY DEF Inv, QueueOK
<1>2. /\ worker' \in [Worker -> Handler] /\ worker'[w] = h
      /\ \A v \in Worker \ {w} : worker'[v] = worker[v]
  BY <1>1
<1>3. job[j] \in Job /\ [job[j] EXCEPT !.state = "active"] \in Job
  BY <1>1 DEF Job, JobState
<1>4. /\ job' \in [JobId -> Job]
      /\ job'[j].state = "active" /\ job'[j].tries = job[j].tries
      /\ \A i \in JobId \ {j} : job'[i] = job[i]
  BY <1>1, <1>3 DEF Take, Job
<1>5. \A v \in Worker : Busy(v) => JobOf(v) # j
  BY DEF Inv, QueueOK, OwnsJob
<1>6. OwnsJob'
  BY <1>2, <1>4, <1>5 DEF Inv, QueueOK, OwnsJob, Busy, JobOf, G
<1>7. OwnsAlone'
  BY <1>2, <1>5 DEF Inv, QueueOK, OwnsAlone, Busy, JobOf
<1>8. JobHasRun' /\ LiveHasTries'
  <2>1. \A i \in JobId : Exists(GenOf(i)) => Exists(GenOf(i))'
    BY JobIdFacts DEF RunsKept
  <2> QED
    BY <1>4, <2>1 DEF Inv, QueueOK, JobHasRun, LiveHasTries
<1> QED
  BY <1>2, <1>4, <1>6, <1>7, <1>8 DEF QueueOK

LEMMA DoneStep ==
    ASSUME Inv, RunsKept, NEW w \in Worker, Busy(w), Done(w)
    PROVE  QueueOK'
<1> DEFINE own == JobOf(w)
<1>1. job \in [JobId -> Job] /\ own \in JobId /\ job[own] \in Job
  BY BusyFacts DEF Inv, QueueOK
<1>2. [job[own] EXCEPT !.state = "completed"] \in Job
  BY <1>1 DEF Job, JobState
<1>3. job' = [job EXCEPT ![own] = [job[own] EXCEPT !.state = "completed"]]
  BY DEF Done, Ended
<1>4. /\ job' \in [JobId -> Job] /\ job'[own].state = "completed"
      /\ \A j \in JobId \ {own} : job'[j] = job[j]
  BY <1>1, <1>2, <1>3 DEF Job
<1>5. \A j \in JobId \ {own} : Untouched(j)
  BY <1>4 DEF Untouched
<1>6. worker' = [worker EXCEPT ![w] = IdleWorker]
  BY DEF Done
<1> HIDE DEF own
<1>7. own = JobOf(w)
  BY DEF own
<1> QED
  BY <1>1, <1>4, <1>5, <1>6, <1>7, HandlerEnds

LEMMA ThrowStep ==
    ASSUME Inv, RunsKept, NEW w \in Worker, Busy(w), Throw(w)
    PROVE  QueueOK'
<1> DEFINE own == JobOf(w)
           t == job[own].tries + 1
           q == [job[own] EXCEPT !.state = IF t < MaxTries THEN "waiting" ELSE "failed", !.tries = t]
<1>1. job \in [JobId -> Job] /\ own \in JobId /\ job[own] \in Job /\ job[own].tries < MaxTries
  BY BusyFacts DEF Inv, QueueOK
<1>2. t \in 0..MaxTries
  BY <1>1, LimitAssumption DEF Job
<1>3. q \in Job /\ q.state # "active" /\ (q.state = "waiting" => q.tries < MaxTries)
  <2> HIDE DEF t
  <2> QED
    BY <1>1, <1>2 DEF Job, JobState
<1>4. job' = [job EXCEPT ![own] = q] /\ worker' = [worker EXCEPT ![w] = IdleWorker]
  BY DEF Throw
<1> HIDE DEF q, t
<1>5. /\ job' \in [JobId -> Job] /\ job'[own] = q
      /\ \A j \in JobId \ {own} : job'[j] = job[j]
  BY <1>1, <1>3, <1>4
<1>6. \A j \in JobId \ {own} : Untouched(j)
  BY <1>5 DEF Untouched
<1>7. own = JobOf(w)
  OBVIOUS
<1> HIDE DEF own
<1> QED
  BY <1>1, <1>3, <1>4, <1>5, <1>6, <1>7, HandlerEnds

LEMMA UnchangedQueueMoves ==
    ASSUME Inv, job' = job
    PROVE  QueueMoves
  BY DEF Inv, QueueOK, QueueMoves, Untouched

LEMMA GotoStep ==
    ASSUME Inv, RunsKept, NEW w \in Worker, Busy(w), NEW pc \in WorkerPc, Goto(w, pc)
    PROVE  QueueOK'
<1> DEFINE h == [worker[w] EXCEPT !.pc = pc]
<1>1. worker[w] \in Handler
  BY BusyFacts
<1>2. h \in Handler /\ h.job = JobOf(w) /\ h.next = worker[w].next
  BY <1>1 DEF Handler, JobOf
<1>3. \A j \in h.next : GenOf(j) = G(w)
  BY <1>2 DEF Inv, QueueOK, OwnsJob
<1>4. worker' = [worker EXCEPT ![w] = h] /\ job' = job
  BY DEF Goto
<1>5. QueueMoves
  BY <1>4, UnchangedQueueMoves
<1> HIDE DEF h
<1> QED
  BY <1>2, <1>3, <1>4, <1>5, HandlerMoves

\* Queue.add of jobs of runs that exist.
LEMMA AddMoves ==
    ASSUME Inv, NEW new, \A j \in DOMAIN new : new[j] \in Job,
           \A j \in DOMAIN new : new[j].state = "waiting" /\ new[j].tries = 0 /\ Exists(GenOf(j)),
           job' = Add(job, new)
    PROVE  QueueMoves
  BY DEF Inv, QueueOK, QueueMoves, Untouched, Add

LEMMA RemoveMoves ==
    ASSUME Inv, NEW ids, job' = Remove(job, ids)
    PROVE  QueueMoves
  BY NoJobType DEF Inv, QueueOK, QueueMoves, Untouched, Remove

LEMMA QueuedType ==
    ASSUME NEW full \in BOOLEAN, NEW x \in Context \cup {None}
    PROVE  Queued(full, x) \in Job /\ Queued(full, x).state = "waiting" /\ Queued(full, x).tries = 0
  BY LimitAssumption DEF Queued, Job, JobState

-----------------------------------------------------------------------------
(***************************************************************************)
(* The tables                                                              *)
(***************************************************************************)
TablesStep == TablesOK' /\ RunsKept /\ FenceKept

\* No run leaves the fence.
FenceStays == \A g \in Gen : Cancelled(g) => Cancelled(g)'

LEMMA TablesUnchanged ==
    ASSUME Inv, UNCHANGED <<doc, run, batch, row>>
    PROVE  TablesStep
  BY DEF Inv, TablesOK, TablesStep, RunsKept, FenceKept, Exists, Cancelled

LEMMA RunUnchanged ==
    ASSUME Inv, run' = run
    PROVE  run' \in [Gen -> Run \cup {None}] /\ RunsKept /\ FenceStays
  BY DEF Inv, TablesOK, RunsKept, FenceStays, Exists, Cancelled

\* One run gets a new value, which keeps the fence.
LEMMA RunUpdated ==
    ASSUME Inv, NEW g \in Gen, NEW q \in Run, Cancelled(g) => q.status = "cancelled",
           run' = [run EXCEPT ![g] = q]
    PROVE  run' \in [Gen -> Run \cup {None}] /\ RunsKept /\ FenceStays
<1>1. run \in [Gen -> Run \cup {None}]
  BY DEF Inv, TablesOK
<1>2. run' \in [Gen -> Run \cup {None}] /\ run'[g] = q /\ \A h \in Gen \ {g} : run'[h] = run[h]
  BY <1>1
<1>3. q # None
  BY NoneGenAssumption
<1> QED
  BY <1>2, <1>3 DEF RunsKept, FenceStays, Exists, Cancelled

\* The document keeps its active generation.
LEMMA FenceWithoutSwap ==
    ASSUME FenceStays, doc'.active = doc.active
    PROVE  FenceKept
  BY DEF FenceStays, FenceKept

LEMMA EditTables ==
    ASSUME Inv, NEW c \in Client, NEW r \in Revision, Edit(c, r)
    PROVE  TablesStep
<1>1. doc' \in Document /\ doc'.active = doc.active /\ UNCHANGED <<run, batch, row>>
  BY DEF Edit, Inv, TablesOK, Document
<1>2. RunsKept /\ FenceStays
  BY <1>1, RunUnchanged
<1> QED
  BY <1>1, <1>2, FenceWithoutSwap DEF Inv, TablesOK, TablesStep

LEMMA RequestTables ==
    ASSUME Inv, NEW c \in Client, NEW x \in Context, NEW full \in BOOLEAN, Request(c, x, full)
    PROVE  TablesStep
<1>1. doc' \in Document /\ doc'.active = doc.active /\ UNCHANGED <<run, batch, row>>
  BY DEF Request, Inv, TablesOK, Document
<1>2. RunsKept /\ FenceStays
  BY <1>1, RunUnchanged
<1> QED
  BY <1>1, <1>2, FenceWithoutSwap DEF Inv, TablesOK, TablesStep

LEMMA FindOrCreateTables ==
    ASSUME Inv, NEW c \in Client, NEW g \in Gen, FindOrCreate(c, g)
    PROVE  TablesStep /\ Exists(g)'
<1>1. run \in [Gen -> Run \cup {None}] /\ api[c] \in Caller /\ api[c].revision # None
  BY DEF FindOrCreate, Inv, TablesOK, RequestsOK
<1>2. NewRun(api[c].revision, api[c].full) \in Run
  BY <1>1 DEF NewRun, Run, Caller, RunStatus, StageStatus
<1>3. \A h \in Gen : ActiveRun(h) => [run[h] EXCEPT !.status = "cancelled"] \in Run
  BY <1>1 DEF ActiveRun, Exists, Run, RunStatus
<1>4. /\ run'[g] \in Run
      /\ \A h \in Gen \ {g} : run'[h] = run[h] \/ (ActiveRun(h) /\ run'[h] \in Run)
      /\ DOMAIN run' = Gen /\ run' = [h \in Gen |-> run'[h]]
  <2> DEFINE next(h) == CASE h = g -> NewRun(api[c].revision, api[c].full)
                          [] h # g /\ api[c].full /\ ActiveRun(h) ->
                               [run[h] EXCEPT !.status = "cancelled"]
                          [] OTHER -> run[h]
  <2>1. run' = [h \in Gen |-> next(h)]
    BY DEF FindOrCreate
  <2>2. next(g) = NewRun(api[c].revision, api[c].full)
    OBVIOUS
  <2>3. \A h \in Gen \ {g} :
          \/ next(h) = run[h]
          \/ ActiveRun(h) /\ next(h) = [run[h] EXCEPT !.status = "cancelled"]
    <3> SUFFICES ASSUME NEW h \in Gen \ {g}
                 PROVE  \/ next(h) = run[h]
                        \/ ActiveRun(h) /\ next(h) = [run[h] EXCEPT !.status = "cancelled"]
      OBVIOUS
    <3>1. CASE api[c].full /\ ActiveRun(h)
      BY <3>1
    <3>2. CASE ~(api[c].full /\ ActiveRun(h))
      BY <3>2
    <3> QED
      BY <3>1, <3>2
  <2> HIDE DEF next
  <2>4. run'[g] = next(g) /\ \A h \in Gen : run'[h] = next(h)
    BY <2>1
  <2>5. \A h \in Gen \ {g} : run'[h] = run[h] \/ (ActiveRun(h) /\ run'[h] \in Run)
    BY <1>3, <2>3, <2>4
  <2>6. DOMAIN run' = Gen /\ run' = [h \in Gen |-> run'[h]]
    BY <2>1
  <2> QED
    BY <1>2, <2>2, <2>4, <2>5, <2>6
<1>5. run' \in [Gen -> Run \cup {None}]
  BY <1>1, <1>4
<1>6. RunsKept /\ FenceStays /\ Exists(g)'
  <2>1. ~Exists(g)
    BY DEF FindOrCreate
  <2>2. \A h \in Gen : Cancelled(h) => h # g /\ ~ActiveRun(h)
    BY <2>1 DEF Cancelled, ActiveRun, ActiveStatuses
  <2> QED
    BY <1>4, <2>2, NoneGenAssumption DEF RunsKept, FenceStays, Exists, Cancelled
<1>7. UNCHANGED <<doc, batch, row>>
  BY DEF FindOrCreate
<1> QED
  BY <1>5, <1>6, <1>7, FenceWithoutSwap DEF Inv, TablesOK, TablesStep

LEMMA MarkStaleTables ==
    ASSUME Inv, NEW w \in Worker, Busy(w), NEW stage \in {"prepare", "embed"}, MarkStale(w, stage)
    PROVE  TablesStep
<1> DEFINE g == G(w)
           q == [run[g] EXCEPT !.status = "failed", ![stage] = "failed"]
<1>1. UNCHANGED <<doc, batch, row>>
  BY DEF MarkStale
<1>2. CASE Cancelled(g)
  BY <1>1, <1>2, TablesUnchanged DEF MarkStale
<1>3. CASE ~Cancelled(g)
  <2>1. g \in Gen /\ run[g] \in Run
    BY BusyFacts
  <2>2. q \in Run
    BY <2>1 DEF Run, RunStatus, StageStatus
  <2>3. run' = [run EXCEPT ![g] = q]
    BY <1>3 DEF MarkStale
  <2>4. run' \in [Gen -> Run \cup {None}] /\ RunsKept /\ FenceStays
    <3> HIDE DEF q, g
    <3> QED
      BY <1>3, <2>1, <2>2, <2>3, RunUpdated
  <2> QED
    BY <1>1, <2>4, FenceWithoutSwap DEF Inv, TablesOK, TablesStep
<1> QED
  BY <1>2, <1>3

LEMMA BatchUpdated ==
    ASSUME Inv, NEW g \in Gen, NEW p \in [Batch -> BatchStatus],
           batch' = [batch EXCEPT ![g] = p]
    PROVE  batch' \in [Gen -> [Batch -> BatchStatus]]
  BY DEF Inv, TablesOK

LEMMA RowUpdated ==
    ASSUME Inv, NEW g \in Gen, NEW rows \in Rows, row' = [row EXCEPT ![g] = rows]
    PROVE  row' \in [Gen -> Rows]
  BY DEF Inv, TablesOK

LEMMA ClaimBatchesTables ==
    ASSUME Inv, NEW w \in Worker, Busy(w), NEW n, NEW lost, ClaimBatches(w, n, lost)
    PROVE  TablesStep
<1> DEFINE g == G(w)
           claimed == Claimable(g, n, lost)
           p == [b \in Batch |-> IF b \in claimed THEN "processing" ELSE batch[g][b]]
<1>1. g \in Gen
  BY BusyFacts
<1>2. p \in [Batch -> BatchStatus]
  BY <1>1 DEF Inv, TablesOK, BatchStatus
<1>3. batch' = [batch EXCEPT ![g] = p] /\ UNCHANGED <<doc, run, row>>
  BY <1>1 DEF ClaimBatches, Inv, TablesOK
<1> HIDE DEF g, claimed, p
<1>4. batch' \in [Gen -> [Batch -> BatchStatus]]
  BY <1>1, <1>2, <1>3, BatchUpdated
<1>5. RunsKept /\ FenceStays
  BY <1>3, RunUnchanged
<1> QED
  BY <1>3, <1>4, <1>5, FenceWithoutSwap DEF Inv, TablesOK, TablesStep

LEMMA PrepareRunTables ==
    ASSUME Inv, NEW w \in Worker, Busy(w), PrepareRun(w)
    PROVE  TablesStep
<1> DEFINE g == G(w)
           r == run[g].revision
           rows == [c \in Chunk |-> IF row[g][c] = None THEN worker[w].rows[c] ELSE row[g][c]]
           p == [b \in Batch |-> IF b \in BatchesOf(r) /\ batch[g][b] = "none"
                                 THEN "pending" ELSE batch[g][b]]
           q == [run[g] EXCEPT !.status = "processing", !.prepare = "ready", !.embed = "pending",
                               !.context = worker[w].context,
                               !.full = (Stored(worker[w].rows) = {})]
<1>1. g \in Gen /\ run[g] \in Run /\ worker[w] \in Handler
  BY BusyFacts
<1>2. rows \in Rows /\ p \in [Batch -> BatchStatus]
  BY <1>1 DEF Inv, TablesOK, Rows, Handler, BatchStatus
<1>3. q \in Run
  <2>1. (Stored(worker[w].rows) = {}) \in BOOLEAN
    OBVIOUS
  <2> QED
    BY <1>1, <2>1 DEF Run, RunStatus, StageStatus, Handler
<1>4. row' = [row EXCEPT ![g] = rows] /\ batch' = [batch EXCEPT ![g] = p]
  BY <1>1 DEF PrepareRun, Inv, TablesOK
<1>5. doc' = [doc EXCEPT !.pending = g] /\ (run' = run \/ (~Cancelled(g) /\ run' = [run EXCEPT ![g] = q]))
  BY DEF PrepareRun
<1> HIDE DEF g, r, rows, p, q
<1>6. doc' \in Document /\ doc'.active = doc.active
  BY <1>1, <1>5 DEF Inv, TablesOK, Document
<1>7. run' \in [Gen -> Run \cup {None}] /\ RunsKept /\ FenceStays
  BY <1>1, <1>3, <1>5, RunUnchanged, RunUpdated
<1>8. row' \in [Gen -> Rows] /\ batch' \in [Gen -> [Batch -> BatchStatus]]
  BY <1>1, <1>2, <1>4, RowUpdated, BatchUpdated
<1> QED
  BY <1>6, <1>7, <1>8, FenceWithoutSwap DEF TablesOK, TablesStep

\* A swap to a generation that is not behind its fence.
LEMMA SwapFenced ==
    ASSUME Inv, FenceStays, NEW g \in Gen, ~Cancelled(g), NEW x \in Context \cup {None},
           ActivateRows(g, x)
    PROVE  doc' \in Document /\ row' \in [Gen -> Rows] /\ FenceKept
<1>1. doc' \in Document /\ doc'.active = g
  BY DEF ActivateRows, Inv, TablesOK, Document
<1>2. row' \in [Gen -> Rows]
  BY NoRowsType DEF ActivateRows, Inv, TablesOK
<1> QED
  BY <1>1, <1>2 DEF FenceStays, FenceKept

LEMMA CompleteEmptyTables ==
    ASSUME Inv, NEW w \in Worker, Busy(w), CompleteEmpty(w)
    PROVE  TablesStep
<1> DEFINE g == G(w)
           q == [run[g] EXCEPT !.embed = "ready"]
<1>1. g \in Gen /\ run[g] \in Run /\ worker[w].context \in Context \cup {None}
  BY BusyFacts DEF Handler
<1>2. q \in Run /\ q.status = run[g].status
  BY <1>1 DEF Run, StageStatus
<1>3. CASE ~Cancelled(g) /\ doc.pending = g
  <2>1. ActivateRows(g, worker[w].context) /\ run' = [run EXCEPT ![g] = q] /\ batch' = batch
    BY <1>3 DEF CompleteEmpty
  <2> HIDE DEF g, q
  <2>2. run' \in [Gen -> Run \cup {None}] /\ RunsKept /\ FenceStays
    BY <1>1, <1>2, <1>3, <2>1, RunUpdated
  <2>3. doc' \in Document /\ row' \in [Gen -> Rows] /\ FenceKept
    BY <1>1, <1>3, <2>1, <2>2, SwapFenced
  <2> QED
    BY <2>1, <2>2, <2>3 DEF Inv, TablesOK, TablesStep
<1>4. CASE ~(~Cancelled(g) /\ doc.pending = g)
  BY <1>4, TablesUnchanged DEF CompleteEmpty
<1> QED
  BY <1>3, <1>4

LEMMA CompleteBatchTables ==
    ASSUME Inv, NEW w \in Worker, Busy(w), CompleteBatch(w)
    PROVE  TablesStep
<1> DEFINE g == G(w)
           b == BatchIn(JobOf(w))
           now == [batch[g] EXCEPT ![b] = IF @ = "none" THEN "none" ELSE "ready"]
           all == \A x \in Batch : now[x] \in {"none", "ready"}
           q == [run[g] EXCEPT !.embed = IF all THEN "ready" ELSE "processing"]
<1>1. g \in Gen /\ run[g] \in Run
  BY BusyFacts
<1>2. now \in [Batch -> BatchStatus]
  BY <1>1 DEF Inv, TablesOK, BatchStatus
<1>3. q \in Run /\ q.status = run[g].status
  BY <1>1 DEF Run, StageStatus
<1>4. CASE Cancelled(g)
  BY <1>4, TablesUnchanged DEF CompleteBatch
<1>5. CASE ~Cancelled(g)
  <2>1. batch' = [batch EXCEPT ![g] = now] /\ run' = [run EXCEPT ![g] = q]
    BY <1>5 DEF CompleteBatch
  <2>2. UNCHANGED <<doc, row>>
    BY DEF CompleteBatch
  <2> HIDE DEF g, b, now, all, q
  <2>3. run' \in [Gen -> Run \cup {None}] /\ RunsKept /\ FenceStays
    BY <1>1, <1>3, <1>5, <2>1, RunUpdated
  <2>4. batch' \in [Gen -> [Batch -> BatchStatus]]
    BY <1>1, <1>2, <2>1, BatchUpdated
  <2> QED
    BY <2>2, <2>3, <2>4, FenceWithoutSwap DEF Inv, TablesOK, TablesStep
<1> QED
  BY <1>4, <1>5

LEMMA StoreBatchTables ==
    ASSUME Inv, NEW w \in Worker, Busy(w), StoreBatch(w)
    PROVE  TablesStep
<1> DEFINE g == G(w)
           rows == [c \in Chunk |-> IF worker[w].rows[c] # None THEN worker[w].rows[c] ELSE row[g][c]]
<1>1. g \in Gen /\ worker[w] \in Handler
  BY BusyFacts
<1>2. rows \in Rows
  BY <1>1 DEF Inv, TablesOK, Rows, Handler
<1>3. UNCHANGED <<doc, run, batch>> /\ (row' = row \/ row' = [row EXCEPT ![g] = rows])
  BY <1>1 DEF StoreBatch, Inv, TablesOK
<1> HIDE DEF g, rows
<1>4. row' \in [Gen -> Rows]
  BY <1>1, <1>2, <1>3, RowUpdated DEF Inv, TablesOK
<1>5. RunsKept /\ FenceStays
  BY <1>3, RunUnchanged
<1> QED
  BY <1>3, <1>4, <1>5, FenceWithoutSwap DEF Inv, TablesOK, TablesStep

LEMMA ActivateTables ==
    ASSUME Inv, NEW w \in Worker, Busy(w), Activate(w)
    PROVE  TablesStep
<1> DEFINE g == G(w)
<1>1. g \in Gen /\ worker[w].context \in Context \cup {None}
  BY BusyFacts DEF Handler
<1>2. ~Cancelled(g) /\ ActivateRows(g, worker[w].context) /\ UNCHANGED <<run, batch>>
  BY DEF Activate
<1> HIDE DEF g
<1>3. run' \in [Gen -> Run \cup {None}] /\ RunsKept /\ FenceStays
  BY <1>2, RunUnchanged
<1>4. doc' \in Document /\ row' \in [Gen -> Rows] /\ FenceKept
  BY <1>1, <1>2, <1>3, SwapFenced
<1> QED
  BY <1>2, <1>3, <1>4 DEF Inv, TablesOK, TablesStep

LEMMA EmbedReadyTables ==
    ASSUME Inv, NEW w \in Worker, Busy(w), EmbedReady(w)
    PROVE  TablesStep
<1> DEFINE g == G(w)
           q == [run[g] EXCEPT !.embed = "ready"]
<1>1. g \in Gen /\ run[g] \in Run
  BY BusyFacts
<1>2. q \in Run
  BY <1>1 DEF Run, StageStatus
<1>3. UNCHANGED <<doc, batch, row>> /\ (run' = run \/ (~Cancelled(g) /\ run' = [run EXCEPT ![g] = q]))
  BY DEF EmbedReady
<1> HIDE DEF g, q
<1>4. run' \in [Gen -> Run \cup {None}] /\ RunsKept /\ FenceStays
  BY <1>1, <1>2, <1>3, RunUnchanged, RunUpdated
<1> QED
  BY <1>3, <1>4, FenceWithoutSwap DEF Inv, TablesOK, TablesStep

LEMMA CancelRunsTables ==
    ASSUME Inv, CancelRuns
    PROVE  TablesStep
<1> DEFINE hit == {g \in Gen : Exists(g) /\ run[g].status \in ActiveStatuses}
           fenced(g) == [run[g] EXCEPT !.status = "cancelled", !.prepare = "cancelled",
                                       !.embed = "cancelled"]
<1>1. \A g \in hit : fenced(g) \in Run /\ fenced(g).status = "cancelled"
  BY DEF Inv, TablesOK, Exists, Run, RunStatus, StageStatus
<1>2. run' = [g \in Gen |-> IF g \in hit THEN fenced(g) ELSE run[g]]
  BY DEF CancelRuns
<1>3. hit \subseteq Gen
  OBVIOUS
<1>4. batch' \in [Gen -> [Batch -> BatchStatus]] /\ UNCHANGED <<doc, row>>
  BY DEF CancelRuns, Inv, TablesOK, BatchStatus
<1> HIDE DEF hit, fenced
<1>5. run' \in [Gen -> Run \cup {None}] /\ RunsKept /\ FenceStays
  BY <1>1, <1>2, <1>3, NoneGenAssumption DEF Inv, TablesOK, RunsKept, FenceStays, Exists, Cancelled
<1> QED
  BY <1>4, <1>5, FenceWithoutSwap DEF Inv, TablesOK, TablesStep

\* A run that recovery picks up has a stage to resume.
LEMMA RecoverableStage ==
    ASSUME NEW g \in Recoverable
    PROVE  /\ g \in Gen /\ Exists(g) /\ run[g].status \in ActiveStatuses
           /\ RecoveryStage(g) \in {"prepare", "embed"}
<1>1. g \in Gen /\ Exists(g) /\ run[g].status \in ActiveStatuses /\ RecoveryJobs(g) # {}
  BY DEF Recoverable
<1>2. RecoveryJobs(g) # {} => RecoveryStage(g) = "prepare" \/ RecoveryStage(g) = "embed"
  <2> SUFFICES ASSUME RecoveryStage(g) # "prepare", RecoveryStage(g) # "embed"
               PROVE  RecoveryJobs(g) = {}
    OBVIOUS
  <2> QED
    BY SMTT(30) DEF RecoveryJobs
<1> QED
  BY <1>1, <1>2

LEMMA RecoveredRun ==
    ASSUME Inv, NEW g \in Recoverable
    PROVE  Recovered(g) \in Run /\ ~Cancelled(g)
<1>1. g \in Gen /\ Exists(g) /\ run[g].status \in ActiveStatuses /\ RecoveryStage(g) \in {"prepare", "embed"}
  BY RecoverableStage
<1>2. run[g] \in Run /\ ~Cancelled(g)
  BY <1>1 DEF Inv, TablesOK, Exists, Cancelled, ActiveStatuses
<1>3. \A stage \in {"prepare", "embed"} :
        /\ [run[g] EXCEPT !.status = "failed", ![stage] = "failed"] \in Run
        /\ [run[g] EXCEPT !.status = "retrying", ![stage] = "retrying",
                          !.attempts = run[g].attempts + 1] \in Run
  <2>1. run[g].attempts + 1 \in Nat
    BY <1>2 DEF Run
  <2>2. \A n \in Nat : /\ [run[g] EXCEPT !.status = "failed", !.prepare = "failed"] \in Run
                       /\ [run[g] EXCEPT !.status = "failed", !.embed = "failed"] \in Run
                       /\ [run[g] EXCEPT !.status = "retrying", !.prepare = "retrying",
                                         !.attempts = n] \in Run
                       /\ [run[g] EXCEPT !.status = "retrying", !.embed = "retrying",
                                         !.attempts = n] \in Run
    BY <1>2 DEF Run, RunStatus, StageStatus
  <2> QED
    BY <2>1, <2>2
<1> QED
  BY <1>1, <1>2, <1>3 DEF Recovered

LEMMA RestartTables ==
    ASSUME Inv, NEW survives, NEW S \in SUBSET Recoverable, Restart(survives, S)
    PROVE  TablesStep
<1>1. \A g \in S : g \in Gen /\ Recovered(g) \in Run /\ ~Cancelled(g)
  BY RecoverableStage, RecoveredRun
<1>2. run' = [g \in Gen |-> IF g \in S THEN Recovered(g) ELSE run[g]] /\ UNCHANGED <<doc, batch, row>>
  BY DEF Restart
<1>3. run' \in [Gen -> Run \cup {None}] /\ RunsKept /\ FenceStays
  BY <1>1, <1>2, NoneGenAssumption DEF Inv, TablesOK, RunsKept, FenceStays, Exists, Cancelled
<1> QED
  BY <1>2, <1>3, FenceWithoutSwap DEF Inv, TablesOK, TablesStep

-----------------------------------------------------------------------------
(***************************************************************************)
(* The steps                                                               *)
(***************************************************************************)
BusyPc == WorkerPc \ {"idle"}

LEMMA AtBusy ==
    ASSUME NEW w \in Worker, NEW pc \in BusyPc, At(w, pc)
    PROVE  Busy(w)
  BY DEF At, Busy, BusyPc

LEMMA ApiStepTables ==
    ASSUME Inv, NEW c \in Client, ApiStep(c)
    PROVE  TablesStep
<1>1. CASE ClaimSlot(c)
  BY <1>1, TablesUnchanged DEF ClaimSlot
<1>2. CASE EnqueueDeduplicated(c)
  BY <1>2, TablesUnchanged DEF EnqueueDeduplicated
<1>3. ASSUME NEW g \in Gen, FindOrCreate(c, g)
      PROVE  TablesStep
  BY <1>3, FindOrCreateTables
<1>4. CASE AddPrepare(c)
  BY <1>4, TablesUnchanged DEF AddPrepare
<1>5. CASE RecheckPrepare(c)
  BY <1>5, TablesUnchanged DEF RecheckPrepare
<1> QED
  BY <1>1, <1>2, <1>3, <1>4, <1>5 DEF ApiStep

\* The steps of a handler that write a table.
LEMMA HandleTables ==
    ASSUME Inv, NEW w \in Worker, Handle(w)
    PROVE  TablesStep
<1>1. ASSUME NEW j \in JobId, DropCancelled(w, j)
      PROVE  TablesStep
  BY <1>1, TablesUnchanged DEF DropCancelled
<1>2. ASSUME NEW g \in Gen, PrepareLoad(w, g)
      PROVE  TablesStep
  BY <1>2, TablesUnchanged DEF PrepareLoad
<1>3. ASSUME NEW g \in Gen, NEW b \in Batch, EmbedLoadStale(w, g, b)
      PROVE  TablesStep
  BY <1>3, TablesUnchanged DEF EmbedLoadStale
<1>4. ASSUME NEW g \in Gen, NEW b \in Batch, NEW p \in Profile, EmbedLoad(w, g, b, p)
      PROVE  TablesStep
  BY <1>4, TablesUnchanged DEF EmbedLoad
<1>5. CASE PrepareStale(w)
  BY <1>5, AtBusy, MarkStaleTables DEF PrepareStale, BusyPc, WorkerPc
<1>6. CASE PrepareRepeated(w)
  BY <1>6, TablesUnchanged DEF PrepareRepeated
<1>7. CASE PrepareRun(w)
  BY <1>7, AtBusy, PrepareRunTables DEF PrepareRun, BusyPc, WorkerPc
<1>8. CASE CompleteEmpty(w)
  BY <1>8, AtBusy, CompleteEmptyTables DEF CompleteEmpty, BusyPc, WorkerPc
<1>9. CASE Claim(w)
  BY <1>9, AtBusy, ClaimBatchesTables DEF Claim, BusyPc, WorkerPc
<1>10. CASE EmbedStale(w)
  BY <1>10, AtBusy, MarkStaleTables DEF EmbedStale, BusyPc, WorkerPc
<1>11. CASE StoreBatch(w)
  BY <1>11, AtBusy, StoreBatchTables DEF StoreBatch, BusyPc, WorkerPc
<1>12. CASE CompleteBatch(w)
  BY <1>12, AtBusy, CompleteBatchTables DEF CompleteBatch, BusyPc, WorkerPc
<1>13. CASE ClaimNext(w)
  BY <1>13, AtBusy, ClaimBatchesTables DEF ClaimNext, BusyPc, WorkerPc
<1>14. CASE Activate(w)
  BY <1>14, AtBusy, ActivateTables DEF Activate, BusyPc, WorkerPc
<1>15. CASE ActivateAgain(w)
  BY <1>15, TablesUnchanged DEF ActivateAgain
<1>16. CASE ActivateRefused(w)
  BY <1>16, TablesUnchanged DEF ActivateRefused
<1>17. CASE EmbedReady(w)
  BY <1>17, AtBusy, EmbedReadyTables DEF EmbedReady, BusyPc, WorkerPc
<1>18. CASE Enqueue(w)
  BY <1>18, TablesUnchanged DEF Enqueue
<1>19. CASE Finish(w)
  BY <1>19, TablesUnchanged DEF Finish
<1>20. CASE Abandon(w)
  BY <1>20, TablesUnchanged DEF Abandon
<1> QED
  BY <1>1, <1>2, <1>3, <1>4, <1>5, <1>6, <1>7, <1>8, <1>9, <1>10, <1>11, <1>12, <1>13,
     <1>14, <1>15, <1>16, <1>17, <1>18, <1>19, <1>20 DEF Handle

LEMMA EnvironmentTables ==
    ASSUME Inv, Environment
    PROVE  TablesStep
<1>1. ASSUME NEW c \in Client, NEW r \in Revision, Edit(c, r)
      PROVE  TablesStep
  BY <1>1, EditTables
<1>2. ASSUME NEW c \in Client, NEW x \in Context, NEW full \in BOOLEAN, Request(c, x, full)
      PROVE  TablesStep
  BY <1>2, RequestTables
<1>3. ASSUME NEW r \in Revision, SlotExpire(r)
      PROVE  TablesStep
  BY <1>3, TablesUnchanged DEF SlotExpire
<1>4. ASSUME NEW w \in Worker, ProviderFails(w) \/ InfraFails(w)
      PROVE  TablesStep
  BY <1>4, TablesUnchanged DEF ProviderFails, InfraFails
<1>5. CASE CancelRuns
  BY <1>5, CancelRunsTables
<1>6. ASSUME NEW survives \in {"all", "live", "none"}, NEW S \in SUBSET Recoverable,
             Restart(survives, S)
      PROVE  TablesStep
  BY <1>6, RestartTables
<1> QED
  BY <1>1, <1>2, <1>3, <1>4, <1>5, <1>6 DEF Environment

LEMMA NextTables ==
    ASSUME Inv, [Next]_vars
    PROVE  TablesStep
<1>1. ASSUME NEW c \in Client, ApiStep(c)
      PROVE  TablesStep
  BY <1>1, ApiStepTables
<1>2. ASSUME NEW w \in Worker, Handle(w)
      PROVE  TablesStep
  BY <1>2, HandleTables
<1>3. CASE RemoveJobs
  BY <1>3, TablesUnchanged DEF RemoveJobs
<1>4. CASE Environment
  BY <1>4, EnvironmentTables
<1>5. CASE UNCHANGED vars
  BY <1>5, TablesUnchanged DEF vars
<1> QED
  BY <1>1, <1>2, <1>3, <1>4, <1>5 DEF Next

LEMMA QueueUnchanged ==
    ASSUME Inv, RunsKept, UNCHANGED <<job, worker>>
    PROVE  QueueOK'
  BY UnchangedQueueMoves, QueueStep

LEMMA AddPrepareQueue ==
    ASSUME Inv, RunsKept, NEW c \in Client, AddPrepare(c)
    PROVE  QueueOK'
<1> DEFINE new == [j \in {PrepareJob(api[c].gen)} |-> Queued(api[c].full, None)]
<1>1. api[c] \in Caller /\ api[c].gen \in Gen /\ Exists(api[c].gen)
  BY DEF AddPrepare, Inv, RequestsOK, Caller
<1>2. /\ \A j \in DOMAIN new : new[j] \in Job
      /\ \A j \in DOMAIN new : new[j].state = "waiting" /\ new[j].tries = 0 /\ Exists(GenOf(j))
  BY <1>1, QueuedType, JobIdFacts DEF Caller
<1>3. job' = Add(job, new) /\ worker' = worker
  BY DEF AddPrepare
<1> HIDE DEF new
<1> QED
  BY <1>2, <1>3, AddMoves, QueueStep

LEMMA RecheckPrepareQueue ==
    ASSUME Inv, RunsKept, NEW c \in Client, RecheckPrepare(c)
    PROVE  QueueOK'
<1>1. worker' = worker /\ (job' = job \/ job' = Remove(job, {PrepareJob(api[c].gen)}))
  BY DEF RecheckPrepare
<1> QED
  BY <1>1, UnchangedQueueMoves, RemoveMoves, QueueStep

LEMMA DropCancelledQueue ==
    ASSUME Inv, RunsKept, NEW w \in Worker, NEW j \in JobId, DropCancelled(w, j)
    PROVE  QueueOK'
<1>1. job[j] \in Job /\ [job[j] EXCEPT !.state = "completed"] \in Job
  BY DEF Inv, QueueOK, Job, JobState
<1>2. job' = [job EXCEPT ![j] = [job[j] EXCEPT !.state = "completed"]] /\ worker' = worker
  BY DEF DropCancelled, Ended
<1>3. /\ job' \in [JobId -> Job] /\ job'[j].state = "completed"
      /\ \A i \in JobId \ {j} : job'[i] = job[i]
  BY <1>1, <1>2 DEF Inv, QueueOK, Job
<1>4. QueueMoves
  BY <1>3 DEF DropCancelled, QueueMoves, Untouched
<1> QED
  BY <1>2, <1>4, QueueStep

\* What loadDocument and the reuse plan hand to the handler are rows.
LEMMA ReusedRows ==
    ASSUME Inv, NEW r, NEW full
    PROVE  [c \in Chunk |-> IF c \in Reusable(r, full) THEN row[doc.active][c] ELSE None] \in Rows
<1>1. \A c \in Reusable(r, full) : doc.active # None
  BY DEF Reusable
<1>2. doc.active # None => row[doc.active] \in Rows
  BY DEF Inv, TablesOK, Document
<1> QED
  BY <1>1, <1>2 DEF Rows

LEMMA PrepareLoadQueue ==
    ASSUME Inv, RunsKept, NEW w \in Worker, NEW g \in Gen, PrepareLoad(w, g)
    PROVE  QueueOK'
<1> DEFINE j == PrepareJob(g)
           reuse == Reusable(run[g].revision, job[j].full)
           kept == [c \in Chunk |-> IF c \in reuse THEN row[doc.active][c] ELSE None]
           h == IF doc.revision # run[g].revision
                THEN [IdleWorker EXCEPT !.pc = "prepareStale", !.job = j]
                ELSE [IdleWorker EXCEPT !.pc = "prepareRun", !.job = j, !.context = doc.context,
                                        !.rows = kept]
<1>1. j \in JobId /\ kept \in Rows /\ doc.context \in Context
  BY JobIdFacts, ReusedRows DEF Inv, TablesOK, Document
<1>2. h \in Handler /\ h.job = j /\ h.next = {}
  <2> HIDE DEF kept, j
  <2> QED
    BY <1>1, IdleWorkerType DEF IdleWorker, Handler, WorkerPc
<1>3. /\ At(w, "idle") /\ job[j].state = "waiting" /\ Take(j)
      /\ worker' = [worker EXCEPT ![w] = h]
  BY DEF PrepareLoad
<1> HIDE DEF h, j
<1> QED
  BY <1>1, <1>2, <1>3, HandlerStarts

LEMMA EmbedLoadStaleQueue ==
    ASSUME Inv, RunsKept, NEW w \in Worker, NEW g \in Gen, NEW b \in Batch, EmbedLoadStale(w, g, b)
    PROVE  QueueOK'
<1> DEFINE j == EmbedJob(g, b)
           h == [IdleWorker EXCEPT !.pc = "embedStale", !.job = j]
<1>1. j \in JobId
  BY JobIdFacts
<1>2. h \in Handler /\ h.job = j /\ h.next = {}
  <2> HIDE DEF j
  <2> QED
    BY <1>1, IdleWorkerType DEF IdleWorker, Handler, WorkerPc
<1>3. /\ At(w, "idle") /\ job[j].state = "waiting" /\ Take(j)
      /\ worker' = [worker EXCEPT ![w] = h]
  BY DEF EmbedLoadStale
<1> HIDE DEF h, j
<1> QED
  BY <1>1, <1>2, <1>3, HandlerStarts

LEMMA EmbedLoadQueue ==
    ASSUME Inv, RunsKept, NEW w \in Worker, NEW g \in Gen, NEW b \in Batch, NEW p \in Profile,
           EmbedLoad(w, g, b, p)
    PROVE  QueueOK'
<1> DEFINE j == EmbedJob(g, b)
           r == run[g].revision
           selected == ChunksIn(r, b) \ (IF job[j].full THEN {} ELSE Stored(row[g]))
           fetch == batch[g][b] # "ready" /\ selected # {}
           fetched == [c \in Chunk |-> IF fetch /\ c \in selected
                        THEN [text |-> TextOf[r][c], context |-> doc.context, profile |-> p]
                        ELSE None]
           h == [IdleWorker EXCEPT !.pc = IF fetch THEN "storeBatch" ELSE "completeBatch",
                                   !.job = j, !.context = job[j].context, !.profile = p,
                                   !.rows = fetched]
<1>1. j \in JobId /\ GenOf(j) = g
  BY JobIdFacts
<1>2. /\ At(w, "idle") /\ job[j].state = "waiting" /\ Take(j) /\ ~EmbedIsStale(g, b)
      /\ worker' = [worker EXCEPT ![w] = h]
  BY DEF EmbedLoad
<1>3. run[g] \in Run /\ job[j] \in Job
  <2> HIDE DEF j
  <2> QED
    BY <1>1, <1>2, WaitingFacts
<1>4. r \in Revision /\ doc.context \in Context /\ job[j].context \in Context \cup {None}
  BY <1>3 DEF Inv, TablesOK, Document, Run, Job
<1>5. \A c \in selected : TextOf[r][c] \in Text
  BY <1>4, ChunkText DEF ChunksIn
<1>6. fetched \in Rows
  <2> HIDE DEF selected, fetch, r
  <2> QED
    BY <1>4, <1>5 DEF Rows, Row
<1>7. h \in Handler /\ h.job = j /\ h.next = {}
  <2> HIDE DEF fetched, fetch, j
  <2> QED
    BY <1>1, <1>4, <1>6, IdleWorkerType DEF IdleWorker, Handler, WorkerPc
<1> HIDE DEF h, j
<1> QED
  BY <1>1, <1>2, <1>7, HandlerStarts

LEMMA PrepareRunQueue ==
    ASSUME Inv, RunsKept, NEW w \in Worker, Busy(w), PrepareRun(w)
    PROVE  QueueOK'
<1>1. Goto(w, "completeEmpty") \/ Goto(w, "claim")
  BY DEF PrepareRun
<1> QED
  BY <1>1, GotoStep DEF WorkerPc

LEMMA StoreBatchQueue ==
    ASSUME Inv, RunsKept, NEW w \in Worker, Busy(w), StoreBatch(w)
    PROVE  QueueOK'
<1>1. Goto(w, "embedStale") \/ Goto(w, "completeBatch")
  BY DEF StoreBatch
<1> QED
  BY <1>1, GotoStep DEF WorkerPc

\* The graph job is the last a handler queues.
LEMMA GraphNextQueue ==
    ASSUME Inv, RunsKept, NEW w \in Worker, Busy(w), job' = job,
           worker' = [worker EXCEPT ![w].pc = "enqueue", ![w].next = {GraphJob(G(w))}]
    PROVE  QueueOK'
<1> DEFINE h == [worker[w] EXCEPT !.pc = "enqueue", !.next = {GraphJob(G(w))}]
<1>1. worker[w] \in Handler /\ G(w) \in Gen /\ worker \in [Worker -> Handler]
  BY BusyFacts DEF Inv, QueueOK
<1>2. GraphJob(G(w)) \in JobId /\ GenOf(GraphJob(G(w))) = G(w)
  BY <1>1, JobIdFacts
<1>3. h \in Handler /\ h.job = JobOf(w) /\ \A j \in h.next : GenOf(j) = G(w)
  BY <1>1, <1>2 DEF Handler, WorkerPc, JobOf
<1>4. worker' = [worker EXCEPT ![w] = h]
  BY <1>1
<1> HIDE DEF h
<1> QED
  BY <1>3, <1>4, UnchangedQueueMoves, HandlerMoves

LEMMA ClaimBatchesQueue ==
    ASSUME Inv, RunsKept, NEW w \in Worker, Busy(w), NEW n, NEW lost, ClaimBatches(w, n, lost)
    PROVE  QueueOK'
<1> DEFINE g == G(w)
           claimed == Claimable(g, n, lost)
           ids == {EmbedJob(g, b) : b \in claimed}
           h == [worker[w] EXCEPT !.pc = "enqueue", !.next = ids, !.full = run[g].full,
                                  !.context = run[g].context]
<1>1. worker[w] \in Handler /\ g \in Gen /\ run[g] \in Run /\ worker \in [Worker -> Handler]
  BY BusyFacts DEF Inv, QueueOK
<1>2. claimed \subseteq Batch
  BY DEF Claimable
<1>3. ids \subseteq JobId /\ \A j \in ids : GenOf(j) = g
  <2> HIDE DEF claimed, g
  <2> QED
    BY <1>1, <1>2, JobIdFacts
<1>4. h \in Handler /\ h.job = JobOf(w) /\ \A j \in h.next : GenOf(j) = G(w)
  <2> HIDE DEF ids
  <2> QED
    BY <1>1, <1>3 DEF Handler, WorkerPc, JobOf, Run
<1>5. CASE Done(w)
  BY <1>5, DoneStep
<1>6. CASE ~Done(w)
  <2>1. job' = job /\ worker' = [worker EXCEPT ![w].pc = "enqueue", ![w].next = ids,
                                   ![w].full = run[g].full, ![w].context = run[g].context]
    BY <1>6 DEF ClaimBatches
  <2>2. worker' = [worker EXCEPT ![w] = h]
    <3> HIDE DEF ids
    <3> QED
      BY <1>1, <2>1
  <2> HIDE DEF h
  <2> QED
    BY <1>4, <2>1, <2>2, UnchangedQueueMoves, HandlerMoves
<1> QED
  BY <1>5, <1>6

LEMMA CompleteBatchQueue ==
    ASSUME Inv, RunsKept, NEW w \in Worker, Busy(w), CompleteBatch(w)
    PROVE  QueueOK'
<1>1. CASE Goto(w, "claimNext")
  BY <1>1, GotoStep DEF WorkerPc
<1>2. CASE ~Goto(w, "claimNext")
  <2> DEFINE total == Cardinality(Stored(row[G(w)]))
  <2>1. total \in Nat /\ worker[w] \in Handler /\ worker \in [Worker -> Handler]
    BY StoredCount, BusyFacts DEF Inv, QueueOK
  <2>2. PICK pc \in {"activate", "claimNext"} :
          job' = job /\ worker' = [worker EXCEPT ![w].pc = pc, ![w].total = total]
    BY <1>2 DEF CompleteBatch
  <2> DEFINE h == [worker[w] EXCEPT !.pc = pc, !.total = total]
  <2> HIDE DEF total
  <2>3. h \in Handler /\ h.job = JobOf(w) /\ h.next = worker[w].next
    BY <2>1 DEF Handler, WorkerPc, JobOf
  <2>4. \A j \in h.next : GenOf(j) = G(w)
    BY <2>3 DEF Inv, QueueOK, OwnsJob
  <2>5. worker' = [worker EXCEPT ![w] = h]
    BY <2>1, <2>2
  <2> HIDE DEF h
  <2> QED
    BY <2>2, <2>3, <2>4, <2>5, UnchangedQueueMoves, HandlerMoves
<1> QED
  BY <1>1, <1>2

LEMMA EnqueueQueue ==
    ASSUME Inv, RunsKept, NEW w \in Worker, Busy(w), Enqueue(w)
    PROVE  QueueOK'
<1>1. /\ worker[w] \in Handler /\ G(w) \in Gen /\ Exists(G(w))
      /\ worker \in [Worker -> Handler]
  BY BusyFacts DEF Inv, QueueOK
<1>2. PICK j \in worker[w].next :
        /\ job' = IF Cancelled(G(w)) THEN job
                  ELSE Add(job, [i \in {j} |-> Queued(worker[w].full, worker[w].context)])
        /\ worker' = [worker EXCEPT
              ![w].next = @ \ {j},
              ![w].added = IF Cancelled(G(w)) THEN @ ELSE @ \cup {j},
              ![w].pc = IF worker[w].next = {j} THEN "finish" ELSE "enqueue"]
  BY DEF Enqueue
<1>3. j \in JobId /\ GenOf(j) = G(w)
  BY <1>1 DEF Handler, Inv, QueueOK, OwnsJob
<1>4. QueueMoves
  <2> DEFINE new == [i \in {j} |-> Queued(worker[w].full, worker[w].context)]
  <2>1. /\ \A i \in DOMAIN new : new[i] \in Job
        /\ \A i \in DOMAIN new : new[i].state = "waiting" /\ new[i].tries = 0 /\ Exists(GenOf(i))
    BY <1>1, <1>3, QueuedType DEF Handler
  <2>2. job' = job \/ job' = Add(job, new)
    BY <1>2
  <2> HIDE DEF new
  <2> QED
    BY <2>1, <2>2, AddMoves, UnchangedQueueMoves
<1> DEFINE pc == IF worker[w].next = {j} THEN "finish" ELSE "enqueue"
           added == IF Cancelled(G(w)) THEN worker[w].added ELSE worker[w].added \cup {j}
           h == [worker[w] EXCEPT !.next = worker[w].next \ {j}, !.added = added, !.pc = pc]
<1>5. pc \in WorkerPc /\ added \subseteq JobId
  BY <1>1, <1>3 DEF Handler, WorkerPc
<1>6. worker' = [worker EXCEPT ![w] = h]
  BY <1>1, <1>2
<1>7. h \in Handler /\ h.job = JobOf(w) /\ h.next \subseteq worker[w].next
  <2> HIDE DEF pc, added
  <2> QED
    BY <1>1, <1>5 DEF Handler, JobOf
<1>8. \A i \in h.next : GenOf(i) = G(w)
  BY <1>7 DEF Inv, QueueOK, OwnsJob
<1> HIDE DEF h
<1> QED
  BY <1>4, <1>6, <1>7, <1>8, HandlerMoves

LEMMA FinishQueue ==
    ASSUME Inv, RunsKept, NEW w \in Worker, Busy(w), Finish(w)
    PROVE  QueueOK'
<1> DEFINE own == JobOf(w)
<1>1. job \in [JobId -> Job] /\ own \in JobId /\ job[own] \in Job /\ job[own].state = "active"
  BY BusyFacts DEF Inv, QueueOK
<1>2. PICK late : job' = Ended(Remove(job, late), own)
  BY DEF Finish
<1>3. worker' = [worker EXCEPT ![w] = IdleWorker] /\ own = JobOf(w)
  BY DEF Finish
<1> DEFINE left == Remove(job, late)
<1>4. /\ left \in [JobId -> Job] /\ left[own] = job[own]
      /\ \A j \in JobId : \/ left[j] = job[j]
                          \/ job[j].state # "active" /\ left[j].state = "none"
  <2> HIDE DEF own
  <2> QED
    BY <1>1, NoJobType DEF Remove
<1>5. [left[own] EXCEPT !.state = "completed"] \in Job
  <2> HIDE DEF own, left
  <2> QED
    BY <1>1, <1>4 DEF Job, JobState
<1>6. job' = [left EXCEPT ![own] = [left[own] EXCEPT !.state = "completed"]]
  BY <1>2 DEF Ended
<1> HIDE DEF own, left
<1>7. /\ job' \in [JobId -> Job] /\ job'[own].state = "completed"
      /\ \A j \in JobId \ {own} : job'[j] = left[j]
  BY <1>1, <1>4, <1>5, <1>6 DEF Job
<1>8. \A j \in JobId \ {own} : Untouched(j)
  BY <1>4, <1>7 DEF Untouched
<1> QED
  BY <1>1, <1>3, <1>7, <1>8, HandlerEnds

\* What a crash leaves of a job.
LEMMA AfterCrashJob ==
    ASSUME Inv, NEW survives, NEW j \in JobId
    PROVE  LET after == AfterCrash(survives)[j] IN
             /\ after \in Job /\ after.state # "active"
             /\ after.state # "none" => Exists(GenOf(j))
             /\ after.state = "waiting" => after.tries < MaxTries
<1> DEFINE lost == survives = "none"
                   \/ (survives = "live" /\ job[j].state \in {"completed", "failed"})
           kept == [job[j] EXCEPT !.state = IF job[j].state = "active" THEN "waiting" ELSE job[j].state]
<1>1. AfterCrash(survives)[j] = IF lost THEN NoJob ELSE kept
  BY DEF AfterCrash
<1>2. /\ job[j] \in Job
      /\ job[j].state # "none" => Exists(GenOf(j))
      /\ job[j].state \in {"waiting", "active"} => job[j].tries < MaxTries
  BY DEF Inv, QueueOK, JobHasRun, LiveHasTries
<1>3. /\ kept \in Job /\ kept.state # "active" /\ kept.tries = job[j].tries
      /\ kept.state # "none" => job[j].state # "none"
      /\ kept.state = "waiting" => job[j].state \in {"waiting", "active"}
  BY <1>2 DEF Job, JobState
<1> HIDE DEF lost, kept
<1> QED
  BY <1>1, <1>2, <1>3, NoJobType

\* The jobs that recovery adds belong to the run they are made for.
LEMMA RecoveryJobsFacts ==
    ASSUME NEW g \in Gen, NEW j \in RecoveryJobs(g)
    PROVE  j \in JobId /\ GenOf(j) = g
<1>1. \/ j = PrepareJob(g)
      \/ \E b \in Batch : j = EmbedJob(g, b)
  BY DEF RecoveryJobs
<1> QED
  BY <1>1, JobIdFacts

LEMMA RestartQueue ==
    ASSUME Inv, RunsKept, NEW survives, NEW S \in SUBSET Recoverable, Restart(survives, S)
    PROVE  QueueOK'
<1> DEFINE after == AfterCrash(survives)
           ids == UNION {RecoveryJobs(g) : g \in {h \in S : ~Exhausted(h)}}
           new == [j \in ids |-> Queued(run[GenOf(j)].full, run[GenOf(j)].context)]
<1>1. \A j \in ids : j \in JobId /\ Exists(GenOf(j)) /\ run[GenOf(j)] \in Run
  <2> SUFFICES ASSUME NEW g \in S, NEW j \in RecoveryJobs(g)
               PROVE  j \in JobId /\ Exists(GenOf(j)) /\ run[GenOf(j)] \in Run
    OBVIOUS
  <2>1. g \in Gen /\ Exists(g)
    BY RecoverableStage
  <2>2. run[g] \in Run
    BY <2>1 DEF Inv, TablesOK, Exists
  <2> QED
    BY <2>1, <2>2, RecoveryJobsFacts
<1>2. \A j \in ids : new[j] \in Job /\ new[j].state = "waiting" /\ new[j].tries = 0
  <2> HIDE DEF ids
  <2> QED
    BY <1>1, QueuedType DEF Run
<1>3. \A j \in JobId :
        /\ after[j] \in Job /\ after[j].state # "active"
        /\ after[j].state # "none" => Exists(GenOf(j))
        /\ after[j].state = "waiting" => after[j].tries < MaxTries
  BY AfterCrashJob
<1>4. job' = Add(after, new) /\ worker' = [w \in Worker |-> IdleWorker]
  BY DEF Restart
<1>5. DOMAIN new = ids
  OBVIOUS
<1> HIDE DEF after, ids, new
<1>6. /\ job' \in [JobId -> Job]
      /\ \A j \in JobId : job'[j] = after[j] \/ (j \in ids /\ job'[j] = new[j])
  BY <1>2, <1>3, <1>4, <1>5 DEF Add
<1>7. \A j \in JobId : /\ job'[j].state # "active"
                       /\ job'[j].state # "none" => Exists(GenOf(j))
                       /\ job'[j].state = "waiting" => job'[j].tries < MaxTries
  BY <1>1, <1>2, <1>3, <1>6, LimitAssumption
<1>8. \A j \in JobId : Exists(GenOf(j)) => Exists(GenOf(j))'
  BY JobIdFacts DEF RunsKept
<1>9. JobHasRun' /\ LiveHasTries'
  BY <1>7, <1>8 DEF JobHasRun, LiveHasTries
<1>10. worker' \in [Worker -> Handler] /\ \A w \in Worker : ~Busy(w)'
  BY <1>4, IdleWorkerType DEF Busy
<1> QED
  BY <1>6, <1>9, <1>10 DEF QueueOK, OwnsJob, OwnsAlone

LEMMA HandleQueue ==
    ASSUME Inv, RunsKept, NEW w \in Worker, Handle(w)
    PROVE  QueueOK'
<1>1. ASSUME NEW j \in JobId, DropCancelled(w, j)
      PROVE  QueueOK'
  BY <1>1, DropCancelledQueue
<1>2. ASSUME NEW g \in Gen, PrepareLoad(w, g)
      PROVE  QueueOK'
  BY <1>2, PrepareLoadQueue
<1>3. ASSUME NEW g \in Gen, NEW b \in Batch, EmbedLoadStale(w, g, b)
      PROVE  QueueOK'
  BY <1>3, EmbedLoadStaleQueue
<1>4. ASSUME NEW g \in Gen, NEW b \in Batch, NEW p \in Profile, EmbedLoad(w, g, b, p)
      PROVE  QueueOK'
  BY <1>4, EmbedLoadQueue
<1>5. CASE PrepareStale(w)
  BY <1>5, AtBusy, GotoStep DEF PrepareStale, MarkStale, BusyPc, WorkerPc
<1>6. CASE PrepareRepeated(w)
  BY <1>6, AtBusy, DoneStep, GotoStep DEF PrepareRepeated, BusyPc, WorkerPc
<1>7. CASE PrepareRun(w)
  BY <1>7, AtBusy, PrepareRunQueue DEF PrepareRun, BusyPc, WorkerPc
<1>8. CASE CompleteEmpty(w)
  BY <1>8, AtBusy, GraphNextQueue DEF CompleteEmpty, BusyPc, WorkerPc
<1>9. CASE Claim(w)
  BY <1>9, AtBusy, ClaimBatchesQueue DEF Claim, BusyPc, WorkerPc
<1>10. CASE EmbedStale(w)
  BY <1>10, AtBusy, GotoStep DEF EmbedStale, MarkStale, BusyPc, WorkerPc
<1>11. CASE StoreBatch(w)
  BY <1>11, AtBusy, StoreBatchQueue DEF StoreBatch, BusyPc, WorkerPc
<1>12. CASE CompleteBatch(w)
  BY <1>12, AtBusy, CompleteBatchQueue DEF CompleteBatch, BusyPc, WorkerPc
<1>13. CASE ClaimNext(w)
  BY <1>13, AtBusy, ClaimBatchesQueue DEF ClaimNext, BusyPc, WorkerPc
<1>14. CASE Activate(w)
  BY <1>14, AtBusy, GotoStep DEF Activate, BusyPc, WorkerPc
<1>15. CASE ActivateAgain(w)
  BY <1>15, AtBusy, GotoStep DEF ActivateAgain, BusyPc, WorkerPc
<1>16. CASE ActivateRefused(w)
  BY <1>16, AtBusy, ThrowStep DEF ActivateRefused, BusyPc, WorkerPc
<1>17. CASE EmbedReady(w)
  BY <1>17, AtBusy, GraphNextQueue DEF EmbedReady, BusyPc, WorkerPc
<1>18. CASE Enqueue(w)
  BY <1>18, AtBusy, EnqueueQueue DEF Enqueue, BusyPc, WorkerPc
<1>19. CASE Finish(w)
  BY <1>19, AtBusy, FinishQueue DEF Finish, BusyPc, WorkerPc
<1>20. CASE Abandon(w)
  BY <1>20, DoneStep DEF Abandon, Busy
<1> QED
  BY <1>1, <1>2, <1>3, <1>4, <1>5, <1>6, <1>7, <1>8, <1>9, <1>10, <1>11, <1>12, <1>13,
     <1>14, <1>15, <1>16, <1>17, <1>18, <1>19, <1>20 DEF Handle

LEMMA NextQueue ==
    ASSUME Inv, RunsKept, [Next]_vars
    PROVE  QueueOK'
<1>1. ASSUME NEW c \in Client, ApiStep(c)
      PROVE  QueueOK'
  <2>1. CASE AddPrepare(c)
    BY <2>1, AddPrepareQueue
  <2>2. CASE RecheckPrepare(c)
    BY <2>2, RecheckPrepareQueue
  <2>3. CASE ClaimSlot(c) \/ EnqueueDeduplicated(c) \/ \E g \in Gen : FindOrCreate(c, g)
    BY <2>3, QueueUnchanged DEF ClaimSlot, EnqueueDeduplicated, FindOrCreate
  <2> QED
    BY <1>1, <2>1, <2>2, <2>3 DEF ApiStep
<1>2. ASSUME NEW w \in Worker, Handle(w)
      PROVE  QueueOK'
  BY <1>2, HandleQueue
<1>3. CASE RemoveJobs
  BY <1>3, RemoveMoves, QueueStep DEF RemoveJobs
<1>4. CASE Environment
  <2>1. ASSUME NEW w \in Worker, ProviderFails(w) \/ InfraFails(w)
        PROVE  QueueOK'
    BY <2>1, ThrowStep DEF ProviderFails, InfraFails, At, Busy
  <2>2. ASSUME NEW survives \in {"all", "live", "none"}, NEW S \in SUBSET Recoverable,
               Restart(survives, S)
        PROVE  QueueOK'
    BY <2>2, RestartQueue
  <2>3. CASE \/ \E c \in Client, r \in Revision : Edit(c, r)
             \/ \E c \in Client, x \in Context, full \in BOOLEAN : Request(c, x, full)
             \/ \E r \in Revision : SlotExpire(r)
             \/ CancelRuns
    BY <2>3, QueueUnchanged DEF Edit, Request, SlotExpire, CancelRuns
  <2> QED
    BY <1>4, <2>1, <2>2, <2>3 DEF Environment
<1>5. CASE UNCHANGED vars
  BY <1>5, QueueUnchanged DEF vars
<1> QED
  BY <1>1, <1>2, <1>3, <1>4, <1>5 DEF Next

\* One request goes on; the others keep their run.
LEMMA RequestMoves ==
    ASSUME Inv, RunsKept, NEW c \in Client, NEW q \in Caller,
           q.pc \in {"slot", "enqueue"} => q.revision # None,
           q.pc \in {"add", "recheck"} => q.gen # None /\ run'[q.gen] # None,
           api' = [api EXCEPT ![c] = q]
    PROVE  RequestsOK'
<1>1. /\ api' \in [Client -> Caller] /\ api'[c] = q
      /\ \A d \in Client \ {c} : api'[d] = api[d]
  BY DEF Inv, RequestsOK
<1>2. \A d \in Client \ {c} : api[d].gen # None /\ Exists(api[d].gen) => Exists(api[d].gen)'
  BY DEF RunsKept, Inv, RequestsOK, Caller, Exists
<1> QED
  BY <1>1, <1>2 DEF Inv, RequestsOK, Exists

LEMMA RequestsUnchanged ==
    ASSUME Inv, RunsKept, api' = api
    PROVE  RequestsOK'
<1>1. \A d \in Client : api[d].gen # None /\ Exists(api[d].gen) => Exists(api[d].gen)'
  BY DEF RunsKept, Inv, RequestsOK, Caller, Exists
<1> QED
  BY <1>1 DEF Inv, RequestsOK, Exists

LEMMA ApiStepRequests ==
    ASSUME Inv, RunsKept, NEW c \in Client, ApiStep(c)
    PROVE  RequestsOK'
<1>1. /\ api[c] \in Caller /\ api \in [Client -> Caller]
      /\ api[c].pc \in {"slot", "enqueue"} => api[c].revision # None
      /\ api[c].pc \in {"add", "recheck"} => api[c].gen # None /\ Exists(api[c].gen)
  BY DEF Inv, RequestsOK
<1>2. CASE api' = [api EXCEPT ![c] = IdleClient]
  BY <1>2, IdleClientType, RequestMoves
<1>3. CASE ClaimSlot(c)
  <2> DEFINE q == [api[c] EXCEPT !.pc = "enqueue"]
  <2>1. q \in Caller /\ q.pc = "enqueue" /\ q.revision # None
    BY <1>1, <1>3 DEF ClaimSlot, Caller, ClientPc
  <2>2. api' = [api EXCEPT ![c] = IdleClient] \/ api' = [api EXCEPT ![c] = q]
    BY <1>1, <1>3 DEF ClaimSlot
  <2> HIDE DEF q
  <2> QED
    BY <1>2, <2>1, <2>2, RequestMoves
<1>4. CASE EnqueueDeduplicated(c) \/ RecheckPrepare(c)
  BY <1>2, <1>4 DEF EnqueueDeduplicated, RecheckPrepare
<1>5. ASSUME NEW g \in Gen, FindOrCreate(c, g)
      PROVE  RequestsOK'
  <2> DEFINE q == [api[c] EXCEPT !.pc = "add", !.gen = g]
  <2>1. q \in Caller /\ q.pc = "add" /\ q.gen = g /\ g # None
    BY <1>1, NoneGenAssumption DEF Caller, ClientPc
  <2>2. api' = [api EXCEPT ![c] = q]
    BY <1>1, <1>5 DEF FindOrCreate
  <2>3. Exists(g)'
    BY <1>5, FindOrCreateTables
  <2> HIDE DEF q
  <2>4. run'[q.gen] # None
    BY <2>1, <2>3 DEF Exists
  <2> QED
    BY <2>1, <2>2, <2>4, RequestMoves
<1>6. CASE AddPrepare(c)
  <2> DEFINE q == [api[c] EXCEPT !.pc = "recheck"]
  <2>1. q \in Caller /\ q.pc = "recheck" /\ q.gen = api[c].gen /\ q.gen # None /\ Exists(q.gen)
    BY <1>1, <1>6 DEF AddPrepare, Caller, ClientPc
  <2>2. api' = [api EXCEPT ![c] = q]
    BY <1>1, <1>6 DEF AddPrepare
  <2> HIDE DEF q
  <2>3. run'[q.gen] # None
    BY <2>1 DEF RunsKept, Caller, Exists
  <2> QED
    BY <2>1, <2>2, <2>3, RequestMoves
<1> QED
  BY <1>3, <1>4, <1>5, <1>6 DEF ApiStep

\* A handler touches neither the requests nor what the environment keeps.
LEMMA HandleElsewhere ==
    ASSUME NEW w \in Worker, Handle(w)
    PROVE  UNCHANGED <<api, slot, removal, spent>>
<1>1. CASE \/ \E j \in JobId : DropCancelled(w, j)
           \/ \E g \in Gen : PrepareLoad(w, g)
           \/ \E g \in Gen, b \in Batch : EmbedLoadStale(w, g, b)
  BY <1>1 DEF DropCancelled, PrepareLoad, EmbedLoadStale
<1>2. CASE PrepareStale(w) \/ EmbedStale(w)
  BY <1>2 DEF PrepareStale, EmbedStale, MarkStale
<1>3. CASE Claim(w) \/ ClaimNext(w)
  BY <1>3 DEF Claim, ClaimNext, ClaimBatches
<1>4. CASE PrepareRepeated(w) \/ PrepareRun(w) \/ CompleteEmpty(w)
  BY <1>4 DEF PrepareRepeated, PrepareRun, CompleteEmpty
<1>5. CASE StoreBatch(w) \/ CompleteBatch(w) \/ EmbedReady(w)
  BY <1>5 DEF StoreBatch, CompleteBatch, EmbedReady
<1>6. CASE Activate(w) \/ ActivateAgain(w) \/ ActivateRefused(w)
  BY <1>6 DEF Activate, ActivateAgain, ActivateRefused
<1>7. CASE Enqueue(w) \/ Finish(w) \/ Abandon(w)
  BY <1>7 DEF Enqueue, Finish, Abandon
<1>8. ASSUME NEW g \in Gen, NEW b \in Batch, NEW p \in Profile, EmbedLoad(w, g, b, p)
      PROVE  UNCHANGED <<api, slot, removal, spent>>
  BY <1>8 DEF EmbedLoad
<1> QED
  BY <1>1, <1>2, <1>3, <1>4, <1>5, <1>6, <1>7, <1>8 DEF Handle

LEMMA NextRequests ==
    ASSUME Inv, RunsKept, [Next]_vars
    PROVE  RequestsOK'
<1>1. ASSUME NEW c \in Client, ApiStep(c)
      PROVE  RequestsOK'
  BY <1>1, ApiStepRequests
<1>2. ASSUME NEW w \in Worker, Handle(w)
      PROVE  RequestsOK'
  BY <1>2, HandleElsewhere, RequestsUnchanged
<1>3. CASE RemoveJobs \/ UNCHANGED vars
  BY <1>3, RequestsUnchanged DEF RemoveJobs, vars
<1>4. CASE Environment
  <2>1. ASSUME NEW c \in Client, NEW r \in Revision, Edit(c, r)
        PROVE  RequestsOK'
    <3> DEFINE q == [IdleClient EXCEPT !.pc = "slot", !.revision = r]
    <3>1. q \in Caller /\ q.pc = "slot" /\ q.revision # None
      BY NoneAssumption DEF IdleClient, Caller, ClientPc
    <3>2. api' = [api EXCEPT ![c] = q]
      BY <2>1 DEF Edit
    <3> HIDE DEF q
    <3> QED
      BY <3>1, <3>2, RequestMoves
  <2>2. ASSUME NEW c \in Client, NEW x \in Context, NEW full \in BOOLEAN, Request(c, x, full)
        PROVE  RequestsOK'
    <3> DEFINE q == [pc |-> "enqueue", revision |-> doc.revision, full |-> full, gen |-> None]
    <3>1. q \in Caller /\ q.pc = "enqueue" /\ q.revision # None
      BY NoneAssumption DEF Caller, ClientPc, Inv, TablesOK, Document
    <3>2. api' = [api EXCEPT ![c] = q]
      BY <2>2 DEF Request
    <3> HIDE DEF q
    <3> QED
      BY <3>1, <3>2, RequestMoves
  <2>3. ASSUME NEW survives, NEW S, Restart(survives, S)
        PROVE  RequestsOK'
    BY <2>3, IdleClientType DEF Restart, RequestsOK
  <2>4. CASE \/ \E r \in Revision : SlotExpire(r)
             \/ \E w \in Worker : ProviderFails(w) \/ InfraFails(w)
             \/ CancelRuns
    BY <2>4, RequestsUnchanged DEF SlotExpire, ProviderFails, InfraFails, CancelRuns
  <2> QED
    BY <1>4, <2>1, <2>2, <2>3, <2>4 DEF Environment
<1> QED
  BY <1>1, <1>2, <1>3, <1>4 DEF Next

\* The environment stays within its bounds.
LEMMA NextBounds ==
    ASSUME Inv, [Next]_vars
    PROVE  BoundsOK'
<1> USE DEF BoundsOK
<1>1. ASSUME NEW c \in Client, ApiStep(c)
      PROVE  BoundsOK'
  <2>1. UNCHANGED <<removal, spent>>
    BY <1>1 DEF ApiStep, ClaimSlot, EnqueueDeduplicated, FindOrCreate, AddPrepare, RecheckPrepare
  <2>2. slot' = slot \/ (slot' = slot \cup {api[c].revision} /\ api[c].pc = "slot")
    BY <1>1 DEF ApiStep, ClaimSlot, EnqueueDeduplicated, FindOrCreate, AddPrepare, RecheckPrepare
  <2>3. api[c].pc = "slot" => api[c].revision \in Revision
    BY DEF Inv, RequestsOK, Caller
  <2> QED
    BY <2>1, <2>2, <2>3 DEF Inv
<1>2. ASSUME NEW w \in Worker, Handle(w)
      PROVE  BoundsOK'
  BY <1>2, HandleElsewhere DEF Inv
<1>3. CASE RemoveJobs \/ UNCHANGED vars
  BY <1>3 DEF Inv, RemoveJobs, vars
<1>4. CASE Environment
  <2>1. ASSUME NEW what \in {"edits", "requests", "provider", "infra", "crashes", "cancels"},
               Spend(what), slot' = slot, removal' \in BOOLEAN,
               what = "edits" => spent.edits < MaxEdits,
               what = "requests" => spent.requests < MaxRequests,
               what = "provider" => spent.provider < MaxProviderFailures,
               what = "infra" => spent.infra < MaxInfraFailures,
               what = "crashes" => spent.crashes < MaxCrashes,
               what = "cancels" => spent.cancels < MaxCancels
        PROVE  BoundsOK'
    BY <2>1, BoundAssumption DEF Inv, Spend
  <2>2. CASE \E c \in Client, r \in Revision : Edit(c, r)
    BY <2>1, <2>2 DEF Edit, Inv
  <2>3. CASE \E c \in Client, x \in Context, full \in BOOLEAN : Request(c, x, full)
    BY <2>1, <2>3 DEF Request, Inv
  <2>4. CASE \E r \in Revision : SlotExpire(r)
    BY <2>4 DEF SlotExpire, Inv
  <2>5. CASE \E w \in Worker : ProviderFails(w) \/ InfraFails(w)
    BY <2>1, <2>5 DEF ProviderFails, InfraFails, Inv
  <2>6. CASE CancelRuns
    BY <2>1, <2>6 DEF CancelRuns
  <2>7. CASE \E survives \in {"all", "live", "none"}, S \in SUBSET Recoverable : Restart(survives, S)
    BY <2>1, <2>7 DEF Restart, Inv
  <2> QED
    BY <1>4, <2>2, <2>3, <2>4, <2>5, <2>6, <2>7 DEF Environment
<1> QED
  BY <1>1, <1>2, <1>3, <1>4 DEF Next

-----------------------------------------------------------------------------
(***************************************************************************)
(* The theorems                                                            *)
(***************************************************************************)
LEMMA InitInv == Init => Inv
<1> SUFFICES ASSUME Init
             PROVE  Inv
  OBVIOUS
<1>1. TablesOK
  BY NoRowsType DEF Init, TablesOK, Document, BatchStatus
<1>2. QueueOK
  BY NoJobType, IdleWorkerType
     DEF Init, QueueOK, OwnsJob, OwnsAlone, JobHasRun, LiveHasTries, Busy
<1>3. RequestsOK
  <2>1. PICK r \in Revision, c \in Client :
          api = [d \in Client |-> IF d = c THEN [IdleClient EXCEPT !.pc = "enqueue", !.revision = r]
                                  ELSE IdleClient]
    BY DEF Init
  <2> DEFINE q == [IdleClient EXCEPT !.pc = "enqueue", !.revision = r]
  <2>2. q \in Caller /\ q.pc = "enqueue" /\ q.revision # None
    BY NoneAssumption DEF IdleClient, Caller, ClientPc
  <2> HIDE DEF q
  <2> QED
    BY <2>1, <2>2, IdleClientType DEF RequestsOK, q
<1>4. BoundsOK
  <2>1. \A n \in {MaxEdits, MaxRequests, MaxProviderFailures, MaxInfraFailures, MaxCrashes, MaxCancels} :
          0 \in 0..n
    BY BoundAssumption
  <2> QED
    BY <2>1 DEF Init, BoundsOK
<1> QED
  BY <1>1, <1>2, <1>3, <1>4 DEF Inv

LEMMA NextInv == Inv /\ [Next]_vars => Inv'
<1> SUFFICES ASSUME Inv, [Next]_vars
             PROVE  Inv'
  OBVIOUS
<1>1. TablesOK' /\ RunsKept
  BY NextTables DEF TablesStep
<1> QED
  BY <1>1, NextQueue, NextRequests, NextBounds DEF Inv

LEMMA Invariance == Spec => []Inv
  BY InitInv, NextInv, PTL DEF Spec

\* Every table, queue and handler holds what the schema and the code allow:
\* the columns, the job records, the payloads and the bounds on retries.
THEOREM TypeCorrect == Spec => []TypeOK
<1>1. Inv => TypeOK
  BY InvIsTypeAndOwnership
<1> QED
  BY <1>1, Invariance, PTL

\* A job in the hands of a handler is active for it alone, whatever fails,
\* crashes or is cancelled; every job in Redis belongs to a run, and every live
\* one has an attempt left.
THEOREM OwnershipCorrect == Spec => []Ownership
<1>1. Inv => Ownership
  BY InvIsTypeAndOwnership
<1> QED
  BY <1>1, Invariance, PTL

\* No handler, request or recovery takes a cancellation fence down, and none
\* makes a generation behind its fence the one that search reads.
THEOREM FenceCorrect == Spec => FenceHolds
<1>1. Inv /\ [Next]_vars => [FenceKept]_vars
  BY NextTables DEF TablesStep
<1>2. [][FenceKept]_vars <=> FenceHolds
  BY DEF FenceKept, FenceHolds
<1> QED
  BY <1>1, <1>2, Invariance, PTL DEF Spec

-----------------------------------------------------------------------------
(***************************************************************************)
(* The index that search reads.  Whole is inductive as long as there is at *)
(* most one fault.  Who may still commit the prepare stage of a generation *)
(* then finds nothing written, or a run that says it is done; the pending  *)
(* generation holds sound rows only, and all those of its ready batches;   *)
(* the active one is complete, and no handler has anything left to write   *)
(* to it.  A second fault may deliver a prepare job twice when its stage   *)
(* is neither unwritten nor marked done.                                   *)
(***************************************************************************)

\* Faults, which may repeat a step that has committed: a database or queue call
\* of a handler that failed, and a crash, which cuts every handler off.
Faults == spent.infra + spent.crashes

Rev(g) == run[g].revision

\* Rows of chunks of r, embedded under context x.
Sound(rows, r, x) ==
    \A c \in Chunk : rows[c] # None => /\ c \in Chunks(r)
                                       /\ rows[c].text = TextOf[r][c]
                                       /\ rows[c].context = x
StoredIn(rows, r, b) == \A c \in ChunksIn(r, b) : rows[c] # None

\* Nothing was written for the generation.
Fresh(g) ==
    /\ doc.active # g /\ row[g] = NoRows
    /\ \A b \in Batch : batch[g][b] = "none" /\ job[EmbedJob(g, b)].state = "none"

Adding(c, g) == api[c].pc = "add" /\ api[c].gen = g
Preparing(w, g) == worker[w].pc \in {"prepareStale", "prepareRun"} /\ G(w) = g

\* A handler may yet commit prepareRun for g.
PrepareOpen(g) ==
    \/ \E w \in Worker : Preparing(w, g)
    \/ job[PrepareJob(g)].state = "waiting" /\ ~Cancelled(g)

\* The prepare stage of g writes once: who may still commit it finds nothing
\* written, or a run that says it is done.
Once(g) ==
    /\ ~Exists(g) => Fresh(g) /\ doc.pending # g
    /\ \A c \in Client : Adding(c, g) =>
          /\ Fresh(g) /\ job[PrepareJob(g)].state = "none"
          /\ \A d \in Client : Adding(d, g) => d = c
    /\ PrepareOpen(g) => Fresh(g) \/ run[g].prepare \in {"ready", "cancelled"}
    /\ Faults = 0 =>
          /\ PrepareOpen(g) => Fresh(g)
          /\ Exists(g) /\ ~Cancelled(g) /\ run[g].prepare # "ready" => Fresh(g)

\* The embed jobs of g carry the context of its run.
JobContext(g) ==
    \A b \in Batch : job[EmbedJob(g, b)].state # "none" =>
        job[EmbedJob(g, b)].context = run[g].context

\* The pending generation: sound rows, a batch row for every batch, and all
\* rows of a batch that is ready.
Filling(g) ==
    doc.pending = g /\ ~Cancelled(g) =>
        /\ run[g].context \in Context
        /\ Sound(row[g], Rev(g), run[g].context)
        /\ \A b \in Batch :
            /\ batch[g][b] # "none" <=> b \in BatchesOf(Rev(g))
            /\ batch[g][b] = "ready" => StoredIn(row[g], Rev(g), b)

\* Which job a handler may hold at which point, and which it queues.
HandlerKind(w) ==
    /\ worker[w].pc \in {"prepareStale", "prepareRun", "completeEmpty"} =>
           JobOf(w) = PrepareJob(G(w))
    /\ worker[w].pc \in {"storeBatch", "completeBatch", "activate"} =>
           \E b \in Batch : JobOf(w) = EmbedJob(G(w), b)
    /\ Busy(w) => PrepareJob(G(w)) \notin worker[w].next

\* What a handler queues, it queues for batches that are there.
HandlerNext(w) ==
    Busy(w) => \A b \in Batch : EmbedJob(G(w), b) \in worker[w].next =>
        batch[G(w)][b] # "none" /\ worker[w].context = run[G(w)].context

\* What a handler keeps across its awaits.
HandlerData(w) ==
    /\ At(w, "prepareRun") => worker[w].context \in Context
                              /\ Sound(worker[w].rows, Rev(G(w)), worker[w].context)
    /\ At(w, "completeEmpty") =>
           /\ worker[w].context \in Context /\ Chunks(Rev(G(w))) = {}
           /\ Faults = 0 /\ ~Cancelled(G(w)) => run[G(w)].prepare = "ready"
    /\ worker[w].pc \in {"storeBatch", "completeBatch", "activate"} =>
           worker[w].context = run[G(w)].context /\ worker[w].profile \in Profile
    /\ At(w, "storeBatch") => Sound(worker[w].rows, Rev(G(w)), run[G(w)].context)

\* What a handler of the pending generation may rely on.
HandlerFills(w) ==
    Busy(w) /\ doc.pending = G(w) /\ ~Cancelled(G(w)) =>
        /\ At(w, "storeBatch") => \A c \in ChunksIn(Rev(G(w)), BatchIn(JobOf(w))) :
               worker[w].rows[c] # None \/ row[G(w)][c] # None
        /\ At(w, "completeBatch") => StoredIn(row[G(w)], Rev(G(w)), BatchIn(JobOf(w)))
        /\ At(w, "activate") => \A b \in Batch : batch[G(w)][b] \in {"none", "ready"}

\* The generation that search reads is complete, and nothing is left to write.
ActiveWhole ==
    doc.active # None =>
        /\ Exists(doc.active) /\ doc.activeContext \in Context
        /\ \E p \in Profile : row[doc.active] = CompleteRows(Rev(doc.active), doc.activeContext, p)
        /\ ~Cancelled(doc.active) => \A b \in Batch : batch[doc.active][b] \in {"none", "ready"}

HandlerOK(w) == HandlerKind(w) /\ HandlerNext(w) /\ HandlerData(w) /\ HandlerFills(w)
GenOK(g) == Once(g) /\ JobContext(g) /\ Filling(g)

Whole == (\A g \in Gen : GenOK(g)) /\ (\A w \in Worker : HandlerOK(w)) /\ ActiveWhole

-----------------------------------------------------------------------------
LEMMA JobKinds ==
    ASSUME NEW g \in Gen, NEW h \in Gen, NEW b \in Batch, NEW d \in Batch
    PROVE  /\ PrepareJob(g) # EmbedJob(h, b) /\ PrepareJob(g) # GraphJob(h)
           /\ EmbedJob(g, b) # GraphJob(h)
           /\ PrepareJob(g) = PrepareJob(h) => g = h
           /\ EmbedJob(g, b) = EmbedJob(h, d) => g = h /\ b = d
           /\ BatchIn(EmbedJob(g, b)) = b
  BY DEF PrepareJob, EmbedJob, GraphJob, BatchIn

LEMMA FaultsCount == Inv => Faults \in Nat /\ spent.infra \in Nat /\ spent.crashes \in Nat
  BY BoundAssumption DEF Inv, BoundsOK, Faults

\* What most steps leave as it is of a generation.
Steady(g) ==
    /\ Exists(g) => /\ Exists(g)' /\ Rev(g)' = Rev(g) /\ run'[g].context = run[g].context
    /\ Cancelled(g) => Cancelled(g)'
    /\ \A b \in Batch : /\ batch'[g][b] = "none" <=> batch[g][b] = "none"
                        /\ ~Cancelled(g)' /\ batch[g][b] = "ready" => batch'[g][b] = "ready"
RowsGrow(g) == \A c \in Chunk : row[g][c] # None => row'[g][c] # None

\* A handler that this step does not move.
LEMMA HandlerStays ==
    ASSUME Inv, NEW w \in Worker, HandlerOK(w), worker'[w] = worker[w], Faults' \in Nat, Faults \in Nat,
           Faults' >= Faults,
           \A g \in Gen : Busy(w) /\ G(w) = g =>
               /\ Steady(g)
               /\ doc'.pending = g => doc.pending = g /\ RowsGrow(g)
               /\ At(w, "completeEmpty") /\ ~Cancelled(g)' /\ run[g].prepare = "ready" =>
                      run'[g].prepare = "ready"
    PROVE  HandlerOK(w)'
<1>1. CASE ~Busy(w)
  BY <1>1 DEF HandlerOK, HandlerKind, HandlerNext, HandlerData, HandlerFills, Busy, At, JobOf, G
<1>2. CASE Busy(w)
  <2>1. G(w) \in Gen /\ Exists(G(w)) /\ JobOf(w) \in JobId
    BY <1>2, BusyFacts
  <2> PICK g \in Gen : g = G(w)
    BY <2>1
  <2>2. /\ JobOf(w)' = JobOf(w) /\ G(w) = g /\ G(w)' = g /\ Busy(w)' = Busy(w)
        /\ \A pc : At(w, pc)' = At(w, pc)
    BY DEF JobOf, G, Busy, At
  <2>3. /\ Steady(g) /\ (doc'.pending = g => doc.pending = g /\ RowsGrow(g))
        /\ At(w, "completeEmpty") /\ ~Cancelled(g)' /\ run[g].prepare = "ready" => run'[g].prepare = "ready"
    BY <1>2
  <2>4. /\ run'[g].revision = run[g].revision /\ run'[g].context = run[g].context
        /\ ~Cancelled(g)' => ~Cancelled(g)
        /\ \A b \in Batch : batch'[g][b] = "none" <=> batch[g][b] = "none"
        /\ \A b \in Batch : ~Cancelled(g)' /\ batch[g][b] = "ready" => batch'[g][b] = "ready"
    BY <2>1, <2>3 DEF Steady, Rev
  <2>5. HandlerKind(w)'
    BY <2>2 DEF HandlerOK, HandlerKind
  <2>6. HandlerNext(w)'
    BY <2>2, <2>4 DEF HandlerOK, HandlerNext
  <2>7. HandlerData(w)'
    <3>1. Faults' = 0 => Faults = 0
      OBVIOUS
    <3>2. At(w, "completeEmpty") => (Faults' = 0 /\ ~Cancelled(g)' => run'[g].prepare = "ready")
      BY <2>3, <2>4, <3>1 DEF HandlerOK, HandlerData
    <3> QED
      BY <2>2, <2>4, <3>2 DEF HandlerOK, HandlerData, Rev, Sound
  <2>8. HandlerFills(w)'
    <3> SUFFICES ASSUME doc'.pending = g, ~Cancelled(g)'
                 PROVE  /\ At(w, "storeBatch") => \A c \in ChunksIn(Rev(g), BatchIn(JobOf(w))) :
                              worker[w].rows[c] # None \/ row'[g][c] # None
                        /\ At(w, "completeBatch") => StoredIn(row'[g], Rev(g), BatchIn(JobOf(w)))
                        /\ At(w, "activate") => \A b \in Batch : batch'[g][b] \in {"none", "ready"}
      BY <2>2, <2>4 DEF HandlerFills, Rev, StoredIn
    <3>1. /\ doc.pending = g /\ RowsGrow(g) /\ ~Cancelled(g)
      BY <2>3, <2>4
    <3>2. \A c \in ChunksIn(Rev(g), BatchIn(JobOf(w))) : c \in Chunk
      BY <2>1, ChunkText DEF ChunksIn, Rev, Inv, TablesOK, Exists, Run
    <3> QED
      BY <1>2, <2>4, <3>1, <3>2 DEF HandlerOK, HandlerFills, RowsGrow, StoredIn
  <2> QED
    BY <2>5, <2>6, <2>7, <2>8 DEF HandlerOK
<1> QED
  BY <1>1, <1>2

\* An embed job is queued for a batch that is there, with the context of its run.
EmbedKept(g) ==
    \A b \in Batch : job'[EmbedJob(g, b)].state # "none" =>
        \/ job[EmbedJob(g, b)].state # "none" /\ job'[EmbedJob(g, b)].context = job[EmbedJob(g, b)].context
        \/ batch[g][b] # "none" /\ job'[EmbedJob(g, b)].context = run[g].context

\* The prepare stage of g is not opened again, and does not undo what it did.
PrepareKept(g) ==
    /\ PrepareOpen(g)' => PrepareOpen(g)
    /\ \A c \in Client : Adding(c, g)' =>
          Adding(c, g) /\ (job[PrepareJob(g)].state = "none" => job'[PrepareJob(g)].state = "none")
RunPrepareKept(g) ==
    /\ Exists(g)' => Exists(g)
    /\ run[g].prepare \in {"ready", "cancelled"} => run'[g].prepare \in {"ready", "cancelled"}
    /\ ~Cancelled(g)' /\ run[g].prepare = "ready" => run'[g].prepare = "ready"

LEMMA FreshStays ==
    ASSUME NEW g \in Gen, Fresh(g), Steady(g), EmbedKept(g),
           doc'.active = g => doc.active = g,
           row'[g] = row[g] \/ row'[g] = NoRows
    PROVE  Fresh(g)'
  BY DEF Fresh, Steady, EmbedKept

LEMMA OnceStays ==
    ASSUME NEW g \in Gen, Once(g), Steady(g), PrepareKept(g), RunPrepareKept(g),
           Fresh(g) => Fresh(g)', doc'.pending = g => doc.pending = g \/ Exists(g),
           Faults' \in Nat, Faults \in Nat, Faults' >= Faults
    PROVE  Once(g)'
<1>1. Faults' = 0 => Faults = 0
  OBVIOUS
<1>2. /\ Exists(g)' <=> Exists(g)
      /\ Cancelled(g) => Cancelled(g)'
  BY DEF Steady, RunPrepareKept
<1>3. ~Exists(g)' => Fresh(g)' /\ doc'.pending # g
  BY <1>2 DEF Once
<1>4. \A c \in Client : Adding(c, g)' =>
          /\ Fresh(g)' /\ job'[PrepareJob(g)].state = "none"
          /\ \A d \in Client : Adding(d, g)' => d = c
  BY DEF Once, PrepareKept
<1>5. PrepareOpen(g)' => Fresh(g)' \/ run'[g].prepare \in {"ready", "cancelled"}
  BY DEF Once, PrepareKept, RunPrepareKept
<1>6. Faults' = 0 =>
          /\ PrepareOpen(g)' => Fresh(g)'
          /\ Exists(g)' /\ ~Cancelled(g)' /\ run'[g].prepare # "ready" => Fresh(g)'
  BY <1>1, <1>2 DEF Once, PrepareKept, RunPrepareKept
<1> QED
  BY <1>3, <1>4, <1>5, <1>6 DEF Once

LEMMA JobContextStays ==
    ASSUME Inv, NEW g \in Gen, Once(g), JobContext(g), Steady(g), EmbedKept(g)
    PROVE  JobContext(g)'
<1> SUFFICES ASSUME NEW b \in Batch, job'[EmbedJob(g, b)].state # "none"
             PROVE  job'[EmbedJob(g, b)].context = run'[g].context
  BY DEF JobContext
<1>1. EmbedJob(g, b) \in JobId /\ GenOf(EmbedJob(g, b)) = g
  BY JobIdFacts
<1>2. job[EmbedJob(g, b)].state # "none" => Exists(g)
  BY <1>1 DEF Inv, QueueOK, JobHasRun
<1>3. batch[g][b] # "none" => Exists(g)
  BY DEF Once, Fresh
<1>4. job'[EmbedJob(g, b)].context = run[g].context /\ Exists(g)
  BY <1>2, <1>3 DEF JobContext, EmbedKept
<1> QED
  BY <1>4 DEF Steady

LEMMA FillingStays ==
    ASSUME NEW g \in Gen, Once(g), Filling(g), Steady(g),
           doc'.pending = g => doc.pending = g /\ row'[g] = row[g],
           \A b \in Batch : ~Cancelled(g)' /\ batch'[g][b] = "ready" => batch[g][b] = "ready"
    PROVE  Filling(g)'
<1> SUFFICES ASSUME doc'.pending = g, ~Cancelled(g)'
             PROVE  /\ run'[g].context \in Context
                    /\ Sound(row'[g], run'[g].revision, run'[g].context)
                    /\ \A b \in Batch :
                        /\ batch'[g][b] # "none" <=> b \in BatchesOf(run'[g].revision)
                        /\ batch'[g][b] = "ready" => StoredIn(row'[g], run'[g].revision, b)
  BY DEF Filling, Rev, Sound, StoredIn
<1>1. doc.pending = g /\ row'[g] = row[g] /\ Exists(g) /\ ~Cancelled(g)
  BY DEF Once, Steady
<1>2. run'[g].revision = run[g].revision /\ run'[g].context = run[g].context
  BY <1>1 DEF Steady, Rev
<1>3. \A b \in Batch : /\ batch'[g][b] = "none" <=> batch[g][b] = "none"
                       /\ batch'[g][b] = "ready" => batch[g][b] = "ready"
  BY DEF Steady
<1> QED
  BY <1>1, <1>2, <1>3 DEF Filling, Rev

LEMMA ActiveStays ==
    ASSUME Inv, ActiveWhole, doc'.active = doc.active, doc'.activeContext = doc.activeContext,
           \A g \in Gen : doc.active = g => Steady(g) /\ row'[g] = row[g]
    PROVE  ActiveWhole'
<1>1. CASE doc.active = None
  BY <1>1 DEF ActiveWhole
<1>2. CASE doc.active # None
  <2>1. PICK g \in Gen : doc.active = g
    BY <1>2 DEF Inv, TablesOK, Document
  <2>2. Steady(g) /\ row'[g] = row[g] /\ Exists(g)
    BY <1>2, <2>1 DEF ActiveWhole
  <2>3. /\ run'[g].revision = run[g].revision /\ Exists(g)' /\ (~Cancelled(g)' => ~Cancelled(g))
        /\ \A b \in Batch : /\ batch'[g][b] = "none" <=> batch[g][b] = "none"
                            /\ ~Cancelled(g)' /\ batch[g][b] = "ready" => batch'[g][b] = "ready"
    BY <2>2 DEF Steady, Rev
  <2>4. \E p \in Profile : row[g] = CompleteRows(run[g].revision, doc.activeContext, p)
    BY <1>2, <2>1 DEF ActiveWhole, Rev
  <2>5. ~Cancelled(g)' => \A b \in Batch : batch'[g][b] \in {"none", "ready"}
    BY <1>2, <2>1, <2>3 DEF ActiveWhole
  <2> SUFFICES /\ Exists(g)' /\ doc'.activeContext \in Context
               /\ \E p \in Profile : row'[g] = CompleteRows(run'[g].revision, doc'.activeContext, p)
               /\ ~Cancelled(g)' => \A b \in Batch : batch'[g][b] \in {"none", "ready"}
    BY <2>1 DEF ActiveWhole, Rev, Exists, Cancelled
  <2> QED
    BY <1>2, <2>2, <2>3, <2>4, <2>5 DEF ActiveWhole
<1> QED
  BY <1>1, <1>2

\* A step that writes no row and makes no batch ready.
LEMMA OpenStep ==
    ASSUME Inv, Whole, Faults' \in Nat, Faults \in Nat, Faults' >= Faults,
           doc'.active = doc.active, doc'.activeContext = doc.activeContext, doc'.pending = doc.pending,
           row' = row,
           \A g \in Gen : Steady(g) /\ EmbedKept(g),
           \A g \in Gen : Once(g)' \/ (RunPrepareKept(g) /\ PrepareKept(g)),
           \A g \in Gen, b \in Batch : ~Cancelled(g)' /\ batch'[g][b] = "ready" => batch[g][b] = "ready",
           \A w \in Worker : HandlerOK(w)' \/ ( /\ worker'[w] = worker[w]
                                                /\ \A g \in Gen : Busy(w) /\ G(w) = g => RunPrepareKept(g) )
    PROVE  Whole'
<1>1. ASSUME NEW g \in Gen
      PROVE  GenOK(g)'
  <2>1. Fresh(g) => Fresh(g)'
    BY FreshStays
  <2> QED
    BY <2>1, OnceStays, JobContextStays, FillingStays DEF Whole, GenOK
<1>2. ASSUME NEW w \in Worker
      PROVE  HandlerOK(w)'
  <2>1. \A g \in Gen : RowsGrow(g)
    BY DEF RowsGrow
  <2> QED
    BY <2>1, HandlerStays DEF Whole, RunPrepareKept
<1>3. ActiveWhole'
  BY ActiveStays DEF Whole
<1> QED
  BY <1>1, <1>2, <1>3 DEF Whole

\* A step that opens no prepare stage either.
LEMMA PlainStep ==
    ASSUME Inv, Whole, Faults' \in Nat, Faults \in Nat, Faults' >= Faults,
           doc'.active = doc.active, doc'.activeContext = doc.activeContext, doc'.pending = doc.pending,
           row' = row,
           \A g \in Gen : Steady(g) /\ RunPrepareKept(g) /\ EmbedKept(g) /\ PrepareKept(g),
           \A g \in Gen, b \in Batch : ~Cancelled(g)' /\ batch'[g][b] = "ready" => batch[g][b] = "ready",
           \A w \in Worker : worker'[w] = worker[w] \/ HandlerOK(w)'
    PROVE  Whole'
  BY OpenStep

-----------------------------------------------------------------------------
LEMMA TablesSteady ==
    ASSUME UNCHANGED <<run, batch>>
    PROVE  \A g \in Gen : Steady(g) /\ RunPrepareKept(g)
  BY DEF Steady, RunPrepareKept, Exists, Cancelled, Rev

\* One run changes, but not what it embeds, nor its prepare stage.
LEMMA RunSteady ==
    ASSUME Inv, NEW h \in Gen, run[h] \in Run, NEW q \in Run, run' = [run EXCEPT ![h] = q],
           q.revision = run[h].revision, q.context = run[h].context, q.prepare = run[h].prepare,
           ~Cancelled(h),
           \A g \in Gen, b \in Batch : /\ batch'[g][b] = "none" <=> batch[g][b] = "none"
                                       /\ batch[g][b] = "ready" => batch'[g][b] = "ready"
    PROVE  \A g \in Gen : Steady(g) /\ RunPrepareKept(g)
<1>1. run'[h] = q /\ \A g \in Gen \ {h} : run'[g] = run[g]
  BY DEF Inv, TablesOK
<1>2. q # None /\ run[h] # None
  BY NoneGenAssumption
<1>3. \A g \in Gen \ {h} : Steady(g) /\ RunPrepareKept(g)
  BY <1>1 DEF Steady, RunPrepareKept, Exists, Cancelled, Rev
<1>4. Steady(h) /\ RunPrepareKept(h)
  BY <1>1, <1>2 DEF Steady, RunPrepareKept, Exists, Cancelled, Rev
<1> QED
  BY <1>3, <1>4

\* A step that queues nothing new.
QueueKept ==
    \A g \in Gen :
        /\ EmbedKept(g)
        /\ job'[PrepareJob(g)].state = "waiting" => job[PrepareJob(g)].state = "waiting"
        /\ job[PrepareJob(g)].state = "none" => job'[PrepareJob(g)].state = "none"

\* What becomes of a job that ends, is taken or removed.
JobCalm(j) ==
    \/ job'[j] = job[j]
    \/ job'[j].state = "none"
    \/ job[j].state # "none" /\ job'[j].state # "waiting" /\ job'[j].context = job[j].context

LEMMA QueueCalm ==
    ASSUME \A j \in JobId : JobCalm(j)
    PROVE  QueueKept
<1> SUFFICES ASSUME NEW g \in Gen
             PROVE  /\ EmbedKept(g)
                    /\ job'[PrepareJob(g)].state = "waiting" => job[PrepareJob(g)].state = "waiting"
                    /\ job[PrepareJob(g)].state = "none" => job'[PrepareJob(g)].state = "none"
  BY DEF QueueKept
<1>1. PrepareJob(g) \in JobId /\ \A b \in Batch : EmbedJob(g, b) \in JobId
  BY JobIdFacts
<1>2. \A b \in Batch : JobCalm(EmbedJob(g, b))
  BY <1>1
<1>3. JobCalm(PrepareJob(g))
  BY <1>1
<1> QED
  BY <1>2, <1>3 DEF JobCalm, EmbedKept

LEMMA TakeCalm ==
    ASSUME Inv, NEW j \in JobId, job[j].state = "waiting", Take(j)
    PROVE  QueueKept
<1>1. /\ job'[j].state = "active" /\ job'[j].context = job[j].context
      /\ \A i \in JobId \ {j} : job'[i] = job[i]
  BY DEF Inv, QueueOK, Job, Take
<1>2. \A i \in JobId : JobCalm(i)
  BY <1>1 DEF JobCalm
<1> QED
  BY <1>2, QueueCalm

LEMMA EndedCalm ==
    ASSUME Inv, NEW j \in JobId, job[j].state # "none", job' = Ended(job, j)
    PROVE  QueueKept
<1>1. /\ job'[j].state = "completed" /\ job'[j].context = job[j].context
      /\ \A i \in JobId \ {j} : job'[i] = job[i]
  BY DEF Inv, QueueOK, Job, Ended
<1>2. \A i \in JobId : JobCalm(i)
  BY <1>1 DEF JobCalm
<1> QED
  BY <1>2, QueueCalm

LEMMA RemoveCalm ==
    ASSUME Inv, NEW ids, job' = Remove(job, ids)
    PROVE  QueueKept
<1>1. \A i \in JobId : job'[i] = job[i] \/ job'[i].state = "none"
  BY NoJobType DEF Remove
<1>2. \A i \in JobId : JobCalm(i)
  BY <1>1 DEF JobCalm
<1> QED
  BY <1>2, QueueCalm

LEMMA UnchangedCalm ==
    ASSUME job' = job
    PROVE  QueueKept
<1>1. \A i \in JobId : JobCalm(i)
  BY DEF JobCalm
<1> QED
  BY <1>1, QueueCalm

\* The embed job of a handler goes back to the queue.
LEMMA ThrowKept ==
    ASSUME Inv, NEW w \in Worker, Busy(w), Throw(w), NEW g \in Gen, NEW b \in Batch,
           JobOf(w) = EmbedJob(g, b)
    PROVE  QueueKept
<1>1. JobOf(w) \in JobId /\ job[JobOf(w)].state = "active"
  BY BusyFacts
<1>2. /\ job'[JobOf(w)].context = job[JobOf(w)].context
      /\ \A i \in JobId \ {JobOf(w)} : job'[i] = job[i]
  BY <1>1 DEF Inv, QueueOK, Job, Throw
<1>3. ASSUME NEW h \in Gen
      PROVE  /\ EmbedKept(h)
             /\ job'[PrepareJob(h)] = job[PrepareJob(h)]
  <2>1. PrepareJob(h) \in JobId /\ PrepareJob(h) # JobOf(w) /\ \A d \in Batch : EmbedJob(h, d) \in JobId
    BY JobIdFacts, JobKinds
  <2> QED
    BY <1>1, <1>2, <2>1 DEF EmbedKept
<1> QED
  BY <1>3 DEF QueueKept

LEMMA ThrowIdle ==
    ASSUME Inv, NEW w \in Worker, Throw(w) \/ Done(w) \/ worker' = [worker EXCEPT ![w] = IdleWorker]
    PROVE  worker'[w] = IdleWorker /\ \A v \in Worker \ {w} : worker'[v] = worker[v]
  BY DEF Inv, QueueOK, Throw, Done

LEMMA IdleOK ==
    ASSUME NEW w \in Worker, worker'[w] = IdleWorker
    PROVE  HandlerOK(w)' /\ \A g \in Gen : ~Preparing(w, g)'
  BY DEF HandlerOK, HandlerKind, HandlerNext, HandlerData, HandlerFills, Busy, At, JobOf, G,
         IdleWorker, Preparing

\* Where a handler keeps nothing but what it queues.
PlainPc == {"claim", "embedStale", "claimNext", "embedReady", "enqueue", "finish"}

LEMMA PlainOK ==
    ASSUME NEW w \in Worker, NEW g \in Gen, G(w)' = g, worker'[w].pc \in PlainPc,
           PrepareJob(g) \notin worker'[w].next,
           \A b \in Batch : EmbedJob(g, b) \in worker'[w].next =>
               batch'[g][b] # "none" /\ worker'[w].context = run'[g].context
    PROVE  HandlerOK(w)' /\ \A h \in Gen : ~Preparing(w, h)'
<1>1. HandlerKind(w)'
  BY DEF HandlerKind, PlainPc
<1>2. HandlerNext(w)'
  BY DEF HandlerNext
<1>3. HandlerData(w)'
  BY DEF HandlerData, PlainPc, At
<1>4. HandlerFills(w)'
  BY DEF HandlerFills, PlainPc, At
<1>5. \A h \in Gen : ~Preparing(w, h)'
  BY DEF Preparing, PlainPc
<1> QED
  BY <1>1, <1>2, <1>3, <1>4, <1>5 DEF HandlerOK

LEMMA GotoWorker ==
    ASSUME Inv, NEW w \in Worker, NEW pc, Goto(w, pc)
    PROVE  /\ worker'[w] = [worker[w] EXCEPT !.pc = pc] /\ worker'[w].pc = pc
           /\ worker'[w].job = worker[w].job /\ worker'[w].next = worker[w].next
           /\ worker'[w].rows = worker[w].rows /\ worker'[w].context = worker[w].context
           /\ worker'[w].profile = worker[w].profile
           /\ JobOf(w)' = JobOf(w) /\ G(w)' = G(w)
           /\ \A v \in Worker \ {w} : worker'[v] = worker[v]
<1>1. worker \in [Worker -> Handler] /\ worker[w] \in Handler
  BY DEF Inv, QueueOK
<1>2. /\ worker'[w] = [worker[w] EXCEPT !.pc = pc]
      /\ \A v \in Worker \ {w} : worker'[v] = worker[v]
  BY <1>1 DEF Goto
<1>3. /\ worker'[w].pc = pc /\ worker'[w].job = worker[w].job /\ worker'[w].next = worker[w].next
      /\ worker'[w].rows = worker[w].rows /\ worker'[w].context = worker[w].context
      /\ worker'[w].profile = worker[w].profile
  BY <1>1, <1>2 DEF Handler
<1> QED
  BY <1>2, <1>3 DEF JobOf, G

LEMMA GotoPlain ==
    ASSUME Inv, Whole, NEW w \in Worker, Busy(w), NEW pc \in PlainPc, Goto(w, pc),
           \A g \in Gen : Steady(g)
    PROVE  HandlerOK(w)' /\ \A g \in Gen : ~Preparing(w, g)'
<1>1. PICK g \in Gen : g = G(w) /\ Exists(g)
  BY BusyFacts
<1>2. /\ G(w)' = g /\ worker'[w].pc = pc
      /\ worker'[w].next = worker[w].next /\ worker'[w].context = worker[w].context
  BY <1>1, GotoWorker
<1>3. HandlerNext(w) /\ HandlerKind(w)
  BY DEF Whole, HandlerOK
<1>4. /\ PrepareJob(g) \notin worker[w].next
      /\ \A b \in Batch : EmbedJob(g, b) \in worker[w].next =>
           batch'[g][b] # "none" /\ worker[w].context = run'[g].context
  BY <1>1, <1>3 DEF HandlerNext, HandlerKind, Steady
<1> QED
  BY <1>2, <1>4, PlainOK

LEMMA PrepareStays ==
    ASSUME NEW g \in Gen, Steady(g), api' = api,
           job'[PrepareJob(g)].state = "waiting" => job[PrepareJob(g)].state = "waiting",
           job[PrepareJob(g)].state = "none" => job'[PrepareJob(g)].state = "none",
           \A w \in Worker : Preparing(w, g)' => PrepareOpen(g)
    PROVE  PrepareKept(g)
<1>1. \A c \in Client : Adding(c, g)' => Adding(c, g)
  BY DEF Adding
<1>2. PrepareOpen(g)' => PrepareOpen(g)
  BY DEF PrepareOpen, Steady
<1> QED
  BY <1>1, <1>2 DEF PrepareKept

\* A step of a handler that is nothing but its own and its job's.
LEMMA HandlerStep ==
    ASSUME Inv, Whole, NEW w \in Worker, UNCHANGED <<doc, row, api, spent>>, QueueKept,
           \A g \in Gen : Steady(g) /\ RunPrepareKept(g),
           \A g \in Gen, b \in Batch : ~Cancelled(g)' /\ batch'[g][b] = "ready" => batch[g][b] = "ready",
           \A v \in Worker \ {w} : worker'[v] = worker[v],
           HandlerOK(w)', \A g \in Gen : Preparing(w, g)' => PrepareOpen(g)
    PROVE  Whole'
<1>1. Faults' = Faults /\ Faults \in Nat
  BY FaultsCount DEF Faults
<1>2. \A v \in Worker, g \in Gen : Preparing(v, g)' => PrepareOpen(g)
  <2> SUFFICES ASSUME NEW v \in Worker, v # w, NEW g \in Gen
               PROVE  Preparing(v, g)' => PrepareOpen(g)
    OBVIOUS
  <2>1. worker'[v] = worker[v]
    OBVIOUS
  <2> QED
    BY <2>1 DEF Preparing, PrepareOpen, G, JobOf
<1>3. \A g \in Gen : EmbedKept(g) /\ PrepareKept(g)
  BY <1>2, PrepareStays DEF QueueKept
<1> QED
  BY <1>1, <1>3, PlainStep

LEMMA DropCancelledWhole ==
    ASSUME Inv, Whole, NEW w \in Worker, NEW j \in JobId, DropCancelled(w, j)
    PROVE  Whole'
<1>1. /\ UNCHANGED <<doc, run, batch, row, api, spent, worker>>
      /\ At(w, "idle") /\ job[j].state # "none" /\ job' = Ended(job, j)
  BY DEF DropCancelled
<1>2. QueueKept
  BY <1>1, EndedCalm
<1>3. \A g \in Gen : Steady(g) /\ RunPrepareKept(g)
  BY <1>1, TablesSteady
<1>4. \A g \in Gen : Preparing(w, g)' => PrepareOpen(g)
  BY <1>1 DEF Preparing, PrepareOpen, G, JobOf
<1>5. HandlerOK(w)'
  BY <1>1 DEF At, HandlerOK, HandlerKind, HandlerNext, HandlerData, HandlerFills, Busy
<1> QED
  BY <1>1, <1>2, <1>3, <1>4, <1>5, HandlerStep

LEMMA DoneWhole ==
    ASSUME Inv, Whole, NEW w \in Worker, Busy(w), Done(w),
           UNCHANGED <<doc, run, batch, row, api, spent>>
    PROVE  Whole'
<1>1. QueueKept
  <2>1. JobOf(w) \in JobId /\ job[JobOf(w)].state = "active"
    BY BusyFacts
  <2> QED
    BY <2>1, EndedCalm DEF Done
<1>2. \A g \in Gen : Steady(g) /\ RunPrepareKept(g)
  BY TablesSteady
<1>3. worker'[w] = IdleWorker /\ \A v \in Worker \ {w} : worker'[v] = worker[v]
  BY ThrowIdle
<1> QED
  BY <1>1, <1>2, <1>3, IdleOK, HandlerStep

LEMMA ThrowWhole ==
    ASSUME Inv, Whole, NEW w \in Worker, Throw(w), worker[w].pc \in {"storeBatch", "activate"},
           UNCHANGED <<doc, run, batch, row, api, spent>>
    PROVE  Whole'
<1>1. Busy(w) /\ G(w) \in Gen
  BY BusyFacts DEF Busy
<1>2. PICK b \in Batch : JobOf(w) = EmbedJob(G(w), b)
  BY DEF Whole, HandlerOK, HandlerKind
<1>3. QueueKept
  BY <1>1, <1>2, ThrowKept
<1>4. \A g \in Gen : Steady(g) /\ RunPrepareKept(g)
  BY TablesSteady
<1>5. worker'[w] = IdleWorker /\ \A v \in Worker \ {w} : worker'[v] = worker[v]
  BY ThrowIdle
<1> QED
  BY <1>3, <1>4, <1>5, IdleOK, HandlerStep

LEMMA GotoWhole ==
    ASSUME Inv, Whole, NEW w \in Worker, Busy(w), NEW pc \in PlainPc, Goto(w, pc),
           UNCHANGED <<doc, row, api, spent>>,
           \A g \in Gen : Steady(g) /\ RunPrepareKept(g),
           \A g \in Gen, b \in Batch : ~Cancelled(g)' /\ batch'[g][b] = "ready" => batch[g][b] = "ready"
    PROVE  Whole'
<1>1. QueueKept
  BY UnchangedCalm DEF Goto
<1>2. \A v \in Worker \ {w} : worker'[v] = worker[v]
  BY GotoWorker
<1> QED
  BY <1>1, <1>2, GotoPlain, HandlerStep

LEMMA FinishWhole ==
    ASSUME Inv, Whole, NEW w \in Worker, Finish(w)
    PROVE  Whole'
<1>1. Busy(w) /\ UNCHANGED <<doc, run, batch, row, api, spent>>
  BY DEF Finish, At, Busy
<1>2. JobOf(w) \in JobId /\ job[JobOf(w)].state = "active" /\ job \in [JobId -> Job]
  BY <1>1, BusyFacts DEF Inv, QueueOK
<1>3. PICK late : job' = Ended(Remove(job, late), JobOf(w))
  BY DEF Finish
<1> DEFINE left == Remove(job, late)
<1>4. \A j \in JobId : \/ left[j] = job[j]
                       \/ left[j].state = "none" /\ j # JobOf(w)
  BY <1>2, NoJobType DEF Remove
<1>5. left[JobOf(w)] = job[JobOf(w)]
  BY <1>2, <1>4
<1>6. DOMAIN left = JobId
  BY DEF Remove
<1> HIDE DEF left
<1>7. /\ job'[JobOf(w)].state = "completed" /\ job'[JobOf(w)].context = job[JobOf(w)].context
      /\ \A j \in JobId \ {JobOf(w)} : job'[j] = left[j]
  BY <1>2, <1>3, <1>5, <1>6 DEF Ended, Job, left
<1>8. \A j \in JobId : JobCalm(j)
  BY <1>2, <1>4, <1>7 DEF JobCalm
<1>9. QueueKept
  BY <1>8, QueueCalm
<1>10. worker' = [worker EXCEPT ![w] = IdleWorker]
  BY DEF Finish
<1>11. worker'[w] = IdleWorker /\ \A v \in Worker \ {w} : worker'[v] = worker[v]
  BY <1>10, ThrowIdle
<1>12. \A g \in Gen : Steady(g) /\ RunPrepareKept(g)
  BY <1>1, TablesSteady
<1> QED
  BY <1>1, <1>9, <1>11, <1>12, IdleOK, HandlerStep

LEMMA EmbedStaleWhole ==
    ASSUME Inv, Whole, NEW w \in Worker, EmbedStale(w)
    PROVE  Whole'
<1>1. /\ Busy(w) /\ UNCHANGED <<doc, batch, row, api, spent>> /\ Goto(w, "finish")
  BY DEF EmbedStale, MarkStale, At, Busy
<1>2. PICK g \in Gen : g = G(w) /\ run[g] \in Run
  BY <1>1, BusyFacts
<1> DEFINE q == [run[g] EXCEPT !.status = "failed", !.embed = "failed"]
<1>3. q \in Run /\ q.revision = run[g].revision /\ q.context = run[g].context /\ q.prepare = run[g].prepare
  BY <1>2 DEF Run, RunStatus, StageStatus
<1>4. run' = run \/ (~Cancelled(g) /\ run' = [run EXCEPT ![g] = q])
  BY <1>2 DEF EmbedStale, MarkStale
<1> HIDE DEF q
<1>5. \A h \in Gen : Steady(h) /\ RunPrepareKept(h)
  BY <1>1, <1>2, <1>3, <1>4, TablesSteady, RunSteady
<1> QED
  BY <1>1, <1>5, GotoWhole DEF PlainPc

LEMMA EmbedLoadStaleWhole ==
    ASSUME Inv, Whole, NEW w \in Worker, NEW g \in Gen, NEW b \in Batch, EmbedLoadStale(w, g, b)
    PROVE  Whole'
<1> DEFINE h == [IdleWorker EXCEPT !.pc = "embedStale", !.job = EmbedJob(g, b)]
<1>1. /\ UNCHANGED <<doc, run, batch, row, api, spent>>
      /\ job[EmbedJob(g, b)].state = "waiting" /\ Take(EmbedJob(g, b))
      /\ worker' = [worker EXCEPT ![w] = h]
  BY DEF EmbedLoadStale
<1>2. EmbedJob(g, b) \in JobId /\ GenOf(EmbedJob(g, b)) = g
  BY JobIdFacts
<1>3. QueueKept
  BY <1>1, <1>2, TakeCalm
<1>4. h.pc = "embedStale" /\ h.job = EmbedJob(g, b) /\ h.next = {}
  BY DEF IdleWorker
<1> HIDE DEF h
<1>5. worker'[w] = h /\ \A v \in Worker \ {w} : worker'[v] = worker[v]
  BY <1>1 DEF Inv, QueueOK
<1>6. G(w)' = g
  BY <1>2, <1>4, <1>5 DEF G, JobOf
<1>7. HandlerOK(w)' /\ \A i \in Gen : ~Preparing(w, i)'
  BY <1>4, <1>5, <1>6, PlainOK DEF PlainPc
<1> QED
  BY <1>1, <1>3, <1>5, <1>7, TablesSteady, HandlerStep

\* What handlers do last: queue the graph job.
LEMMA GraphNextOK ==
    ASSUME Inv, NEW w \in Worker, Busy(w),
           worker' = [worker EXCEPT ![w].pc = "enqueue", ![w].next = {GraphJob(G(w))}]
    PROVE  /\ HandlerOK(w)' /\ \A g \in Gen : ~Preparing(w, g)'
           /\ \A v \in Worker \ {w} : worker'[v] = worker[v]
<1>1. worker \in [Worker -> Handler] /\ worker[w] \in Handler
  BY DEF Inv, QueueOK
<1>2. /\ worker'[w].pc = "enqueue" /\ worker'[w].next = {GraphJob(G(w))}
      /\ worker'[w].job = worker[w].job
      /\ \A v \in Worker \ {w} : worker'[v] = worker[v]
  BY <1>1 DEF Handler
<1>3. PICK g \in Gen : g = G(w)
  BY BusyFacts
<1>4. G(w)' = g
  BY <1>2, <1>3 DEF G, JobOf
<1>5. PrepareJob(g) \notin {GraphJob(g)} /\ \A b \in Batch : EmbedJob(g, b) \notin {GraphJob(g)}
  BY JobKinds DEF PrepareJob, GraphJob
<1> QED
  BY <1>2, <1>3, <1>4, <1>5, PlainOK DEF PlainPc

LEMMA EmbedReadyWhole ==
    ASSUME Inv, Whole, NEW w \in Worker, EmbedReady(w)
    PROVE  Whole'
<1>1. /\ Busy(w) /\ UNCHANGED <<doc, batch, row, job, api, spent>>
      /\ worker' = [worker EXCEPT ![w].pc = "enqueue", ![w].next = {GraphJob(G(w))}]
  BY DEF EmbedReady, At, Busy
<1>2. PICK g \in Gen : g = G(w) /\ run[g] \in Run
  BY <1>1, BusyFacts
<1> DEFINE q == [run[g] EXCEPT !.embed = "ready"]
<1>3. q \in Run /\ q.revision = run[g].revision /\ q.context = run[g].context /\ q.prepare = run[g].prepare
  BY <1>2 DEF Run, StageStatus
<1>4. run' = run \/ (~Cancelled(g) /\ run' = [run EXCEPT ![g] = q])
  BY <1>2 DEF EmbedReady
<1> HIDE DEF q
<1>5. \A h \in Gen : Steady(h) /\ RunPrepareKept(h)
  BY <1>1, <1>2, <1>3, <1>4, TablesSteady, RunSteady
<1> QED
  BY <1>1, <1>5, GraphNextOK, UnchangedCalm, HandlerStep

LEMMA ClaimBatchesWhole ==
    ASSUME Inv, Whole, NEW w \in Worker, Busy(w), NEW n, NEW lost, ClaimBatches(w, n, lost), UNCHANGED spent
    PROVE  Whole'
<1>1. PICK g \in Gen : g = G(w) /\ run[g] \in Run
  BY BusyFacts
<1> DEFINE claimed == Claimable(g, n, lost)
           ids == {EmbedJob(g, b) : b \in claimed}
<1>2. claimed \subseteq {b \in Batch : batch[g][b] = "pending"}
  BY DEF Claimable
<1>3. /\ UNCHANGED <<doc, run, row, api>>
      /\ batch' = [batch EXCEPT ![g] = [b \in Batch |-> IF b \in claimed THEN "processing" ELSE @[b]]]
  BY <1>1 DEF ClaimBatches
<1>4. \/ claimed = {} /\ Done(w)
      \/ /\ job' = job
         /\ worker' = [worker EXCEPT ![w].pc = "enqueue", ![w].next = ids,
                                     ![w].full = run[g].full, ![w].context = run[g].context]
  <2>1. CASE claimed = {}
    BY <1>1, <2>1 DEF ClaimBatches
  <2>2. CASE claimed # {}
    <3>1. Claimable(G(w), n, lost) # {}
      BY <1>1, <2>2
    <3>2. /\ job' = job
          /\ worker' = [worker EXCEPT ![w].pc = "enqueue",
                           ![w].next = {EmbedJob(G(w), b) : b \in Claimable(G(w), n, lost)},
                           ![w].full = run[G(w)].full, ![w].context = run[G(w)].context]
      BY <3>1 DEF ClaimBatches
    <3> QED
      BY <1>1, <3>2
  <2> QED
    BY <2>1, <2>2
<1> HIDE DEF claimed
<1>5. \A h \in Gen, b \in Batch : \/ batch'[h][b] = batch[h][b]
                                  \/ h = g /\ b \in claimed /\ batch'[h][b] = "processing"
  BY <1>3 DEF Inv, TablesOK
<1>6. \A b \in claimed : b \in Batch /\ batch'[g][b] # "none"
  BY <1>2, <1>3, <1>5 DEF Inv, TablesOK
<1>7. \A h \in Gen : Steady(h) /\ RunPrepareKept(h)
  BY <1>2, <1>3, <1>5 DEF Steady, RunPrepareKept, Exists, Cancelled, Rev
<1>8. \A h \in Gen, b \in Batch : batch'[h][b] = "ready" => batch[h][b] = "ready"
  BY <1>5
<1>9. CASE claimed = {} /\ Done(w)
  <2>1. worker'[w] = IdleWorker /\ \A v \in Worker \ {w} : worker'[v] = worker[v]
    BY <1>9, ThrowIdle
  <2>2. QueueKept
    <3>1. JobOf(w) \in JobId /\ job[JobOf(w)].state = "active"
      BY BusyFacts
    <3> QED
      BY <1>9, <3>1, EndedCalm DEF Done
  <2> QED
    BY <1>3, <1>7, <1>8, <2>1, <2>2, IdleOK, HandlerStep
<1>10. CASE ~(claimed = {} /\ Done(w))
  <2>1. worker \in [Worker -> Handler] /\ worker[w] \in Handler
    BY DEF Inv, QueueOK
  <2>2. \A i \in ids : \E b \in claimed : i = EmbedJob(g, b)
    OBVIOUS
  <2> HIDE DEF ids
  <2>3. /\ worker'[w].pc = "enqueue" /\ worker'[w].next = ids /\ worker'[w].context = run[g].context
        /\ worker'[w].job = worker[w].job
        /\ \A v \in Worker \ {w} : worker'[v] = worker[v]
    BY <1>4, <1>10, <2>1 DEF Handler
  <2>4. G(w)' = g
    BY <1>1, <2>3 DEF G, JobOf
  <2>5. PrepareJob(g) \notin ids
    BY <1>6, <2>2, JobKinds
  <2>6. \A b \in Batch : EmbedJob(g, b) \in ids => batch'[g][b] # "none"
    BY <1>6, <2>2, JobKinds
  <2>7. HandlerOK(w)' /\ \A h \in Gen : ~Preparing(w, h)'
    BY <1>3, <2>3, <2>4, <2>5, <2>6, PlainOK DEF PlainPc
  <2>8. QueueKept
    BY <1>4, <1>10, UnchangedCalm
  <2> QED
    BY <1>3, <1>7, <1>8, <2>3, <2>7, <2>8, HandlerStep
<1> QED
  BY <1>9, <1>10

LEMMA EnqueueWhole ==
    ASSUME Inv, Whole, NEW w \in Worker, Enqueue(w)
    PROVE  Whole'
<1>1. /\ Busy(w) /\ UNCHANGED <<doc, run, batch, row, api, spent>>
  BY DEF Enqueue, At, Busy
<1>2. PICK g \in Gen : g = G(w) /\ worker \in [Worker -> Handler] /\ worker[w] \in Handler
  BY <1>1, BusyFacts DEF Inv, QueueOK
<1>3. PICK j \in worker[w].next :
        /\ job' = IF Cancelled(G(w)) THEN job
                  ELSE Add(job, [i \in {j} |-> Queued(worker[w].full, worker[w].context)])
        /\ worker' = [worker EXCEPT
              ![w].next = @ \ {j},
              ![w].added = IF Cancelled(G(w)) THEN @ ELSE @ \cup {j},
              ![w].pc = IF worker[w].next = {j} THEN "finish" ELSE "enqueue"]
  BY DEF Enqueue
<1>4. HandlerKind(w) /\ HandlerNext(w)
  BY DEF Whole, HandlerOK
<1>5. GenOf(j) = g /\ j # PrepareJob(g)
  BY <1>1, <1>2, <1>4 DEF Inv, QueueOK, OwnsJob, HandlerKind
<1>6. \A i \in JobId : \/ job'[i] = job[i]
                        \/ (i = j /\ job[i].state = "none" /\ job'[i].context = worker[w].context)
  BY <1>3 DEF Add, Queued
<1>7. QueueKept
  <2> SUFFICES ASSUME NEW h \in Gen
               PROVE  EmbedKept(h) /\ job'[PrepareJob(h)] = job[PrepareJob(h)]
    BY DEF QueueKept
  <2>1. PrepareJob(h) # j /\ PrepareJob(h) \in JobId
    BY <1>5, JobIdFacts
  <2>2. ASSUME NEW b \in Batch
        PROVE  \/ job'[EmbedJob(h, b)] = job[EmbedJob(h, b)]
               \/ batch[h][b] # "none" /\ job'[EmbedJob(h, b)].context = run[h].context
    <3>1. EmbedJob(h, b) \in JobId /\ (EmbedJob(h, b) = j => h = g)
      BY <1>5, JobIdFacts
    <3>2. EmbedJob(h, b) = j => batch[h][b] # "none" /\ worker[w].context = run[h].context
      BY <1>1, <1>2, <1>4, <3>1 DEF HandlerNext
    <3> QED
      BY <1>6, <3>1, <3>2
  <2> QED
    BY <1>6, <2>1, <2>2 DEF EmbedKept
<1>8. /\ worker'[w].pc \in PlainPc /\ worker'[w].next \subseteq worker[w].next
      /\ worker'[w].context = worker[w].context /\ worker'[w].job = worker[w].job
      /\ \A v \in Worker \ {w} : worker'[v] = worker[v]
  BY <1>2, <1>3 DEF Handler, PlainPc
<1>9. G(w)' = g
  BY <1>2, <1>8 DEF G, JobOf
<1>10. HandlerOK(w)' /\ \A h \in Gen : ~Preparing(w, h)'
  <2>1. /\ PrepareJob(g) \notin worker'[w].next
        /\ \A b \in Batch : EmbedJob(g, b) \in worker'[w].next =>
               batch'[g][b] # "none" /\ worker'[w].context = run'[g].context
    BY <1>1, <1>2, <1>4, <1>8 DEF HandlerKind, HandlerNext
  <2> QED
    BY <1>8, <1>9, <2>1, PlainOK
<1> QED
  BY <1>1, <1>7, <1>8, <1>10, TablesSteady, HandlerStep

\* A reused row is a row of the chunk's text, under the context that still holds.
LEMMA ReusableRow ==
    ASSUME Inv, ActiveWhole, NEW r \in Revision, NEW full, NEW c \in Reusable(r, full)
    PROVE  /\ c \in Chunks(r) /\ doc.active # None
           /\ row[doc.active][c].text = TextOf[r][c] /\ row[doc.active][c].context = doc.context
<1> DEFINE same(d) == /\ doc.active # None
                      /\ row[doc.active][d] # None
                      /\ row[doc.active][d].text = TextOf[r][d]
                      /\ row[doc.active][d].profile = Primary
           changed == {d \in Chunks(r) : ~same(d)}
<1>1. ~(full \/ doc.activeContext # doc.context)
  BY DEF Reusable
<1>2. c \in Chunks(r) /\ {c - 1, c, c + 1} \cap changed = {}
  BY <1>1 DEF Reusable
<1>3. same(c)
  BY <1>2
<1>4. c \in Chunk
  BY <1>2, ChunkText
<1>5. PICK p \in Profile : row[doc.active] = CompleteRows(Rev(doc.active), doc.activeContext, p)
  BY <1>3 DEF ActiveWhole
<1>6. row[doc.active][c].context = doc.activeContext
  BY <1>3, <1>4, <1>5 DEF CompleteRows
<1> QED
  BY <1>1, <1>2, <1>3, <1>6

LEMMA PrepareLoadWhole ==
    ASSUME Inv, Whole, NEW w \in Worker, NEW g \in Gen, PrepareLoad(w, g)
    PROVE  Whole'
<1> DEFINE j == PrepareJob(g)
           reuse == Reusable(run[g].revision, job[j].full)
           rows == [c \in Chunk |-> IF c \in reuse THEN row[doc.active][c] ELSE None]
           stale == [IdleWorker EXCEPT !.pc = "prepareStale", !.job = j]
           fresh == [IdleWorker EXCEPT !.pc = "prepareRun", !.job = j, !.context = doc.context,
                                       !.rows = rows]
<1>1. j \in JobId /\ GenOf(j) = g
  BY JobIdFacts
<1>2. /\ job[j].state = "waiting" /\ ~Cancelled(g) /\ Take(j)
      /\ UNCHANGED <<doc, run, batch, row, api, spent>>
      /\ worker' = [worker EXCEPT ![w] = stale] \/ worker' = [worker EXCEPT ![w] = fresh]
  BY DEF PrepareLoad
<1>3. run[g] \in Run /\ doc.context \in Context
  <2> HIDE DEF j
  <2> QED
    BY <1>1, <1>2, WaitingFacts DEF Inv, TablesOK, Document
<1>4. Sound(rows, run[g].revision, doc.context)
  <2>1. run[g].revision \in Revision
    BY <1>3 DEF Run
  <2>2. \A c \in reuse : /\ c \in Chunks(run[g].revision)
                         /\ row[doc.active][c].text = TextOf[run[g].revision][c]
                         /\ row[doc.active][c].context = doc.context
    BY <2>1, ReusableRow DEF Whole
  <2> HIDE DEF reuse
  <2> QED
    BY <2>2 DEF Sound
<1>5. QueueKept
  BY <1>1, <1>2, TakeCalm
<1>6. PrepareOpen(g)
  BY <1>2 DEF PrepareOpen
<1> HIDE DEF j, rows
<1>7. /\ stale.pc = "prepareStale" /\ stale.job = j /\ stale.next = {}
      /\ fresh.pc = "prepareRun" /\ fresh.job = j /\ fresh.next = {}
      /\ fresh.context = doc.context /\ fresh.rows = rows
  BY DEF IdleWorker
<1> HIDE DEF stale, fresh
<1>8. /\ worker'[w] \in {stale, fresh}
      /\ \A v \in Worker \ {w} : worker'[v] = worker[v]
  BY <1>2 DEF Inv, QueueOK
<1>9. JobOf(w)' = j /\ G(w)' = g /\ worker'[w].next = {}
  BY <1>1, <1>7, <1>8 DEF G, JobOf
<1>10. HandlerOK(w)'
  <2>1. HandlerKind(w)'
    BY <1>7, <1>8, <1>9 DEF HandlerKind, j
  <2>2. HandlerNext(w)'
    BY <1>9 DEF HandlerNext
  <2>3. HandlerData(w)'
    BY <1>2, <1>3, <1>4, <1>7, <1>8, <1>9 DEF HandlerData, At, Rev, Sound
  <2>4. HandlerFills(w)'
    BY <1>7, <1>8 DEF HandlerFills, At
  <2> QED
    BY <2>1, <2>2, <2>3, <2>4 DEF HandlerOK
<1>11. \A h \in Gen : Preparing(w, h)' => PrepareOpen(h)
  BY <1>6, <1>9 DEF Preparing
<1> QED
  BY <1>2, <1>5, <1>8, <1>10, <1>11, TablesSteady, HandlerStep

LEMMA PrepareRepeatedWhole ==
    ASSUME Inv, Whole, NEW w \in Worker, PrepareRepeated(w)
    PROVE  Whole'
<1>1. /\ Busy(w) /\ At(w, "prepareRun") /\ UNCHANGED <<doc, run, batch, row, api, spent>>
      /\ Done(w) \/ Goto(w, "prepareStale")
  BY DEF PrepareRepeated, At, Busy
<1>2. CASE Done(w)
  BY <1>1, <1>2, DoneWhole
<1>3. CASE Goto(w, "prepareStale")
  <2>1. PICK g \in Gen : g = G(w)
    BY <1>1, BusyFacts
  <2>2. /\ JobOf(w)' = JobOf(w) /\ G(w)' = g /\ worker'[w].pc = "prepareStale"
        /\ worker'[w].next = worker[w].next /\ worker'[w].context = worker[w].context
        /\ \A v \in Worker \ {w} : worker'[v] = worker[v]
    BY <1>3, <2>1, GotoWorker
  <2>3. HandlerKind(w) /\ HandlerNext(w)
    BY DEF Whole, HandlerOK
  <2>4. HandlerKind(w)' /\ HandlerNext(w)'
    BY <1>1, <2>1, <2>2, <2>3 DEF HandlerKind, HandlerNext, At, Busy
  <2>5. HandlerData(w)' /\ HandlerFills(w)'
    BY <2>2 DEF HandlerData, HandlerFills, At
  <2>6. \A h \in Gen : Preparing(w, h)' => PrepareOpen(h)
    BY <1>1, <2>1, <2>2 DEF Preparing, PrepareOpen, At
  <2>7. QueueKept
    BY <1>3, UnchangedCalm DEF Goto
  <2> QED
    BY <1>1, <2>2, <2>4, <2>5, <2>6, <2>7, TablesSteady, HandlerStep DEF HandlerOK
<1> QED
  BY <1>1, <1>2, <1>3

LEMMA EmbedLoadWhole ==
    ASSUME Inv, Whole, NEW w \in Worker, NEW g \in Gen, NEW b \in Batch, NEW p \in Profile,
           EmbedLoad(w, g, b, p)
    PROVE  Whole'
<1> DEFINE j == EmbedJob(g, b)
           r == run[g].revision
           candidates == IF job[j].full THEN {} ELSE Stored(row[g])
           selected == ChunksIn(r, b) \ candidates
           fetch == batch[g][b] # "ready" /\ selected # {}
           rows == [c \in Chunk |-> IF fetch /\ c \in selected
                      THEN [text |-> TextOf[r][c], context |-> doc.context, profile |-> p]
                      ELSE None]
           h == [IdleWorker EXCEPT !.pc = IF fetch THEN "storeBatch" ELSE "completeBatch",
                                   !.job = j, !.context = job[j].context, !.profile = p,
                                   !.rows = rows]
<1>1. j \in JobId /\ GenOf(j) = g /\ BatchIn(j) = b
  BY JobIdFacts, JobKinds
<1>2. /\ job[j].state = "waiting" /\ ~Cancelled(g) /\ Take(j) /\ ~EmbedIsStale(g, b)
      /\ UNCHANGED <<doc, run, batch, row, api, spent>>
      /\ worker' = [worker EXCEPT ![w] = h]
  BY DEF EmbedLoad
<1>3. run[g] \in Run /\ doc.context \in Context
  <2> HIDE DEF j
  <2> QED
    BY <1>1, <1>2, WaitingFacts DEF Inv, TablesOK, Document
<1>4. job[j].context = run[g].context /\ doc.context = run[g].context
  BY <1>2 DEF EmbedIsStale, Whole, GenOK, JobContext
<1>5. \A c \in ChunksIn(r, b) : c \in Chunks(r) /\ c \in Chunk /\ TextOf[r][c] \in Text
  BY <1>3, ChunkText DEF ChunksIn, Run
<1>6. candidates \subseteq Stored(row[g])
  OBVIOUS
<1>7. Sound(rows, r, run[g].context)
  <2> HIDE DEF r, candidates
  <2> QED
    BY <1>4, <1>5 DEF Sound
<1>8. fetch => \A c \in ChunksIn(r, b) : rows[c] # None \/ row[g][c] # None
  <2>1. \A c \in ChunksIn(r, b) : [text |-> TextOf[r][c], context |-> doc.context, profile |-> p] # None
    BY <1>3, <1>5, NoneAssumption DEF Row
  <2> HIDE DEF r, candidates
  <2> QED
    BY <1>5, <1>6, <2>1 DEF Stored
<1>9. doc.pending = g /\ ~fetch => StoredIn(row[g], r, b)
  <2>1. batch[g][b] = "ready" /\ doc.pending = g => StoredIn(row[g], r, b)
    BY <1>2 DEF Whole, GenOK, Filling, Rev
  <2>2. selected = {} => StoredIn(row[g], r, b)
    <3> HIDE DEF r, candidates
    <3> QED
      BY <1>6 DEF Stored, StoredIn
  <2> QED
    BY <2>1, <2>2
<1>10. QueueKept
  <2> HIDE DEF j
  <2> QED
    BY <1>1, <1>2, TakeCalm
<1> HIDE DEF rows, fetch, r
<1>11. /\ h.pc \in {"storeBatch", "completeBatch"} /\ (h.pc = "storeBatch" <=> fetch)
       /\ h.job = j /\ h.next = {} /\ h.context = job[j].context /\ h.profile = p /\ h.rows = rows
  <2> HIDE DEF j
  <2> QED
    BY DEF IdleWorker
<1>12. worker'[w] = h /\ \A v \in Worker \ {w} : worker'[v] = worker[v]
  <2> HIDE DEF h
  <2> QED
    BY <1>2 DEF Inv, QueueOK
<1> HIDE DEF h
<1>13. JobOf(w)' = j /\ G(w)' = g /\ worker'[w].next = {} /\ BatchIn(JobOf(w))' = b
  BY <1>1, <1>11, <1>12 DEF G, JobOf, BatchIn
<1>14. HandlerOK(w)'
  <2>1. HandlerKind(w)'
    BY <1>11, <1>12, <1>13 DEF HandlerKind, j
  <2>2. HandlerNext(w)'
    BY <1>13 DEF HandlerNext
  <2>3. HandlerData(w)'
    BY <1>2, <1>4, <1>7, <1>11, <1>12, <1>13 DEF HandlerData, At, Rev, Sound, r
  <2>4. HandlerFills(w)'
    BY <1>2, <1>8, <1>9, <1>11, <1>12, <1>13 DEF HandlerFills, At, Rev, StoredIn, ChunksIn, r
  <2> QED
    BY <2>1, <2>2, <2>3, <2>4 DEF HandlerOK
<1>15. \A i \in Gen : ~Preparing(w, i)'
  BY <1>11, <1>12 DEF Preparing
<1> QED
  BY <1>2, <1>10, <1>12, <1>14, <1>15, TablesSteady, HandlerStep

-----------------------------------------------------------------------------
\* A handler with an embed job has a generation that was written.
LEMMA EmbedHolder ==
    ASSUME Inv, Whole, NEW w \in Worker, NEW g \in Gen, G(w) = g,
           worker[w].pc \in {"storeBatch", "completeBatch", "activate"}
    PROVE  ~Fresh(g) /\ Busy(w) /\ \E b \in Batch : JobOf(w) = EmbedJob(g, b)
<1>1. Busy(w)
  BY DEF Busy
<1>2. job[JobOf(w)].state = "active"
  BY <1>1, BusyFacts
<1>3. PICK b \in Batch : JobOf(w) = EmbedJob(g, b)
  BY DEF Whole, HandlerOK, HandlerKind
<1> QED
  BY <1>1, <1>2, <1>3 DEF Fresh

\* A handler in the prepare stage of a generation is there alone.
LEMMA PrepareHolder ==
    ASSUME Inv, Whole, NEW w \in Worker, NEW g \in Gen, G(w) = g,
           worker[w].pc \in {"prepareStale", "prepareRun", "completeEmpty"}
    PROVE  /\ Busy(w) /\ Exists(g) /\ job[PrepareJob(g)].state = "active"
           /\ \A v \in Worker \ {w} :
                ~(worker[v].pc \in {"prepareStale", "prepareRun", "completeEmpty"} /\ G(v) = g)
           /\ \A c \in Client : ~Adding(c, g)
<1>1. Busy(w)
  BY DEF Busy
<1>2. job[JobOf(w)].state = "active" /\ Exists(g)
  BY <1>1, BusyFacts
<1>3. \A v \in Worker : worker[v].pc \in {"prepareStale", "prepareRun", "completeEmpty"} /\ G(v) = g =>
        JobOf(v) = PrepareJob(g) /\ Busy(v)
  BY DEF Whole, HandlerOK, HandlerKind, Busy
<1>4. \A v \in Worker : Busy(v) /\ JobOf(v) = JobOf(w) => v = w
  BY <1>1 DEF Inv, QueueOK, OwnsAlone
<1>5. \A c \in Client : ~Adding(c, g)
  BY <1>2, <1>3 DEF Whole, GenOK, Once
<1> QED
  BY <1>1, <1>2, <1>3, <1>4, <1>5

\* After the last prepare handler of a generation has gone on, its stage is closed.
LEMMA PrepareCloses ==
    ASSUME Inv, Whole, NEW w \in Worker, NEW g \in Gen, G(w) = g,
           worker[w].pc \in {"prepareStale", "prepareRun", "completeEmpty"},
           ~Preparing(w, g)', \A v \in Worker \ {w} : worker'[v] = worker[v], UNCHANGED <<job, api>>
    PROVE  ~PrepareOpen(g)' /\ \A c \in Client : ~Adding(c, g)'
<1>1. /\ job[PrepareJob(g)].state = "active"
      /\ \A v \in Worker \ {w} : ~Preparing(v, g)
      /\ \A c \in Client : ~Adding(c, g)
  BY PrepareHolder DEF Preparing
<1>2. \A v \in Worker \ {w} : ~Preparing(v, g)'
  BY <1>1 DEF Preparing, G, JobOf
<1>3. \A c \in Client : ~Adding(c, g)'
  BY <1>1 DEF Adding
<1> QED
  BY <1>1, <1>2, <1>3 DEF PrepareOpen

\* The other generations, when a handler of g writes to its own.
LEMMA OtherGen ==
    ASSUME Inv, Whole, NEW w \in Worker, NEW g \in Gen, g # G(w), UNCHANGED <<api, spent>>, QueueKept,
           Steady(g), RunPrepareKept(g), doc'.active = g => doc.active = g,
           row'[g] = row[g] \/ row'[g] = NoRows,
           doc'.pending = g => doc.pending = g /\ row'[g] = row[g],
           \A b \in Batch : ~Cancelled(g)' /\ batch'[g][b] = "ready" => batch[g][b] = "ready",
           \A v \in Worker \ {w} : worker'[v] = worker[v], ~Preparing(w, g)'
    PROVE  GenOK(g)'
<1>1. Faults' = Faults /\ Faults \in Nat
  BY FaultsCount DEF Faults
<1>2. EmbedKept(g) /\ GenOK(g)
  BY DEF QueueKept, Whole
<1>3. Fresh(g) => Fresh(g)'
  BY <1>2, FreshStays
<1>4. \A v \in Worker : Preparing(v, g)' => PrepareOpen(g)
  <2> SUFFICES ASSUME NEW v \in Worker, v # w
               PROVE  Preparing(v, g)' => PrepareOpen(g)
    OBVIOUS
  <2>1. worker'[v] = worker[v]
    OBVIOUS
  <2> QED
    BY <2>1 DEF Preparing, PrepareOpen, G, JobOf
<1>5. PrepareKept(g)
  BY <1>4, PrepareStays DEF QueueKept
<1>6. Once(g)' /\ JobContext(g)' /\ Filling(g)'
  BY <1>1, <1>2, <1>3, <1>5, OnceStays, JobContextStays, FillingStays DEF GenOK
<1> QED
  BY <1>6 DEF GenOK

LEMMA PrepareStaleWhole ==
    ASSUME Inv, Whole, NEW w \in Worker, PrepareStale(w)
    PROVE  Whole'
<1>1. /\ Busy(w) /\ At(w, "prepareStale") /\ UNCHANGED <<doc, batch, row, api, spent>>
      /\ Goto(w, "finish") /\ job' = job
  BY DEF PrepareStale, MarkStale, Goto, At, Busy
<1>2. PICK g \in Gen : g = G(w) /\ run[g] \in Run
  BY <1>1, BusyFacts
<1> DEFINE q == [run[g] EXCEPT !.status = "failed", !.prepare = "failed"]
<1>3. q \in Run /\ q.revision = run[g].revision /\ q.context = run[g].context /\ q.status = "failed"
  BY <1>2 DEF Run, RunStatus, StageStatus
<1>4. run' = run \/ (~Cancelled(g) /\ run' = [run EXCEPT ![g] = q])
  BY <1>2 DEF PrepareStale, MarkStale
<1> HIDE DEF q
<1>5. CASE run' = run
  BY <1>1, <1>5, TablesSteady, GotoWhole DEF PlainPc
<1>6. CASE ~Cancelled(g) /\ run' = [run EXCEPT ![g] = q]
  <2>1. run'[g] = q /\ \A h \in Gen \ {g} : run'[h] = run[h]
    BY <1>6 DEF Inv, TablesOK
  <2>2. q # None /\ run[g] # None
    BY <1>2, <1>3, NoneGenAssumption
  <2>3. Steady(g)
    BY <1>1, <1>3, <1>6, <2>1, <2>2 DEF Steady, Exists, Cancelled, Rev
  <2>4. \A h \in Gen \ {g} : Steady(h) /\ RunPrepareKept(h)
    BY <1>1, <2>1 DEF Steady, RunPrepareKept, Exists, Cancelled, Rev
  <2>5. QueueKept
    BY <1>1, UnchangedCalm
  <2>6. /\ HandlerOK(w)' /\ \A h \in Gen : ~Preparing(w, h)'
        /\ \A v \in Worker \ {w} : worker'[v] = worker[v]
    BY <1>1, <2>3, <2>4, GotoPlain, GotoWorker DEF PlainPc
  <2>7. Faults' = Faults /\ Faults \in Nat
    BY <1>1, FaultsCount DEF Faults
  <2>8. ~PrepareOpen(g)' /\ \A c \in Client : ~Adding(c, g)'
    BY <1>1, <1>2, <2>6, PrepareCloses DEF At
  <2>9. Fresh(g) => Fresh(g)'
    BY <1>1, <2>3, <2>5, FreshStays DEF QueueKept
  <2>10. Once(g)'
    <3>1. Faults = 0 => Fresh(g)
      BY <1>1, <1>2 DEF Whole, GenOK, Once, PrepareOpen, Preparing, At
    <3>2. Exists(g)'
      BY <2>1, <2>2 DEF Exists
    <3> QED
      BY <2>7, <2>8, <2>9, <3>1, <3>2 DEF Once
  <2>11. GenOK(g)'
    <3>1. JobContext(g)'
      BY <2>3, <2>5, JobContextStays DEF Whole, GenOK, QueueKept
    <3>2. Filling(g)'
      BY <1>1, <2>3, FillingStays DEF Whole, GenOK
    <3> QED
      BY <2>10, <3>1, <3>2 DEF GenOK
  <2>12. \A h \in Gen \ {g} : GenOK(h)'
    BY <1>1, <1>2, <2>4, <2>5, <2>6, OtherGen
  <2>13. ASSUME NEW v \in Worker \ {w}
         PROVE  HandlerOK(v)'
    <3>1. HandlerOK(v) /\ worker'[v] = worker[v]
      BY <2>6 DEF Whole
    <3>2. At(v, "completeEmpty") => G(v) # g
      BY <1>1, <1>2, PrepareHolder DEF At
    <3>3. \A h \in Gen : RowsGrow(h)
      BY <1>1 DEF RowsGrow
    <3> QED
      BY <1>1, <2>3, <2>4, <2>7, <3>1, <3>2, <3>3, HandlerStays DEF RunPrepareKept
  <2>14. ActiveWhole'
    BY <1>1, <2>3, <2>4, ActiveStays DEF Whole
  <2> QED
    BY <2>6, <2>11, <2>12, <2>13, <2>14 DEF Whole
<1> QED
  BY <1>4, <1>5, <1>6

LEMMA StoreBatchWhole ==
    ASSUME Inv, Whole, NEW w \in Worker, StoreBatch(w)
    PROVE  Whole'
<1>1. /\ At(w, "storeBatch") /\ Busy(w) /\ UNCHANGED <<doc, run, batch, api, spent>> /\ job' = job
  BY DEF StoreBatch, Goto, At, Busy
<1>2. PICK g \in Gen : g = G(w) /\ run[g] \in Run /\ worker[w] \in Handler
  BY <1>1, BusyFacts
<1>3. PICK b \in Batch : JobOf(w) = EmbedJob(g, b)
  BY <1>1, <1>2, EmbedHolder DEF At
<1>4. BatchIn(JobOf(w)) = b /\ ~Fresh(g)
  BY <1>1, <1>2, <1>3, JobKinds, EmbedHolder DEF At
<1>5. \A h \in Gen : Steady(h) /\ RunPrepareKept(h)
  BY <1>1, TablesSteady
<1> DEFINE rows == [c \in Chunk |-> IF worker[w].rows[c] # None THEN worker[w].rows[c] ELSE row[g][c]]
<1>6. CASE Goto(w, "embedStale") /\ row' = row
  BY <1>1, <1>5, <1>6, GotoWhole DEF PlainPc
<1>7. CASE /\ ~Cancelled(g) /\ batch[g][b] # "none" /\ Goto(w, "completeBatch")
           /\ \/ batch[g][b] = "ready" /\ row' = row
              \/ batch[g][b] # "ready" /\ row' = [row EXCEPT ![g] = rows]
  <2>1. /\ \A h \in Gen \ {g} : row'[h] = row[h]
        /\ \/ batch[g][b] = "ready" /\ row' = row
           \/ batch[g][b] # "ready" /\ row'[g] = rows
    BY <1>7 DEF Inv, TablesOK
  <2>2. RowsGrow(g)
    BY <2>1, NoneAssumption DEF RowsGrow
  <2>3. /\ worker'[w].pc = "completeBatch" /\ worker'[w].next = worker[w].next
        /\ worker'[w].context = worker[w].context /\ worker'[w].profile = worker[w].profile
        /\ JobOf(w)' = JobOf(w) /\ G(w)' = g
        /\ \A v \in Worker \ {w} : worker'[v] = worker[v]
    BY <1>2, <1>7, GotoWorker
  <2>4. QueueKept
    BY <1>1, UnchangedCalm
  <2>5. Faults' = Faults /\ Faults \in Nat
    BY <1>1, FaultsCount DEF Faults
  <2>6. GenOK(g) /\ HandlerOK(w)
    BY DEF Whole
  <2>7. doc.pending = g =>
          /\ Sound(row'[g], run[g].revision, run[g].context)
          /\ StoredIn(row'[g], run[g].revision, b)
    <3> SUFFICES ASSUME doc.pending = g
                 PROVE  /\ Sound(row'[g], run[g].revision, run[g].context)
                        /\ StoredIn(row'[g], run[g].revision, b)
      OBVIOUS
    <3>1. /\ Sound(row[g], run[g].revision, run[g].context)
          /\ batch[g][b] = "ready" => StoredIn(row[g], run[g].revision, b)
      BY <1>7, <2>6 DEF GenOK, Filling, Rev
    <3>2. Sound(worker[w].rows, run[g].revision, run[g].context)
      BY <1>1, <1>2, <2>6 DEF HandlerOK, HandlerData, Rev
    <3>3. \A c \in ChunksIn(run[g].revision, b) : worker[w].rows[c] # None \/ row[g][c] # None
      BY <1>1, <1>2, <1>4, <1>7, <2>6 DEF HandlerOK, HandlerFills, Rev
    <3>4. \A c \in ChunksIn(run[g].revision, b) : c \in Chunk
      BY <1>2, ChunkText DEF ChunksIn, Run
    <3>5. CASE row' = row /\ batch[g][b] = "ready"
      BY <3>1, <3>5
    <3>6. CASE row'[g] = rows
      BY <3>1, <3>2, <3>3, <3>4, <3>6 DEF Sound, StoredIn
    <3> QED
      BY <2>1, <3>5, <3>6
  <2>8. Once(g)'
    <3>1. \A v \in Worker : Preparing(v, g)' => PrepareOpen(g)
      <4>1. \A v \in Worker \ {w} : Preparing(v, g)' => Preparing(v, g)
        BY <2>3 DEF Preparing, G, JobOf
      <4>2. ~Preparing(w, g)'
        BY <2>3 DEF Preparing
      <4> QED
        BY <4>1, <4>2 DEF PrepareOpen
    <3>2. PrepareKept(g)
      BY <1>1, <1>5, <2>4, <3>1, PrepareStays DEF QueueKept
    <3> QED
      BY <1>1, <1>4, <1>5, <2>5, <2>6, <3>2, OnceStays DEF GenOK
  <2>9. JobContext(g)'
    BY <1>5, <2>4, <2>6, JobContextStays DEF GenOK, QueueKept
  <2>10. Filling(g)'
    <3> SUFFICES ASSUME doc.pending = g
                 PROVE  /\ run[g].context \in Context
                        /\ Sound(row'[g], run[g].revision, run[g].context)
                        /\ \A d \in Batch :
                            /\ batch[g][d] # "none" <=> d \in BatchesOf(run[g].revision)
                            /\ batch[g][d] = "ready" => StoredIn(row'[g], run[g].revision, d)
      BY <1>1 DEF Filling, Rev, Sound, StoredIn
    <3>1. /\ run[g].context \in Context
          /\ \A d \in Batch :
              /\ batch[g][d] # "none" <=> d \in BatchesOf(run[g].revision)
              /\ batch[g][d] = "ready" => StoredIn(row[g], run[g].revision, d)
      BY <1>7, <2>6 DEF GenOK, Filling, Rev
    <3>2. \A d \in Batch : \A c \in ChunksIn(run[g].revision, d) : c \in Chunk
      BY <1>2, ChunkText DEF ChunksIn, Run
    <3>3. \A d \in Batch : StoredIn(row[g], run[g].revision, d) => StoredIn(row'[g], run[g].revision, d)
      BY <2>2, <3>2 DEF StoredIn, RowsGrow
    <3> QED
      BY <2>7, <3>1, <3>3
  <2>11. \A h \in Gen \ {g} : GenOK(h)'
    <3>1. \A h \in Gen : ~Preparing(w, h)'
      BY <2>3 DEF Preparing
    <3> QED
      BY <1>1, <1>2, <1>5, <2>1, <2>3, <2>4, <3>1, OtherGen
  <2>12. HandlerOK(w)'
    <3>1. HandlerKind(w)'
      BY <1>2, <1>3, <2>3, <2>6, <1>1 DEF HandlerOK, HandlerKind, Busy, At
    <3>2. HandlerNext(w)'
      BY <1>1, <1>2, <2>3, <2>6 DEF HandlerOK, HandlerNext
    <3>3. HandlerData(w)'
      BY <1>1, <1>2, <2>3, <2>6 DEF HandlerOK, HandlerData, At
    <3>4. HandlerFills(w)'
      BY <1>1, <1>2, <1>4, <2>3, <2>7 DEF HandlerFills, At, Rev, StoredIn
    <3> QED
      BY <3>1, <3>2, <3>3, <3>4 DEF HandlerOK
  <2>13. ASSUME NEW v \in Worker \ {w}
         PROVE  HandlerOK(v)'
    <3>1. HandlerOK(v) /\ worker'[v] = worker[v]
      BY <2>3 DEF Whole
    <3>2. \A h \in Gen : RowsGrow(h)
      BY <2>1, <2>2 DEF RowsGrow
    <3> QED
      BY <1>1, <1>5, <2>5, <3>1, <3>2, HandlerStays DEF RunPrepareKept
  <2>14. ActiveWhole'
    <3>1. doc.active = g => row'[g] = row[g]
      BY <1>2, <1>7, <2>1, NoneGenAssumption DEF Whole, ActiveWhole
    <3> QED
      BY <1>1, <1>5, <2>1, <3>1, ActiveStays DEF Whole
  <2> QED
    BY <2>8, <2>9, <2>10, <2>11, <2>12, <2>13, <2>14 DEF Whole, GenOK
<1> QED
  <2>1. CASE Cancelled(g) \/ batch[g][b] = "none"
    <3>1. Goto(w, "embedStale") /\ row' = row
      BY <1>2, <1>4, <2>1 DEF StoreBatch
    <3> QED
      BY <1>6, <3>1
  <2>2. CASE ~(Cancelled(g) \/ batch[g][b] = "none")
    <3>1. /\ Goto(w, "completeBatch")
          /\ row' = IF batch[g][b] = "ready" THEN row
                    ELSE [row EXCEPT ![g] = [c \in Chunk |->
                            IF worker[w].rows[c] # None THEN worker[w].rows[c] ELSE @[c]]]
      BY <1>2, <1>4, <2>2 DEF StoreBatch
    <3>2. batch[g][b] # "ready" => row' = [row EXCEPT ![g] = rows]
      BY <3>1 DEF Inv, TablesOK
    <3> QED
      BY <1>7, <2>2, <3>1, <3>2
  <2> QED
    BY <2>1, <2>2

LEMMA CompleteBatchWhole ==
    ASSUME Inv, Whole, NEW w \in Worker, CompleteBatch(w)
    PROVE  Whole'
<1>1. /\ At(w, "completeBatch") /\ Busy(w) /\ UNCHANGED <<doc, row, api, spent>>
  BY DEF CompleteBatch, At, Busy
<1>2. PICK g \in Gen : g = G(w) /\ run[g] \in Run /\ worker[w] \in Handler
  BY <1>1, BusyFacts
<1>3. PICK b \in Batch : JobOf(w) = EmbedJob(g, b)
  BY <1>1, <1>2, EmbedHolder DEF At
<1>4. BatchIn(JobOf(w)) = b /\ ~Fresh(g)
  BY <1>1, <1>2, <1>3, JobKinds, EmbedHolder DEF At
<1>5. CASE Cancelled(g)
  <2>1. Goto(w, "claimNext") /\ UNCHANGED <<run, batch>>
    BY <1>2, <1>5 DEF CompleteBatch
  <2> QED
    BY <1>1, <2>1, TablesSteady, GotoWhole DEF PlainPc
<1>6. CASE ~Cancelled(g)
  <2> DEFINE now == [batch[g] EXCEPT ![b] = IF @ = "none" THEN "none" ELSE "ready"]
             all == \A x \in Batch : now[x] \in {"none", "ready"}
             q == [run[g] EXCEPT !.embed = IF all THEN "ready" ELSE "processing"]
  <2>1. /\ batch' = [batch EXCEPT ![g] = now] /\ run' = [run EXCEPT ![g] = q] /\ job' = job
        /\ worker' = [worker EXCEPT ![w].pc = IF all THEN "activate" ELSE "claimNext",
                                    ![w].total = Cardinality(Stored(row[g]))]
    BY <1>2, <1>4, <1>6 DEF CompleteBatch
  <2>2. q \in Run /\ q.revision = run[g].revision /\ q.context = run[g].context /\ q.prepare = run[g].prepare
    <3> HIDE DEF all
    <3> QED
      BY <1>2 DEF Run, StageStatus
  <2>3. /\ worker'[w].pc = IF all THEN "activate" ELSE "claimNext"
        /\ worker'[w].next = worker[w].next /\ worker'[w].job = worker[w].job
        /\ worker'[w].context = worker[w].context /\ worker'[w].profile = worker[w].profile
        /\ \A v \in Worker \ {w} : worker'[v] = worker[v]
    <3> HIDE DEF all
    <3>1. worker \in [Worker -> Handler]
      BY DEF Inv, QueueOK
    <3> QED
      BY <1>2, <2>1, <3>1 DEF Handler
  <2>4. JobOf(w)' = JobOf(w) /\ G(w)' = g
    BY <1>2, <2>3 DEF JobOf, G
  <2>5. \A h \in Gen, d \in Batch :
          \/ batch'[h][d] = batch[h][d]
          \/ h = g /\ d = b /\ batch[g][b] # "none" /\ batch'[h][d] = "ready"
    BY <2>1 DEF Inv, TablesOK
  <2>6. batch'[g] = now
    BY <2>1 DEF Inv, TablesOK
  <2> HIDE DEF now, q
  <2>7. \A h \in Gen : Steady(h) /\ RunPrepareKept(h)
    <3>1. \A h \in Gen, d \in Batch : /\ batch'[h][d] = "none" <=> batch[h][d] = "none"
                                      /\ batch[h][d] = "ready" => batch'[h][d] = "ready"
      BY <2>5
    <3> QED
      BY <1>2, <1>6, <2>1, <2>2, <3>1, RunSteady
  <2>8. QueueKept
    BY <2>1, UnchangedCalm
  <2>9. Faults' = Faults /\ Faults \in Nat
    BY <1>1, FaultsCount DEF Faults
  <2>10. GenOK(g) /\ HandlerOK(w)
    BY DEF Whole
  <2>11. run'[g].revision = run[g].revision /\ run'[g].context = run[g].context
    BY <1>2, <2>1, <2>2 DEF Inv, TablesOK
  <2>12. \A h \in Gen : ~Preparing(w, h)'
    BY <2>3 DEF Preparing
  <2>13. Once(g)'
    <3>1. \A v \in Worker : Preparing(v, g)' => PrepareOpen(g)
      <4>1. \A v \in Worker \ {w} : Preparing(v, g)' => Preparing(v, g)
        BY <2>3 DEF Preparing, G, JobOf
      <4> QED
        BY <2>12, <4>1 DEF PrepareOpen
    <3>2. PrepareKept(g)
      BY <1>1, <2>7, <2>8, <3>1, PrepareStays DEF QueueKept
    <3> QED
      BY <1>1, <1>4, <2>7, <2>9, <2>10, <3>2, OnceStays DEF GenOK
  <2>14. JobContext(g)'
    BY <2>7, <2>8, <2>10, JobContextStays DEF GenOK, QueueKept
  <2>15. Filling(g)'
    <3> SUFFICES ASSUME doc.pending = g
                 PROVE  /\ run'[g].context \in Context
                        /\ Sound(row[g], run'[g].revision, run'[g].context)
                        /\ \A d \in Batch :
                            /\ batch'[g][d] # "none" <=> d \in BatchesOf(run'[g].revision)
                            /\ batch'[g][d] = "ready" => StoredIn(row[g], run'[g].revision, d)
      BY <1>1 DEF Filling, Rev, Sound, StoredIn
    <3>1. /\ run[g].context \in Context
          /\ Sound(row[g], run[g].revision, run[g].context)
          /\ \A d \in Batch :
              /\ batch[g][d] # "none" <=> d \in BatchesOf(run[g].revision)
              /\ batch[g][d] = "ready" => StoredIn(row[g], run[g].revision, d)
      BY <1>6, <2>10 DEF GenOK, Filling, Rev
    <3>2. StoredIn(row[g], run[g].revision, b)
      BY <1>1, <1>2, <1>4, <1>6, <2>10 DEF HandlerOK, HandlerFills, Rev
    <3> QED
      BY <2>5, <2>11, <3>1, <3>2
  <2>16. \A h \in Gen \ {g} : GenOK(h)'
    BY <1>1, <1>2, <2>3, <2>5, <2>7, <2>8, <2>12, OtherGen
  <2>17. HandlerOK(w)'
    <3>1. HandlerKind(w)'
      BY <1>1, <1>2, <1>3, <2>3, <2>4, <2>10 DEF HandlerOK, HandlerKind, At
    <3>2. HandlerNext(w)'
      BY <1>1, <1>2, <2>3, <2>4, <2>7, <2>10, <2>11 DEF HandlerOK, HandlerNext, Steady
    <3>3. HandlerData(w)'
      BY <1>1, <1>2, <2>3, <2>4, <2>10, <2>11 DEF HandlerOK, HandlerData, At
    <3>4. HandlerFills(w)'
      <4>1. all => \A x \in Batch : batch'[g][x] \in {"none", "ready"}
        BY <2>6
      <4> HIDE DEF all
      <4> QED
        BY <2>3, <2>4, <4>1 DEF HandlerFills, At
    <3> QED
      BY <3>1, <3>2, <3>3, <3>4 DEF HandlerOK
  <2>18. ASSUME NEW v \in Worker \ {w}
         PROVE  HandlerOK(v)'
    <3>1. HandlerOK(v) /\ worker'[v] = worker[v]
      BY <2>3 DEF Whole
    <3>2. \A h \in Gen : RowsGrow(h)
      BY <1>1 DEF RowsGrow
    <3> QED
      BY <1>1, <2>7, <2>9, <3>1, <3>2, HandlerStays DEF RunPrepareKept
  <2>19. ActiveWhole'
    BY <1>1, <2>7, ActiveStays DEF Whole
  <2> QED
    BY <2>13, <2>14, <2>15, <2>16, <2>17, <2>18, <2>19 DEF Whole, GenOK
<1> QED
  BY <1>5, <1>6

\* When every batch of the pending generation is ready, its rows are complete.
LEMMA FilledComplete ==
    ASSUME Inv, NEW g \in Gen, run[g] \in Run, Filling(g), doc.pending = g, ~Cancelled(g),
           \A b \in Batch : batch[g][b] \in {"none", "ready"},
           NEW p \in Profile, \A c \in Stored(row[g]) : row[g][c].profile = p
    PROVE  row[g] = CompleteRows(run[g].revision, run[g].context, p)
<1> DEFINE r == run[g].revision
           x == run[g].context
<1>1. r \in Revision /\ row[g] \in Rows
  BY DEF Inv, TablesOK, Run
<1>2. /\ x \in Context
      /\ Sound(row[g], r, x)
      /\ \A b \in Batch : /\ batch[g][b] # "none" <=> b \in BatchesOf(r)
                          /\ batch[g][b] = "ready" => StoredIn(row[g], r, b)
  BY DEF Filling, Rev
<1> HIDE DEF r, x
<1>3. ASSUME NEW c \in Chunks(r)
      PROVE  c \in Chunk /\ row[g][c] # None
  <2>1. c \in Chunk
    BY <1>1, ChunkText
  <2>2. BatchOf(c) \in Batch /\ BatchOf(c) \in BatchesOf(r) /\ c \in ChunksIn(r, BatchOf(c))
    BY <2>1 DEF Batch, BatchesOf, ChunksIn
  <2>3. StoredIn(row[g], r, BatchOf(c))
    BY <1>2, <2>2
  <2> QED
    BY <2>1, <2>2, <2>3 DEF StoredIn
<1>4. ASSUME NEW c \in Chunk
      PROVE  row[g][c] = CompleteRows(r, x, p)[c]
  <2>1. CASE c \in Chunks(r)
    <3>1. row[g][c] \in Row
      BY <1>1, <1>3, <2>1 DEF Rows
    <3>2. row[g][c].text = TextOf[r][c] /\ row[g][c].context = x /\ row[g][c].profile = p
      BY <1>2, <1>3, <2>1 DEF Sound, Stored
    <3>3. row[g][c] = [text |-> TextOf[r][c], context |-> x, profile |-> p]
      BY <3>1, <3>2 DEF Row
    <3> QED
      BY <2>1, <3>3 DEF CompleteRows
  <2>2. CASE c \notin Chunks(r)
    BY <1>2, <2>2 DEF Sound, CompleteRows
  <2> QED
    BY <2>1, <2>2
<1>5. row[g] = CompleteRows(r, x, p)
  BY <1>1, <1>4 DEF Rows, CompleteRows
<1> QED
  BY <1>5 DEF r, x

LEMMA Swap ==
    ASSUME Inv, NEW g \in Gen, NEW x, ActivateRows(g, x)
    PROVE  /\ doc'.active = g /\ doc'.pending = None /\ doc'.activeContext = x
           /\ row'[g] = row[g] /\ \A h \in Gen \ {g} : row'[h] = NoRows
           /\ \A h \in Gen : doc'.pending # h
  BY NoneGenAssumption DEF ActivateRows, Inv, TablesOK, Document

LEMMA ActivateWhole ==
    ASSUME Inv, Whole, NEW w \in Worker, Activate(w)
    PROVE  Whole'
<1>1. /\ At(w, "activate") /\ Busy(w) /\ UNCHANGED <<run, batch, api, spent>> /\ job' = job
      /\ Goto(w, "embedReady")
  BY DEF Activate, Goto, At, Busy
<1>2. PICK g \in Gen : g = G(w) /\ run[g] \in Run /\ Exists(g)
  BY <1>1, BusyFacts
<1>3. ~Fresh(g)
  BY <1>1, <1>2, EmbedHolder DEF At
<1>4. /\ ~Cancelled(g) /\ doc.pending = g /\ ActivateRows(g, worker[w].context)
      /\ \A c \in Stored(row[g]) : row[g][c].profile = worker[w].profile
  BY <1>2 DEF Activate, Activatable
<1>5. GenOK(g) /\ HandlerOK(w)
  BY DEF Whole
<1>6. worker[w].context = run[g].context /\ worker[w].profile \in Profile
  BY <1>1, <1>2, <1>5 DEF HandlerOK, HandlerData, At
<1>7. \A b \in Batch : batch[g][b] \in {"none", "ready"}
  BY <1>1, <1>2, <1>4, <1>5 DEF HandlerOK, HandlerFills
<1>8. row[g] = CompleteRows(run[g].revision, run[g].context, worker[w].profile)
  BY <1>2, <1>4, <1>5, <1>6, <1>7, FilledComplete DEF GenOK
<1>9. /\ doc'.active = g /\ doc'.pending = None /\ doc'.activeContext = run[g].context
      /\ row'[g] = row[g] /\ \A h \in Gen \ {g} : row'[h] = NoRows
      /\ \A h \in Gen : doc'.pending # h
  BY <1>4, <1>6, Swap
<1>10. \A h \in Gen : Steady(h) /\ RunPrepareKept(h)
  BY <1>1, TablesSteady
<1>11. QueueKept
  BY <1>1, UnchangedCalm
<1>12. Faults' = Faults /\ Faults \in Nat
  BY <1>1, FaultsCount DEF Faults
<1>13. /\ HandlerOK(w)' /\ \A h \in Gen : ~Preparing(w, h)'
       /\ \A v \in Worker \ {w} : worker'[v] = worker[v]
  BY <1>1, <1>10, GotoPlain, GotoWorker DEF PlainPc
<1>14. GenOK(g)'
  <2>1. \A v \in Worker : Preparing(v, g)' => PrepareOpen(g)
    <3>1. \A v \in Worker \ {w} : Preparing(v, g)' => Preparing(v, g)
      BY <1>13 DEF Preparing, G, JobOf
    <3> QED
      BY <1>13, <3>1 DEF PrepareOpen
  <2>2. PrepareKept(g)
    BY <1>1, <1>10, <1>11, <2>1, PrepareStays DEF QueueKept
  <2>3. Once(g)'
    BY <1>3, <1>5, <1>9, <1>10, <1>12, <2>2, OnceStays DEF GenOK
  <2>4. JobContext(g)'
    BY <1>5, <1>10, <1>11, JobContextStays DEF GenOK, QueueKept
  <2>5. Filling(g)'
    BY <1>9 DEF Filling
  <2> QED
    BY <2>3, <2>4, <2>5 DEF GenOK
<1>15. \A h \in Gen \ {g} : GenOK(h)'
  BY <1>1, <1>2, <1>9, <1>10, <1>11, <1>13, OtherGen
<1>16. ASSUME NEW v \in Worker \ {w}
       PROVE  HandlerOK(v)'
  <2>1. HandlerOK(v) /\ worker'[v] = worker[v]
    BY <1>13 DEF Whole
  <2> QED
    BY <1>9, <1>10, <1>12, <2>1, HandlerStays DEF RunPrepareKept
<1>17. ActiveWhole'
  <2>1. Exists(g)' /\ run'[g] = run[g] /\ batch' = batch
    BY <1>1, <1>2 DEF Exists
  <2>2. run[g].context \in Context
    BY <1>4, <1>5 DEF GenOK, Filling
  <2> QED
    BY <1>6, <1>7, <1>8, <1>9, <2>1, <2>2 DEF ActiveWhole, Rev
<1> QED
  BY <1>13, <1>14, <1>15, <1>16, <1>17 DEF Whole

LEMMA CompleteEmptyWhole ==
    ASSUME Inv, Whole, NEW w \in Worker, CompleteEmpty(w)
    PROVE  Whole'
<1>1. /\ At(w, "completeEmpty") /\ Busy(w) /\ UNCHANGED <<batch, job, api, spent>>
      /\ worker' = [worker EXCEPT ![w].pc = "enqueue", ![w].next = {GraphJob(G(w))}]
  BY DEF CompleteEmpty, At, Busy
<1>2. PICK g \in Gen : g = G(w) /\ run[g] \in Run /\ Exists(g)
  BY <1>1, BusyFacts
<1>3. /\ HandlerOK(w)' /\ \A h \in Gen : ~Preparing(w, h)'
      /\ \A v \in Worker \ {w} : worker'[v] = worker[v]
  BY <1>1, GraphNextOK
<1>4. QueueKept
  BY <1>1, UnchangedCalm
<1>5. CASE UNCHANGED <<doc, row, run>>
  BY <1>1, <1>3, <1>4, <1>5, TablesSteady, HandlerStep
<1>6. CASE /\ ~Cancelled(g) /\ doc.pending = g /\ ActivateRows(g, worker[w].context)
           /\ run' = [run EXCEPT ![g].embed = "ready"]
  <2> DEFINE q == [run[g] EXCEPT !.embed = "ready"]
  <2>1. q \in Run /\ q.revision = run[g].revision /\ q.context = run[g].context /\ q.prepare = run[g].prepare
    BY <1>2 DEF Run, StageStatus
  <2>2. run' = [run EXCEPT ![g] = q]
    BY <1>6
  <2> HIDE DEF q
  <2>3. \A h \in Gen : Steady(h) /\ RunPrepareKept(h)
    BY <1>1, <1>2, <1>6, <2>1, <2>2, RunSteady
  <2>4. /\ run'[g].revision = run[g].revision /\ run'[g].prepare = run[g].prepare /\ Exists(g)'
    BY <1>2, <2>1, <2>2, NoneGenAssumption DEF Inv, TablesOK, Exists
  <2>5. GenOK(g) /\ HandlerOK(w)
    BY DEF Whole
  <2>6. /\ worker[w].context \in Context /\ Chunks(run[g].revision) = {}
        /\ Faults = 0 => run[g].prepare = "ready"
    BY <1>1, <1>2, <1>6, <2>5 DEF HandlerOK, HandlerData, Rev
  <2>7. /\ doc'.active = g /\ doc'.pending = None /\ doc'.activeContext = worker[w].context
        /\ row'[g] = row[g] /\ \A h \in Gen \ {g} : row'[h] = NoRows
        /\ \A h \in Gen : doc'.pending # h
    BY <1>6, Swap
  <2>8. Faults' = Faults /\ Faults \in Nat
    BY <1>1, FaultsCount DEF Faults
  <2>9. ~PrepareOpen(g)' /\ \A c \in Client : ~Adding(c, g)'
    BY <1>1, <1>2, <1>3, PrepareCloses DEF At
  <2>10. Once(g)'
    BY <2>4, <2>6, <2>8, <2>9 DEF Once
  <2>11. JobContext(g)'
    BY <1>4, <2>3, <2>5, JobContextStays DEF GenOK, QueueKept
  <2>12. Filling(g)'
    BY <2>7 DEF Filling
  <2>13. \A h \in Gen \ {g} : GenOK(h)'
    BY <1>1, <1>2, <1>3, <1>4, <2>3, <2>7, OtherGen
  <2>14. ASSUME NEW v \in Worker \ {w}
         PROVE  HandlerOK(v)'
    <3>1. HandlerOK(v) /\ worker'[v] = worker[v]
      BY <1>3 DEF Whole
    <3> QED
      BY <2>3, <2>7, <2>8, <3>1, HandlerStays DEF RunPrepareKept
  <2>15. ActiveWhole'
    <3>1. /\ Sound(row[g], run[g].revision, run[g].context)
          /\ \A b \in Batch : batch[g][b] # "none" <=> b \in BatchesOf(run[g].revision)
      BY <1>6, <2>5 DEF GenOK, Filling, Rev
    <3>2. row[g] = CompleteRows(run[g].revision, worker[w].context, Primary)
      <4>1. row[g] \in Rows
        BY DEF Inv, TablesOK
      <4>2. \A c \in Chunk : row[g][c] = None
        BY <2>6, <3>1 DEF Sound
      <4> QED
        BY <2>6, <4>1, <4>2 DEF Rows, CompleteRows
    <3>3. \A b \in Batch : batch'[g][b] = "none"
      BY <1>1, <2>6, <3>1 DEF BatchesOf
    <3> QED
      BY <2>4, <2>6, <2>7, <3>2, <3>3, LimitAssumption DEF ActiveWhole, Rev
  <2> QED
    BY <1>3, <2>10, <2>11, <2>12, <2>13, <2>14, <2>15 DEF Whole, GenOK
<1> QED
  BY <1>2, <1>5, <1>6 DEF CompleteEmpty

LEMMA PrepareRunWhole ==
    ASSUME Inv, Whole, NEW w \in Worker, PrepareRun(w)
    PROVE  Whole'
<1>1. /\ At(w, "prepareRun") /\ Busy(w) /\ UNCHANGED <<api, spent>> /\ job' = job
  BY DEF PrepareRun, Goto, At, Busy
<1>2. PICK g \in Gen : g = G(w) /\ run[g] \in Run /\ Exists(g) /\ worker[w] \in Handler
  BY <1>1, BusyFacts
<1> DEFINE r == run[g].revision
           rows == [c \in Chunk |-> IF row[g][c] = None THEN worker[w].rows[c] ELSE row[g][c]]
           now == [b \in Batch |-> IF b \in BatchesOf(r) /\ batch[g][b] = "none"
                                   THEN "pending" ELSE batch[g][b]]
           q == [run[g] EXCEPT !.status = "processing", !.prepare = "ready", !.embed = "pending",
                               !.context = worker[w].context,
                               !.full = (Stored(worker[w].rows) = {})]
           pc == IF Chunks(r) = {} THEN "completeEmpty" ELSE "claim"
<1>3. /\ run[g].prepare \notin {"ready", "cancelled"}
      /\ row' = [row EXCEPT ![g] = rows] /\ batch' = [batch EXCEPT ![g] = now]
      /\ doc' = [doc EXCEPT !.pending = g]
      /\ Goto(w, pc)
  BY <1>2 DEF PrepareRun, Inv, TablesOK
<1>4. IF Cancelled(g) THEN run' = run ELSE run' = [run EXCEPT ![g] = q]
  BY <1>2 DEF PrepareRun
<1>5. /\ q.revision = r /\ q.context = worker[w].context /\ q.prepare = "ready" /\ q # None
  <2>1. q \in Run
    <3>1. (Stored(worker[w].rows) = {}) \in BOOLEAN
      OBVIOUS
    <3> QED
      BY <1>2, <3>1 DEF Run, RunStatus, StageStatus, Handler
  <2>2. /\ q.revision = r /\ q.context = worker[w].context /\ q.prepare = "ready"
    BY <1>2 DEF Run
  <2> QED
    BY <2>1, <2>2, NoneGenAssumption
<1>6. GenOK(g) /\ HandlerOK(w)
  BY DEF Whole
<1>7. Fresh(g)
  BY <1>1, <1>2, <1>3, <1>6 DEF GenOK, Once, PrepareOpen, Preparing, At
<1>8. /\ worker[w].context \in Context /\ Sound(worker[w].rows, r, worker[w].context)
  BY <1>1, <1>2, <1>6 DEF HandlerOK, HandlerData, Rev
<1>9. /\ \A c \in Chunk : row'[g][c] = worker[w].rows[c]
      /\ \A h \in Gen \ {g} : row'[h] = row[h] /\ batch'[h] = batch[h]
      /\ \A b \in Batch : batch'[g][b] = IF b \in BatchesOf(r) THEN "pending" ELSE "none"
  BY <1>3, <1>7 DEF Inv, TablesOK, Fresh, NoRows
<1>10. /\ doc'.active = doc.active /\ doc'.activeContext = doc.activeContext /\ doc'.pending = g
  BY <1>3 DEF Inv, TablesOK, Document
<1>11. /\ \A h \in Gen \ {g} : run'[h] = run[h]
       /\ run'[g] = IF Cancelled(g) THEN run[g] ELSE q
  BY <1>4 DEF Inv, TablesOK
<1> HIDE DEF rows, now, q
<1>12. /\ Exists(g)' /\ run'[g].revision = r /\ (~Cancelled(g)' => ~Cancelled(g))
  BY <1>2, <1>5, <1>11 DEF Exists, Cancelled
<1>13. \A h \in Gen \ {g} : Steady(h) /\ RunPrepareKept(h)
  BY <1>9, <1>11 DEF Steady, RunPrepareKept, Exists, Cancelled, Rev
<1>14. QueueKept
  BY <1>1, UnchangedCalm
<1>15. Faults' = Faults /\ Faults \in Nat
  BY <1>1, FaultsCount DEF Faults
<1>16. /\ JobOf(w)' = JobOf(w) /\ G(w)' = g /\ worker'[w].pc = pc
       /\ worker'[w].next = worker[w].next /\ worker'[w].context = worker[w].context
       /\ \A v \in Worker \ {w} : worker'[v] = worker[v]
  BY <1>2, <1>3, GotoWorker
<1>17. \A h \in Gen : ~Preparing(w, h)'
  BY <1>16 DEF Preparing
<1>18. ~PrepareOpen(g)' /\ \A c \in Client : ~Adding(c, g)'
  BY <1>1, <1>2, <1>16, <1>17, PrepareCloses DEF At
<1>19. Once(g)'
  <2>1. ~Cancelled(g)' => run'[g].prepare = "ready"
    BY <1>5, <1>11, <1>12
  <2> QED
    BY <1>12, <1>18, <2>1 DEF Once
<1>20. JobContext(g)'
  BY <1>1, <1>7 DEF JobContext, Fresh
<1>21. Filling(g)'
  <2> SUFFICES ASSUME ~Cancelled(g)'
               PROVE  /\ run'[g].context \in Context
                      /\ Sound(row'[g], run'[g].revision, run'[g].context)
                      /\ \A b \in Batch :
                          /\ batch'[g][b] # "none" <=> b \in BatchesOf(run'[g].revision)
                          /\ batch'[g][b] = "ready" => StoredIn(row'[g], run'[g].revision, b)
    BY DEF Filling, Rev, Sound, StoredIn
  <2>1. run'[g].context = worker[w].context
    BY <1>5, <1>11, <1>12
  <2>2. Sound(row'[g], r, worker[w].context)
    BY <1>8, <1>9 DEF Sound
  <2>3. \A b \in Batch : (batch'[g][b] # "none" <=> b \in BatchesOf(r)) /\ batch'[g][b] # "ready"
    BY <1>9
  <2> QED
    BY <1>8, <1>12, <2>1, <2>2, <2>3
<1>22. \A h \in Gen \ {g} : GenOK(h)'
  <2>1. \A h \in Gen \ {g}, b \in Batch : batch'[h][b] = batch[h][b]
    BY <1>9
  <2> QED
    BY <1>1, <1>2, <1>9, <1>10, <1>13, <1>14, <1>16, <1>17, <2>1, OtherGen
<1>23. \A v \in Worker, b \in Batch : Busy(v) /\ G(v) = g => EmbedJob(g, b) \notin worker[v].next
  BY <1>7 DEF Whole, HandlerOK, HandlerNext, Fresh
<1>24. HandlerOK(w)'
  <2>1. HandlerKind(w)'
    BY <1>1, <1>2, <1>6, <1>16 DEF HandlerOK, HandlerKind, At, Busy
  <2>2. HandlerNext(w)'
    BY <1>1, <1>2, <1>16, <1>23 DEF HandlerNext
  <2>3. HandlerData(w)'
    <3>1. ~Cancelled(g)' => run'[g].prepare = "ready"
      BY <1>5, <1>11, <1>12
    <3> QED
      BY <1>8, <1>12, <1>16, <3>1 DEF HandlerData, At, Rev
  <2>4. HandlerFills(w)'
    BY <1>16 DEF HandlerFills, At
  <2> QED
    BY <2>1, <2>2, <2>3, <2>4 DEF HandlerOK
<1>25. ASSUME NEW v \in Worker \ {w}
       PROVE  HandlerOK(v)'
  <2>1. HandlerOK(v) /\ worker'[v] = worker[v]
    BY <1>16 DEF Whole
  <2>2. JobOf(v)' = JobOf(v) /\ G(v)' = G(v) /\ Busy(v)' = Busy(v)
    BY <2>1 DEF JobOf, G, Busy
  <2>3. CASE Busy(v) /\ G(v) = g
    <3>1. worker[v].pc \notin {"prepareStale", "prepareRun", "completeEmpty"}
      BY <1>1, <1>2, <2>3, PrepareHolder DEF At
    <3>2. worker[v].pc \notin {"storeBatch", "completeBatch", "activate"}
      BY <1>7, <2>3, EmbedHolder
    <3>3. worker'[v].pc \in PlainPc
      <4>1. worker[v].pc \in WorkerPc
        BY DEF Inv, QueueOK, Handler
      <4> QED
        BY <2>1, <2>3, <3>1, <3>2, <4>1 DEF PlainPc, WorkerPc, Busy
    <3>4. PrepareJob(g) \notin worker'[v].next /\ \A b \in Batch : EmbedJob(g, b) \notin worker'[v].next
      BY <1>23, <2>1, <2>3 DEF HandlerOK, HandlerKind
    <3> QED
      BY <2>2, <2>3, <3>3, <3>4, PlainOK
  <2>4. CASE ~(Busy(v) /\ G(v) = g)
    BY <1>10, <1>13, <1>15, <2>1, <2>4, HandlerStays DEF RunPrepareKept
  <2> QED
    BY <2>3, <2>4
<1>26. ActiveWhole'
  BY <1>7, <1>9, <1>10, <1>13, ActiveStays DEF Whole, Fresh
<1> QED
  BY <1>19, <1>20, <1>21, <1>22, <1>24, <1>25, <1>26 DEF Whole, GenOK

-----------------------------------------------------------------------------
\* A request, or a change of the document, that queues nothing.
LEMMA RequestStep ==
    ASSUME Inv, Whole, UNCHANGED <<run, batch, row, worker>>, QueueKept,
           doc'.active = doc.active, doc'.activeContext = doc.activeContext, doc'.pending = doc.pending,
           spent'.infra = spent.infra, spent'.crashes = spent.crashes,
           \A c \in Client, g \in Gen : Adding(c, g)' => Adding(c, g)
    PROVE  Whole'
<1>1. Faults' = Faults /\ Faults \in Nat
  BY FaultsCount DEF Faults
<1>2. \A g \in Gen : Steady(g) /\ RunPrepareKept(g)
  BY TablesSteady
<1>3. \A g \in Gen : PrepareOpen(g)' => PrepareOpen(g)
  BY DEF PrepareOpen, Preparing, G, JobOf, QueueKept, Cancelled, Exists
<1>4. \A g \in Gen : EmbedKept(g) /\ PrepareKept(g)
  BY <1>3 DEF PrepareKept, QueueKept
<1> QED
  BY <1>1, <1>2, <1>4, PlainStep

LEMMA IdleClientAdds ==
    ASSUME Inv, NEW c \in Client, NEW q, api' = [api EXCEPT ![c] = q], q.pc # "add"
    PROVE  \A d \in Client, g \in Gen : Adding(d, g)' => Adding(d, g)
<1>1. api'[c] = q /\ \A d \in Client \ {c} : api'[d] = api[d]
  BY DEF Inv, RequestsOK
<1> QED
  BY <1>1 DEF Adding

LEMMA SpendFaults ==
    ASSUME Inv, NEW what \in {"edits", "requests", "provider", "infra", "crashes", "cancels"}, Spend(what)
    PROVE  /\ what \notin {"infra", "crashes"} =>
                spent'.infra = spent.infra /\ spent'.crashes = spent.crashes
           /\ what \in {"infra", "crashes"} => Faults' = Faults + 1
<1>1. /\ spent.infra \in Nat /\ spent.crashes \in Nat
      /\ spent \in [edits : 0..MaxEdits, requests : 0..MaxRequests,
                    provider : 0..MaxProviderFailures, infra : 0..MaxInfraFailures,
                    crashes : 0..MaxCrashes, cancels : 0..MaxCancels]
  BY FaultsCount DEF Inv, BoundsOK
<1>2. CASE what = "infra"
  BY <1>1, <1>2 DEF Spend, Faults
<1>3. CASE what = "crashes"
  BY <1>1, <1>3 DEF Spend, Faults
<1>4. CASE what \notin {"infra", "crashes"}
  BY <1>1, <1>4 DEF Spend
<1> QED
  BY <1>2, <1>3, <1>4

LEMMA EditWhole ==
    ASSUME Inv, Whole, NEW c \in Client, NEW r \in Revision, Edit(c, r)
    PROVE  Whole'
<1> DEFINE q == [IdleClient EXCEPT !.pc = "slot", !.revision = r]
<1>1. /\ UNCHANGED <<run, batch, row, worker>> /\ job' = job /\ Spend("edits")
      /\ doc' = [doc EXCEPT !.revision = r] /\ api' = [api EXCEPT ![c] = q]
  BY DEF Edit
<1>2. q.pc # "add"
  BY DEF IdleClient
<1> HIDE DEF q
<1>3. doc'.active = doc.active /\ doc'.activeContext = doc.activeContext /\ doc'.pending = doc.pending
  BY <1>1 DEF Inv, TablesOK, Document
<1>4. spent'.infra = spent.infra /\ spent'.crashes = spent.crashes
  BY <1>1, SpendFaults
<1> QED
  BY <1>1, <1>2, <1>3, <1>4, IdleClientAdds, UnchangedCalm, RequestStep

LEMMA RequestWhole ==
    ASSUME Inv, Whole, NEW c \in Client, NEW x \in Context, NEW full \in BOOLEAN, Request(c, x, full)
    PROVE  Whole'
<1> DEFINE q == [pc |-> "enqueue", revision |-> doc.revision, full |-> full, gen |-> None]
<1>1. /\ UNCHANGED <<run, batch, row, worker>> /\ job' = job /\ Spend("requests")
      /\ doc' = [doc EXCEPT !.context = x] /\ api' = [api EXCEPT ![c] = q]
  BY DEF Request
<1>2. q.pc # "add"
  OBVIOUS
<1> HIDE DEF q
<1>3. doc'.active = doc.active /\ doc'.activeContext = doc.activeContext /\ doc'.pending = doc.pending
  BY <1>1 DEF Inv, TablesOK, Document
<1>4. spent'.infra = spent.infra /\ spent'.crashes = spent.crashes
  BY <1>1, SpendFaults
<1> QED
  BY <1>1, <1>2, <1>3, <1>4, IdleClientAdds, UnchangedCalm, RequestStep

LEMMA FindOrCreateWhole ==
    ASSUME Inv, Whole, NEW c \in Client, NEW g \in Gen, FindOrCreate(c, g)
    PROVE  Whole'
<1>1. /\ UNCHANGED <<doc, batch, row, job, worker, spent>> /\ ~Exists(g)
      /\ run' = [h \in Gen |->
                 CASE h = g -> NewRun(api[c].revision, api[c].full)
                   [] h # g /\ api[c].full /\ ActiveRun(h) -> [run[h] EXCEPT !.status = "cancelled"]
                   [] OTHER -> run[h]]
      /\ api' = [api EXCEPT ![c].pc = "add", ![c].gen = g]
  BY DEF FindOrCreate
<1>2. \A h \in Gen \ {g} : \/ run'[h] = run[h]
                           \/ ActiveRun(h) /\ run'[h] = [run[h] EXCEPT !.status = "cancelled"]
  <2> SUFFICES ASSUME NEW h \in Gen, h # g
               PROVE  \/ run'[h] = run[h]
                      \/ ActiveRun(h) /\ run'[h] = [run[h] EXCEPT !.status = "cancelled"]
    OBVIOUS
  <2>1. CASE api[c].full /\ ActiveRun(h)
    BY <1>1, <2>1
  <2>2. CASE ~(api[c].full /\ ActiveRun(h))
    BY <1>1, <2>2
  <2> QED
    BY <2>1, <2>2
<1>3. Exists(g)'
  BY FindOrCreateTables
<1>4. /\ \A d \in Client \ {c} : api'[d] = api[d]
      /\ api'[c].pc = "add" /\ api'[c].gen = g
  BY <1>1 DEF Inv, RequestsOK, Caller
<1>5. Steady(g)
  BY <1>1 DEF Steady, Exists, Cancelled
<1>6. ASSUME NEW h \in Gen \ {g}
      PROVE  Steady(h) /\ RunPrepareKept(h)
  <2>1. CASE run'[h] = run[h]
    BY <1>1, <2>1 DEF Steady, RunPrepareKept, Exists, Cancelled, Rev
  <2>2. CASE ActiveRun(h) /\ run'[h] = [run[h] EXCEPT !.status = "cancelled"]
    <3>1. run[h] \in Run /\ Exists(h)
      BY <2>2 DEF Inv, TablesOK, ActiveRun, Exists
    <3>2. /\ run'[h].revision = run[h].revision /\ run'[h].context = run[h].context
          /\ run'[h].prepare = run[h].prepare /\ run'[h].status = "cancelled" /\ run'[h] \in Run
      BY <2>2, <3>1 DEF Run, RunStatus
    <3> QED
      BY <1>1, <3>1, <3>2, NoneGenAssumption DEF Steady, RunPrepareKept, Exists, Cancelled, Rev
  <2> QED
    BY <1>2, <2>1, <2>2
<1>7. QueueKept
  BY <1>1, UnchangedCalm
<1>8. Faults' = Faults /\ Faults \in Nat
  BY <1>1, FaultsCount DEF Faults
<1>9. \A h \in Gen : Steady(h) /\ EmbedKept(h)
  BY <1>5, <1>6, <1>7 DEF QueueKept
<1>10. Once(g)'
  <2>1. Fresh(g)
    BY <1>1 DEF Whole, GenOK, Once
  <2>2. Fresh(g)'
    BY <1>1, <1>9, <2>1, FreshStays
  <2>3. job'[PrepareJob(g)].state = "none"
    BY <1>1, JobIdFacts DEF Inv, QueueOK, JobHasRun
  <2>4. \A d \in Client : Adding(d, g)' => d = c
    BY <1>1, <1>4 DEF Adding, Inv, RequestsOK
  <2> QED
    BY <1>3, <2>2, <2>3, <2>4 DEF Once
<1>11. ASSUME NEW h \in Gen \ {g}
       PROVE  PrepareKept(h)
  <2>1. \A d \in Client : Adding(d, h)' => Adding(d, h)
    BY <1>4 DEF Adding
  <2>2. PrepareOpen(h)' => PrepareOpen(h)
    BY <1>1, <1>9 DEF PrepareOpen, Preparing, G, JobOf, Steady
  <2> QED
    BY <1>1, <2>1, <2>2 DEF PrepareKept
<1>12. \A w \in Worker, h \in Gen : Busy(w) /\ G(w) = h => h # g
  BY <1>1, BusyFacts
<1> QED
  BY <1>1, <1>6, <1>8, <1>9, <1>10, <1>11, <1>12, OpenStep

LEMMA AddPrepareWhole ==
    ASSUME Inv, Whole, NEW c \in Client, AddPrepare(c)
    PROVE  Whole'
<1>1. PICK g \in Gen : g = api[c].gen /\ Adding(c, g)
  BY DEF AddPrepare, Adding, Inv, RequestsOK, Caller
<1>2. /\ UNCHANGED <<doc, run, batch, row, worker, spent>>
      /\ job' = Add(job, [j \in {PrepareJob(g)} |-> Queued(api[c].full, None)])
      /\ api' = [api EXCEPT ![c].pc = "recheck"]
  BY <1>1 DEF AddPrepare
<1>3. \A j \in JobId : j # PrepareJob(g) => job'[j] = job[j]
  BY <1>2 DEF Add
<1>4. /\ \A d \in Client \ {c} : api'[d] = api[d]
      /\ api'[c].pc = "recheck"
  BY <1>2 DEF Inv, RequestsOK, Caller
<1>5. \A d \in Client, h \in Gen : Adding(d, h)' => d # c /\ Adding(d, h)
  BY <1>4 DEF Adding
<1>6. \A h \in Gen : Steady(h) /\ RunPrepareKept(h)
  BY <1>2, TablesSteady
<1>7. \A h \in Gen : EmbedKept(h)
  <2>1. \A h \in Gen, b \in Batch : job'[EmbedJob(h, b)] = job[EmbedJob(h, b)]
    BY <1>3, JobIdFacts, JobKinds
  <2> QED
    BY <2>1 DEF EmbedKept
<1>8. Faults' = Faults /\ Faults \in Nat
  BY <1>2, FaultsCount DEF Faults
<1>9. Once(g)'
  <2>1. Fresh(g) /\ \A d \in Client : Adding(d, g) => d = c
    BY <1>1 DEF Whole, GenOK, Once
  <2>2. Fresh(g)'
    BY <1>2, <1>6, <1>7, <2>1, FreshStays
  <2>3. \A d \in Client : ~Adding(d, g)'
    BY <1>5, <2>1
  <2>4. Exists(g)'
    BY <1>1, <1>2 DEF AddPrepare, Inv, RequestsOK, Exists
  <2> QED
    BY <2>2, <2>3, <2>4 DEF Once
<1>10. ASSUME NEW h \in Gen \ {g}
       PROVE  PrepareKept(h)
  <2>1. job'[PrepareJob(h)] = job[PrepareJob(h)]
    BY <1>3, JobIdFacts
  <2>2. PrepareOpen(h)' => PrepareOpen(h)
    BY <1>2, <2>1 DEF PrepareOpen, Preparing, G, JobOf, Cancelled, Exists
  <2> QED
    BY <1>5, <2>1, <2>2 DEF PrepareKept
<1> QED
  BY <1>2, <1>6, <1>7, <1>8, <1>9, <1>10, OpenStep

LEMMA ApiStepWhole ==
    ASSUME Inv, Whole, NEW c \in Client, ApiStep(c)
    PROVE  Whole'
<1>1. CASE ClaimSlot(c)
  <2> DEFINE q == IF api[c].revision \in slot THEN IdleClient ELSE [api[c] EXCEPT !.pc = "enqueue"]
  <2>1. q.pc # "add"
    BY DEF IdleClient, Inv, RequestsOK, Caller
  <2>2. /\ UNCHANGED <<doc, run, batch, row, worker, spent>> /\ job' = job
        /\ api' = [api EXCEPT ![c] = q]
    BY <1>1 DEF ClaimSlot, Inv, RequestsOK
  <2> HIDE DEF q
  <2> QED
    BY <2>1, <2>2, IdleClientAdds, UnchangedCalm, RequestStep
<1>2. CASE EnqueueDeduplicated(c)
  <2>1. /\ UNCHANGED <<doc, run, batch, row, worker, spent>> /\ job' = job
        /\ api' = [api EXCEPT ![c] = IdleClient]
    BY <1>2 DEF EnqueueDeduplicated
  <2> QED
    BY <2>1, IdleClientType, IdleClientAdds, UnchangedCalm, RequestStep
<1>3. ASSUME NEW g \in Gen, FindOrCreate(c, g)
      PROVE  Whole'
  BY <1>3, FindOrCreateWhole
<1>4. CASE AddPrepare(c)
  BY <1>4, AddPrepareWhole
<1>5. CASE RecheckPrepare(c)
  <2>1. /\ UNCHANGED <<doc, run, batch, row, worker, spent>>
        /\ job' = job \/ job' = Remove(job, {PrepareJob(api[c].gen)})
        /\ api' = [api EXCEPT ![c] = IdleClient]
    BY <1>5 DEF RecheckPrepare
  <2>2. QueueKept
    BY <2>1, UnchangedCalm, RemoveCalm
  <2> QED
    BY <2>1, <2>2, IdleClientType, IdleClientAdds, RequestStep
<1> QED
  BY <1>1, <1>2, <1>3, <1>4, <1>5 DEF ApiStep

-----------------------------------------------------------------------------
LEMMA ActivateAgainWhole ==
    ASSUME Inv, Whole, NEW w \in Worker, ActivateAgain(w)
    PROVE  Whole'
<1>1. /\ UNCHANGED <<doc, run, batch, row, api, spent>> /\ Goto(w, "embedReady") /\ Busy(w)
  BY DEF ActivateAgain, At, Busy
<1>2. \A g \in Gen : Steady(g) /\ RunPrepareKept(g)
  BY <1>1, TablesSteady
<1> QED
  BY <1>1, <1>2, GotoWhole DEF PlainPc

LEMMA ActivateRefusedWhole ==
    ASSUME Inv, Whole, NEW w \in Worker, ActivateRefused(w)
    PROVE  Whole'
<1>1. UNCHANGED <<doc, run, batch, row, api, spent>> /\ Throw(w) /\ worker[w].pc = "activate"
  BY DEF ActivateRefused, At
<1> QED
  BY <1>1, ThrowWhole

LEMMA AbandonWhole ==
    ASSUME Inv, Whole, NEW w \in Worker, Abandon(w)
    PROVE  Whole'
<1>1. UNCHANGED <<doc, run, batch, row, api, spent>> /\ Done(w) /\ Busy(w)
  BY DEF Abandon, Busy
<1> QED
  BY <1>1, DoneWhole

LEMMA ClaimWhole ==
    ASSUME Inv, Whole, NEW w \in Worker, Claim(w) \/ ClaimNext(w)
    PROVE  Whole'
<1>1. Busy(w) /\ UNCHANGED spent /\ \E n \in {MaxActive, 1}, lost \in SUBSET Contended(w) : ClaimBatches(w, n, lost)
  BY DEF Claim, ClaimNext, At, Busy, ClaimBatches
<1> QED
  BY <1>1, ClaimBatchesWhole

LEMMA HandleWhole ==
    ASSUME Inv, Whole, NEW w \in Worker, Handle(w)
    PROVE  Whole'
<1>1. ASSUME NEW j \in JobId, DropCancelled(w, j)
      PROVE  Whole'
  BY <1>1, DropCancelledWhole
<1>2. ASSUME NEW g \in Gen, PrepareLoad(w, g)
      PROVE  Whole'
  BY <1>2, PrepareLoadWhole
<1>3. ASSUME NEW g \in Gen, NEW b \in Batch, EmbedLoadStale(w, g, b)
      PROVE  Whole'
  BY <1>3, EmbedLoadStaleWhole
<1>4. ASSUME NEW g \in Gen, NEW b \in Batch, NEW p \in Profile, EmbedLoad(w, g, b, p)
      PROVE  Whole'
  BY <1>4, EmbedLoadWhole
<1>5. CASE PrepareStale(w) \/ PrepareRepeated(w) \/ PrepareRun(w) \/ CompleteEmpty(w)
  BY <1>5, PrepareStaleWhole, PrepareRepeatedWhole, PrepareRunWhole, CompleteEmptyWhole
<1>6. CASE Claim(w) \/ ClaimNext(w)
  BY <1>6, ClaimWhole
<1>7. CASE EmbedStale(w) \/ StoreBatch(w) \/ CompleteBatch(w)
  BY <1>7, EmbedStaleWhole, StoreBatchWhole, CompleteBatchWhole
<1>8. CASE Activate(w) \/ ActivateAgain(w) \/ ActivateRefused(w) \/ EmbedReady(w)
  BY <1>8, ActivateWhole, ActivateAgainWhole, ActivateRefusedWhole, EmbedReadyWhole
<1>9. CASE Enqueue(w) \/ Finish(w) \/ Abandon(w)
  BY <1>9, EnqueueWhole, FinishWhole, AbandonWhole
<1> QED
  BY <1>1, <1>2, <1>3, <1>4, <1>5, <1>6, <1>7, <1>8, <1>9 DEF Handle

-----------------------------------------------------------------------------
LEMMA SlotExpireWhole ==
    ASSUME Inv, Whole, NEW r \in Revision, SlotExpire(r)
    PROVE  Whole'
<1>1. UNCHANGED <<doc, run, batch, row, job, api, worker, spent>>
  BY DEF SlotExpire
<1>2. \A c \in Client, g \in Gen : Adding(c, g)' => Adding(c, g)
  BY <1>1 DEF Adding
<1> QED
  BY <1>1, <1>2, UnchangedCalm, RequestStep

LEMMA RemoveJobsWhole ==
    ASSUME Inv, Whole, RemoveJobs
    PROVE  Whole'
<1>1. /\ UNCHANGED <<doc, run, batch, row, api, worker, spent>>
      /\ \E ids : job' = Remove(job, ids)
  BY DEF RemoveJobs
<1>2. \A c \in Client, g \in Gen : Adding(c, g)' => Adding(c, g)
  BY <1>1 DEF Adding
<1> QED
  BY <1>1, <1>2, RemoveCalm, RequestStep

LEMMA ProviderFailsWhole ==
    ASSUME Inv, Whole, NEW w \in Worker, ProviderFails(w)
    PROVE  Whole'
<1>1. /\ UNCHANGED <<doc, run, batch, row, api>> /\ Throw(w) /\ Spend("provider")
      /\ worker[w].pc = "storeBatch" /\ Busy(w)
  BY DEF ProviderFails, At, Busy
<1>2. Faults' = Faults /\ Faults \in Nat
  BY <1>1, SpendFaults, FaultsCount DEF Faults
<1>3. G(w) \in Gen /\ \E b \in Batch : JobOf(w) = EmbedJob(G(w), b)
  BY <1>1, BusyFacts DEF Whole, HandlerOK, HandlerKind
<1>4. QueueKept
  BY <1>1, <1>3, ThrowKept
<1>5. \A g \in Gen : Steady(g) /\ RunPrepareKept(g)
  BY <1>1, TablesSteady
<1>6. worker'[w] = IdleWorker /\ \A v \in Worker \ {w} : worker'[v] = worker[v]
  BY <1>1, ThrowIdle
<1>7. \A v \in Worker : worker'[v] = worker[v] \/ HandlerOK(v)'
  BY <1>6, IdleOK
<1>8. \A v \in Worker, g \in Gen : Preparing(v, g)' => PrepareOpen(g)
  <2> SUFFICES ASSUME NEW v \in Worker, NEW g \in Gen
               PROVE  Preparing(v, g)' => PrepareOpen(g)
    OBVIOUS
  <2>1. CASE v = w
    BY <2>1, <1>6, IdleOK
  <2>2. CASE v # w
    BY <2>2, <1>6 DEF Preparing, PrepareOpen, G, JobOf
  <2> QED
    BY <2>1, <2>2
<1>9. \A g \in Gen : EmbedKept(g) /\ PrepareKept(g)
  BY <1>1, <1>4, <1>5, <1>8, PrepareStays DEF QueueKept
<1> QED
  BY <1>1, <1>2, <1>5, <1>7, <1>9, PlainStep

LEMMA CancelRunsWhole ==
    ASSUME Inv, Whole, CancelRuns
    PROVE  Whole'
<1> DEFINE hit == {g \in Gen : Exists(g) /\ run[g].status \in ActiveStatuses}
           q(g) == [run[g] EXCEPT !.status = "cancelled", !.prepare = "cancelled",
                                  !.embed = "cancelled"]
<1>1. /\ UNCHANGED <<doc, row, job, api, worker>> /\ Spend("cancels")
      /\ run' = [g \in Gen |-> IF g \in hit THEN q(g) ELSE run[g]]
      /\ batch' = [g \in Gen |-> [b \in Batch |->
                     IF g \in hit /\ batch[g][b] # "none" THEN "cancelled" ELSE batch[g][b]]]
  BY DEF CancelRuns
<1>2. Faults' = Faults /\ Faults \in Nat
  BY <1>1, SpendFaults, FaultsCount DEF Faults
<1>3. ASSUME NEW g \in Gen
      PROVE  /\ Steady(g) /\ RunPrepareKept(g)
             /\ \A b \in Batch : batch'[g][b] = "ready" => batch[g][b] = "ready"
  <2>1. CASE g \in hit
    <3>1. run[g] \in Run /\ Exists(g)
      BY <2>1 DEF Inv, TablesOK, Exists
    <3>2. /\ q(g).revision = run[g].revision /\ q(g).context = run[g].context
          /\ q(g).prepare = "cancelled" /\ q(g).status = "cancelled" /\ q(g) \in Run
      BY <3>1 DEF Run, RunStatus, StageStatus
    <3>3. run'[g] = q(g) /\ \A b \in Batch :
              batch'[g][b] = IF batch[g][b] # "none" THEN "cancelled" ELSE batch[g][b]
      BY <1>1, <2>1
    <3>4. Exists(g)' /\ Cancelled(g)'
      BY <3>2, <3>3, NoneGenAssumption DEF Exists, Cancelled
    <3> HIDE DEF q, hit
    <3>5. \A b \in Batch : /\ batch'[g][b] = "none" <=> batch[g][b] = "none"
                           /\ batch'[g][b] = "ready" => batch[g][b] = "ready"
      BY <3>3
    <3> QED
      BY <3>1, <3>2, <3>3, <3>4, <3>5 DEF Steady, RunPrepareKept, Rev
  <2>2. CASE g \notin hit
    <3>1. run'[g] = run[g] /\ \A b \in Batch : batch'[g][b] = batch[g][b]
      BY <1>1, <2>2
    <3> QED
      BY <3>1 DEF Steady, RunPrepareKept, Exists, Cancelled, Rev
  <2> QED
    BY <2>1, <2>2
<1> HIDE DEF hit, q
<1>4. QueueKept
  BY <1>1, UnchangedCalm
<1>5. \A v \in Worker, g \in Gen : Preparing(v, g)' => PrepareOpen(g)
  BY <1>1 DEF Preparing, PrepareOpen, G, JobOf
<1>6. \A g \in Gen : EmbedKept(g) /\ PrepareKept(g)
  BY <1>1, <1>3, <1>4, <1>5, PrepareStays DEF QueueKept
<1>7. /\ \A g \in Gen : Steady(g) /\ RunPrepareKept(g) /\ EmbedKept(g) /\ PrepareKept(g)
      /\ \A g \in Gen, b \in Batch : ~Cancelled(g)' /\ batch'[g][b] = "ready" => batch[g][b] = "ready"
      /\ \A w \in Worker : worker'[w] = worker[w] \/ HandlerOK(w)'
  BY <1>1, <1>3, <1>6
<1>8. /\ Faults' >= Faults /\ row' = row
      /\ doc'.active = doc.active /\ doc'.activeContext = doc.activeContext /\ doc'.pending = doc.pending
  BY <1>1, <1>2
<1> QED
  BY <1>2, <1>7, <1>8, PlainStep

-----------------------------------------------------------------------------
\* After the first fault a second delivery may find the first one's work, but
\* then the run says that its prepare stage is done.
LEMMA FaultOnce ==
    ASSUME NEW g \in Gen, Once(g), Faults = 0, Faults' # 0, doc' = doc, Steady(g),
           Exists(g)' => Exists(g), Fresh(g) => Fresh(g)',
           run[g].prepare = "ready" => run'[g].prepare = "ready",
           PrepareOpen(g)' => PrepareOpen(g) \/ (Exists(g) /\ ~Cancelled(g)),
           \A c \in Client : Adding(c, g)' =>
               Adding(c, g) /\ (job[PrepareJob(g)].state = "none" => job'[PrepareJob(g)].state = "none")
    PROVE  Once(g)'
<1>1. ~Exists(g)' => Fresh(g)' /\ doc'.pending # g
  BY DEF Once, Steady
<1>2. \A c \in Client : Adding(c, g)' =>
          /\ Fresh(g)' /\ job'[PrepareJob(g)].state = "none"
          /\ \A d \in Client : Adding(d, g)' => d = c
  BY DEF Once
<1>3. PrepareOpen(g)' => Fresh(g)' \/ run'[g].prepare \in {"ready", "cancelled"}
  BY DEF Once
<1> QED
  BY <1>1, <1>2, <1>3 DEF Once

\* A step that begins with no fault and is one.
LEMMA FaultStep ==
    ASSUME Inv, Whole, Faults = 0, Faults' = 1, UNCHANGED <<doc, batch, row>>,
           \A g \in Gen : Steady(g) /\ EmbedKept(g) /\ (Exists(g)' => Exists(g)),
           \A g \in Gen : run[g].prepare = "ready" => run'[g].prepare = "ready",
           \A g \in Gen : PrepareOpen(g)' => PrepareOpen(g) \/ (Exists(g) /\ ~Cancelled(g)),
           \A c \in Client, g \in Gen : Adding(c, g)' =>
               Adding(c, g) /\ (job[PrepareJob(g)].state = "none" => job'[PrepareJob(g)].state = "none"),
           \A w \in Worker : HandlerOK(w)' \/ (worker'[w] = worker[w] /\ run' = run)
    PROVE  Whole'
<1>1. Faults \in Nat /\ Faults' \in Nat /\ Faults' >= Faults /\ Faults' # 0
  OBVIOUS
<1>2. \A g \in Gen : Fresh(g) => Fresh(g)'
  BY FreshStays
<1>3. \A g \in Gen : Once(g)'
  <2> TAKE g \in Gen
  <2>1. Once(g)
    BY DEF Whole, GenOK
  <2> QED
    BY <1>1, <1>2, <2>1, FaultOnce
<1>4. \A w \in Worker : HandlerOK(w)' \/ ( /\ worker'[w] = worker[w]
                                           /\ \A g \in Gen : Busy(w) /\ G(w) = g => RunPrepareKept(g) )
  BY TablesSteady
<1>5. \A g \in Gen : Steady(g) /\ EmbedKept(g)
  OBVIOUS
<1>6. \A g \in Gen, b \in Batch : ~Cancelled(g)' /\ batch'[g][b] = "ready" => batch[g][b] = "ready"
  OBVIOUS
<1> QED
  BY <1>1, <1>3, <1>4, <1>5, <1>6, OpenStep

LEMMA InfraFailsWhole ==
    ASSUME Inv, Whole, NEW w \in Worker, InfraFails(w), Faults = 0
    PROVE  Whole'
<1>1. UNCHANGED <<doc, run, batch, row, api>> /\ Throw(w) /\ Spend("infra") /\ Busy(w)
  BY DEF InfraFails, Busy
<1>2. Faults' = 1
  BY <1>1, SpendFaults
<1>3. /\ JobOf(w) \in JobId /\ G(w) \in Gen /\ Exists(G(w)) /\ job[JobOf(w)].state = "active"
  BY <1>1, BusyFacts
<1>4. PICK own \in JobId : own = JobOf(w)
  BY <1>3
<1>5. /\ job'[own].context = job[own].context /\ job'[own].state # "none"
      /\ \A i \in JobId \ {own} : job'[i] = job[i]
  BY <1>1, <1>3, <1>4 DEF Inv, QueueOK, Job, Throw
<1>6. \A g \in Gen : EmbedKept(g)
  BY <1>3, <1>4, <1>5, JobIdFacts DEF EmbedKept
<1>7. \A g \in Gen : job[PrepareJob(g)].state = "none" => job'[PrepareJob(g)].state = "none"
  BY <1>3, <1>4, <1>5, JobIdFacts
<1>8. \A g \in Gen : Steady(g) /\ RunPrepareKept(g)
  BY <1>1, TablesSteady
<1>9. worker'[w] = IdleWorker /\ \A v \in Worker \ {w} : worker'[v] = worker[v]
  BY <1>1, ThrowIdle
<1>10. ASSUME NEW g \in Gen
       PROVE  PrepareOpen(g)' => PrepareOpen(g) \/ (Exists(g) /\ ~Cancelled(g))
  <2>1. \A v \in Worker : Preparing(v, g)' => Preparing(v, g)
    <3> TAKE v \in Worker
    <3>1. CASE v = w
      BY <3>1, <1>9, IdleOK
    <3>2. CASE v # w
      BY <3>2, <1>9 DEF Preparing, G, JobOf
    <3> QED
      BY <3>1, <3>2
  <2>2. job'[PrepareJob(g)].state = "waiting" =>
            job[PrepareJob(g)].state = "waiting" \/ Exists(g)
    <3>1. PrepareJob(g) \in JobId /\ GenOf(PrepareJob(g)) = g
      BY JobIdFacts
    <3> QED
      BY <3>1, <1>3, <1>4, <1>5 DEF G
  <2>3. Cancelled(g)' <=> Cancelled(g)
    BY <1>1 DEF Cancelled, Exists
  <2> QED
    BY <2>1, <2>2, <2>3 DEF PrepareOpen
<1>11. \A c \in Client, g \in Gen : Adding(c, g)' => Adding(c, g)
  BY <1>1 DEF Adding
<1>12. \A v \in Worker : HandlerOK(v)' \/ (worker'[v] = worker[v] /\ run' = run)
  BY <1>1, <1>9, IdleOK
<1>13. \A g \in Gen : Exists(g)' => Exists(g)
  BY <1>1 DEF Exists
<1> QED
  BY <1>1, <1>2, <1>6, <1>7, <1>8, <1>10, <1>11, <1>12, <1>13, FaultStep

\* What recovery leaves of a run.
LEMMA RecoveredFields ==
    ASSUME Inv, NEW g \in Recoverable
    PROVE  /\ Recovered(g).revision = run[g].revision /\ Recovered(g).context = run[g].context
           /\ run[g].prepare = "ready" => Recovered(g).prepare = "ready"
<1>1. g \in Gen /\ Exists(g) /\ RecoveryStage(g) \in {"prepare", "embed"}
  BY RecoverableStage
<1>2. run[g] \in Run
  BY <1>1 DEF Inv, TablesOK, Exists
<1>3. run[g].prepare = "ready" => RecoveryStage(g) # "prepare"
  <2> SUFFICES ASSUME run[g].prepare = "ready"
               PROVE  RecoveryStage(g) # "prepare"
    OBVIOUS
  <2> QED
    BY DEF RecoveryStage
<1>4. \A n : LET lost == [run[g] EXCEPT !.status = "failed", !.prepare = "failed"]
                 again == [run[g] EXCEPT !.status = "retrying", !.prepare = "retrying", !.attempts = n]
             IN /\ lost.revision = run[g].revision /\ lost.context = run[g].context
                /\ again.revision = run[g].revision /\ again.context = run[g].context
  BY <1>2 DEF Run
<1>5. \A n : LET lost == [run[g] EXCEPT !.status = "failed", !.embed = "failed"]
                 again == [run[g] EXCEPT !.status = "retrying", !.embed = "retrying", !.attempts = n]
             IN /\ lost.revision = run[g].revision /\ lost.context = run[g].context
                /\ lost.prepare = run[g].prepare
                /\ again.revision = run[g].revision /\ again.context = run[g].context
                /\ again.prepare = run[g].prepare
  BY <1>2 DEF Run
<1>6. CASE RecoveryStage(g) = "prepare"
  BY <1>3, <1>4, <1>6 DEF Recovered
<1>7. CASE RecoveryStage(g) = "embed"
  BY <1>5, <1>7 DEF Recovered
<1> QED
  BY <1>1, <1>6, <1>7

LEMMA RecoveryBatch ==
    ASSUME NEW g \in Gen, NEW b \in Batch, EmbedJob(g, b) \in RecoveryJobs(g)
    PROVE  batch[g][b] # "none"
<1>1. EmbedJob(g, b) # PrepareJob(g)
  BY JobKinds
<1>2. \E d \in Batch : EmbedJob(g, b) = EmbedJob(g, d) /\ batch[g][d] # "none"
  BY <1>1 DEF RecoveryJobs
<1> QED
  BY <1>2, JobKinds

LEMMA RestartWhole ==
    ASSUME Inv, Inv', Whole, NEW survives, NEW S \in SUBSET Recoverable, Restart(survives, S), Faults = 0
    PROVE  Whole'
<1> DEFINE after == AfterCrash(survives)
           ids == UNION {RecoveryJobs(g) : g \in {h \in S : ~Exhausted(h)}}
           new == [j \in ids |-> Queued(run[GenOf(j)].full, run[GenOf(j)].context)]
<1>1. /\ UNCHANGED <<doc, batch, row>> /\ Spend("crashes")
      /\ job' = Add(after, new)
      /\ \A w \in Worker : worker'[w] = IdleWorker
      /\ \A c \in Client : api'[c] = IdleClient
      /\ \A g \in Gen : run'[g] = IF g \in S THEN Recovered(g) ELSE run[g]
  BY DEF Restart
<1>2. Faults' = 1
  BY <1>1, SpendFaults
<1>3. \A j \in ids : new[j].context = run[GenOf(j)].context
  BY DEF Queued
<1>4. \A j \in ids : \E g \in S : j \in RecoveryJobs(g)
  OBVIOUS
<1>5. DOMAIN new = ids
  OBVIOUS
<1>6. \A j \in JobId : after[j].state # "none" =>
          job[j].state # "none" /\ after[j].context = job[j].context
  <2> TAKE j \in JobId
  <2> DEFINE kept == [job[j] EXCEPT !.state = IF job[j].state = "active" THEN "waiting" ELSE job[j].state]
  <2>1. after[j] = NoJob \/ after[j] = kept
    BY DEF AfterCrash
  <2>2. /\ kept.context = job[j].context
        /\ kept.state # "none" => job[j].state # "none"
    BY DEF Inv, QueueOK, Job
  <2> QED
    BY <2>1, <2>2, NoJobType
<1> HIDE DEF after, ids, new
<1>7. \A j \in JobId : job'[j].state # "none" =>
          \/ job[j].state # "none" /\ job'[j].context = job[j].context
          \/ j \in ids /\ job'[j].context = run[GenOf(j)].context
  BY <1>1, <1>3, <1>5, <1>6 DEF Add
<1>8. ASSUME NEW g \in Gen
      PROVE  EmbedKept(g)
  <2> SUFFICES ASSUME NEW b \in Batch, EmbedJob(g, b) \in ids
               PROVE  batch[g][b] # "none"
    BY <1>7, JobIdFacts DEF EmbedKept
  <2>1. PICK h \in S : EmbedJob(g, b) \in RecoveryJobs(h)
    BY <1>4
  <2>2. h \in Gen
    BY RecoverableStage
  <2>3. g = h
    BY <2>1, <2>2, RecoveryJobsFacts, JobIdFacts
  <2> QED
    BY <2>1, <2>3, RecoveryBatch
<1>9. ASSUME NEW g \in Gen
      PROVE  /\ Steady(g) /\ (Exists(g)' => Exists(g))
             /\ run[g].prepare = "ready" => run'[g].prepare = "ready"
  <2>1. CASE g \in S
    <3>1. /\ Recovered(g).revision = run[g].revision /\ Recovered(g).context = run[g].context
          /\ run[g].prepare = "ready" => Recovered(g).prepare = "ready"
          /\ Recovered(g) \in Run /\ ~Cancelled(g) /\ Exists(g)
      BY <2>1, RecoveredFields, RecoveredRun, RecoverableStage
    <3>2. run'[g] = Recovered(g)
      BY <1>1, <2>1
    <3> QED
      BY <1>1, <3>1, <3>2, NoneGenAssumption DEF Steady, Exists, Rev
  <2>2. CASE g \notin S
    <3>1. run'[g] = run[g]
      BY <1>1, <2>2
    <3> QED
      BY <1>1, <3>1 DEF Steady, Exists, Cancelled, Rev
  <2> QED
    BY <2>1, <2>2
<1>10. \A w \in Worker : HandlerOK(w)' /\ \A g \in Gen : ~Preparing(w, g)'
  BY <1>1, IdleOK
<1>11. ASSUME NEW g \in Gen
       PROVE  PrepareOpen(g)' => Exists(g) /\ ~Cancelled(g)
  <2> SUFFICES ASSUME job'[PrepareJob(g)].state = "waiting", ~Cancelled(g)'
               PROVE  Exists(g) /\ ~Cancelled(g)
    BY <1>10 DEF PrepareOpen
  <2>1. Exists(g)'
    BY JobIdFacts DEF Inv, QueueOK, JobHasRun
  <2> QED
    BY <1>9, <2>1 DEF Steady
<1>12. \A c \in Client, g \in Gen : ~Adding(c, g)'
  BY <1>1, IdleClientType DEF Adding
<1> QED
  BY <1>1, <1>2, <1>8, <1>9, <1>10, <1>11, <1>12, FaultStep

-----------------------------------------------------------------------------
\* Faults are only ever added.
LEMMA FaultsGrow ==
    ASSUME Inv, [Next]_vars
    PROVE  Faults \in Nat /\ Faults' \in Nat /\ Faults' >= Faults
<1>1. Faults \in Nat
  BY FaultsCount
<1>2. UNCHANGED spent => Faults' = Faults
  BY DEF Faults
<1>3. ASSUME NEW c \in Client, ApiStep(c)
      PROVE  Faults' = Faults
  BY <1>2, <1>3 DEF ApiStep, ClaimSlot, EnqueueDeduplicated, FindOrCreate, AddPrepare, RecheckPrepare
<1>4. ASSUME NEW w \in Worker, Handle(w)
      PROVE  Faults' = Faults
  BY <1>2, <1>4, HandleElsewhere
<1>5. CASE RemoveJobs \/ UNCHANGED vars
  BY <1>1, <1>2, <1>5 DEF RemoveJobs, vars
<1>6. CASE Environment
  <2>1. ASSUME NEW r \in Revision, SlotExpire(r)
        PROVE  Faults' = Faults
    BY <1>2, <2>1 DEF SlotExpire
  <2> DEFINE Kinds == {"edits", "requests", "provider", "infra", "crashes", "cancels"}
  <2>2. ASSUME NEW what \in Kinds, Spend(what)
        PROVE  Faults' = Faults \/ Faults' = Faults + 1
    <3>1. CASE what \in {"infra", "crashes"}
      BY <2>2, <3>1, SpendFaults
    <3>2. CASE what \notin {"infra", "crashes"}
      BY <2>2, <3>2, SpendFaults DEF Faults
    <3> QED
      BY <3>1, <3>2
  <2>3. (\E r \in Revision : SlotExpire(r)) \/ (\E what \in Kinds : Spend(what))
    BY <1>6 DEF Environment, Edit, Request, ProviderFails, InfraFails, CancelRuns, Restart
  <2> QED
    BY <1>1, <2>1, <2>2, <2>3
<1> QED
  BY <1>1, <1>3, <1>4, <1>5, <1>6 DEF Next

LEMMA EnvironmentWhole ==
    ASSUME Inv, Inv', Whole, Environment, Faults' <= 1
    PROVE  Whole'
<1>1. ASSUME NEW c \in Client, NEW r \in Revision, Edit(c, r)
      PROVE  Whole'
  BY <1>1, EditWhole
<1>2. ASSUME NEW c \in Client, NEW x \in Context, NEW full \in BOOLEAN, Request(c, x, full)
      PROVE  Whole'
  BY <1>2, RequestWhole
<1>3. ASSUME NEW r \in Revision, SlotExpire(r)
      PROVE  Whole'
  BY <1>3, SlotExpireWhole
<1>4. ASSUME NEW w \in Worker, ProviderFails(w)
      PROVE  Whole'
  BY <1>4, ProviderFailsWhole
<1>5. Faults \in Nat
  BY FaultsCount
<1>6. ASSUME NEW w \in Worker, InfraFails(w)
      PROVE  Whole'
  <2>1. Faults' = Faults + 1
    BY <1>6, SpendFaults DEF InfraFails
  <2>2. Faults = 0
    BY <1>5, <2>1
  <2> QED
    BY <1>6, <2>2, InfraFailsWhole
<1>7. CASE CancelRuns
  BY <1>7, CancelRunsWhole
<1>8. ASSUME NEW survives, NEW S \in SUBSET Recoverable, Restart(survives, S)
      PROVE  Whole'
  <2>1. Faults' = Faults + 1
    BY <1>8, SpendFaults DEF Restart
  <2>2. Faults = 0
    BY <1>5, <2>1
  <2> QED
    BY <1>8, <2>2, RestartWhole
<1> QED
  BY <1>1, <1>2, <1>3, <1>4, <1>6, <1>7, <1>8 DEF Environment

IndexInv == Faults <= 1 => Whole

LEMMA NextWhole == Inv /\ Inv' /\ IndexInv /\ [Next]_vars => IndexInv'
<1> SUFFICES ASSUME Inv, Inv', IndexInv, [Next]_vars, Faults' <= 1
             PROVE  Whole'
  BY DEF IndexInv
<1>1. Faults <= 1
  BY FaultsGrow
<1>2. Whole
  BY <1>1 DEF IndexInv
<1>3. ASSUME NEW c \in Client, ApiStep(c)
      PROVE  Whole'
  BY <1>2, <1>3, ApiStepWhole
<1>4. ASSUME NEW w \in Worker, Handle(w)
      PROVE  Whole'
  BY <1>2, <1>4, HandleWhole
<1>5. CASE RemoveJobs
  BY <1>2, <1>5, RemoveJobsWhole
<1>6. CASE Environment
  BY <1>2, <1>6, EnvironmentWhole
<1>7. CASE UNCHANGED vars
  <2>1. UNCHANGED <<doc, run, batch, row, job, api, worker, spent>>
    BY <1>7 DEF vars
  <2>2. \A c \in Client, g \in Gen : Adding(c, g)' => Adding(c, g)
    BY <2>1 DEF Adding
  <2> QED
    BY <1>2, <2>1, <2>2, UnchangedCalm, RequestStep
<1> QED
  BY <1>3, <1>4, <1>5, <1>6, <1>7 DEF Next

LEMMA InitWhole == Init => Whole
<1> SUFFICES ASSUME Init
             PROVE  Whole
  OBVIOUS
<1>1. /\ doc.active = None /\ doc.pending = None
      /\ \A c \in Client : api[c].pc \in {"idle", "enqueue"}
  BY DEF Init, IdleClient
<1>2. /\ \A g \in Gen : run[g] = None /\ row[g] = NoRows /\ g # None
      /\ \A g \in Gen, b \in Batch : batch[g][b] = "none"
      /\ \A j \in JobId : job[j].state = "none"
      /\ \A w \in Worker : worker[w] = IdleWorker
  BY NoJobType, NoneGenAssumption DEF Init
<1>3. ASSUME NEW g \in Gen
      PROVE  GenOK(g)
  <2>1. /\ job[PrepareJob(g)].state = "none" /\ ~Exists(g)
        /\ \A b \in Batch : job[EmbedJob(g, b)].state = "none"
    BY <1>2, JobIdFacts DEF Exists
  <2>2. Fresh(g)
    BY <1>1, <1>2, <2>1 DEF Fresh
  <2>3. ~PrepareOpen(g) /\ \A c \in Client : ~Adding(c, g)
    BY <1>1, <1>2, <2>1, IdleWorkerType DEF PrepareOpen, Preparing, Adding
  <2> QED
    BY <1>1, <1>2, <2>1, <2>2, <2>3 DEF GenOK, Once, JobContext, Filling
<1>4. ASSUME NEW w \in Worker
      PROVE  HandlerOK(w)
  BY <1>2, IdleWorkerType DEF HandlerOK, HandlerKind, HandlerNext, HandlerData, HandlerFills, Busy, At
<1>5. ActiveWhole
  BY <1>1 DEF ActiveWhole
<1> QED
  BY <1>3, <1>4, <1>5 DEF Whole

\* Once there is an active generation, there always is one.
LEMMA StaysActive ==
    ASSUME Inv, [Next]_vars
    PROVE  doc'.active = None => doc.active = None
<1>1. doc \in Document /\ None \notin Gen
  BY NoneGenAssumption DEF Inv, TablesOK
<1>2. doc' = doc => doc'.active = doc.active
  OBVIOUS
<1>3. ASSUME NEW c \in Client, ApiStep(c)
      PROVE  doc' = doc
  BY <1>3 DEF ApiStep, ClaimSlot, EnqueueDeduplicated, FindOrCreate, AddPrepare, RecheckPrepare
<1>4. ASSUME NEW w \in Worker, Handle(w)
      PROVE  doc'.active = None => doc.active = None
  <2>1. CASE PrepareRun(w)
    BY <1>1, <2>1 DEF PrepareRun, Document
  <2>2. CASE CompleteEmpty(w) \/ Activate(w)
    <3>1. Busy(w)
      BY <2>2 DEF CompleteEmpty, Activate, At, Busy
    <3>2. G(w) \in Gen
      BY <3>1, BusyFacts
    <3>3. doc' = doc \/ \E x : ActivateRows(G(w), x)
      BY <2>2 DEF CompleteEmpty, Activate
    <3>4. (\E x : ActivateRows(G(w), x)) => doc'.active \in Gen
      BY <1>1, <3>2 DEF ActivateRows, Document
    <3> QED
      BY <1>1, <3>3, <3>4
  <2>3. ASSUME NEW j, DropCancelled(w, j)
        PROVE  doc' = doc
    BY <2>3 DEF DropCancelled
  <2>6. ASSUME NEW g, PrepareLoad(w, g)
        PROVE  doc' = doc
    BY <2>6 DEF PrepareLoad
  <2>7. ASSUME NEW g, NEW b, EmbedLoadStale(w, g, b)
        PROVE  doc' = doc
    BY <2>7 DEF EmbedLoadStale
  <2>8. ASSUME NEW g, NEW b, NEW p, EmbedLoad(w, g, b, p)
        PROVE  doc' = doc
    BY <2>8 DEF EmbedLoad
  <2>4. CASE PrepareStale(w) \/ PrepareRepeated(w) \/ Claim(w) \/ EmbedStale(w) \/ StoreBatch(w)
             \/ CompleteBatch(w) \/ ClaimNext(w)
    BY <2>4 DEF PrepareStale, PrepareRepeated, Claim, EmbedStale, StoreBatch, CompleteBatch, ClaimNext,
                MarkStale, ClaimBatches
  <2>5. CASE ActivateAgain(w) \/ ActivateRefused(w) \/ EmbedReady(w) \/ Enqueue(w) \/ Finish(w) \/ Abandon(w)
    BY <2>5 DEF ActivateAgain, ActivateRefused, EmbedReady, Enqueue, Finish, Abandon
  <2> QED
    BY <1>4, <2>1, <2>2, <2>3, <2>4, <2>5, <2>6, <2>7, <2>8 DEF Handle
<1>5. CASE RemoveJobs \/ UNCHANGED vars
  BY <1>5 DEF RemoveJobs, vars
<1>6. CASE Environment
  <2>1. ASSUME NEW c \in Client, NEW r \in Revision, Edit(c, r)
        PROVE  doc'.active = doc.active
    BY <1>1, <2>1 DEF Edit, Document
  <2>2. ASSUME NEW c \in Client, NEW x \in Context, NEW full \in BOOLEAN, Request(c, x, full)
        PROVE  doc'.active = doc.active
    BY <1>1, <2>2 DEF Request, Document
  <2>3. CASE doc' = doc
    BY <2>3
  <2> QED
    BY <1>6, <2>1, <2>2, <2>3
    DEF Environment, SlotExpire, ProviderFails, InfraFails, CancelRuns, Restart
<1> QED
  BY <1>3, <1>4, <1>5, <1>6 DEF Next

-----------------------------------------------------------------------------
\* What search reads.
found == IF doc.active = None THEN NoRows ELSE row[doc.active]

LEMMA IndexInit == Init => Index!Init
<1>1. Init => found = NoRows
  BY DEF Init, found
<1> QED
  BY <1>1 DEF found, Index!Init, Index!NoRows, NoRows, Index!Chunk, Chunk, Index!Chunks, Chunks

\* A step that leaves the index whole published it or left it alone.
LEMMA IndexStep ==
    ASSUME Inv, Inv', Whole', [Next]_vars
    PROVE  [Index!Next]_found
<1>1. CASE doc'.active = None
  <2>1. doc.active = None
    BY <1>1, StaysActive
  <2> QED
    BY <1>1, <2>1 DEF found
<1>2. CASE doc'.active # None
  <2>1. PICK g \in Gen : g = doc'.active
    BY <1>2 DEF Inv, TablesOK, Document
  <2>2. Exists(g)' /\ doc'.activeContext \in Context
    BY <1>2, <2>1 DEF Whole, ActiveWhole, Exists
  <2>3. run'[g].revision \in Revision
    BY <2>2 DEF Inv, TablesOK, Exists, Run
  <2>4. PICK p \in Profile : row'[g] = CompleteRows(run'[g].revision, doc'.activeContext, p)
    BY <1>2, <2>1 DEF Whole, ActiveWhole, Rev
  <2>5. found' = CompleteRows(run'[g].revision, doc'.activeContext, p)
    BY <1>2, <2>1, <2>4 DEF found
  <2>6. Index!Publish(run'[g].revision, doc'.activeContext, p)
    BY <2>5 DEF found, Index!Publish, Index!CompleteRows, CompleteRows,
                Index!Chunk, Chunk, Index!Chunks, Chunks
  <2> QED
    BY <2>2, <2>3, <2>6 DEF Index!Next
<1> QED
  BY <1>1, <1>2

\* What search reads is replaced as a whole, by a complete and uniform
\* embedding of one revision, for every interleaving of requests, handlers,
\* provider failures and cancellations, and with one crash or one database or
\* queue call that failed.  With two faults and an edit back to older content it
\* may be activated with rows missing.
THEOREM IndexCorrect == Spec /\ [](Faults <= 1) => IndexSpec
<1>1. Init => IndexInv
  BY InitWhole DEF IndexInv
<1>2. Inv /\ Inv' /\ IndexInv' /\ (Faults <= 1)' /\ [Next]_vars => [Index!Next]_found
  BY IndexStep DEF IndexInv
<1> QED
  BY <1>1, <1>2, InitInv, NextInv, NextWhole, IndexInit, PTL DEF Spec, IndexSpec, Index!Spec, found

-----------------------------------------------------------------------------
(***************************************************************************)
(* The window of batches                                                   *)
(***************************************************************************)

AllReady(g) == \A b \in Batch : batch[g][b] \in {"none", "ready"}

\* w has yet to queue the embed job of a batch it has claimed.
Handing(w, g, b) == Busy(w) /\ EmbedJob(g, b) \in worker[w].next

\* Batches under way, and those that are done but have not claimed another yet.
Scheduled(g) ==
    {b \in Batch : \/ batch[g][b] = "processing"
                   \/ \E w \in Worker : At(w, "claimNext") /\ JobOf(w) = EmbedJob(g, b)}

\* The batches of g: one that was not claimed has no job, one that is about to
\* get its job has none yet, and a job that waits has its batch still to do, or
\* comes back from an activation that was refused.
Window(g) ==
    /\ Cardinality({b \in Batch : batch[g][b] = "processing"}) <= MaxActive
    /\ ~Cancelled(g) =>
        /\ Cardinality(Scheduled(g)) <= MaxActive
        /\ \A b \in Batch :
            /\ batch[g][b] \in {"none", "pending"} =>
                   job[EmbedJob(g, b)].state = "none" /\ \A w \in Worker : ~Handing(w, g, b)
            /\ job[EmbedJob(g, b)].state = "waiting" => batch[g][b] = "processing" \/ AllReady(g)
            /\ \A w \in Worker : Handing(w, g, b) =>
                   /\ batch[g][b] = "processing" /\ job[EmbedJob(g, b)].state = "none"
                   /\ \A v \in Worker : Handing(v, g, b) => v = w

\* What a handler may rely on where it has claimed or completes a batch.
Places(w) ==
    Busy(w) /\ ~Cancelled(G(w)) =>
        /\ At(w, "claim") => /\ JobOf(w) = PrepareJob(G(w))
                             /\ \A b \in Batch : batch[G(w)][b] \in {"none", "pending"}
        /\ At(w, "claimNext") =>
               \E b \in Batch : JobOf(w) = EmbedJob(G(w), b) /\ batch[G(w)][b] = "ready"
        /\ At(w, "storeBatch") => batch[G(w)][BatchIn(JobOf(w))] = "processing"
        /\ At(w, "completeBatch") =>
               batch[G(w)][BatchIn(JobOf(w))] = "processing" \/ AllReady(G(w))
        /\ At(w, "activate") => AllReady(G(w))

Scheduling == (\A g \in Gen : Window(g)) /\ (\A w \in Worker : Places(w))

\* Who is about to queue an embed job, and which it leaves to queue.
EmbedCalm(g) ==
    \A b \in Batch :
        /\ job'[EmbedJob(g, b)].state = "waiting" /\ ~Cancelled(g) =>
               \/ job[EmbedJob(g, b)].state = "waiting"
               \/ batch[g][b] = "processing" \/ AllReady(g)
        /\ job[EmbedJob(g, b)].state = "none" =>
               \/ job'[EmbedJob(g, b)].state = "none"
               \/ batch[g][b] = "processing" /\ \A w \in Worker : ~Handing(w, g, b)'

\* A handler's step that neither claims a batch of g nor completes one.
HandsNoMore(w, g) ==
    \A b \in Batch : /\ ~(At(w, "claimNext")' /\ JobOf(w)' = EmbedJob(g, b))
                     /\ Handing(w, g, b)' => Handing(w, g, b)
Modest(w) == \A g \in Gen : HandsNoMore(w, g)

LEMMA FiniteBatches == IsFiniteSet(Batch) /\ Batch \subseteq Int
<1>1. \A r \in Revision : Chunks(r) \subseteq Int
  BY ContentAssumption DEF Chunks
<1>2. Chunk \subseteq Int
  BY <1>1 DEF Chunk
<1>3. \A c \in Chunk : BatchOf(c) \in Int
  BY <1>2, LimitAssumption DEF BatchOf
<1>4. [c \in Chunk |-> BatchOf(c)] \in Surjection(Chunk, Batch)
  BY DEF Surjection, Batch
<1>5. IsFiniteSet(Batch)
  BY <1>4, FiniteContentAssumption, FS_Surjection
<1> QED
  BY <1>3, <1>5 DEF Batch

LEMMA SomeBatches ==
    ASSUME NEW S \in SUBSET Batch
    PROVE  IsFiniteSet(S) /\ Cardinality(S) \in Nat
  BY FiniteBatches, FS_Subset, FS_CardinalityType

LEMMA FewerBatches ==
    ASSUME NEW S \in SUBSET Batch, NEW T \in SUBSET S, NEW n \in Nat, Cardinality(S) <= n
    PROVE  Cardinality(T) <= n
<1>1. T \in SUBSET Batch
  OBVIOUS
<1>2. IsFiniteSet(S) /\ Cardinality(S) \in Nat /\ Cardinality(T) \in Nat
  BY <1>1, SomeBatches
<1>3. Cardinality(T) <= Cardinality(S)
  BY <1>2, FS_Subset
<1> QED
  BY <1>2, <1>3

\* At most n batches are claimed: their numbers of predecessors differ.
LEMMA FewClaimed ==
    ASSUME NEW g \in Gen, NEW n \in Nat \ {0}, NEW lost \in SUBSET Batch
    PROVE  /\ Claimable(g, n, lost) \in SUBSET {b \in Batch : batch[g][b] = "pending"}
           /\ Cardinality(Claimable(g, n, lost)) <= n
           /\ Cancelled(g) => Claimable(g, n, lost) = {}
<1> DEFINE open == {b \in Batch : batch[g][b] = "pending"}
           seen == open \cup lost
           below(b) == {x \in seen : x < b}
           S == {b \in open : Cardinality(below(b)) < n}
           rank == [b \in S |-> Cardinality(below(b))]
<1>1. Claimable(g, n, lost) = IF Cancelled(g) THEN {} ELSE S
  BY DEF Claimable
<1>2. Cardinality({}) = 0
  BY FS_EmptySet
<1>3. \A b \in open : below(b) \in SUBSET Batch /\ Cardinality(below(b)) \in Nat
  <2> SUFFICES ASSUME NEW b \in open
               PROVE  below(b) \in SUBSET Batch /\ Cardinality(below(b)) \in Nat
    OBVIOUS
  <2>1. below(b) \in SUBSET Batch
    OBVIOUS
  <2> QED
    BY <2>1, SomeBatches
<1>4. ASSUME NEW a \in S, NEW b \in S, a < b
      PROVE  Cardinality(below(a)) < Cardinality(below(b))
  <2>1. a \in Int /\ b \in Int /\ a \in open /\ b \in open
    BY FiniteBatches
  <2>2. below(a) \in SUBSET (below(b) \ {a}) /\ a \in below(b) /\ below(b) \in SUBSET Batch
    <3>1. \A x \in seen : x \in Int /\ (x < a => x < b /\ x # a)
      BY <1>4, <2>1, FiniteBatches
    <3>2. seen \in SUBSET Batch /\ a \in seen
      BY <2>1
    <3> HIDE DEF open, seen
    <3> QED
      BY <1>4, <2>1, <3>1, <3>2
  <2> HIDE DEF below
  <2>3. IsFiniteSet(below(b)) /\ IsFiniteSet(below(b) \ {a})
        /\ Cardinality(below(b)) \in Nat /\ Cardinality(below(b) \ {a}) = Cardinality(below(b)) - 1
    BY <2>2, SomeBatches, FS_RemoveElement
  <2>4. Cardinality(below(a)) <= Cardinality(below(b) \ {a})
    BY <2>2, <2>3, FS_Subset
  <2>5. Cardinality(below(a)) \in Nat
    BY <1>3, <2>1
  <2> QED
    BY <2>3, <2>4, <2>5
<1>5. rank \in Injection(S, 0..(n - 1))
  <2>1. \A b \in S : Cardinality(below(b)) \in 0..(n - 1)
    BY <1>3
  <2> HIDE DEF below
  <2>2. rank \in [S -> 0..(n - 1)]
    BY <2>1
  <2>3. ASSUME NEW a \in S, NEW b \in S, rank[a] = rank[b]
        PROVE  a = b
    <3>1. a \in Int /\ b \in Int
      BY FiniteBatches
    <3>2. Cardinality(below(a)) = Cardinality(below(b)) /\ Cardinality(below(a)) \in Nat
      BY <2>1, <2>3
    <3>3. ~(a < b) /\ ~(b < a)
      BY <1>4, <3>2
    <3> QED
      BY <3>1, <3>3
  <2> HIDE DEF rank, S
  <2> QED
    BY <2>2, <2>3 DEF Injection, IsInjective
<1>6. IsFiniteSet(0..(n - 1)) /\ Cardinality(0..(n - 1)) = n
  BY FS_Interval
<1>7. Cardinality(S) <= n
  BY <1>5, <1>6, FS_Injection
<1> QED
  BY <1>1, <1>2, <1>7

\* A step that leaves the batches of g as they are.
LEMMA WindowStays ==
    ASSUME NEW g \in Gen, Window(g), batch'[g] = batch[g], Cancelled(g) => Cancelled(g)', EmbedCalm(g),
           \A w \in Worker : worker'[w] = worker[w] \/ HandsNoMore(w, g)
    PROVE  Window(g)'
<1>1. {b \in Batch : batch'[g][b] = "processing"} = {b \in Batch : batch[g][b] = "processing"}
  OBVIOUS
<1>2. AllReady(g)' <=> AllReady(g)
  BY DEF AllReady
<1>3. \A w \in Worker, b \in Batch : Handing(w, g, b)' => Handing(w, g, b)
  BY DEF HandsNoMore, Handing, Busy
<1>4. ASSUME ~Cancelled(g)'
      PROVE  Cardinality(Scheduled(g)') <= MaxActive
  <2>1. \A w \in Worker, b \in Batch :
          At(w, "claimNext")' /\ JobOf(w)' = EmbedJob(g, b) =>
          At(w, "claimNext") /\ JobOf(w) = EmbedJob(g, b)
    BY DEF HandsNoMore, At, JobOf
  <2>2. Scheduled(g)' \in SUBSET Scheduled(g) /\ Scheduled(g) \in SUBSET Batch
    BY <2>1 DEF Scheduled
  <2>3. Cardinality(Scheduled(g)) <= MaxActive
    BY <1>4 DEF Window
  <2> QED
    BY <2>2, <2>3, FewerBatches, LimitAssumption
<1>5. ASSUME ~Cancelled(g)', NEW b \in Batch
      PROVE  /\ batch'[g][b] \in {"none", "pending"} =>
                    job'[EmbedJob(g, b)].state = "none" /\ \A w \in Worker : ~Handing(w, g, b)'
             /\ job'[EmbedJob(g, b)].state = "waiting" => batch'[g][b] = "processing" \/ AllReady(g)'
             /\ \A w \in Worker : Handing(w, g, b)' =>
                   /\ batch'[g][b] = "processing" /\ job'[EmbedJob(g, b)].state = "none"
                   /\ \A v \in Worker : Handing(v, g, b)' => v = w
  BY <1>2, <1>3, <1>5 DEF Window, EmbedCalm
<1> QED
  BY <1>1, <1>4, <1>5 DEF Window

\* A handler that does not move, on a generation whose batches stay.
LEMMA PlacesStay ==
    ASSUME NEW w \in Worker, Places(w), worker'[w] = worker[w],
           NEW g, Busy(w) => G(w) = g /\ batch'[g] = batch[g] /\ (Cancelled(g) => Cancelled(g)')
    PROVE  Places(w)'
<1>1. /\ Busy(w)' <=> Busy(w)
      /\ \A pc : At(w, pc)' <=> At(w, pc)
      /\ JobOf(w)' = JobOf(w) /\ G(w)' = G(w)
  BY DEF Busy, At, JobOf, G
<1> SUFFICES ASSUME Busy(w), G(w)' = g, ~Cancelled(g)'
             PROVE  Places(w)'
  BY <1>1 DEF Places
<1>2. AllReady(g)' <=> AllReady(g)
  BY DEF AllReady
<1> QED
  BY <1>1, <1>2 DEF Places

LEMMA IdlePlaces ==
    ASSUME NEW w \in Worker, worker'[w] = IdleWorker
    PROVE  Places(w)' /\ Modest(w)
  BY DEF Places, Modest, HandsNoMore, Busy, At, Handing, IdleWorker

\* A step that leaves all batches as they are.
LEMMA SameBatches ==
    ASSUME Inv, Scheduling, batch' = batch, FenceStays, \A g \in Gen : EmbedCalm(g),
           \A w \in Worker : worker'[w] = worker[w] \/ (Modest(w) /\ Places(w)')
    PROVE  Scheduling'
<1>1. \A g \in Gen : Window(g)'
  BY WindowStays DEF Scheduling, FenceStays, Modest
<1>2. ASSUME NEW w \in Worker, worker'[w] = worker[w]
      PROVE  Places(w)'
  <2>1. Busy(w) => G(w) \in Gen
    BY BusyFacts
  <2>2. PICK g : g = G(w)
    OBVIOUS
  <2>3. Places(w) /\ (Busy(w) => batch'[g] = batch[g] /\ (Cancelled(g) => Cancelled(g)'))
    BY <2>1, <2>2 DEF Scheduling, FenceStays
  <2> QED
    BY <1>2, <2>2, <2>3, PlacesStay
<1> QED
  BY <1>1, <1>2 DEF Scheduling

\* What becomes of the state of a job that ends, is taken or removed.
JobQuiet(j) ==
    \/ job'[j].state \in {job[j].state, "none"}
    \/ job[j].state # "none" /\ job'[j].state # "waiting"

LEMMA QuietQueue ==
    ASSUME \A j \in JobId : JobQuiet(j)
    PROVE  \A g \in Gen : EmbedCalm(g)
<1> SUFFICES ASSUME NEW g \in Gen, NEW b \in Batch
             PROVE  LET j == EmbedJob(g, b) IN
                    /\ job'[j].state = "waiting" => job[j].state = "waiting"
                    /\ job[j].state = "none" => job'[j].state = "none"
  BY DEF EmbedCalm
<1>1. JobQuiet(EmbedJob(g, b))
  BY JobIdFacts
<1> QED
  BY <1>1 DEF JobQuiet

LEMMA UnchangedQuiet ==
    ASSUME job' = job
    PROVE  \A g \in Gen : EmbedCalm(g)
<1>1. \A j \in JobId : JobQuiet(j)
  BY DEF JobQuiet
<1> QED
  BY <1>1, QuietQueue

LEMMA TakeQuiet ==
    ASSUME Inv, NEW j \in JobId, job[j].state = "waiting", Take(j)
    PROVE  \A g \in Gen : EmbedCalm(g)
<1>1. job'[j].state = "active" /\ \A i \in JobId \ {j} : job'[i] = job[i]
  BY DEF Inv, QueueOK, Job, Take
<1>2. \A i \in JobId : JobQuiet(i)
  BY <1>1 DEF JobQuiet
<1> QED
  BY <1>2, QuietQueue

LEMMA EndedQuiet ==
    ASSUME Inv, NEW ids, NEW j \in JobId \ ids, job[j].state # "none",
           job' = Ended(job, j) \/ job' = Ended(Remove(job, ids), j)
    PROVE  \A g \in Gen : EmbedCalm(g)
<1>1. \A left : DOMAIN left = JobId /\ job' = Ended(left, j) /\ left[j] \in Job =>
        job'[j].state = "completed" /\ \A i \in JobId \ {j} : job'[i] = left[i]
  BY DEF Ended, Job
<1>2. DOMAIN job = JobId /\ job[j] \in Job
  BY DEF Inv, QueueOK
<1>3. /\ DOMAIN Remove(job, ids) = JobId /\ Remove(job, ids)[j] = job[j]
      /\ \A i \in JobId : Remove(job, ids)[i] = job[i] \/ Remove(job, ids)[i].state = "none"
  BY NoJobType DEF Remove
<1>4. \A i \in JobId : JobQuiet(i)
  BY <1>1, <1>2, <1>3 DEF JobQuiet
<1> QED
  BY <1>4, QuietQueue

LEMMA RemoveQuiet ==
    ASSUME Inv, NEW ids, job' = Remove(job, ids)
    PROVE  \A g \in Gen : EmbedCalm(g)
<1>1. \A j \in JobId : job'[j] = job[j] \/ job'[j].state = "none"
  BY NoJobType DEF Remove
<1>2. \A j \in JobId : JobQuiet(j)
  BY <1>1 DEF JobQuiet
<1> QED
  BY <1>2, QuietQueue

\* A step of a handler of g: what it does to the batches of g is left to show.
LEMMA OneGen ==
    ASSUME Inv, Inv', Scheduling, FenceStays, NEW w \in Worker, NEW g \in Gen, Busy(w)' => G(w)' = g,
           \A v \in Worker \ {w} : worker'[v] = worker[v],
           \A h \in Gen \ {g} : batch'[h] = batch[h] /\ EmbedCalm(h),
           Window(g)', Places(w)', \A v \in Worker \ {w} : Busy(v) /\ G(v) = g => Places(v)'
    PROVE  Scheduling'
<1>1. ASSUME NEW h \in Gen \ {g}
      PROVE  Window(h)'
  <2>1. (JobOf(w)' \in JobId /\ \A j \in worker'[w].next : GenOf(j) = g) \/ ~Busy(w)'
    BY DEF Inv, QueueOK, OwnsJob
  <2>2. \A b \in Batch : ~Handing(w, h, b)' /\ ~(At(w, "claimNext")' /\ JobOf(w)' = EmbedJob(h, b))
    <3>1. At(w, "claimNext")' => Busy(w)'
      BY DEF At, Busy
    <3>2. \A b \in Batch : JobOf(w)' = EmbedJob(h, b) => G(w)' = h
      BY JobIdFacts DEF G
    <3> QED
      BY <2>1, <3>1, <3>2, JobIdFacts DEF Handing
  <2>3. HandsNoMore(w, h)
    BY <2>2 DEF HandsNoMore
  <2> QED
    BY <2>3, WindowStays DEF Scheduling, FenceStays
<1>2. ASSUME NEW v \in Worker \ {w}, ~(Busy(v) /\ G(v) = g)
      PROVE  Places(v)'
  <2>1. PICK h : h = G(v)
    OBVIOUS
  <2>2. Busy(v) => h \in Gen \ {g}
    BY <1>2, <2>1, BusyFacts
  <2>3. Places(v) /\ (Busy(v) => batch'[h] = batch[h] /\ (Cancelled(h) => Cancelled(h)'))
    BY <2>2 DEF Scheduling, FenceStays
  <2> QED
    BY <2>1, <2>3, PlacesStay
<1> QED
  BY <1>1, <1>2 DEF Scheduling

\* A handler that is not about to claim, store or complete a batch, and plans to
\* queue nothing it did not plan before.
LEMMA EasyMove ==
    ASSUME NEW w \in Worker,
           worker'[w].pc \notin {"claim", "claimNext", "storeBatch", "completeBatch", "activate"},
           \A g \in Gen, b \in Batch : EmbedJob(g, b) \in worker'[w].next => Handing(w, g, b)
    PROVE  Modest(w) /\ Places(w)'
  BY DEF Modest, HandsNoMore, Places, Handing, At

\* The job of a handler ends with it.
LEMMA DoneScheduling ==
    ASSUME Inv, Scheduling, FenceStays, NEW w \in Worker, Busy(w), Done(w), batch' = batch
    PROVE  Scheduling'
<1>1. JobOf(w) \in JobId \ {} /\ job[JobOf(w)].state # "none" /\ job' = Ended(job, JobOf(w))
  BY BusyFacts DEF Done
<1>2. \A g \in Gen : EmbedCalm(g)
  BY <1>1, EndedQuiet
<1>3. \A v \in Worker : worker'[v] = worker[v] \/ (Modest(v) /\ Places(v)')
  BY ThrowIdle, IdlePlaces
<1> QED
  BY <1>2, <1>3, SameBatches

LEMMA GotoScheduling ==
    ASSUME Inv, Scheduling, FenceStays, NEW w \in Worker, Busy(w), batch' = batch,
           NEW pc \in WorkerPc \ {"claim", "claimNext", "storeBatch", "completeBatch", "activate"},
           Goto(w, pc)
    PROVE  Scheduling'
<1>1. \A g \in Gen : EmbedCalm(g)
  BY UnchangedQuiet DEF Goto
<1>2. worker'[w].pc = pc /\ worker'[w].next = worker[w].next /\ \A v \in Worker \ {w} : worker'[v] = worker[v]
  BY GotoWorker
<1>3. Modest(w) /\ Places(w)'
  BY <1>2, EasyMove DEF Handing
<1> QED
  BY <1>1, <1>2, <1>3, SameBatches

\* A failed embed job waits again, its batch not done, or done and not activated.
LEMMA ThrowScheduling ==
    ASSUME Inv, Scheduling, FenceStays, NEW w \in Worker, HandlerKind(w), Throw(w), batch' = batch,
           worker[w].pc \in {"storeBatch", "activate"}
    PROVE  Scheduling'
<1>1. Busy(w)
  BY DEF Busy
<1>2. PICK h \in Gen : h = G(w)
  BY <1>1, BusyFacts
<1>3. PICK d \in Batch : JobOf(w) = EmbedJob(h, d)
  BY <1>2 DEF HandlerKind
<1>4. JobOf(w) \in JobId /\ job[JobOf(w)].state = "active"
  BY <1>1, BusyFacts
<1>5. \A j \in JobId \ {JobOf(w)} : job'[j] = job[j]
  BY <1>4 DEF Throw, Inv, QueueOK
<1>6. ~Cancelled(h) => batch[h][d] = "processing" \/ AllReady(h)
  BY <1>1, <1>2, <1>3, JobKinds DEF Scheduling, Places, At
<1>7. ASSUME NEW g \in Gen
      PROVE  EmbedCalm(g)
  <2> SUFFICES ASSUME NEW b \in Batch
               PROVE  /\ job'[EmbedJob(g, b)].state = "waiting" /\ ~Cancelled(g) =>
                           \/ job[EmbedJob(g, b)].state = "waiting"
                           \/ batch[g][b] = "processing" \/ AllReady(g)
                      /\ job[EmbedJob(g, b)].state = "none" => job'[EmbedJob(g, b)].state = "none"
    BY DEF EmbedCalm
  <2>1. CASE g = h /\ b = d
    BY <2>1, <1>3, <1>4, <1>6
  <2>2. CASE ~(g = h /\ b = d)
    <3>1. EmbedJob(g, b) \in JobId \ {JobOf(w)}
      BY <2>2, <1>3, JobIdFacts, JobKinds
    <3> QED
      BY <3>1, <1>5
  <2> QED
    BY <2>1, <2>2
<1>8. \A v \in Worker : worker'[v] = worker[v] \/ (Modest(v) /\ Places(v)')
  BY ThrowIdle, IdlePlaces
<1> QED
  BY <1>7, <1>8, SameBatches

\* A handler takes a job, and is not yet to complete a batch.
LEMMA TakeScheduling ==
    ASSUME Inv, Scheduling, FenceStays, NEW w \in Worker, NEW j \in JobId, job[j].state = "waiting", Take(j),
           batch' = batch, \A v \in Worker \ {w} : worker'[v] = worker[v], worker'[w].next = {},
           worker'[w].pc # "claimNext", Places(w)'
    PROVE  Scheduling'
<1>1. \A g \in Gen : EmbedCalm(g)
  BY TakeQuiet
<1>2. Modest(w)
  BY DEF Modest, HandsNoMore, Handing, At
<1> QED
  BY <1>1, <1>2, SameBatches

LEMMA PrepareLoadScheduling ==
    ASSUME Inv, Scheduling, FenceStays, NEW w \in Worker, NEW g \in Gen, PrepareLoad(w, g)
    PROVE  Scheduling'
<1>1. /\ job[PrepareJob(g)].state = "waiting" /\ Take(PrepareJob(g)) /\ batch' = batch
      /\ worker'[w].next = {} /\ worker'[w].pc \in {"prepareStale", "prepareRun"}
      /\ \A v \in Worker \ {w} : worker'[v] = worker[v]
  BY DEF PrepareLoad, Inv, QueueOK, IdleWorker
<1>2. Places(w)'
  BY <1>1 DEF Places, At
<1> QED
  BY <1>1, <1>2, JobIdFacts, TakeScheduling

LEMMA EmbedLoadStaleScheduling ==
    ASSUME Inv, Scheduling, FenceStays, NEW w \in Worker, NEW g \in Gen, NEW b \in Batch, EmbedLoadStale(w, g, b)
    PROVE  Scheduling'
<1>1. /\ job[EmbedJob(g, b)].state = "waiting" /\ Take(EmbedJob(g, b)) /\ batch' = batch
      /\ worker'[w].next = {} /\ worker'[w].pc = "embedStale"
      /\ \A v \in Worker \ {w} : worker'[v] = worker[v]
  BY DEF EmbedLoadStale, Inv, QueueOK, IdleWorker
<1>2. Places(w)'
  BY <1>1 DEF Places, At
<1> QED
  BY <1>1, <1>2, JobIdFacts, TakeScheduling

\* The batch of a job that is delivered is under way, or all are done.
LEMMA EmbedLoadScheduling ==
    ASSUME Inv, Scheduling, FenceStays, NEW w \in Worker, NEW g \in Gen, NEW b \in Batch, NEW p \in Profile,
           EmbedLoad(w, g, b, p)
    PROVE  Scheduling'
<1>1. /\ job[EmbedJob(g, b)].state = "waiting" /\ Take(EmbedJob(g, b)) /\ batch' = batch /\ run' = run
      /\ ~Cancelled(g)
      /\ worker'[w].next = {} /\ worker'[w].job = EmbedJob(g, b)
      /\ \/ worker'[w].pc = "completeBatch"
         \/ worker'[w].pc = "storeBatch" /\ batch[g][b] # "ready"
      /\ \A v \in Worker \ {w} : worker'[v] = worker[v]
  BY DEF EmbedLoad, Inv, QueueOK, IdleWorker
<1>2. JobOf(w)' = EmbedJob(g, b) /\ G(w)' = g
  BY <1>1, JobIdFacts DEF JobOf, G
<1>3. /\ batch[g][b] = "processing" \/ AllReady(g)
      /\ batch[g][b] # "none"
  BY <1>1 DEF Scheduling, Window
<1>4. batch'[g][b] = batch[g][b] /\ (AllReady(g) => AllReady(g)')
  BY <1>1 DEF AllReady
<1>5. BatchIn(EmbedJob(g, b)) = b
  BY JobKinds
<1>6. batch[g][b] = "ready" \/ batch[g][b] = "processing"
  BY <1>3 DEF AllReady
<1>7. Places(w)'
  BY <1>1, <1>2, <1>3, <1>4, <1>5, <1>6 DEF Places, At
<1> QED
  BY <1>1, <1>7, JobIdFacts, TakeScheduling

\* The graph job is queued last.
LEMMA GraphScheduling ==
    ASSUME Inv, Scheduling, FenceStays, NEW w \in Worker, Busy(w), UNCHANGED <<job, batch>>,
           worker' = [worker EXCEPT ![w].pc = "enqueue", ![w].next = {GraphJob(G(w))}]
    PROVE  Scheduling'
<1>1. worker \in [Worker -> Handler] /\ worker[w] \in Handler /\ G(w) \in Gen
  BY BusyFacts DEF Inv, QueueOK
<1>2. /\ worker'[w].pc = "enqueue" /\ worker'[w].next = {GraphJob(G(w))}
      /\ \A v \in Worker \ {w} : worker'[v] = worker[v]
  BY <1>1 DEF Handler
<1>3. \A g \in Gen, b \in Batch : EmbedJob(g, b) \notin worker'[w].next
  BY <1>1, <1>2, JobKinds
<1> QED
  BY <1>2, <1>3, EasyMove, UnchangedQuiet, SameBatches

LEMMA StoreBatchScheduling ==
    ASSUME Inv, Scheduling, FenceStays, NEW w \in Worker, HandlerKind(w), StoreBatch(w)
    PROVE  Scheduling'
<1>1. At(w, "storeBatch") /\ Busy(w) /\ UNCHANGED <<run, batch>>
  BY DEF StoreBatch, At, Busy
<1>2. CASE Goto(w, "embedStale")
  BY <1>1, <1>2, GotoScheduling DEF WorkerPc
<1>3. CASE Goto(w, "completeBatch")
  <2>1. PICK g \in Gen : g = G(w)
    BY <1>1, BusyFacts
  <2>2. PICK b \in Batch : JobOf(w) = EmbedJob(g, b)
    BY <1>1, <2>1 DEF HandlerKind, At
  <2>3. ~Cancelled(g) => batch[g][b] = "processing"
    BY <1>1, <2>1, <2>2, JobKinds DEF Scheduling, Places
  <2>4. /\ worker'[w].pc = "completeBatch" /\ worker'[w].next = worker[w].next
        /\ JobOf(w)' = EmbedJob(g, b) /\ G(w)' = g
        /\ \A v \in Worker \ {w} : worker'[v] = worker[v]
    BY <1>3, <2>1, <2>2, GotoWorker
  <2>5. Cancelled(g)' <=> Cancelled(g)
    BY <1>1 DEF Cancelled, Exists
  <2>6. Modest(w)
    BY <1>1, <2>4 DEF Modest, HandsNoMore, Handing, At
  <2>7. Places(w)'
    BY <1>1, <2>3, <2>4, <2>5, JobKinds DEF Places, At
  <2>8. \A h \in Gen : EmbedCalm(h)
    BY <1>3, UnchangedQuiet DEF Goto
  <2> QED
    BY <1>1, <2>4, <2>6, <2>7, <2>8, SameBatches
<1> QED
  BY <1>2, <1>3 DEF StoreBatch

LEMMA EnqueueScheduling ==
    ASSUME Inv, Scheduling, FenceStays, NEW w \in Worker, Enqueue(w)
    PROVE  Scheduling'
<1>1. Busy(w) /\ UNCHANGED <<run, batch>>
  BY DEF Enqueue, At, Busy
<1>2. PICK g \in Gen : g = G(w)
  BY <1>1, BusyFacts
<1>3. PICK j \in worker[w].next :
        /\ job' = IF Cancelled(g) THEN job
                  ELSE Add(job, [i \in {j} |-> Queued(worker[w].full, worker[w].context)])
        /\ worker' = [worker EXCEPT
              ![w].next = @ \ {j},
              ![w].added = IF Cancelled(g) THEN @ ELSE @ \cup {j},
              ![w].pc = IF worker[w].next = {j} THEN "finish" ELSE "enqueue"]
  BY <1>2 DEF Enqueue
<1>4. /\ worker'[w].pc \in {"enqueue", "finish"} /\ worker'[w].next = worker[w].next \ {j}
      /\ \A v \in Worker \ {w} : worker'[v] = worker[v]
  <2>1. worker \in [Worker -> Handler] /\ worker[w] \in Handler
    BY DEF Inv, QueueOK
  <2> QED
    BY <1>3, <2>1 DEF Handler
<1>5. Modest(w) /\ Places(w)'
  BY <1>1, <1>4, EasyMove DEF Handing
<1>6. GenOf(j) = g
  BY <1>1, <1>2, <1>3 DEF Inv, QueueOK, OwnsJob
<1>7. \A i \in JobId : job'[i] = job[i] \/ (i = j /\ ~Cancelled(g))
  BY <1>3 DEF Add
<1>8. ASSUME NEW h \in Gen, NEW b \in Batch, EmbedJob(h, b) = j, ~Cancelled(g)
      PROVE  h = g /\ batch[h][b] = "processing" /\ \A v \in Worker : ~Handing(v, h, b)'
  <2>1. h = g
    BY <1>6, <1>8, JobIdFacts
  <2>2. Handing(w, g, b)
    BY <1>1, <1>3, <1>8, <2>1 DEF Handing
  <2>3. batch[g][b] = "processing" /\ \A v \in Worker : Handing(v, g, b) => v = w
    BY <1>8, <2>2 DEF Scheduling, Window
  <2>4. \A v \in Worker \ {w} : ~Handing(v, g, b)'
    BY <1>4, <2>3 DEF Handing, Busy
  <2>5. ~Handing(w, g, b)'
    BY <1>4, <1>8, <2>1 DEF Handing
  <2> QED
    BY <2>1, <2>3, <2>4, <2>5
<1>9. ASSUME NEW h \in Gen
      PROVE  EmbedCalm(h)
  BY <1>7, <1>8, JobIdFacts DEF EmbedCalm
<1> QED
  BY <1>1, <1>4, <1>5, <1>9, SameBatches

LEMMA FinishScheduling ==
    ASSUME Inv, Scheduling, FenceStays, NEW w \in Worker, Finish(w)
    PROVE  Scheduling'
<1>1. /\ Busy(w) /\ UNCHANGED batch /\ worker' = [worker EXCEPT ![w] = IdleWorker]
      /\ \E late : job' = Ended(Remove(job, late), JobOf(w))
  BY DEF Finish, At, Busy
<1>2. PICK late : job' = Ended(Remove(job, late), JobOf(w))
  BY <1>1
<1>3. JobOf(w) \in JobId /\ job[JobOf(w)].state = "active"
  BY <1>1, BusyFacts
<1>4. Remove(job, late) = Remove(job, late \ {JobOf(w)})
  BY <1>3 DEF Remove
<1>5. \A g \in Gen : EmbedCalm(g)
  BY <1>2, <1>3, <1>4, EndedQuiet
<1>6. \A v \in Worker : worker'[v] = worker[v] \/ (Modest(v) /\ Places(v)')
  BY <1>1, ThrowIdle, IdlePlaces
<1> QED
  BY <1>1, <1>5, <1>6, SameBatches

\* A handler claims at most n batches of its generation, while those of S are
\* scheduled besides its own.
LEMMA ClaimScheduling ==
    ASSUME Inv, Inv', Scheduling, FenceStays, \A v \in Worker : HandlerKind(v),
           NEW w \in Worker, NEW n \in Nat \ {0}, NEW lost \in SUBSET Contended(w),
           ClaimBatches(w, n, lost),
           worker[w].pc \in {"claim", "claimNext"}, NEW g \in Gen, G(w) = g, NEW S \in SUBSET Batch,
           ~Cancelled(g) =>
              /\ Cardinality(S) + n <= MaxActive
              /\ \A b \in Batch :
                    (\/ batch[g][b] = "processing"
                     \/ \E v \in Worker \ {w} : At(v, "claimNext") /\ JobOf(v) = EmbedJob(g, b))
                    => b \in S
              /\ \A v \in Worker \ {w} : ~(At(v, "claim") /\ G(v) = g)
    PROVE  Scheduling'
<1> DEFINE claimed == Claimable(g, n, lost)
           ids == {EmbedJob(g, b) : b \in claimed}
<1>1. Busy(w) /\ UNCHANGED run
  BY DEF ClaimBatches, Busy
<1>2. /\ claimed \in SUBSET {b \in Batch : batch[g][b] = "pending"} /\ Cardinality(claimed) <= n
      /\ Cancelled(g) => claimed = {}
  BY FewClaimed DEF Contended
<1>3. batch' = [batch EXCEPT ![g] = [b \in Batch |-> IF b \in claimed THEN "processing" ELSE @[b]]]
  BY DEF ClaimBatches
<1>4. /\ claimed = {} => Done(w)
      /\ claimed # {} => /\ job' = job
                         /\ worker' = [worker EXCEPT ![w].pc = "enqueue", ![w].next = ids,
                                ![w].full = run[g].full, ![w].context = run[g].context]
  <2>1. CASE claimed = {}
    BY <2>1 DEF ClaimBatches
  <2>2. CASE claimed # {}
    <3>1. Claimable(G(w), n, lost) # {}
      BY <2>2
    <3>2. /\ job' = job
          /\ worker' = [worker EXCEPT ![w].pc = "enqueue",
                           ![w].next = {EmbedJob(G(w), b) : b \in Claimable(G(w), n, lost)},
                           ![w].full = run[G(w)].full, ![w].context = run[G(w)].context]
      BY <3>1 DEF ClaimBatches
    <3>3. Claimable(G(w), n, lost) = claimed /\ {EmbedJob(G(w), b) : b \in Claimable(G(w), n, lost)} = ids
          /\ run[G(w)] = run[g]
      OBVIOUS
    <3> HIDE DEF claimed, ids
    <3> QED
      BY <2>2, <3>2, <3>3
  <2> QED
    BY <2>1, <2>2
<1>5. \A i \in ids : \E b \in claimed : i = EmbedJob(g, b)
  OBVIOUS
<1>6. \A b \in Batch : EmbedJob(g, b) \in ids => b \in claimed
  BY <1>2, <1>5, JobKinds
<1> HIDE DEF claimed, ids
<1>8. /\ \A h \in Gen \ {g} : batch'[h] = batch[h]
      /\ \A b \in Batch : batch'[g][b] = IF b \in claimed THEN "processing" ELSE batch[g][b]
  BY <1>3 DEF Inv, TablesOK
<1>9. CASE claimed = {}
  <2>1. batch' = batch
    <3>1. batch \in [Gen -> [Batch -> BatchStatus]] /\ batch' \in [Gen -> [Batch -> BatchStatus]]
      BY <1>3, <1>9 DEF Inv, TablesOK
    <3>2. \A h \in Gen, b \in Batch : batch'[h][b] = batch[h][b]
      BY <1>8, <1>9
    <3>3. \A h \in Gen : batch'[h] = batch[h]
      BY <3>1, <3>2
    <3> QED
      BY <3>1, <3>3
  <2> QED
    BY <1>1, <1>4, <1>9, <2>1, DoneScheduling
<1>10. CASE claimed # {}
  <2>1. ~Cancelled(g) /\ ~Cancelled(g)' /\ \A h \in Gen : Cancelled(h)' <=> Cancelled(h)
    BY <1>1, <1>2, <1>10 DEF Cancelled, Exists
  <2>2. /\ worker'[w].pc = "enqueue" /\ worker'[w].next = ids /\ job' = job
        /\ \A v \in Worker \ {w} : worker'[v] = worker[v]
    <3>1. worker \in [Worker -> Handler] /\ worker[w] \in Handler
      BY DEF Inv, QueueOK
    <3> QED
      BY <1>4, <1>10, <3>1 DEF Handler
  <2>3. ~AllReady(g)
    BY <1>2, <1>10 DEF AllReady
  <2>4. \A v \in Worker \ {w}, b \in Batch : Handing(v, g, b)' <=> Handing(v, g, b)
    BY <2>2 DEF Handing, Busy
  <2>5. \A b \in Batch : Handing(w, g, b)' => b \in claimed
    BY <1>6, <2>2 DEF Handing
  <2>7. Scheduled(g)' \in SUBSET (S \cup claimed)
    <3>1. \A v \in Worker, b \in Batch : At(v, "claimNext")' /\ JobOf(v)' = EmbedJob(g, b) =>
            v # w /\ At(v, "claimNext") /\ JobOf(v) = EmbedJob(g, b)
      BY <2>2 DEF At, JobOf
    <3> QED
      BY <1>8, <2>1, <3>1 DEF Scheduled
  <2>8. Cardinality(Scheduled(g)') <= MaxActive
    <3>1. claimed \in SUBSET Batch /\ S \cup claimed \in SUBSET Batch
      BY <1>2
    <3>2. /\ IsFiniteSet(S) /\ IsFiniteSet(claimed) /\ Cardinality(S) \in Nat
          /\ Cardinality(claimed) \in Nat /\ Cardinality(S \cap claimed) \in Nat
      <4>1. S \cap claimed \in SUBSET Batch
        BY <3>1
      <4> QED
        BY <3>1, <4>1, SomeBatches
    <3>3. Cardinality(S \cup claimed) = Cardinality(S) + Cardinality(claimed) - Cardinality(S \cap claimed)
      BY <3>2, FS_Union
    <3>4. Cardinality(S \cup claimed) <= MaxActive
      BY <1>2, <2>1, <3>1, <3>2, <3>3, SomeBatches, LimitAssumption
    <3> QED
      BY <2>7, <3>1, <3>4, FewerBatches, LimitAssumption
  <2>9. Cardinality({b \in Batch : batch'[g][b] = "processing"}) <= MaxActive
    <3>1. {b \in Batch : batch'[g][b] = "processing"} \in SUBSET Scheduled(g)' /\ Scheduled(g)' \in SUBSET Batch
      BY DEF Scheduled
    <3> QED
      BY <2>8, <3>1, FewerBatches, LimitAssumption
  <2>10. ASSUME NEW b \in Batch
         PROVE  /\ batch'[g][b] \in {"none", "pending"} =>
                      job'[EmbedJob(g, b)].state = "none" /\ \A v \in Worker : ~Handing(v, g, b)'
                /\ job'[EmbedJob(g, b)].state = "waiting" => batch'[g][b] = "processing" \/ AllReady(g)'
                /\ \A u \in Worker : Handing(u, g, b)' =>
                      /\ batch'[g][b] = "processing" /\ job'[EmbedJob(g, b)].state = "none"
                      /\ \A v \in Worker : Handing(v, g, b)' => v = u
    <3>1. /\ batch[g][b] \in {"none", "pending"} =>
               job[EmbedJob(g, b)].state = "none" /\ \A v \in Worker : ~Handing(v, g, b)
          /\ job[EmbedJob(g, b)].state = "waiting" => batch[g][b] = "processing"
          /\ \A u \in Worker : Handing(u, g, b) =>
                /\ batch[g][b] = "processing" /\ job[EmbedJob(g, b)].state = "none"
                /\ \A v \in Worker : Handing(v, g, b) => v = u
      BY <2>1, <2>3 DEF Scheduling, Window
    <3>2. CASE b \in claimed
      <4>1. batch[g][b] = "pending" /\ batch'[g][b] = "processing"
        BY <1>2, <1>8, <3>2
      <4> QED
        BY <2>2, <2>4, <3>1, <4>1
    <3>3. CASE b \notin claimed
      <4>1. batch'[g][b] = batch[g][b] /\ ~Handing(w, g, b)'
        BY <1>8, <2>5, <3>3
      <4> QED
        BY <2>2, <2>4, <3>1, <4>1
    <3> QED
      BY <3>2, <3>3
  <2>11. Window(g)'
    BY <2>8, <2>9, <2>10 DEF Window
  <2>12. ASSUME NEW v \in Worker \ {w}, Busy(v), G(v) = g
         PROVE  Places(v)'
    <3>1. /\ Busy(v)' /\ JobOf(v)' = JobOf(v) /\ G(v)' = g
          /\ \A pc : At(v, pc)' <=> At(v, pc)
      BY <2>2, <2>12 DEF Busy, JobOf, G, At
    <3>2. /\ ~At(v, "claim") /\ ~At(v, "activate")
          /\ At(v, "claimNext") => \E b \in Batch : JobOf(v) = EmbedJob(g, b) /\ batch[g][b] = "ready"
          /\ At(v, "storeBatch") => batch[g][BatchIn(JobOf(v))] = "processing"
          /\ At(v, "completeBatch") => batch[g][BatchIn(JobOf(v))] = "processing"
      BY <2>1, <2>3, <2>12 DEF Scheduling, Places
    <3>3. At(v, "storeBatch") \/ At(v, "completeBatch") => BatchIn(JobOf(v)) \in Batch
      BY <2>12, JobKinds DEF HandlerKind, At
    <3> QED
      BY <1>2, <1>8, <3>1, <3>2, <3>3 DEF Places
  <2>13. Places(w)'
    BY <2>2 DEF Places, At
  <2> QED
    <3>1. G(w)' = g
      BY <1>4, <1>10 DEF Inv, QueueOK, Handler, G, JobOf
    <3> QED
      BY <1>8, <2>2, <2>11, <2>12, <2>13, <3>1, UnchangedQuiet, OneGen
<1> QED
  BY <1>9, <1>10

LEMMA ClaimFirst ==
    ASSUME Inv, Inv', Scheduling, FenceStays, \A v \in Worker : HandlerKind(v), NEW w \in Worker, Claim(w)
    PROVE  Scheduling'
<1>1. PICK lost \in SUBSET Contended(w) : At(w, "claim") /\ Busy(w) /\ ClaimBatches(w, MaxActive, lost)
  BY DEF Claim, At, Busy
<1>2. PICK g \in Gen : G(w) = g
  BY <1>1, BusyFacts
<1>3. ASSUME ~Cancelled(g)
      PROVE  /\ \A b \in Batch : batch[g][b] # "processing"
             /\ \A v \in Worker \ {w} : ~(At(v, "claim") /\ G(v) = g)
             /\ \A v \in Worker, b \in Batch : ~(At(v, "claimNext") /\ JobOf(v) = EmbedJob(g, b))
  <2>1. JobOf(w) = PrepareJob(g) /\ \A b \in Batch : batch[g][b] \in {"none", "pending"}
    BY <1>1, <1>2, <1>3 DEF Scheduling, Places
  <2>2. \A v \in Worker : Busy(v) /\ JobOf(v) = JobOf(w) => v = w
    BY <1>1 DEF Inv, QueueOK, OwnsAlone
  <2>3. \A v \in Worker \ {w} : ~(At(v, "claim") /\ G(v) = g)
    BY <1>3, <2>1, <2>2 DEF Scheduling, Places, At, Busy
  <2>4. ASSUME NEW v \in Worker, NEW b \in Batch, At(v, "claimNext"), JobOf(v) = EmbedJob(g, b)
        PROVE  FALSE
    <3>1. Busy(v) /\ G(v) = g
      BY <2>4, JobIdFacts DEF At, Busy, G
    <3> QED
      BY <1>3, <2>1, <2>4, <3>1 DEF Scheduling, Places
  <2> QED
    BY <2>1, <2>3, <2>4
<1>4. Cardinality({}) + MaxActive <= MaxActive /\ MaxActive \in Nat \ {0}
  BY FS_EmptySet, LimitAssumption
<1>5. {} \in SUBSET Batch
  OBVIOUS
<1> QED
  BY <1>1, <1>2, <1>3, <1>4, <1>5, ClaimScheduling DEF At

\* A batch that is done makes room for the one it claims.
LEMMA ClaimAfter ==
    ASSUME Inv, Inv', Scheduling, FenceStays, \A v \in Worker : HandlerKind(v), NEW w \in Worker, ClaimNext(w)
    PROVE  Scheduling'
<1>1. PICK lost \in SUBSET Contended(w) : At(w, "claimNext") /\ Busy(w) /\ ClaimBatches(w, 1, lost)
  BY DEF ClaimNext, At, Busy
<1>2. PICK g \in Gen : G(w) = g
  BY <1>1, BusyFacts
<1>3. ASSUME NEW d \in Batch, JobOf(w) = EmbedJob(g, d), batch[g][d] = "ready", ~Cancelled(g)
      PROVE  Scheduling'
  <2> DEFINE S == Scheduled(g) \ {d}
  <2>1. d \in Scheduled(g) /\ Scheduled(g) \in SUBSET Batch /\ S \in SUBSET Batch
    BY <1>1, <1>3 DEF Scheduled
  <2>2. Cardinality(Scheduled(g)) <= MaxActive
    BY <1>3 DEF Scheduling, Window
  <2>3. Cardinality(S) + 1 <= MaxActive
    <3>1. IsFiniteSet(Scheduled(g)) /\ Cardinality(Scheduled(g)) \in Nat
      BY <2>1, SomeBatches
    <3>2. Cardinality(S) = Cardinality(Scheduled(g)) - 1
      BY <2>1, <3>1, FS_RemoveElement
    <3> QED
      BY <2>2, <3>1, <3>2, LimitAssumption
  <2>4. \A b \in Batch : (\/ batch[g][b] = "processing"
                          \/ \E v \in Worker \ {w} : At(v, "claimNext") /\ JobOf(v) = EmbedJob(g, b))
                         => b \in S
    <3>1. \A v \in Worker : Busy(v) /\ JobOf(v) = JobOf(w) => v = w
      BY <1>1 DEF Inv, QueueOK, OwnsAlone
    <3>2. \A v \in Worker \ {w} : ~(At(v, "claimNext") /\ JobOf(v) = EmbedJob(g, d))
      BY <1>3, <3>1 DEF At, Busy
    <3> QED
      BY <1>3, <3>2 DEF Scheduled
  <2>5. \A v \in Worker \ {w} : ~(At(v, "claim") /\ G(v) = g)
    BY <1>3 DEF Scheduling, Places, At, Busy
  <2> HIDE DEF S
  <2> QED
    BY <1>1, <1>2, <2>1, <2>3, <2>4, <2>5, ClaimScheduling DEF At
<1>4. CASE Cancelled(g)
  BY <1>1, <1>2, <1>4, ClaimScheduling DEF At
<1>5. CASE ~Cancelled(g)
  <2>1. \E d \in Batch : JobOf(w) = EmbedJob(g, d) /\ batch[g][d] = "ready"
    BY <1>1, <1>2, <1>5 DEF Scheduling, Places
  <2> QED
    BY <1>3, <1>5, <2>1
<1> QED
  BY <1>4, <1>5

\* A batch that is done stays scheduled until its handler has claimed another.
LEMMA CompleteBatchScheduling ==
    ASSUME Inv, Inv', Scheduling, FenceStays, \A v \in Worker : HandlerKind(v),
           NEW w \in Worker, CompleteBatch(w)
    PROVE  Scheduling'
<1>1. At(w, "completeBatch") /\ Busy(w)
  BY DEF CompleteBatch, At, Busy
<1>2. PICK g \in Gen : G(w) = g
  BY <1>1, BusyFacts
<1>3. PICK d \in Batch : JobOf(w) = EmbedJob(g, d)
  BY <1>1, <1>2 DEF HandlerKind, At
<1>4. BatchIn(JobOf(w)) = d /\ job[EmbedJob(g, d)].state = "active"
  BY <1>1, <1>3, BusyFacts, JobKinds
<1> DEFINE now == [batch[g] EXCEPT ![d] = IF @ = "none" THEN "none" ELSE "ready"]
           all == \A x \in Batch : now[x] \in {"none", "ready"}
<1>5. worker \in [Worker -> Handler] /\ worker[w] \in Handler
  BY DEF Inv, QueueOK
<1>6. /\ job' = job
      /\ worker'[w].next = worker[w].next /\ JobOf(w)' = EmbedJob(g, d) /\ G(w)' = g
      /\ \A v \in Worker \ {w} : worker'[v] = worker[v]
  <2>1. CASE Cancelled(g)
    <3>1. Goto(w, "claimNext")
      BY <1>2, <2>1 DEF CompleteBatch
    <3> QED
      BY <1>2, <1>3, <3>1, GotoWorker DEF Goto
  <2>2. CASE ~Cancelled(g)
    <3>1. job' = job /\ \E pc, n : worker' = [worker EXCEPT ![w].pc = pc, ![w].total = n]
      BY <1>2, <2>2 DEF CompleteBatch
    <3>2. /\ worker'[w].next = worker[w].next /\ worker'[w].job = worker[w].job
          /\ \A v \in Worker \ {w} : worker'[v] = worker[v]
      BY <1>5, <3>1 DEF Handler
    <3> QED
      BY <1>2, <1>3, <3>1, <3>2 DEF JobOf, G
  <2> QED
    BY <2>1, <2>2
<1>7. \A h \in Gen : EmbedCalm(h)
  BY <1>6, UnchangedQuiet
<1>8. CASE Cancelled(g)
  <2>1. UNCHANGED batch /\ Cancelled(g)'
    BY <1>2, <1>8 DEF CompleteBatch, FenceStays
  <2>2. Window(g)'
    BY <2>1 DEF Window, Scheduling
  <2>3. Places(w)'
    BY <1>6, <2>1 DEF Places
  <2>4. \A v \in Worker \ {w} : Busy(v) /\ G(v) = g => Places(v)'
    BY <1>6, <2>1, PlacesStay DEF Scheduling
  <2> QED
    BY <1>6, <1>7, <2>1, <2>2, <2>3, <2>4, OneGen
<1>9. CASE ~Cancelled(g)
  <2>1. /\ batch' = [batch EXCEPT ![g] = now]
        /\ worker'[w].pc = IF all THEN "activate" ELSE "claimNext"
    <3>1. /\ batch' = [batch EXCEPT ![g] = now]
          /\ \E n : worker' = [worker EXCEPT ![w].pc = IF all THEN "activate" ELSE "claimNext", ![w].total = n]
      BY <1>2, <1>4, <1>9 DEF CompleteBatch
    <3> HIDE DEF all
    <3> QED
      BY <1>5, <3>1 DEF Handler
  <2>2. batch[g] \in [Batch -> BatchStatus]
    BY DEF Inv, TablesOK
  <2>3. batch[g][d] = "processing" \/ AllReady(g)
    BY <1>1, <1>2, <1>4, <1>9 DEF Scheduling, Places
  <2>4. batch[g][d] \in {"processing", "ready"}
    <3>1. batch[g][d] # "none"
      BY <1>4, <1>9 DEF Scheduling, Window
    <3> QED
      BY <2>3, <3>1 DEF AllReady
  <2>5. now[d] = "ready" /\ \A b \in Batch \ {d} : now[b] = batch[g][b]
    BY <2>2, <2>4
  <2>6. AllReady(g) => all
    BY <2>5 DEF AllReady
  <2> HIDE DEF now
  <2>7. batch'[g] = now /\ \A h \in Gen \ {g} : batch'[h] = batch[h]
    BY <2>1 DEF Inv, TablesOK
  <2>8. AllReady(g)' <=> all
    BY <2>7 DEF AllReady
  <2> HIDE DEF all
  <2>9. AllReady(g) => AllReady(g)'
    BY <2>6, <2>8
  <2>10. \A v \in Worker, b \in Batch : Handing(v, g, b)' => Handing(v, g, b)
    BY <1>1, <1>6 DEF Handing, Busy
  <2>11. Scheduled(g)' \in SUBSET Scheduled(g) /\ Scheduled(g) \in SUBSET Batch
    <3>1. ASSUME NEW b \in Batch, NEW v \in Worker, At(v, "claimNext")', JobOf(v)' = EmbedJob(g, b)
          PROVE  b \in Scheduled(g)
      <4>1. CASE v = w
        <5>1. b = d
          BY <1>6, <3>1, <4>1, JobKinds DEF JobOf
        <5>2. ~AllReady(g)
          BY <2>1, <2>6, <3>1, <4>1 DEF At
        <5> QED
          BY <2>3, <5>1, <5>2 DEF Scheduled
      <4>2. CASE v # w
        BY <1>6, <3>1, <4>2 DEF Scheduled, At, JobOf
      <4> QED
        BY <4>1, <4>2
    <3>2. \A b \in Batch : batch'[g][b] = "processing" => b \in Scheduled(g)
      BY <2>5, <2>7 DEF Scheduled
    <3> QED
      BY <3>1, <3>2 DEF Scheduled
  <2>12. Cardinality(Scheduled(g)') <= MaxActive
    BY <1>9, <2>11, FewerBatches, LimitAssumption DEF Scheduling, Window
  <2>13. Cardinality({b \in Batch : batch'[g][b] = "processing"}) <= MaxActive
    <3>1. {b \in Batch : batch'[g][b] = "processing"} \in SUBSET Scheduled(g)' /\ Scheduled(g)' \in SUBSET Batch
      BY DEF Scheduled
    <3> QED
      BY <2>12, <3>1, FewerBatches, LimitAssumption
  <2>14. ASSUME NEW b \in Batch
         PROVE  /\ batch'[g][b] \in {"none", "pending"} =>
                      job'[EmbedJob(g, b)].state = "none" /\ \A v \in Worker : ~Handing(v, g, b)'
                /\ job'[EmbedJob(g, b)].state = "waiting" => batch'[g][b] = "processing" \/ AllReady(g)'
                /\ \A u \in Worker : Handing(u, g, b)' =>
                      /\ batch'[g][b] = "processing" /\ job'[EmbedJob(g, b)].state = "none"
                      /\ \A v \in Worker : Handing(v, g, b)' => v = u
    <3>1. /\ batch[g][b] \in {"none", "pending"} =>
               job[EmbedJob(g, b)].state = "none" /\ \A v \in Worker : ~Handing(v, g, b)
          /\ job[EmbedJob(g, b)].state = "waiting" => batch[g][b] = "processing" \/ AllReady(g)
          /\ \A u \in Worker : Handing(u, g, b) =>
                /\ batch[g][b] = "processing" /\ job[EmbedJob(g, b)].state = "none"
                /\ \A v \in Worker : Handing(v, g, b) => v = u
      BY <1>9 DEF Scheduling, Window
    <3>2. CASE b = d
      BY <1>4, <1>6, <2>5, <2>7, <2>10, <3>1, <3>2
    <3>3. CASE b # d
      BY <1>6, <2>5, <2>7, <2>9, <2>10, <3>1, <3>3
    <3> QED
      BY <3>2, <3>3
  <2>15. Window(g)'
    BY <2>12, <2>13, <2>14 DEF Window
  <2>16. Places(w)'
    BY <1>6, <2>1, <2>5, <2>7, <2>8 DEF Places, At
  <2>17. ASSUME NEW v \in Worker \ {w}, Busy(v), G(v) = g
         PROVE  Places(v)'
    <3>1. /\ Busy(v)' /\ JobOf(v)' = JobOf(v) /\ G(v)' = g
          /\ \A pc : At(v, pc)' <=> At(v, pc)
      BY <1>6, <2>17 DEF Busy, JobOf, G, At
    <3>2. JobOf(v) # EmbedJob(g, d)
      BY <1>1, <1>3, <2>17 DEF Inv, QueueOK, OwnsAlone
    <3>3. /\ ~At(v, "claim")
          /\ At(v, "claimNext") => \E b \in Batch : JobOf(v) = EmbedJob(g, b) /\ batch[g][b] = "ready"
          /\ At(v, "storeBatch") => batch[g][BatchIn(JobOf(v))] = "processing"
          /\ At(v, "completeBatch") => batch[g][BatchIn(JobOf(v))] = "processing" \/ AllReady(g)
          /\ At(v, "activate") => AllReady(g)
      BY <1>9, <2>4, <2>17 DEF Scheduling, Places
    <3>4. At(v, "storeBatch") \/ At(v, "completeBatch") =>
             BatchIn(JobOf(v)) \in Batch /\ BatchIn(JobOf(v)) # d
      BY <2>17, <3>2, JobKinds DEF HandlerKind, At
    <3> QED
      BY <2>5, <2>7, <2>9, <3>1, <3>3, <3>4 DEF Places
  <2> QED
    BY <1>6, <1>7, <2>7, <2>15, <2>16, <2>17, OneGen
<1> QED
  BY <1>8, <1>9

\* The batches of a generation appear when nothing was written for it yet.
LEMMA PrepareRunScheduling ==
    ASSUME Inv, Inv', Whole, Scheduling, FenceStays, Faults = 0, NEW w \in Worker, PrepareRun(w)
    PROVE  Scheduling'
<1>1. At(w, "prepareRun") /\ Busy(w) /\ job' = job
  BY DEF PrepareRun, At, Busy, Goto
<1>2. PICK g \in Gen : G(w) = g
  BY <1>1, BusyFacts
<1>3. Fresh(g)
  BY <1>1, <1>2 DEF Whole, GenOK, Once, PrepareOpen, Preparing, At
<1>4. JobOf(w) = PrepareJob(g)
  BY <1>1, <1>2 DEF Whole, HandlerOK, HandlerKind, At
<1>5. /\ worker'[w].pc \in {"completeEmpty", "claim"} /\ worker'[w].next = worker[w].next
      /\ JobOf(w)' = PrepareJob(g) /\ G(w)' = g
      /\ \A v \in Worker \ {w} : worker'[v] = worker[v]
  <2>1. PICK pc \in {"completeEmpty", "claim"} : Goto(w, pc)
    BY DEF PrepareRun
  <2> QED
    BY <1>2, <1>4, <2>1, GotoWorker
<1>6. /\ \A h \in Gen \ {g} : batch'[h] = batch[h]
      /\ \A b \in Batch : batch'[g][b] \in {"none", "pending"}
  <2>1. PICK S : batch' = [batch EXCEPT ![g] = [b \in Batch |-> IF b \in S /\ @[b] = "none"
                                                                THEN "pending" ELSE @[b]]]
    BY <1>2 DEF PrepareRun
  <2> QED
    BY <1>3, <2>1 DEF Inv, TablesOK, Fresh
<1>7. \A h \in Gen : EmbedCalm(h)
  BY <1>1, UnchangedQuiet
\* Whoever else is busy with g has its graph job.
<1>8. ASSUME NEW v \in Worker \ {w}, Busy(v), G(v) = g
      PROVE  /\ Busy(v)' /\ JobOf(v)' = JobOf(v) /\ G(v)' = g
             /\ \A pc : At(v, pc)' <=> At(v, pc)
             /\ JobOf(v) # PrepareJob(g) /\ \A b \in Batch : JobOf(v) # EmbedJob(g, b)
  <2>1. JobOf(v) # PrepareJob(g)
    BY <1>1, <1>4, <1>8 DEF Inv, QueueOK, OwnsAlone
  <2>2. job[JobOf(v)].state = "active"
    BY <1>8, BusyFacts
  <2> QED
    BY <1>3, <1>5, <1>8, <2>1, <2>2 DEF Fresh, Busy, JobOf, G, At
<1>9. Window(g)'
  <2>1. ASSUME ~Cancelled(g), NEW v \in Worker, NEW b \in Batch
        PROVE  ~Handing(v, g, b)'
    <3>1. ~Handing(v, g, b)
      BY <1>3, <2>1 DEF Fresh, Scheduling, Window
    <3> QED
      BY <1>1, <1>5, <3>1 DEF Handing, Busy
  <2>2. ~Cancelled(g)' => ~Cancelled(g)
    BY DEF FenceStays
  <2>3. ASSUME ~Cancelled(g)', NEW v \in Worker, NEW b \in Batch
        PROVE  ~(At(v, "claimNext")' /\ JobOf(v)' = EmbedJob(g, b))
    <3>1. CASE v = w
      BY <1>5, <3>1 DEF At
    <3>2. CASE v # w
      <4>1. At(v, "claimNext")' /\ JobOf(v)' = EmbedJob(g, b) =>
              Busy(v) /\ JobOf(v) = EmbedJob(g, b) /\ G(v) = g
        BY <1>5, <3>2, JobIdFacts DEF At, Busy, JobOf, G
      <4> QED
        BY <1>8, <3>2, <4>1
    <3> QED
      BY <3>1, <3>2
  <2>4. \A b \in Batch : batch'[g][b] # "processing" /\ job'[EmbedJob(g, b)].state = "none"
    BY <1>1, <1>3, <1>6 DEF Fresh
  <2>5. ~Cancelled(g)' => Scheduled(g)' = {}
    BY <2>3, <2>4 DEF Scheduled
  <2>6. {b \in Batch : batch'[g][b] = "processing"} = {}
    BY <2>4
  <2>7. Cardinality({}) <= MaxActive
    BY FS_EmptySet, LimitAssumption
  <2>8. ~Cancelled(g)' => Cardinality(Scheduled(g)') <= MaxActive
    BY <2>5, <2>7
  <2>9. Cardinality({b \in Batch : batch'[g][b] = "processing"}) <= MaxActive
    BY <2>6, <2>7
  <2> QED
    BY <2>1, <2>2, <2>4, <2>8, <2>9 DEF Window
<1>10. Places(w)'
  BY <1>5, <1>6 DEF Places, At
<1>11. ASSUME NEW v \in Worker \ {w}, Busy(v), G(v) = g
       PROVE  Places(v)'
  <2>1. At(v, "storeBatch") \/ At(v, "completeBatch") \/ At(v, "activate") =>
          \E b \in Batch : JobOf(v) = EmbedJob(g, b)
    BY <1>11 DEF Whole, HandlerOK, HandlerKind, At
  <2>2. ~Cancelled(g) =>
          /\ At(v, "claim") => JobOf(v) = PrepareJob(g)
          /\ At(v, "claimNext") => \E b \in Batch : JobOf(v) = EmbedJob(g, b)
    BY <1>11 DEF Scheduling, Places
  <2>3. ~Cancelled(g)' => ~Cancelled(g)
    BY DEF FenceStays
  <2> QED
    BY <1>8, <1>11, <2>1, <2>2, <2>3 DEF Places
<1> QED
  BY <1>5, <1>6, <1>7, <1>9, <1>10, <1>11, OneGen

\* The runs that are cancelled have no batch under way.
LEMMA CancelRunsScheduling ==
    ASSUME Inv, Scheduling, FenceStays, CancelRuns
    PROVE  Scheduling'
<1> DEFINE hit == {g \in Gen : Exists(g) /\ run[g].status \in ActiveStatuses}
<1>1. /\ UNCHANGED <<job, worker>>
      /\ batch' = [g \in Gen |-> [b \in Batch |->
                     IF g \in hit /\ batch[g][b] # "none" THEN "cancelled" ELSE batch[g][b]]]
  BY DEF CancelRuns
<1>2. \A g \in hit : Cancelled(g)'
  <2>1. \A g \in hit : run[g] \in Run
    BY DEF Inv, TablesOK, Exists
  <2>2. \A g \in hit : run'[g] = [run[g] EXCEPT !.status = "cancelled", !.prepare = "cancelled",
                                                !.embed = "cancelled"]
    BY DEF CancelRuns
  <2>3. ASSUME NEW g \in hit
        PROVE  run'[g].status = "cancelled" /\ run'[g] \in Run
    <3>1. run[g] \in Run
      BY <2>1
    <3>2. run'[g] = [run[g] EXCEPT !.status = "cancelled", !.prepare = "cancelled",
                                   !.embed = "cancelled"]
      BY <2>2
    <3> QED
      BY <3>1, <3>2 DEF Run, RunStatus, StageStatus
  <2> QED
    BY <2>3, NoneGenAssumption DEF Cancelled, Exists
<1> HIDE DEF hit
<1>3. \A g \in Gen : EmbedCalm(g)
  BY <1>1, UnchangedQuiet
<1>4. ASSUME NEW g \in Gen
      PROVE  /\ g \in hit => Window(g)'
             /\ g \notin hit => batch'[g] = batch[g]
  <2>1. CASE g \in hit
    <3>1. {b \in Batch : batch'[g][b] = "processing"} = {}
      BY <1>1, <2>1
    <3>2. Cardinality({b \in Batch : batch'[g][b] = "processing"}) <= MaxActive
      BY <3>1, FS_EmptySet, LimitAssumption
    <3> QED
      BY <1>2, <2>1, <3>2 DEF Window
  <2>2. CASE g \notin hit
    <3>1. batch[g] \in [Batch -> BatchStatus]
      BY DEF Inv, TablesOK
    <3>2. batch'[g] = [b \in Batch |-> batch[g][b]]
      BY <1>1, <2>2
    <3> QED
      BY <2>2, <3>1, <3>2
  <2> QED
    BY <2>1, <2>2
<1>5. \A g \in Gen : Window(g)'
  BY <1>1, <1>3, <1>4, WindowStays DEF Scheduling, FenceStays
<1>6. ASSUME NEW w \in Worker
      PROVE  Places(w)'
  <2>1. PICK g : g = G(w)
    OBVIOUS
  <2>2. Busy(w) => g \in Gen
    BY <2>1, BusyFacts
  <2>3. CASE Busy(w) /\ g \in hit
    <3>1. G(w)' = g
      BY <1>1, <2>1 DEF G, JobOf
    <3> QED
      BY <1>2, <2>3, <3>1 DEF Places
  <2>4. CASE ~(Busy(w) /\ g \in hit)
    <3>1. Places(w) /\ (Busy(w) => batch'[g] = batch[g] /\ (Cancelled(g) => Cancelled(g)'))
      BY <1>4, <2>2, <2>4 DEF Scheduling, FenceStays
    <3> QED
      BY <1>1, <2>1, <3>1, PlacesStay
  <2> QED
    BY <2>3, <2>4
<1> QED
  BY <1>5, <1>6 DEF Scheduling

LEMMA HandleScheduling ==
    ASSUME Inv, Inv', Whole, Scheduling, FenceStays, Faults = 0, NEW w \in Worker, Handle(w)
    PROVE  Scheduling'
<1>1. \A v \in Worker : HandlerKind(v)
  BY DEF Whole, HandlerOK
<1>2. ASSUME NEW j \in JobId, DropCancelled(w, j)
      PROVE  Scheduling'
  <2>1. UNCHANGED <<batch, worker>> /\ j \in JobId \ {} /\ job[j].state # "none" /\ job' = Ended(job, j)
    BY <1>2 DEF DropCancelled
  <2>2. \A g \in Gen : EmbedCalm(g)
    BY <2>1, EndedQuiet
  <2> QED
    BY <2>1, <2>2, SameBatches
<1>3. ASSUME NEW g \in Gen, PrepareLoad(w, g)
      PROVE  Scheduling'
  BY <1>3, PrepareLoadScheduling
<1>4. ASSUME NEW g \in Gen, NEW b \in Batch, EmbedLoadStale(w, g, b)
      PROVE  Scheduling'
  BY <1>4, EmbedLoadStaleScheduling
<1>5. ASSUME NEW g \in Gen, NEW b \in Batch, NEW p \in Profile, EmbedLoad(w, g, b, p)
      PROVE  Scheduling'
  BY <1>5, EmbedLoadScheduling
<1>6. CASE PrepareStale(w) \/ EmbedStale(w)
  <2>1. Busy(w) /\ batch' = batch /\ Goto(w, "finish")
    BY <1>6 DEF PrepareStale, EmbedStale, MarkStale, At, Busy
  <2> QED
    BY <2>1, GotoScheduling DEF WorkerPc
<1>7. CASE PrepareRepeated(w)
  <2>1. Busy(w) /\ batch' = batch /\ (Done(w) \/ Goto(w, "prepareStale"))
    BY <1>7 DEF PrepareRepeated, At, Busy
  <2> QED
    BY <2>1, DoneScheduling, GotoScheduling DEF WorkerPc
<1>8. CASE PrepareRun(w)
  BY <1>8, PrepareRunScheduling
<1>9. CASE CompleteEmpty(w) \/ EmbedReady(w)
  <2>1. /\ Busy(w) /\ UNCHANGED <<job, batch>>
        /\ worker' = [worker EXCEPT ![w].pc = "enqueue", ![w].next = {GraphJob(G(w))}]
    BY <1>9 DEF CompleteEmpty, EmbedReady, At, Busy
  <2> QED
    BY <2>1, GraphScheduling
<1>10. CASE Claim(w) \/ ClaimNext(w)
  BY <1>1, <1>10, ClaimFirst, ClaimAfter
<1>11. CASE StoreBatch(w) \/ CompleteBatch(w)
  BY <1>1, <1>11, StoreBatchScheduling, CompleteBatchScheduling
<1>12. CASE Activate(w) \/ ActivateAgain(w)
  <2>1. Busy(w) /\ batch' = batch /\ Goto(w, "embedReady")
    BY <1>12 DEF Activate, ActivateAgain, At, Busy
  <2> QED
    BY <2>1, GotoScheduling DEF WorkerPc
<1>13. CASE ActivateRefused(w)
  <2>1. worker[w].pc = "activate" /\ batch' = batch /\ Throw(w)
    BY <1>13 DEF ActivateRefused, At
  <2> QED
    BY <1>1, <2>1, ThrowScheduling
<1>14. CASE Enqueue(w) \/ Finish(w)
  BY <1>14, EnqueueScheduling, FinishScheduling
<1>15. CASE Abandon(w)
  <2>1. Busy(w) /\ batch' = batch /\ Done(w)
    BY <1>15 DEF Abandon, Busy
  <2> QED
    BY <2>1, DoneScheduling
<1> QED
  BY <1>2, <1>3, <1>4, <1>5, <1>6, <1>7, <1>8, <1>9, <1>10, <1>11, <1>12, <1>13, <1>14, <1>15 DEF Handle

\* Steps that leave batches and handlers alone.
LEMMA OutsideScheduling ==
    ASSUME Inv, Scheduling, FenceStays, UNCHANGED <<batch, worker>>, \A g \in Gen : EmbedCalm(g)
    PROVE  Scheduling'
  BY SameBatches

LEMMA ApiStepScheduling ==
    ASSUME Inv, Scheduling, FenceStays, NEW c \in Client, ApiStep(c)
    PROVE  Scheduling'
<1>1. UNCHANGED <<batch, worker>>
  BY DEF ApiStep, ClaimSlot, EnqueueDeduplicated, FindOrCreate, AddPrepare, RecheckPrepare
<1>2. CASE UNCHANGED job
  BY <1>1, <1>2, UnchangedQuiet, OutsideScheduling
<1>3. CASE AddPrepare(c)
  <2>1. PICK g \in Gen : g = api[c].gen
    BY <1>3, NoneGenAssumption DEF AddPrepare, Inv, RequestsOK, Caller
  <2>2. \A j \in JobId : j # PrepareJob(g) => job'[j] = job[j]
    BY <1>3, <2>1 DEF AddPrepare, Add
  <2>3. \A h \in Gen, b \in Batch : job'[EmbedJob(h, b)] = job[EmbedJob(h, b)]
    BY <2>2, JobIdFacts, JobKinds
  <2>4. \A h \in Gen : EmbedCalm(h)
    BY <2>3 DEF EmbedCalm
  <2> QED
    BY <1>1, <2>4, OutsideScheduling
<1>4. CASE RecheckPrepare(c)
  <2>1. UNCHANGED job \/ \E ids : job' = Remove(job, ids)
    BY <1>4 DEF RecheckPrepare
  <2> QED
    BY <1>1, <1>2, <2>1, RemoveQuiet, OutsideScheduling
<1> QED
  BY <1>2, <1>3, <1>4 DEF ApiStep, ClaimSlot, EnqueueDeduplicated, FindOrCreate

WindowInv == Faults = 0 => Scheduling

LEMMA NextScheduling == Inv /\ Inv' /\ IndexInv /\ WindowInv /\ [Next]_vars => WindowInv'
<1> SUFFICES ASSUME Inv, Inv', IndexInv, WindowInv, [Next]_vars, Faults' = 0
             PROVE  Scheduling'
  BY DEF WindowInv
<1>1. Faults = 0 /\ Whole /\ Scheduling
  BY FaultsGrow DEF IndexInv, WindowInv
<1>2. FenceStays
  BY NextTables DEF TablesStep, FenceKept, FenceStays
<1>3. ASSUME NEW c \in Client, ApiStep(c)
      PROVE  Scheduling'
  BY <1>1, <1>2, <1>3, ApiStepScheduling
<1>4. ASSUME NEW w \in Worker, Handle(w)
      PROVE  Scheduling'
  BY <1>1, <1>2, <1>4, HandleScheduling
<1>5. CASE RemoveJobs
  <2>1. UNCHANGED <<batch, worker>> /\ \E ids : job' = Remove(job, ids)
    BY <1>5 DEF RemoveJobs
  <2> QED
    BY <1>1, <1>2, <2>1, RemoveQuiet, OutsideScheduling
<1>6. ASSUME UNCHANGED <<batch, job, worker>>
      PROVE  Scheduling'
  BY <1>1, <1>2, <1>6, UnchangedQuiet, OutsideScheduling
<1>7. CASE Environment
  <2>1. ASSUME NEW w \in Worker, ProviderFails(w)
        PROVE  Scheduling'
    <3>1. worker[w].pc = "storeBatch" /\ Throw(w) /\ batch' = batch /\ HandlerKind(w)
      BY <1>1, <2>1 DEF ProviderFails, At, Whole, HandlerOK
    <3> QED
      BY <1>1, <1>2, <3>1, ThrowScheduling
  <2>2. ASSUME NEW w \in Worker, InfraFails(w)
        PROVE  FALSE
    BY <1>1, <2>2, SpendFaults DEF InfraFails
  <2>3. ASSUME NEW survives, NEW S, Restart(survives, S)
        PROVE  FALSE
    BY <1>1, <2>3, SpendFaults DEF Restart
  <2>4. CASE CancelRuns
    BY <1>1, <1>2, <2>4, CancelRunsScheduling
  <2>5. ASSUME NEW c \in Client, NEW r \in Revision, Edit(c, r)
        PROVE  Scheduling'
    BY <1>6, <2>5 DEF Edit
  <2>6. ASSUME NEW c \in Client, NEW x \in Context, NEW full \in BOOLEAN, Request(c, x, full)
        PROVE  Scheduling'
    BY <1>6, <2>6 DEF Request
  <2>7. ASSUME NEW r \in Revision, SlotExpire(r)
        PROVE  Scheduling'
    BY <1>6, <2>7 DEF SlotExpire
  <2> QED
    BY <1>7, <2>1, <2>2, <2>3, <2>4, <2>5, <2>6, <2>7 DEF Environment
<1>8. CASE UNCHANGED vars
  BY <1>6, <1>8 DEF vars
<1> QED
  BY <1>3, <1>4, <1>5, <1>7, <1>8 DEF Next

LEMMA InitScheduling == Init => Scheduling
<1> SUFFICES ASSUME Init
             PROVE  Scheduling
  OBVIOUS
<1>1. /\ \A g \in Gen, b \in Batch : batch[g][b] = "none" /\ job[EmbedJob(g, b)].state = "none"
      /\ \A w \in Worker : worker[w] = IdleWorker
  BY NoJobType, JobIdFacts DEF Init
<1>2. \A w \in Worker : ~Busy(w) /\ ~At(w, "claimNext")
  BY <1>1, IdleWorkerType DEF Busy, At
<1>3. Cardinality({}) <= MaxActive
  BY FS_EmptySet, LimitAssumption
<1>4. ASSUME NEW g \in Gen
      PROVE  Window(g)
  <2>1. {b \in Batch : batch[g][b] = "processing"} = {} /\ Scheduled(g) = {}
    BY <1>1, <1>2 DEF Scheduled
  <2> QED
    BY <1>1, <1>2, <1>3, <2>1 DEF Window, Handing
<1> QED
  BY <1>2, <1>4 DEF Scheduling, Places

\* At most QUEUE_MAX_ACTIVE_BATCHES_PER_DOCUMENT batches of a generation are
\* under way, for any interleaving of requests, handlers, retries of embed jobs
\* whose provider failed or whose activation was refused, and cancellations.  A
\* handler that is cut off after completeBatch completes its batch again, and
\* claims one more for it.
THEOREM WindowCorrect == Spec /\ [](Faults = 0) => []BatchWindow
<1>1. Init => IndexInv /\ WindowInv
  BY InitWhole, InitScheduling DEF IndexInv, WindowInv
<1>2. WindowInv /\ Faults = 0 => BatchWindow
  BY DEF WindowInv, Scheduling, Window, BatchWindow
<1> QED
  BY <1>1, <1>2, InitInv, NextInv, NextWhole, NextScheduling, PTL DEF Spec

-----------------------------------------------------------------------------
(***************************************************************************)
(* Who carries a run                                                       *)
(***************************************************************************)
Live(j) == job[j].state \in {"waiting", "active"}

\* A handler at one of these points holds the job of batch b of g.
Holds(w, g, b, pcs) == worker[w].pc \in pcs /\ JobOf(w) = EmbedJob(g, b)

\* Where a handler may hold the job that activates g, and where it may still
\* meet a failure.
LastPc == {"completeBatch", "activate", "embedStale"}
ThrowPc == {"storeBatch", "completeBatch", "activate"}

\* The job that is to activate g: its batch is done, and it waits or is handled.
Token(g, b) ==
    /\ batch[g][b] = "ready"
    /\ job[EmbedJob(g, b)].state = "waiting" \/ \E w \in Worker : Holds(w, g, b, LastPc)

\* A handler goes straight for the graph job of g.
Heads(w, g) ==
    /\ Busy(w) /\ G(w) = g
    /\ worker[w].pc \in {"completeEmpty", "embedReady"} \/ GraphJob(g) \in worker[w].next
Closing(g) == job[GraphJob(g)].state = "waiting" \/ \E w \in Worker : Heads(w, g)

Claiming(w, g) == worker[w].pc \in {"claim", "claimNext"} /\ G(w) = g

\* Somebody is in the prepare stage of g, or is going to queue it.
Opens(g) == PrepareOpen(g) \/ \E c \in Client : Adding(c, g)

\* Without account cancellation no batch is cancelled, and nobody takes or drops
\* a graph job.
Statuses(g) ==
    /\ \A b \in Batch : batch[g][b] \in {"none", "pending", "processing", "ready"}
    /\ job[GraphJob(g)].state \in {"none", "waiting"}

\* The prepare stage is open until it has committed, or the run has ended.
Opening(g) ==
    /\ Opens(g) => run[g].prepare \notin {"ready", "cancelled"}
    /\ ActiveRun(g) /\ run[g].prepare # "ready" => Opens(g)

\* What is left to queue is kept while it is queued; what was queued is of the run.
Bare(w) ==
    /\ ~At(w, "enqueue") => worker[w].next = {}
    /\ Busy(w) => \A j \in worker[w].added : GenOf(j) = G(w)

Quiet == ~removal /\ (\A g \in Gen : Statuses(g) /\ Opening(g)) /\ (\A w \in Worker : Bare(w))

\* Who stands for what is left to do: each batch under way has its job, or a
\* handler that is going to queue it; while batches wait to be claimed, one is
\* under way or about to be claimed; and when all are done, one job activates
\* the generation or its graph job is near.
Chain(g) ==
    ActiveRun(g) /\ run[g].prepare = "ready" =>
        /\ \A b \in Batch : batch[g][b] = "processing" =>
               Live(EmbedJob(g, b)) \/ \E w \in Worker : Handing(w, g, b)
        /\ (\E b \in Batch : batch[g][b] = "pending") =>
               \/ \E b \in Batch : batch[g][b] = "processing"
               \/ \E w \in Worker : Claiming(w, g)
        /\ AllReady(g) => Closing(g) \/ \E b \in Batch : Token(g, b)

\* One job activates g, and none once g is active.
Single(g) ==
    \A b \in Batch : Token(g, b) =>
        /\ AllReady(g) /\ doc.active # g
        /\ \A d \in Batch : Token(g, d) => d = b

\* Another generation took over, for good.
Doomed(g) == run[g].prepare = "ready" /\ doc.pending # g /\ doc.active # g

\* A job is retried for a failure of the provider, and once because its
\* activation was refused; after that it finds its generation stale.
Retries(g) ==
    \A b \in Batch :
        Live(EmbedJob(g, b)) /\ job[EmbedJob(g, b)].tries > spent.provider =>
            /\ job[EmbedJob(g, b)].tries = spent.provider + 1 /\ Doomed(g)
            /\ \A w \in Worker : ~Holds(w, g, b, ThrowPc)

OnWay(g) == ~Cancelled(g) => Chain(g) /\ Single(g) /\ Retries(g)

\* What a handler has behind it: it claims only where something is pending, it
\* counted the rows that are there, and it ends after its batch is done.
Ending(w) ==
    Busy(w) /\ ~Cancelled(G(w)) =>
        /\ At(w, "claim") => \E b \in Batch : batch[G(w)][b] = "pending"
        /\ At(w, "activate") /\ doc.pending = G(w) =>
               Cardinality(Stored(row[G(w)])) = worker[w].total
        /\ worker[w].pc \in {"embedReady", "enqueue", "finish"} /\ ActiveRun(G(w)) =>
               \A b \in Batch : JobOf(w) = EmbedJob(G(w), b) => batch[G(w)][b] = "ready"

Carrying == Quiet /\ (\A g \in Gen : OnWay(g)) /\ (\A w \in Worker : Ending(w))

\* What the steps below start from.
Ground == Inv /\ Whole /\ Scheduling /\ Carrying /\ Faults = 0

\* A step of a handler w of g, as it looks to other generations.
HisStep(w, g) ==
    /\ Busy(w) => G(w) = g
    /\ Busy(w)' => G(w)' = g
    /\ \A v \in Worker \ {w} : worker'[v] = worker[v]
    /\ api' = api /\ removal' = removal
    /\ \A h \in Gen \ {g} :
          /\ run'[h] = run[h] /\ batch'[h] = batch[h]
          /\ doc'.active = h => doc.active = h
          /\ doc'.pending = h => doc.pending = h /\ row'[h] = row[h]
    /\ \A j \in JobId : GenOf(j) # g => job'[j] = job[j]
    /\ spent'.provider \in {spent.provider, spent.provider + 1}

\* What w did not do for h.
NotHis(w, h) ==
    /\ \A b \in Batch : ~Handing(w, h, b) /\ ~Holds(w, h, b, LastPc) /\ ~Holds(w, h, b, ThrowPc)
    /\ ~Claiming(w, h) /\ ~Heads(w, h) /\ ~Preparing(w, h)

\* What w and the queue do for g: who activates it, and who queues its graph job.
TokenBy(w, g, b) == job[EmbedJob(g, b)].state = "waiting" \/ Holds(w, g, b, LastPc)
NearGraph(w, g) == job[GraphJob(g)].state = "waiting" \/ Heads(w, g)
Overdue(g, b) == Live(EmbedJob(g, b)) /\ job[EmbedJob(g, b)].tries > spent.provider

\* Nothing is left to claim, or a batch under way is going to claim it.
ClaimedAhead(g) ==
    \/ \A b \in Batch : batch[g][b] # "pending"
    \/ \E b \in Batch : batch[g][b] = "processing"

\* A step of w hands on what it stood for, and takes on nothing new.
Passes(w, g) ==
    /\ ActiveRun(g)' =>
        /\ \A b \in Batch : batch[g][b] = "processing" /\ (Live(EmbedJob(g, b)) \/ Handing(w, g, b)) =>
               Live(EmbedJob(g, b))' \/ Handing(w, g, b)'
        /\ Claiming(w, g) => ClaimedAhead(g)
        /\ AllReady(g) /\ NearGraph(w, g) => NearGraph(w, g)'
        /\ \A b \in Batch : batch[g][b] = "ready" /\ TokenBy(w, g, b) =>
               TokenBy(w, g, b)' \/ NearGraph(w, g)'
    /\ \A b \in Batch : batch[g][b] = "ready" /\ TokenBy(w, g, b)' => TokenBy(w, g, b)
    /\ \A b \in Batch : Overdue(g, b)' =>
           \/ /\ Overdue(g, b) /\ job'[EmbedJob(g, b)].tries = job[EmbedJob(g, b)].tries
              /\ spent'.provider = spent.provider
              /\ Holds(w, g, b, ThrowPc)' => Holds(w, g, b, ThrowPc)
           \/ /\ job'[EmbedJob(g, b)].tries = spent'.provider + 1 /\ Doomed(g)
              /\ \A v \in Worker : ~Holds(v, g, b, ThrowPc)'

-----------------------------------------------------------------------------
LEMMA Strangers == Inv => \A w \in Worker, h \in Gen : ~(Busy(w) /\ G(w) = h) => NotHis(w, h)
<1> SUFFICES ASSUME Inv, NEW w \in Worker, NEW h \in Gen, ~(Busy(w) /\ G(w) = h)
             PROVE  NotHis(w, h)
  OBVIOUS
<1>1. ~Claiming(w, h) /\ ~Heads(w, h) /\ ~Preparing(w, h)
  BY DEF Claiming, Heads, Preparing, Busy
<1>2. ASSUME NEW b \in Batch
      PROVE  ~Handing(w, h, b) /\ ~Holds(w, h, b, LastPc) /\ ~Holds(w, h, b, ThrowPc)
  <2>1. GenOf(EmbedJob(h, b)) = h
    BY JobIdFacts
  <2>2. JobOf(w) = EmbedJob(h, b) => G(w) = h
    BY <2>1 DEF G
  <2>3. Handing(w, h, b) => G(w) = h
    BY <2>1 DEF Handing, Inv, QueueOK, OwnsJob
  <2> QED
    BY <2>2, <2>3 DEF Handing, Holds, LastPc, ThrowPc, Busy
<1> QED
  BY <1>1, <1>2 DEF NotHis

LEMMA StrangersAfter ==
    (Inv => \A w \in Worker, h \in Gen : ~(Busy(w) /\ G(w) = h) => NotHis(w, h))'
  BY Strangers, PTL

\* A step that changes nothing of h, nor a handler that works for h.
LEMMA OnWayStays ==
    ASSUME Inv, NEW h \in Gen, OnWay(h), batch'[h] = batch[h],
           \A w \in Worker : worker'[w] = worker[w] \/ (NotHis(w, h) /\ NotHis(w, h)'),
           \A b \in Batch : job'[EmbedJob(h, b)] = job[EmbedJob(h, b)],
           job'[GraphJob(h)] = job[GraphJob(h)],
           Cancelled(h) => Cancelled(h)', ActiveRun(h)' => ActiveRun(h), run'[h].prepare = run[h].prepare,
           doc'.active = h => doc.active = h, doc'.pending = h => doc.pending = h,
           spent'.provider \in {spent.provider, spent.provider + 1}
    PROVE  OnWay(h)'
<1> SUFFICES ASSUME Chain(h), Single(h), Retries(h)
             PROVE  Chain(h)' /\ Single(h)' /\ Retries(h)'
  BY DEF OnWay
<1>1. ASSUME NEW w \in Worker
      PROVE  /\ \A b \in Batch : /\ Handing(w, h, b)' <=> Handing(w, h, b)
                                 /\ Holds(w, h, b, LastPc)' <=> Holds(w, h, b, LastPc)
                                 /\ Holds(w, h, b, ThrowPc)' <=> Holds(w, h, b, ThrowPc)
             /\ Claiming(w, h)' <=> Claiming(w, h)
             /\ Heads(w, h)' <=> Heads(w, h)
  <2>1. CASE worker'[w] = worker[w]
    BY <2>1 DEF Handing, Holds, Claiming, Heads, Busy, G, JobOf
  <2>2. CASE NotHis(w, h) /\ NotHis(w, h)'
    BY <2>2 DEF NotHis
  <2> QED
    BY <2>1, <2>2
<1>2. /\ AllReady(h)' <=> AllReady(h)
      /\ \A b \in Batch : Live(EmbedJob(h, b))' <=> Live(EmbedJob(h, b))
  BY DEF AllReady, Live
<1>3. \A b \in Batch : Token(h, b)' <=> Token(h, b)
  BY <1>1 DEF Token
<1>4. Closing(h)' <=> Closing(h)
  BY <1>1 DEF Closing
<1>5. Chain(h)'
  BY <1>1, <1>2, <1>3, <1>4 DEF Chain
<1>6. Single(h)'
  BY <1>2, <1>3 DEF Single
<1>7. Retries(h)'
  <2>1. spent.provider \in Nat /\ \A b \in Batch : job[EmbedJob(h, b)].tries \in Nat
    BY JobIdFacts, BoundAssumption, LimitAssumption DEF Inv, BoundsOK, QueueOK, Job
  <2>2. Doomed(h) => Doomed(h)'
    BY DEF Doomed
  <2> QED
    BY <1>1, <1>2, <2>1, <2>2 DEF Retries
<1> QED
  BY <1>5, <1>6, <1>7

\* A handler that does not move.
LEMMA EndingStays ==
    ASSUME NEW w \in Worker, Ending(w), worker'[w] = worker[w], NEW g, Busy(w) => G(w) = g,
           Busy(w) /\ ~Cancelled(g)' =>
              /\ ~Cancelled(g)
              /\ At(w, "claim") /\ (\E b \in Batch : batch[g][b] = "pending") =>
                    \E b \in Batch : batch'[g][b] = "pending"
              /\ At(w, "activate") /\ doc'.pending = g => doc.pending = g /\ row'[g] = row[g]
              /\ ActiveRun(g)' =>
                    ActiveRun(g) /\ \A b \in Batch : batch[g][b] = "ready" => batch'[g][b] = "ready"
    PROVE  Ending(w)'
<1>1. /\ Busy(w)' <=> Busy(w)
      /\ \A pc : At(w, pc)' <=> At(w, pc)
      /\ JobOf(w)' = JobOf(w) /\ G(w)' = G(w)
  BY DEF Busy, At, JobOf, G
<1> SUFFICES ASSUME Busy(w), G(w)' = g, ~Cancelled(g)'
             PROVE  Ending(w)'
  BY <1>1 DEF Ending
<1>2. /\ ~Cancelled(g) /\ G(w) = g
      /\ At(w, "claim") => \E b \in Batch : batch'[g][b] = "pending"
      /\ At(w, "activate") /\ doc'.pending = g => Cardinality(Stored(row'[g])) = worker[w].total
      /\ worker[w].pc \in {"embedReady", "enqueue", "finish"} /\ ActiveRun(g)' =>
               \A b \in Batch : JobOf(w) = EmbedJob(g, b) => batch'[g][b] = "ready"
  BY DEF Ending
<1> QED
  BY <1>1, <1>2 DEF Ending, Stored

LEMMA BareStays ==
    ASSUME NEW w \in Worker, Bare(w), worker'[w] = worker[w]
    PROVE  Bare(w)'
  BY DEF Bare, At, Busy, G, JobOf

LEMMA OpeningStays ==
    ASSUME NEW h \in Gen, Opening(h), api' = api,
           ~Cancelled(h) => (job'[PrepareJob(h)].state = "waiting" <=> job[PrepareJob(h)].state = "waiting"),
           \A w \in Worker : Preparing(w, h)' <=> Preparing(w, h),
           Cancelled(h)' <=> Cancelled(h), ActiveRun(h)' => ActiveRun(h), run'[h].prepare = run[h].prepare
    PROVE  Opening(h)'
<1>1. Opens(h)' <=> Opens(h)
  BY DEF Opens, PrepareOpen, Adding
<1> QED
  BY <1>1 DEF Opening

\* A step of a handler of g: what it does to g is left to show.
LEMMA HisCarrying ==
    ASSUME Inv, Inv', FenceStays, Carrying, NEW w \in Worker, NEW g \in Gen, HisStep(w, g),
           Bare(w)', Statuses(g)', Opening(g)', OnWay(g)', Ending(w)',
           \A v \in Worker \ {w} : Busy(v) /\ G(v) = g => Ending(v)'
    PROVE  Carrying'
<1>1. ASSUME NEW h \in Gen \ {g}
      PROVE  Statuses(h)' /\ Opening(h)' /\ OnWay(h)'
  <2>1. /\ run'[h] = run[h] /\ batch'[h] = batch[h]
        /\ doc'.active = h => doc.active = h
        /\ doc'.pending = h => doc.pending = h /\ row'[h] = row[h]
    BY DEF HisStep
  <2>2. /\ \A b \in Batch : job'[EmbedJob(h, b)] = job[EmbedJob(h, b)]
        /\ job'[GraphJob(h)] = job[GraphJob(h)] /\ job'[PrepareJob(h)] = job[PrepareJob(h)]
    BY JobIdFacts DEF HisStep
  <2>3. NotHis(w, h)
    <3>1. ~(Busy(w) /\ G(w) = h)
      BY DEF HisStep
    <3> QED
      BY <3>1, Strangers
  <2>4. NotHis(w, h)'
    <3>1. ~(Busy(w)' /\ G(w)' = h)
      BY DEF HisStep
    <3> QED
      BY <3>1, StrangersAfter
  <2>5. \A v \in Worker : worker'[v] = worker[v] \/ (NotHis(v, h) /\ NotHis(v, h)')
    BY <2>3, <2>4 DEF HisStep
  <2>6. /\ Exists(h)' <=> Exists(h)
        /\ Cancelled(h)' <=> Cancelled(h)
        /\ ActiveRun(h)' <=> ActiveRun(h)
    BY <2>1 DEF Exists, Cancelled, ActiveRun
  <2>7. OnWay(h)'
    BY <2>1, <2>2, <2>5, <2>6, OnWayStays DEF Carrying, HisStep
  <2>8. Statuses(h)'
    BY <2>1, <2>2 DEF Carrying, Quiet, Statuses
  <2>9. \A v \in Worker : Preparing(v, h)' <=> Preparing(v, h)
    BY <2>5 DEF NotHis, Preparing, G, JobOf
  <2>10. Opening(h)'
    BY <2>1, <2>2, <2>6, <2>9, OpeningStays DEF Carrying, Quiet, HisStep
  <2> QED
    BY <2>7, <2>8, <2>10
<1>2. ASSUME NEW v \in Worker \ {w}, ~(Busy(v) /\ G(v) = g)
      PROVE  Ending(v)'
  <2>1. PICK h : h = G(v)
    OBVIOUS
  <2>2. Busy(v) => h \in Gen \ {g}
    BY <1>2, <2>1, BusyFacts
  <2>3. worker'[v] = worker[v] /\ Ending(v)
    BY DEF HisStep, Carrying
  <2>4. Busy(v) => /\ run'[h] = run[h] /\ batch'[h] = batch[h]
                   /\ doc'.pending = h => doc.pending = h /\ row'[h] = row[h]
    BY <2>2 DEF HisStep
  <2>5. Busy(v) => (Cancelled(h)' <=> Cancelled(h)) /\ (ActiveRun(h)' <=> ActiveRun(h))
    BY <2>4 DEF Exists, Cancelled, ActiveRun
  <2> QED
    BY <2>1, <2>3, <2>4, <2>5, EndingStays
<1>3. \A v \in Worker : Bare(v)'
  BY BareStays DEF HisStep, Carrying, Quiet
<1>4. removal' = removal
  BY DEF HisStep
<1> QED
  BY <1>1, <1>2, <1>3, <1>4 DEF Carrying, Quiet

LEMMA PassesOnWay ==
    ASSUME Inv, NEW w \in Worker, NEW g \in Gen, \A v \in Worker \ {w} : worker'[v] = worker[v],
           batch'[g] = batch[g], run'[g].prepare = run[g].prepare, ActiveRun(g)' => ActiveRun(g),
           doc'.active = g => doc.active = g, Doomed(g) => Doomed(g)',
           Chain(g), Single(g), Retries(g), Passes(w, g)
    PROVE  Chain(g)' /\ Single(g)' /\ Retries(g)'
<1>1. ASSUME NEW v \in Worker \ {w}
      PROVE  /\ \A b \in Batch : /\ Handing(v, g, b)' <=> Handing(v, g, b)
                                 /\ Holds(v, g, b, LastPc)' <=> Holds(v, g, b, LastPc)
                                 /\ Holds(v, g, b, ThrowPc)' <=> Holds(v, g, b, ThrowPc)
             /\ Claiming(v, g)' <=> Claiming(v, g)
             /\ Heads(v, g)' <=> Heads(v, g)
  BY DEF Handing, Holds, Claiming, Heads, Busy, G, JobOf
<1>2. AllReady(g)' <=> AllReady(g)
  BY DEF AllReady
<1>3. ASSUME NEW b \in Batch
      PROVE  Token(g, b) <=> batch[g][b] = "ready" /\ (TokenBy(w, g, b)
                                 \/ \E v \in Worker \ {w} : Holds(v, g, b, LastPc))
  BY DEF Token, TokenBy
<1>4. ASSUME NEW b \in Batch
      PROVE  Token(g, b)' <=> batch[g][b] = "ready" /\ (TokenBy(w, g, b)'
                                 \/ \E v \in Worker \ {w} : Holds(v, g, b, LastPc))
  BY <1>1 DEF Token, TokenBy
<1>5. Chain(g)'
  <2> SUFFICES ASSUME ActiveRun(g)', run'[g].prepare = "ready"
               PROVE  /\ \A b \in Batch : batch[g][b] = "processing" =>
                             Live(EmbedJob(g, b))' \/ \E v \in Worker : Handing(v, g, b)'
                      /\ (\E b \in Batch : batch[g][b] = "pending") =>
                             \/ \E b \in Batch : batch[g][b] = "processing"
                             \/ \E v \in Worker : Claiming(v, g)'
                      /\ AllReady(g) => Closing(g)' \/ \E b \in Batch : Token(g, b)'
    BY <1>2 DEF Chain
  <2>1. /\ \A b \in Batch : batch[g][b] = "processing" =>
               Live(EmbedJob(g, b)) \/ \E v \in Worker : Handing(v, g, b)
        /\ (\E b \in Batch : batch[g][b] = "pending") =>
               \/ \E b \in Batch : batch[g][b] = "processing"
               \/ \E v \in Worker : Claiming(v, g)
        /\ AllReady(g) => Closing(g) \/ \E b \in Batch : Token(g, b)
    BY DEF Chain
  <2>2. ASSUME NEW b \in Batch, batch[g][b] = "processing"
        PROVE  Live(EmbedJob(g, b))' \/ \E v \in Worker : Handing(v, g, b)'
    BY <1>1, <2>1, <2>2 DEF Passes
  <2>3. ASSUME \E b \in Batch : batch[g][b] = "pending"
        PROVE  \/ \E b \in Batch : batch[g][b] = "processing"
               \/ \E v \in Worker : Claiming(v, g)'
    BY <1>1, <2>1, <2>3 DEF Passes, ClaimedAhead
  <2>4. NearGraph(w, g)' => Closing(g)'
    BY DEF NearGraph, Closing
  <2>5. ASSUME AllReady(g)
        PROVE  Closing(g)' \/ \E b \in Batch : Token(g, b)'
    <3>1. CASE Closing(g)
      <4>1. NearGraph(w, g) \/ \E v \in Worker \ {w} : Heads(v, g)
        BY <3>1 DEF Closing, NearGraph
      <4>2. CASE NearGraph(w, g)
        BY <2>4, <2>5, <4>2 DEF Passes
      <4>3. CASE \E v \in Worker \ {w} : Heads(v, g)
        BY <1>1, <4>3 DEF Closing
      <4> QED
        BY <4>1, <4>2, <4>3
    <3>2. ASSUME NEW b \in Batch, Token(g, b)
          PROVE  Closing(g)' \/ Token(g, b)'
      BY <1>3, <1>4, <2>4, <3>2 DEF Passes
    <3> QED
      BY <2>1, <2>5, <3>1, <3>2
  <2> QED
    BY <2>2, <2>3, <2>5
<1>6. \A b \in Batch : Token(g, b)' => Token(g, b)
  BY <1>3, <1>4 DEF Passes
<1>7. Single(g)'
  BY <1>2, <1>6 DEF Single
<1>8. Retries(g)'
  <2> SUFFICES ASSUME NEW b \in Batch, Overdue(g, b)'
               PROVE  /\ job'[EmbedJob(g, b)].tries = spent'.provider + 1 /\ Doomed(g)'
                      /\ \A v \in Worker : ~Holds(v, g, b, ThrowPc)'
    BY DEF Retries, Overdue
  <2>1. CASE /\ Overdue(g, b) /\ job'[EmbedJob(g, b)].tries = job[EmbedJob(g, b)].tries
             /\ spent'.provider = spent.provider
             /\ Holds(w, g, b, ThrowPc)' => Holds(w, g, b, ThrowPc)
    <3>1. /\ job[EmbedJob(g, b)].tries = spent.provider + 1 /\ Doomed(g)
          /\ \A v \in Worker : ~Holds(v, g, b, ThrowPc)
      BY <2>1 DEF Retries, Overdue
    <3> QED
      BY <1>1, <2>1, <3>1
  <2>2. CASE /\ job'[EmbedJob(g, b)].tries = spent'.provider + 1 /\ Doomed(g)
             /\ \A v \in Worker : ~Holds(v, g, b, ThrowPc)'
    BY <2>2
  <2> QED
    BY <2>1, <2>2 DEF Passes
<1> QED
  BY <1>5, <1>7, <1>8

\* A step of a handler that is its own and its job's.
LEMMA MoveCarrying ==
    ASSUME Inv, Inv', FenceStays, Carrying, NEW w \in Worker, NEW g \in Gen,
           UNCHANGED <<doc, row, run, batch, api, removal>>,
           spent'.provider \in {spent.provider, spent.provider + 1},
           Busy(w) => G(w) = g, Busy(w)' => G(w)' = g, \A v \in Worker \ {w} : worker'[v] = worker[v],
           \A j \in JobId : GenOf(j) # g => job'[j] = job[j],
           ~Cancelled(g) => (job'[PrepareJob(g)].state = "waiting" <=> job[PrepareJob(g)].state = "waiting"),
           Preparing(w, g)' <=> Preparing(w, g),
           job'[GraphJob(g)].state \in {"none", "waiting"},
           Bare(w)', ~Cancelled(g) => Passes(w, g) /\ Ending(w)'
    PROVE  Carrying'
<1>1. HisStep(w, g)
  BY DEF HisStep
<1>2. \A h : /\ Cancelled(h)' <=> Cancelled(h)
             /\ ActiveRun(h)' <=> ActiveRun(h)
             /\ Doomed(h)' <=> Doomed(h)
  BY DEF Exists, Cancelled, ActiveRun, Doomed
<1>3. Statuses(g)'
  BY DEF Carrying, Quiet, Statuses
<1>4. \A v \in Worker : Preparing(v, g)' <=> Preparing(v, g)
  BY DEF Preparing, G, JobOf
<1>5. Opening(g)'
  BY <1>2, <1>4, OpeningStays DEF Carrying, Quiet
<1>6. OnWay(g)'
  BY <1>2, PassesOnWay DEF Carrying, OnWay
<1>7. Ending(w)'
  <2>1. CASE Cancelled(g)
    <3>1. Cancelled(g)'
      BY <1>2, <2>1
    <3> QED
      BY <3>1 DEF Ending
  <2> QED
    BY <2>1
<1>8. ASSUME NEW v \in Worker \ {w}, Busy(v), G(v) = g
      PROVE  Ending(v)'
  BY <1>2, <1>8, EndingStays DEF Carrying
<1> QED
  BY <1>1, <1>3, <1>5, <1>6, <1>7, <1>8, HisCarrying

-----------------------------------------------------------------------------
LEMMA EndedJob ==
    ASSUME Inv, NEW w \in Worker, Busy(w), job' = Ended(job, JobOf(w))
    PROVE  job'[JobOf(w)].state = "completed" /\ \A i \in JobId \ {JobOf(w)} : job'[i] = job[i]
<1>1. JobOf(w) \in JobId /\ job[JobOf(w)] \in Job
  BY BusyFacts
<1> QED
  BY <1>1 DEF Ended, Inv, QueueOK, Job

LEMMA ThrownJob ==
    ASSUME Inv, NEW w \in Worker, Busy(w), Throw(w)
    PROVE  /\ job'[JobOf(w)].tries = job[JobOf(w)].tries + 1
           /\ job'[JobOf(w)].state = IF job[JobOf(w)].tries + 1 < MaxTries THEN "waiting" ELSE "failed"
           /\ \A i \in JobId \ {JobOf(w)} : job'[i] = job[i]
<1>1. JobOf(w) \in JobId /\ job[JobOf(w)] \in Job
  BY BusyFacts
<1> QED
  BY <1>1 DEF Throw, Inv, QueueOK, Job

LEMMA TakenJob ==
    ASSUME Inv, NEW j \in JobId, Take(j)
    PROVE  /\ job'[j].state = "active" /\ job'[j].tries = job[j].tries
           /\ \A i \in JobId \ {j} : job'[i] = job[i]
  BY DEF Take, Inv, QueueOK, Job

\* Of a handler of g: its job is none of the graph stage.
LEMMA HisJob ==
    ASSUME Inv, Carrying, NEW w \in Worker, Busy(w), NEW g \in Gen, G(w) = g
    PROVE  /\ JobOf(w) \in JobId /\ GenOf(JobOf(w)) = g /\ job[JobOf(w)].state = "active"
           /\ JobOf(w) # GraphJob(g)
           /\ job[JobOf(w)].tries \in Nat
           /\ \A v \in Worker \ {w} : ~(Busy(v) /\ JobOf(v) = JobOf(w))
<1>1. JobOf(w) \in JobId /\ job[JobOf(w)].state = "active" /\ job[JobOf(w)] \in Job
  BY BusyFacts
<1>2. job[GraphJob(g)].state # "active"
  BY DEF Carrying, Quiet, Statuses
<1>3. \A v \in Worker \ {w} : ~(Busy(v) /\ JobOf(v) = JobOf(w))
  BY DEF Inv, QueueOK, OwnsAlone
<1> QED
  BY <1>1, <1>2, <1>3, LimitAssumption DEF G, Job

\* A handler that returns: its batch, if it has one, is done.
LEMMA ReturnCarrying ==
    ASSUME Inv, Inv', FenceStays, Carrying, NEW w \in Worker, Busy(w), NEW g \in Gen, G(w) = g,
           UNCHANGED <<doc, row, run, batch, api, removal, spent>>,
           worker' = [worker EXCEPT ![w] = IdleWorker], job' = Ended(job, JobOf(w)),
           ~Preparing(w, g),
           ~Cancelled(g) =>
              /\ worker[w].pc \in {"claim", "claimNext", "finish"}
              /\ Claiming(w, g) => ClaimedAhead(g)
              /\ ActiveRun(g) => \A b \in Batch : JobOf(w) = EmbedJob(g, b) => batch[g][b] # "processing"
    PROVE  Carrying'
<1>1. worker'[w] = IdleWorker /\ \A v \in Worker \ {w} : worker'[v] = worker[v]
  BY ThrowIdle
<1>2. /\ ~Busy(w)' /\ ~Preparing(w, g)' /\ Bare(w)' /\ Ending(w)'
      /\ \A b \in Batch : ~Holds(w, g, b, LastPc)' /\ ~Holds(w, g, b, ThrowPc)'
  BY <1>1 DEF IdleWorker, Busy, Preparing, Bare, Ending, Holds, LastPc, ThrowPc, At
<1>3. /\ JobOf(w) \in JobId /\ GenOf(JobOf(w)) = g /\ job[JobOf(w)].state = "active"
      /\ JobOf(w) # GraphJob(g)
  BY HisJob
<1>4. job'[JobOf(w)].state = "completed" /\ \A i \in JobId \ {JobOf(w)} : job'[i] = job[i]
  BY EndedJob
<1>5. \A j \in JobId : GenOf(j) # g => job'[j] = job[j]
  BY <1>3, <1>4
<1>6. job'[PrepareJob(g)].state = "waiting" <=> job[PrepareJob(g)].state = "waiting"
  BY <1>3, <1>4, JobIdFacts
<1>7. job'[GraphJob(g)] = job[GraphJob(g)]
  BY <1>3, <1>4, JobIdFacts
<1>8. job'[GraphJob(g)].state \in {"none", "waiting"}
  BY <1>7 DEF Carrying, Quiet, Statuses
<1>9. ASSUME ~Cancelled(g)
      PROVE  Passes(w, g)
  <2>1. worker[w].next = {}
    BY <1>9 DEF Carrying, Quiet, Bare, At
  <2>2. /\ \A b \in Batch : ~Handing(w, g, b) /\ ~Holds(w, g, b, LastPc)
        /\ ~Heads(w, g)
    BY <1>9, <2>1 DEF Handing, Holds, LastPc, Heads
  <2>3. \A b \in Batch : EmbedJob(g, b) \in JobId
    BY JobIdFacts
  <2>4. \A b \in Batch : job'[EmbedJob(g, b)].state = "waiting" <=> job[EmbedJob(g, b)].state = "waiting"
    BY <1>3, <1>4, <2>3
  <2>5. \A b \in Batch : TokenBy(w, g, b)' <=> TokenBy(w, g, b)
    BY <1>2, <2>2, <2>4 DEF TokenBy
  <2>6. NearGraph(w, g) => NearGraph(w, g)'
    BY <1>7, <2>2 DEF NearGraph
  <2>7. \A b \in Batch : Live(EmbedJob(g, b))' => job'[EmbedJob(g, b)] = job[EmbedJob(g, b)]
    BY <1>4, <2>3 DEF Live
  <2>8. ActiveRun(g)' => ActiveRun(g)
    BY DEF ActiveRun, Exists
  <2>9. ASSUME ActiveRun(g)', NEW b \in Batch, batch[g][b] = "processing", Live(EmbedJob(g, b))
        PROVE  Live(EmbedJob(g, b))'
    <3>1. EmbedJob(g, b) # JobOf(w)
      BY <1>9, <2>8, <2>9
    <3> QED
      BY <1>4, <2>3, <2>9, <3>1 DEF Live
  <2>10. \A b \in Batch : Overdue(g, b)' =>
           /\ Overdue(g, b) /\ job'[EmbedJob(g, b)].tries = job[EmbedJob(g, b)].tries
           /\ spent'.provider = spent.provider
    BY <2>7 DEF Overdue, Live
  <2> QED
    BY <1>2, <1>9, <2>2, <2>5, <2>6, <2>9, <2>10 DEF Passes
<1>10. spent'.provider \in {spent.provider, spent.provider + 1}
  OBVIOUS
<1>11. Preparing(w, g)' <=> Preparing(w, g)
  BY <1>2
<1> QED
  BY <1>1, <1>2, <1>5, <1>6, <1>8, <1>9, <1>10, <1>11, MoveCarrying

\* A handler takes an embed job: before the end of a batch that is done already,
\* and where it may fail only while attempts are left.
LEMMA TakeEmbedCarrying ==
    ASSUME Inv, Inv', FenceStays, Carrying, NEW w \in Worker, At(w, "idle"), NEW g \in Gen, NEW d \in Batch,
           job[EmbedJob(g, d)].state = "waiting", Take(EmbedJob(g, d)),
           UNCHANGED <<doc, run, batch, row, slot, api, removal, spent>>,
           \A v \in Worker \ {w} : worker'[v] = worker[v], JobOf(w)' = EmbedJob(g, d),
           worker'[w].pc \in {"embedStale", "storeBatch", "completeBatch"},
           worker'[w].next = {}, worker'[w].added = {},
           batch[g][d] = "ready" => worker'[w].pc \in LastPc,
           ~Cancelled(g) /\ Overdue(g, d) => worker'[w].pc \notin ThrowPc
    PROVE  Carrying'
<1>1. ~Busy(w) /\ G(w)' = g /\ EmbedJob(g, d) \in JobId /\ GenOf(EmbedJob(g, d)) = g
  BY JobIdFacts DEF Busy, At, G
<1>2. NotHis(w, g)
  BY <1>1, Strangers
<1>3. /\ job'[EmbedJob(g, d)].state = "active" /\ job'[EmbedJob(g, d)].tries = job[EmbedJob(g, d)].tries
      /\ \A i \in JobId \ {EmbedJob(g, d)} : job'[i] = job[i]
  BY <1>1, TakenJob
<1>4. /\ \A j \in JobId : GenOf(j) # g => job'[j] = job[j]
      /\ job'[PrepareJob(g)] = job[PrepareJob(g)] /\ job'[GraphJob(g)] = job[GraphJob(g)]
      /\ \A b \in Batch : b # d => job'[EmbedJob(g, b)] = job[EmbedJob(g, b)]
  BY <1>1, <1>3, JobIdFacts, JobKinds
<1>5. job'[GraphJob(g)].state \in {"none", "waiting"}
  BY <1>4 DEF Carrying, Quiet, Statuses
<1>6. ~Preparing(w, g)' /\ ~Preparing(w, g) /\ Bare(w)' /\ Ending(w)'
  BY <1>2 DEF Preparing, NotHis, Bare, Ending, At
<1>7. ASSUME ~Cancelled(g)
      PROVE  Passes(w, g)
  <2>1. \A b \in Batch : Live(EmbedJob(g, b)) <=> Live(EmbedJob(g, b))'
    BY <1>3, <1>4 DEF Live
  <2>2. \A b \in Batch : /\ Holds(w, g, b, LastPc)' => b = d
                         /\ Holds(w, g, b, ThrowPc)' => b = d /\ worker'[w].pc \in ThrowPc
    BY JobKinds DEF Holds, ThrowPc
  <2>3. batch[g][d] = "ready" => Holds(w, g, d, LastPc)'
    BY DEF Holds
  <2>4. \A b \in Batch : batch[g][b] = "ready" /\ TokenBy(w, g, b) => TokenBy(w, g, b)'
    BY <1>2, <1>4, <2>3 DEF TokenBy, NotHis
  <2>5. \A b \in Batch : TokenBy(w, g, b)' => TokenBy(w, g, b)
    BY <1>4, <2>2 DEF TokenBy
  <2>6. \A b \in Batch : Overdue(g, b)' =>
           /\ Overdue(g, b) /\ job'[EmbedJob(g, b)].tries = job[EmbedJob(g, b)].tries
    BY <1>3, <1>4, <2>1 DEF Overdue
  <2>7. \A b \in Batch : Overdue(g, b)' => ~Holds(w, g, b, ThrowPc)'
    BY <1>7, <2>2, <2>6
  <2>8. NearGraph(w, g) => NearGraph(w, g)'
    BY <1>2, <1>4 DEF NearGraph, NotHis
  <2> QED
    BY <1>2, <2>1, <2>4, <2>5, <2>6, <2>7, <2>8 DEF Passes, NotHis
<1>8. spent'.provider \in {spent.provider, spent.provider + 1}
  OBVIOUS
<1> QED
  BY <1>1, <1>4, <1>5, <1>6, <1>7, <1>8, MoveCarrying

\* The embed job of a handler fails and waits again.
LEMMA ThrowCarrying ==
    ASSUME Inv, Inv', FenceStays, Carrying, NEW w \in Worker, Busy(w), NEW g \in Gen, G(w) = g,
           NEW d \in Batch, JobOf(w) = EmbedJob(g, d), Throw(w), worker[w].pc \in {"storeBatch", "activate"},
           UNCHANGED <<doc, run, batch, row, slot, api, removal>>,
           spent'.provider \in {spent.provider, spent.provider + 1},
           ~Cancelled(g) =>
              /\ job[EmbedJob(g, d)].tries + 1 < MaxTries
              /\ At(w, "storeBatch") =>
                    /\ batch[g][d] = "processing"
                    /\ job[EmbedJob(g, d)].tries + 1 <= spent'.provider
              /\ At(w, "activate") =>
                    /\ Doomed(g) /\ spent'.provider = spent.provider
                    /\ job[EmbedJob(g, d)].tries <= spent.provider
    PROVE  Carrying'
<1>1. worker'[w] = IdleWorker /\ \A v \in Worker \ {w} : worker'[v] = worker[v]
  BY ThrowIdle
<1>2. /\ ~Busy(w)' /\ ~Preparing(w, g)' /\ Bare(w)' /\ Ending(w)'
      /\ \A b \in Batch : ~Holds(w, g, b, LastPc)' /\ ~Holds(w, g, b, ThrowPc)'
  BY <1>1 DEF IdleWorker, Busy, Preparing, Bare, Ending, Holds, LastPc, ThrowPc, At
<1> DEFINE j == EmbedJob(g, d)
<1>3. /\ j \in JobId /\ GenOf(j) = g /\ job[j].state = "active" /\ job[j].tries \in Nat
      /\ \A v \in Worker \ {w} : ~(Busy(v) /\ JobOf(v) = j)
  BY HisJob
<1>4. /\ job'[j].tries = job[j].tries + 1
      /\ job'[j].state = IF job[j].tries + 1 < MaxTries THEN "waiting" ELSE "failed"
      /\ \A i \in JobId \ {j} : job'[i] = job[i]
  BY ThrownJob
<1>5. /\ \A i \in JobId : GenOf(i) # g => job'[i] = job[i]
      /\ job'[PrepareJob(g)] = job[PrepareJob(g)] /\ job'[GraphJob(g)] = job[GraphJob(g)]
      /\ \A b \in Batch : b # d => job'[EmbedJob(g, b)] = job[EmbedJob(g, b)]
  BY <1>3, <1>4, JobIdFacts, JobKinds
<1>6. job'[GraphJob(g)].state \in {"none", "waiting"}
  BY <1>5 DEF Carrying, Quiet, Statuses
<1>7. ~Preparing(w, g)
  BY DEF Preparing
<1>8. ASSUME ~Cancelled(g)
      PROVE  Passes(w, g)
  <2>1. job'[j].state = "waiting"
    BY <1>4, <1>8
  <2>2. worker[w].next = {} /\ ~Claiming(w, g)
    BY DEF Carrying, Quiet, Bare, At, Claiming
  <2>3. ~Heads(w, g) /\ \A b \in Batch : ~Handing(w, g, b)
    BY <2>2 DEF Heads, Handing
  <2>4. \A b \in Batch : Live(EmbedJob(g, b)) => Live(EmbedJob(g, b))'
    BY <1>5, <2>1 DEF Live
  <2>5. NearGraph(w, g) => NearGraph(w, g)'
    BY <1>5, <2>3 DEF NearGraph
  <2>6. ASSUME NEW b \in Batch, TokenBy(w, g, b)
        PROVE  TokenBy(w, g, b)'
    <3>1. b # d => ~Holds(w, g, b, LastPc)
      BY JobKinds DEF Holds
    <3> QED
      BY <1>5, <2>1, <2>6, <3>1 DEF TokenBy
  <2>7. ASSUME NEW b \in Batch, batch[g][b] = "ready", TokenBy(w, g, b)'
        PROVE  TokenBy(w, g, b)
    <3>1. CASE b # d
      BY <1>2, <1>5, <2>7, <3>1 DEF TokenBy
    <3>2. CASE b = d
      <4>1. At(w, "activate")
        BY <1>8, <2>7, <3>2 DEF At
      <4> QED
        BY <3>2, <4>1 DEF TokenBy, Holds, LastPc, At
    <3> QED
      BY <3>1, <3>2
  <2>8. ASSUME NEW b \in Batch, Overdue(g, b)'
        PROVE  \/ /\ Overdue(g, b) /\ job'[EmbedJob(g, b)].tries = job[EmbedJob(g, b)].tries
                  /\ spent'.provider = spent.provider
                  /\ Holds(w, g, b, ThrowPc)' => Holds(w, g, b, ThrowPc)
               \/ /\ job'[EmbedJob(g, b)].tries = spent'.provider + 1 /\ Doomed(g)
                  /\ \A v \in Worker : ~Holds(v, g, b, ThrowPc)'
    <3>1. spent.provider \in Nat
      BY BoundAssumption DEF Inv, BoundsOK
    <3>2. CASE b = d
      <4>1. job'[j].tries > spent'.provider
        BY <2>8, <3>2 DEF Overdue
      <4>2. At(w, "activate")
        BY <1>3, <1>4, <1>8, <3>1, <4>1 DEF At
      <4>3. job'[j].tries = spent'.provider + 1 /\ Doomed(g)
        BY <1>3, <1>4, <1>8, <3>1, <4>1, <4>2
      <4>4. \A v \in Worker \ {w} : ~Holds(v, g, d, ThrowPc)'
        BY <1>1, <1>3 DEF Holds, ThrowPc, Busy, JobOf
      <4> QED
        BY <1>2, <3>2, <4>3, <4>4
    <3>3. CASE b # d
      <4>1. job'[EmbedJob(g, b)] = job[EmbedJob(g, b)] /\ job[EmbedJob(g, b)].tries \in Nat
        BY <1>5, <3>3, JobIdFacts, LimitAssumption DEF Inv, QueueOK, Job
      <4>2. Live(EmbedJob(g, b)) /\ job[EmbedJob(g, b)].tries > spent'.provider
        BY <2>8, <4>1 DEF Overdue, Live
      <4>3. Overdue(g, b)
        BY <3>1, <4>1, <4>2 DEF Overdue
      <4>4. job[EmbedJob(g, b)].tries = spent.provider + 1
        BY <1>8, <4>3 DEF Overdue, Carrying, OnWay, Retries
      <4>5. spent'.provider = spent.provider
        BY <3>1, <4>2, <4>4
      <4> QED
        BY <1>2, <4>1, <4>3, <4>5
    <3> QED
      BY <3>2, <3>3
  <2> QED
    BY <2>2, <2>3, <2>4, <2>5, <2>6, <2>7, <2>8 DEF Passes
<1> QED
  BY <1>1, <1>2, <1>5, <1>6, <1>7, <1>8, MoveCarrying

LEMMA EmbedLoadStaleCarrying ==
    ASSUME Inv, Inv', FenceStays, Carrying, NEW w \in Worker, NEW g \in Gen, NEW b \in Batch,
           EmbedLoadStale(w, g, b)
    PROVE  Carrying'
<1>1. /\ At(w, "idle") /\ job[EmbedJob(g, b)].state = "waiting" /\ Take(EmbedJob(g, b))
      /\ UNCHANGED <<doc, run, batch, row, slot, api, removal, spent>>
      /\ worker'[w].next = {} /\ worker'[w].added = {} /\ worker'[w].pc = "embedStale"
      /\ worker'[w].job = EmbedJob(g, b)
      /\ \A v \in Worker \ {w} : worker'[v] = worker[v]
  BY DEF EmbedLoadStale, Inv, QueueOK, IdleWorker
<1>2. JobOf(w)' = EmbedJob(g, b)
  BY <1>1 DEF JobOf
<1> QED
  BY <1>1, <1>2, TakeEmbedCarrying DEF LastPc, ThrowPc

\* A job that has used up its attempts but the last finds its generation stale.
LEMMA EmbedLoadCarrying ==
    ASSUME Inv, Inv', FenceStays, Carrying, NEW w \in Worker, NEW g \in Gen, NEW b \in Batch, NEW p \in Profile,
           EmbedLoad(w, g, b, p)
    PROVE  Carrying'
<1>1. /\ At(w, "idle") /\ job[EmbedJob(g, b)].state = "waiting" /\ Take(EmbedJob(g, b))
      /\ UNCHANGED <<doc, run, batch, row, slot, api, removal, spent>>
      /\ worker'[w].next = {} /\ worker'[w].added = {} /\ worker'[w].job = EmbedJob(g, b)
      /\ \/ worker'[w].pc = "completeBatch"
         \/ worker'[w].pc = "storeBatch" /\ batch[g][b] # "ready"
      /\ \A v \in Worker \ {w} : worker'[v] = worker[v]
  BY DEF EmbedLoad, Inv, QueueOK, IdleWorker
<1>2. JobOf(w)' = EmbedJob(g, b)
  BY <1>1 DEF JobOf
<1>3. ~Cancelled(g) /\ ~EmbedIsStale(g, b)
  BY DEF EmbedLoad
<1>4. ~Overdue(g, b)
  <2>1. ~Doomed(g)
    BY <1>3 DEF EmbedIsStale, Doomed
  <2> QED
    BY <1>3, <2>1 DEF Overdue, Carrying, OnWay, Retries
<1> QED
  BY <1>1, <1>2, <1>4, TakeEmbedCarrying DEF LastPc

LEMMA EnqueueCarrying ==
    ASSUME Ground, Inv', FenceStays, NEW w \in Worker, Enqueue(w)
    PROVE  Carrying'
<1>1. At(w, "enqueue") /\ Busy(w) /\ UNCHANGED <<doc, run, batch, row, slot, api, removal, spent>> /\ Inv /\ Carrying
  BY DEF Enqueue, At, Busy, Ground
<1>2. PICK g \in Gen : G(w) = g
  BY <1>1, BusyFacts
<1>3. PICK j \in worker[w].next :
        /\ job' = IF Cancelled(g) THEN job
                  ELSE Add(job, [i \in {j} |-> Queued(worker[w].full, worker[w].context)])
        /\ worker' = [worker EXCEPT
              ![w].next = @ \ {j},
              ![w].added = IF Cancelled(g) THEN @ ELSE @ \cup {j},
              ![w].pc = IF worker[w].next = {j} THEN "finish" ELSE "enqueue"]
  BY <1>2 DEF Enqueue
<1>4. /\ worker'[w].pc = IF worker[w].next = {j} THEN "finish" ELSE "enqueue"
      /\ worker'[w].next = worker[w].next \ {j} /\ worker'[w].job = worker[w].job
      /\ worker'[w].added \in {worker[w].added, worker[w].added \cup {j}}
      /\ \A v \in Worker \ {w} : worker'[v] = worker[v]
  <2>1. worker \in [Worker -> Handler] /\ worker[w] \in Handler
    BY <1>1 DEF Inv, QueueOK
  <2> QED
    BY <1>3, <2>1 DEF Handler
<1>5. GenOf(j) = g /\ j \in JobId /\ j # PrepareJob(g)
  <2>1. GenOf(j) = g
    BY <1>1, <1>2, <1>3 DEF Inv, QueueOK, OwnsJob
  <2>2. j \in JobId
    BY <1>1, <1>3 DEF Inv, QueueOK, Handler
  <2>3. j # PrepareJob(g)
    BY <1>1, <1>2, <1>3 DEF Ground, Whole, HandlerOK, HandlerKind
  <2> QED
    BY <2>1, <2>2, <2>3
<1>6. \A i \in JobId : \/ job'[i] = job[i]
                       \/ i = j /\ ~Cancelled(g) /\ job[i].state = "none" /\ job'[i].state = "waiting"
                          /\ job'[i].tries = 0
  BY <1>3 DEF Add, Queued
<1>7. ~Cancelled(g) => job'[j].state # "none"
  BY <1>3, <1>5 DEF Add, Queued
<1>8. /\ Busy(w)' /\ JobOf(w)' = JobOf(w) /\ G(w)' = g
      /\ ~Preparing(w, g) /\ ~Preparing(w, g)'
      /\ \A b \in Batch : /\ ~Holds(w, g, b, LastPc) /\ ~Holds(w, g, b, LastPc)'
                          /\ ~Holds(w, g, b, ThrowPc)'
  BY <1>1, <1>2, <1>4 DEF Busy, JobOf, G, At, Preparing, Holds, LastPc, ThrowPc
<1>9. Bare(w)'
  <2>1. ~At(w, "enqueue")' => worker'[w].next = {}
    BY <1>4 DEF At
  <2>2. \A i \in worker'[w].added : GenOf(i) = g
    BY <1>1, <1>2, <1>4, <1>5 DEF Carrying, Quiet, Bare
  <2> QED
    BY <1>8, <2>1, <2>2 DEF Bare
<1>10. Ending(w)'
  <2>1. /\ Cancelled(g)' <=> Cancelled(g)
        /\ ActiveRun(g)' <=> ActiveRun(g)
    BY <1>1 DEF Cancelled, ActiveRun, Exists
  <2>2. ~Cancelled(g) /\ ActiveRun(g) => \A b \in Batch : JobOf(w) = EmbedJob(g, b) => batch[g][b] = "ready"
    BY <1>1, <1>2 DEF Carrying, Ending, At
  <2>3. ~At(w, "claim")' /\ ~At(w, "activate")'
    BY <1>4 DEF At
  <2> QED
    BY <1>1, <1>8, <2>1, <2>2, <2>3 DEF Ending
<1>11. job'[GraphJob(g)].state \in {"none", "waiting"}
  BY <1>1, <1>6, JobIdFacts DEF Carrying, Quiet, Statuses
<1>12. job'[PrepareJob(g)] = job[PrepareJob(g)] /\ \A i \in JobId : GenOf(i) # g => job'[i] = job[i]
  BY <1>5, <1>6, JobIdFacts
<1>13. ASSUME ~Cancelled(g)
       PROVE  Passes(w, g)
  <2>1. ASSUME NEW b \in Batch
        PROVE  /\ EmbedJob(g, b) \in JobId
               /\ Handing(w, g, b) => batch[g][b] = "processing" /\ job[EmbedJob(g, b)].state = "none"
    BY <1>13, JobIdFacts DEF Ground, Scheduling, Window
  <2>2. \A b \in Batch : EmbedJob(g, b) = j => Handing(w, g, b)
    BY <1>1, <1>3 DEF Handing
  <2>3. ASSUME NEW b \in Batch, Live(EmbedJob(g, b)) \/ Handing(w, g, b)
        PROVE  Live(EmbedJob(g, b))' \/ Handing(w, g, b)'
    <3>1. CASE Live(EmbedJob(g, b))
      BY <1>6, <2>1, <3>1 DEF Live
    <3>2. CASE Handing(w, g, b) /\ EmbedJob(g, b) = j
      BY <1>6, <1>7, <1>13, <2>1, <3>2 DEF Live
    <3>3. CASE Handing(w, g, b) /\ EmbedJob(g, b) # j
      BY <1>4, <1>8, <3>3 DEF Handing
    <3> QED
      BY <2>3, <3>1, <3>2, <3>3
  <2>4. ~Claiming(w, g)
    BY <1>1 DEF Claiming, At
  <2>5. ASSUME NearGraph(w, g)
        PROVE  NearGraph(w, g)'
    <3>1. GraphJob(g) \in JobId /\ job[GraphJob(g)].state \in {"none", "waiting"}
      BY <1>1, JobIdFacts DEF Carrying, Quiet, Statuses
    <3>2. CASE job[GraphJob(g)].state = "waiting"
      BY <1>6, <3>1, <3>2 DEF NearGraph
    <3>3. CASE GraphJob(g) = j
      BY <1>7, <1>11, <1>13, <3>3 DEF NearGraph
    <3>4. CASE GraphJob(g) \in worker[w].next \ {j}
      BY <1>4, <1>8, <3>4 DEF NearGraph, Heads
    <3>5. GraphJob(g) \in worker[w].next \/ job[GraphJob(g)].state = "waiting"
      BY <1>1, <2>5 DEF NearGraph, Heads, At
    <3> QED
      BY <3>2, <3>3, <3>4, <3>5
  <2>6. \A b \in Batch : TokenBy(w, g, b) => TokenBy(w, g, b)'
    BY <1>6, <1>8, <2>1 DEF TokenBy
  <2>7. \A b \in Batch : batch[g][b] = "ready" /\ TokenBy(w, g, b)' => TokenBy(w, g, b)
    BY <1>6, <1>8, <2>1, <2>2 DEF TokenBy
  <2>8. ASSUME NEW b \in Batch, Overdue(g, b)'
        PROVE  Overdue(g, b) /\ job'[EmbedJob(g, b)].tries = job[EmbedJob(g, b)].tries
    <3>1. spent'.provider = spent.provider /\ spent.provider \in Nat
      BY <1>1, BoundAssumption DEF Inv, BoundsOK
    <3>2. job'[EmbedJob(g, b)] = job[EmbedJob(g, b)]
      BY <1>6, <2>1, <2>8, <3>1 DEF Overdue
    <3> QED
      BY <2>8, <3>1, <3>2 DEF Overdue, Live
  <2>9. spent'.provider = spent.provider
    BY <1>1
  <2> QED
    BY <1>8, <2>3, <2>4, <2>5, <2>6, <2>7, <2>8, <2>9 DEF Passes
<1>14. spent'.provider \in {spent.provider, spent.provider + 1}
  BY <1>1
<1> QED
  BY <1>1, <1>2, <1>4, <1>8, <1>9, <1>10, <1>11, <1>12, <1>13, <1>14, MoveCarrying

LEMMA FinishCarrying ==
    ASSUME Inv, Inv', FenceStays, Carrying, NEW w \in Worker, Finish(w)
    PROVE  Carrying'
<1>1. /\ At(w, "finish") /\ Busy(w) /\ UNCHANGED <<doc, run, batch, row, slot, api, removal, spent>>
      /\ worker' = [worker EXCEPT ![w] = IdleWorker]
  BY DEF Finish, At, Busy
<1>2. PICK g \in Gen : G(w) = g
  BY <1>1, BusyFacts
<1>3. PICK late \in SUBSET worker[w].added :
        /\ late # {} => Cancelled(g)
        /\ job' = Ended(Remove(job, late), JobOf(w))
  BY <1>2 DEF Finish
<1>4. ~Preparing(w, g)
  BY <1>1 DEF Preparing, At
<1>5. CASE ~Cancelled(g)
  <2>1. late = {} /\ Remove(job, late) = job
    <3>1. DOMAIN job = JobId /\ job = [j \in JobId |-> job[j]]
      BY DEF Inv, QueueOK
    <3> QED
      BY <1>3, <1>5, <3>1 DEF Remove
  <2>2. ActiveRun(g) => \A b \in Batch : JobOf(w) = EmbedJob(g, b) => batch[g][b] = "ready"
    BY <1>1, <1>2, <1>5 DEF Carrying, Ending, At
  <2>3. job' = Ended(job, JobOf(w))
    BY <1>3, <2>1
  <2>4. worker[w].pc = "finish" /\ ~Claiming(w, g)
    BY <1>1 DEF At, Claiming
  <2> QED
    BY <1>1, <1>2, <1>4, <2>2, <2>3, <2>4, ReturnCarrying
<1>6. CASE Cancelled(g)
  <2>1. worker'[w] = IdleWorker /\ \A v \in Worker \ {w} : worker'[v] = worker[v]
    BY <1>1, ThrowIdle
  <2>2. /\ ~Busy(w)' /\ ~Preparing(w, g)' /\ Bare(w)'
    BY <2>1 DEF IdleWorker, Busy, Preparing, Bare, At
  <2>3. /\ JobOf(w) \in JobId /\ GenOf(JobOf(w)) = g /\ JobOf(w) # GraphJob(g)
    BY <1>1, <1>2, HisJob
  <2>4. \A j \in late : GenOf(j) = g
    BY <1>1, <1>2, <1>3 DEF Carrying, Quiet, Bare
  <2>5. \A j \in JobId \ {JobOf(w)} : job'[j] = IF j \in late /\ job[j].state # "active" THEN NoJob ELSE job[j]
    BY <1>3 DEF Remove, Ended
  <2>6. \A j \in JobId : GenOf(j) # g => job'[j] = job[j]
    BY <2>3, <2>4, <2>5
  <2>7. job'[GraphJob(g)] \in {NoJob, job[GraphJob(g)]}
    BY <2>3, <2>5, JobIdFacts
  <2>8. job'[GraphJob(g)].state \in {"none", "waiting"}
    BY <2>7, NoJobType DEF Carrying, Quiet, Statuses
  <2>9. spent'.provider \in {spent.provider, spent.provider + 1}
    BY <1>1
  <2> QED
    BY <1>1, <1>2, <1>4, <1>6, <2>1, <2>2, <2>6, <2>8, <2>9, MoveCarrying
<1> QED
  BY <1>5, <1>6

\* Somebody is claimed where something is pending: the least pending batch has
\* no predecessor.
LEMMA SomeClaimed ==
    ASSUME NEW g \in Gen, NEW n \in Nat \ {0}, ~Cancelled(g), \E b \in Batch : batch[g][b] = "pending"
    PROVE  \E b \in Batch : b \in Claimable(g, n, {})
<1> DEFINE open == {b \in Batch : batch[g][b] = "pending"}
           below(b) == {x \in open : x < b}
           T == {below(b) : b \in open}
           R == StrictSubsetOrdering(Batch)
<1>1. T \subseteq FiniteSubsetsOf(Batch) /\ T # {}
  <2>1. \A b \in open : below(b) \in SUBSET Batch
    OBVIOUS
  <2> HIDE DEF below
  <2>2. \A b \in open : IsFiniteSet(below(b))
    BY <2>1, SomeBatches
  <2>3. open # {}
    OBVIOUS
  <2> QED
    BY <2>1, <2>2, <2>3 DEF FiniteSubsetsOf
<1>2. IsWellFoundedOn(R, FiniteSubsetsOf(Batch))
  BY FS_StrictSubsetOrderingWellFounded
<1>3. \E x \in T : \A y \in T : <<y, x>> \notin R
  <2> HIDE DEF R, T
  <2> QED
    BY <1>1, <1>2, WFMin
<1>4. PICK b \in open : \A a \in open : <<below(a), below(b)>> \notin R
  BY <1>3
<1>5. ASSUME NEW a \in below(b)
      PROVE  FALSE
  <2>1. a \in open /\ a < b /\ a \in Int /\ b \in Int /\ \A x \in open : x \in Int
    BY <1>5, FiniteBatches
  <2>2. below(a) \subseteq below(b) /\ a \notin below(a)
    BY <2>1
  <2>3. <<below(a), below(b)>> \in R
    BY <2>2 DEF StrictSubsetOrdering
  <2> QED
    BY <1>4, <2>1, <2>3
<1>6. below(b) = {}
  BY <1>5
<1>7. Cardinality(below(b)) < n
  BY <1>6, FS_EmptySet
<1>8. below(b) = {x \in open \cup {} : x < b}
  OBVIOUS
<1> QED
  BY <1>7, <1>8 DEF Claimable

\* A handler that still writes has a failure left to spend.
LEMMA TriesLeft ==
    ASSUME Ground, NEW w \in Worker, NEW g \in Gen, G(w) = g, ~Cancelled(g), worker[w].pc \in ThrowPc
    PROVE  \E d \in Batch : /\ JobOf(w) = EmbedJob(g, d) /\ job[EmbedJob(g, d)].state = "active"
                            /\ job[EmbedJob(g, d)].tries \in Nat /\ spent.provider \in Nat
                            /\ job[EmbedJob(g, d)].tries <= spent.provider
                            /\ run[g].prepare = "ready" /\ Exists(g)
                            /\ batch[g][d] \in {"processing", "ready"}
<1>1. Inv /\ Whole /\ Carrying /\ Busy(w) /\ Window(g)
  BY DEF Ground, ThrowPc, Busy, Scheduling
<1>2. PICK d \in Batch : JobOf(w) = EmbedJob(g, d) /\ ~Fresh(g)
  BY <1>1, EmbedHolder DEF ThrowPc
<1>3. job[EmbedJob(g, d)].state = "active" /\ job[EmbedJob(g, d)].tries \in Nat /\ Exists(g)
  BY <1>1, <1>2, BusyFacts, LimitAssumption DEF Job
<1>4. spent.provider \in Nat
  BY <1>1, BoundAssumption DEF Inv, BoundsOK
<1>5. Holds(w, g, d, ThrowPc) /\ Live(EmbedJob(g, d))
  BY <1>2, <1>3 DEF Holds, Live
<1>6. job[EmbedJob(g, d)].tries <= spent.provider
  BY <1>1, <1>3, <1>4, <1>5 DEF Carrying, OnWay, Retries
<1>7. run[g].prepare = "ready"
  BY <1>1, <1>2, <1>3 DEF Ground, Whole, GenOK, Once
<1>8. batch[g][d] \in {"processing", "ready"}
  BY <1>1, <1>3 DEF Carrying, Quiet, Statuses, Window
<1> QED
  BY <1>2, <1>3, <1>4, <1>6, <1>7, <1>8

LEMMA ProviderFailsCarrying ==
    ASSUME Ground, Inv', FenceStays, NEW w \in Worker, ProviderFails(w), spent'.provider + 1 < MaxTries
    PROVE  Carrying'
<1>1. /\ At(w, "storeBatch") /\ worker[w].pc = "storeBatch" /\ Busy(w) /\ Throw(w)
      /\ UNCHANGED <<doc, run, batch, row, slot, api, removal>> /\ Inv /\ Carrying
  BY DEF ProviderFails, At, Busy, Ground
<1>2. spent'.provider = spent.provider + 1
  BY <1>1 DEF ProviderFails, Spend, Inv, BoundsOK
<1>3. PICK g \in Gen : G(w) = g
  BY <1>1, BusyFacts
<1>4. PICK d \in Batch : JobOf(w) = EmbedJob(g, d)
  BY <1>1, <1>3, EmbedHolder DEF Ground
<1>5. ASSUME ~Cancelled(g)
      PROVE  /\ job[EmbedJob(g, d)].tries + 1 < MaxTries
             /\ batch[g][d] = "processing" /\ job[EmbedJob(g, d)].tries + 1 <= spent'.provider
  <2>1. /\ job[EmbedJob(g, d)].tries <= spent.provider
        /\ job[EmbedJob(g, d)].tries \in Nat /\ spent.provider \in Nat
    BY <1>1, <1>3, <1>4, <1>5, TriesLeft, JobKinds DEF ThrowPc
  <2>2. batch[g][d] = "processing"
    BY <1>1, <1>3, <1>4, <1>5, JobKinds DEF Ground, Scheduling, Places
  <2> QED
    BY <1>2, <2>1, <2>2, LimitAssumption
<1> QED
  BY <1>1, <1>2, <1>3, <1>4, <1>5, ThrowCarrying DEF At

\* The handler that activates g is alone with that.
LEMMA Activator ==
    ASSUME Ground, NEW w \in Worker, NEW g \in Gen, G(w) = g, ~Cancelled(g), At(w, "activate")
    PROVE  /\ AllReady(g) /\ doc.active # g /\ run[g].prepare = "ready" /\ Exists(g)
           /\ \E d \in Batch : /\ JobOf(w) = EmbedJob(g, d) /\ batch[g][d] = "ready"
                               /\ Holds(w, g, d, LastPc)
                               /\ \A e \in Batch : Token(g, e) <=> e = d
<1>1. Inv /\ Carrying /\ Busy(w) /\ worker[w].pc \in ThrowPc
  BY DEF Ground, At, Busy, ThrowPc
<1>2. PICK d \in Batch : /\ JobOf(w) = EmbedJob(g, d) /\ run[g].prepare = "ready" /\ Exists(g)
                         /\ batch[g][d] \in {"processing", "ready"}
  BY <1>1, TriesLeft
<1>3. AllReady(g)
  BY <1>1 DEF Ground, Scheduling, Places
<1>4. batch[g][d] = "ready"
  BY <1>2, <1>3 DEF AllReady
<1>5. Holds(w, g, d, LastPc)
  BY <1>2 DEF Holds, LastPc, At
<1>6. Token(g, d)
  BY <1>4, <1>5 DEF Token
<1>7. doc.active # g /\ \A e \in Batch : Token(g, e) => e = d
  BY <1>1, <1>6 DEF Carrying, OnWay, Single
<1> QED
  BY <1>2, <1>3, <1>4, <1>5, <1>6, <1>7

LEMMA ActivateRefusedCarrying ==
    ASSUME Ground, Inv', FenceStays, NEW w \in Worker, ActivateRefused(w),
           spent.provider + 1 < MaxTries, Profile = {Primary}
    PROVE  Carrying'
<1>1. /\ At(w, "activate") /\ worker[w].pc = "activate" /\ Busy(w) /\ Throw(w)
      /\ UNCHANGED <<doc, run, batch, row, slot, api, removal, spent>> /\ Inv /\ Whole /\ Carrying
  BY DEF ActivateRefused, At, Busy, Ground
<1>2. PICK g \in Gen : G(w) = g
  BY <1>1, BusyFacts
<1>3. PICK d \in Batch : JobOf(w) = EmbedJob(g, d)
  BY <1>1, <1>2, EmbedHolder
<1>4. ASSUME ~Cancelled(g)
      PROVE  Doomed(g)
  <2>1. /\ AllReady(g) /\ doc.active # g /\ run[g].prepare = "ready" /\ batch[g][d] = "ready" /\ Exists(g)
    BY <1>1, <1>2, <1>3, <1>4, Activator, JobKinds
  <2>2. ASSUME doc.pending = g
        PROVE  FALSE
    <3>1. Cardinality(Stored(row[g])) = worker[w].total
      BY <1>1, <1>2, <1>4, <2>2 DEF Carrying, Ending
    <3>2. Filling(g)
      BY <1>1 DEF Whole, GenOK
    <3>3. d \in BatchesOf(Rev(g)) /\ StoredIn(row[g], Rev(g), d)
      BY <1>4, <2>1, <2>2, <3>2 DEF Filling
    <3>4. PICK c \in Chunks(Rev(g)) : BatchOf(c) = d
      BY <3>3 DEF BatchesOf
    <3>5. row[g][c] # None
      BY <3>3, <3>4 DEF StoredIn, ChunksIn
    <3>6. Rev(g) \in Revision
      BY <1>1, <2>1 DEF Inv, TablesOK, Exists, Run, Rev
    <3>7. c \in Stored(row[g])
      BY <3>4, <3>5, <3>6, ChunkText DEF Stored
    <3>8. IsFiniteSet(Stored(row[g])) /\ Cardinality(Stored(row[g])) \in Nat
      BY FiniteContentAssumption, FS_Subset, FS_CardinalityType DEF Stored
    <3>9. Cardinality(Stored(row[g])) # 0
      BY <3>7, <3>8, FS_EmptySet
    <3>10. worker[w].total > 0
      BY <3>1, <3>8, <3>9
    <3>11. \A e \in Stored(row[g]) : row[g][e].profile = worker[w].profile
      <4>1. worker[w].profile = Primary
        BY <1>1 DEF Whole, HandlerOK, HandlerData
      <4>2. row[g] \in Rows
        BY <1>1 DEF Inv, TablesOK
      <4>3. \A e \in Stored(row[g]) : row[g][e] \in Row
        BY <4>2 DEF Stored, Rows
      <4> QED
        BY <4>1, <4>3 DEF Row
    <3>12. Activatable(w)
      BY <1>2, <2>2, <3>1, <3>10, <3>11 DEF Activatable
    <3> QED
      BY <1>2, <1>4, <2>1, <3>12 DEF ActivateRefused, AlreadyActive
  <2> QED
    BY <2>1, <2>2 DEF Doomed
<1>5. ASSUME ~Cancelled(g)
      PROVE  job[EmbedJob(g, d)].tries + 1 < MaxTries /\ job[EmbedJob(g, d)].tries <= spent.provider
  <2>1. /\ job[EmbedJob(g, d)].tries <= spent.provider
        /\ job[EmbedJob(g, d)].tries \in Nat /\ spent.provider \in Nat
    BY <1>1, <1>2, <1>3, <1>5, TriesLeft, JobKinds DEF ThrowPc
  <2> QED
    BY <2>1, LimitAssumption
<1>6. spent'.provider = spent.provider /\ ~At(w, "storeBatch")
  BY <1>1 DEF At
<1> QED
  BY <1>1, <1>2, <1>3, <1>4, <1>5, <1>6, ThrowCarrying

\* A handler that claims: what it claims it is going to queue.
LEMMA ClaimBatchesCarrying ==
    ASSUME Ground, Inv', FenceStays, NEW w \in Worker, worker[w].pc \in {"claim", "claimNext"},
           NEW n \in Nat \ {0}, NEW lost \in SUBSET Contended(w),
           ClaimBatches(w, n, lost)
    PROVE  Carrying'
<1>1. Inv /\ Carrying /\ Busy(w) /\ UNCHANGED <<doc, run, row, slot, api, removal, spent>>
  BY DEF Ground, Busy, ClaimBatches
<1>2. PICK g \in Gen : G(w) = g
  BY <1>1, BusyFacts
<1> DEFINE claimed == Claimable(g, n, lost)
           ids == {EmbedJob(g, b) : b \in claimed}
<1>3. batch' = [batch EXCEPT ![g] = [b \in Batch |-> IF b \in claimed THEN "processing" ELSE @[b]]]
  BY <1>2 DEF ClaimBatches
<1>4. /\ claimed = {} => Done(w)
      /\ claimed # {} => /\ job' = job
                         /\ worker' = [worker EXCEPT ![w].pc = "enqueue", ![w].next = ids,
                                ![w].full = run[g].full, ![w].context = run[g].context]
  <2>1. CASE claimed = {}
    BY <1>2, <2>1 DEF ClaimBatches
  <2>2. CASE claimed # {}
    <3>1. Claimable(G(w), n, lost) # {}
      BY <1>2, <2>2
    <3>2. /\ job' = job
          /\ worker' = [worker EXCEPT ![w].pc = "enqueue",
                           ![w].next = {EmbedJob(G(w), b) : b \in Claimable(G(w), n, lost)},
                           ![w].full = run[G(w)].full, ![w].context = run[G(w)].context]
      BY <3>1 DEF ClaimBatches
    <3>3. Claimable(G(w), n, lost) = claimed /\ {EmbedJob(G(w), b) : b \in Claimable(G(w), n, lost)} = ids
          /\ run[G(w)] = run[g]
      BY <1>2
    <3> HIDE DEF claimed, ids
    <3> QED
      BY <2>2, <3>2, <3>3
  <2> QED
    BY <2>1, <2>2
<1>5. /\ claimed \in SUBSET {b \in Batch : batch[g][b] = "pending"}
      /\ Cancelled(g) => claimed = {}
      /\ ~Cancelled(g) /\ claimed = {} => ClaimedAhead(g)
  <2>1. /\ claimed \in SUBSET {b \in Batch : batch[g][b] = "pending"}
        /\ Cancelled(g) => claimed = {}
    BY FewClaimed DEF Contended
  <2>2. CASE lost = {}
    <3>1. ~Cancelled(g) /\ (\E b \in Batch : batch[g][b] = "pending") => \E b \in Batch : b \in claimed
      BY <2>2, SomeClaimed
    <3> QED
      BY <2>1, <3>1 DEF ClaimedAhead
  <2>3. CASE lost # {}
    <3>1. \E b \in Batch : batch[g][b] = "processing"
      BY <1>2, <2>3 DEF Contended
    <3> QED
      BY <2>1, <3>1 DEF ClaimedAhead
  <2> QED
    BY <2>2, <2>3
<1>6. \A b \in claimed : EmbedJob(g, b) \in ids
  OBVIOUS
<1> HIDE DEF claimed, ids
<1>7. /\ \A b \in Batch : batch'[g][b] = IF b \in claimed THEN "processing" ELSE batch[g][b]
      /\ \A h \in Gen \ {g} : batch'[h] = batch[h]
  BY <1>1, <1>3 DEF Inv, TablesOK
<1>8. ASSUME ~Cancelled(g), NEW b \in Batch, JobOf(w) = EmbedJob(g, b)
      PROVE  batch[g][b] = "ready"
  BY <1>1, <1>2, <1>8, JobKinds DEF Ground, Scheduling, Places, At
<1>9. CASE claimed = {}
  <2>1. batch' = batch
    <3>1. batch \in [Gen -> [Batch -> BatchStatus]]
      BY <1>1 DEF Inv, TablesOK
    <3>2. [b \in Batch |-> IF b \in claimed THEN "processing" ELSE batch[g][b]] = batch[g]
      BY <1>9, <3>1
    <3> QED
      BY <1>3, <3>1, <3>2
  <2>2. worker' = [worker EXCEPT ![w] = IdleWorker] /\ job' = Ended(job, JobOf(w))
    BY <1>4, <1>9 DEF Done
  <2>3. ~Preparing(w, g)
    BY DEF Preparing
  <2> QED
    BY <1>1, <1>2, <1>5, <1>8, <1>9, <2>1, <2>2, <2>3, ReturnCarrying
<1>10. CASE claimed # {}
  <2>1. ~Cancelled(g) /\ \E b \in claimed : b \in Batch /\ batch[g][b] = "pending"
    BY <1>5, <1>10
  <2>2. /\ job' = job /\ worker'[w].pc = "enqueue" /\ worker'[w].job = worker[w].job
        /\ worker'[w].next = ids /\ worker'[w].added = worker[w].added
        /\ \A v \in Worker \ {w} : worker'[v] = worker[v]
    <3>1. worker \in [Worker -> Handler] /\ worker[w] \in Handler
      BY <1>1 DEF Inv, QueueOK
    <3> QED
      BY <1>4, <1>10, <3>1 DEF Handler
  <2>3. /\ Busy(w)' /\ JobOf(w)' = JobOf(w) /\ G(w)' = g /\ ~Preparing(w, g) /\ ~Preparing(w, g)'
        /\ \A b \in Batch : ~Holds(w, g, b, LastPc)' /\ ~Holds(w, g, b, ThrowPc)'
    BY <1>2, <2>2 DEF Busy, JobOf, G, Preparing, Holds, LastPc, ThrowPc
  <2>4. HisStep(w, g)
    BY <1>1, <1>2, <1>7, <2>2, <2>3 DEF HisStep
  <2>5. Bare(w)'
    <3>1. \A j \in worker[w].added : GenOf(j) = g
      BY <1>1, <1>2 DEF Carrying, Quiet, Bare
    <3> QED
      BY <2>2, <2>3, <3>1 DEF Bare, At
  <2>6. Statuses(g)'
    BY <1>1, <1>7, <2>2 DEF Carrying, Quiet, Statuses
  <2>7. /\ Cancelled(g)' <=> Cancelled(g)
        /\ ActiveRun(g)' <=> ActiveRun(g)
        /\ Doomed(g)' <=> Doomed(g)
    BY <1>1 DEF Exists, Cancelled, ActiveRun, Doomed
  <2>8. Opening(g)'
    <3>1. \A v \in Worker : Preparing(v, g)' <=> Preparing(v, g)
      BY <2>2, <2>3 DEF Preparing, G, JobOf
    <3>2. run'[g].prepare = run[g].prepare /\ api' = api /\ Opening(g)
      BY <1>1 DEF Carrying, Quiet
    <3> QED
      BY <2>2, <2>7, <3>1, <3>2, OpeningStays
  <2>9. worker[w].next = {}
    BY <1>1 DEF Carrying, Quiet, Bare, At
  <2>10. ASSUME NEW b \in Batch, NEW v \in Worker
         PROVE  /\ Handing(v, g, b) => Handing(v, g, b)'
                /\ Holds(v, g, b, LastPc)' => Holds(v, g, b, LastPc)
                /\ Holds(v, g, b, ThrowPc)' => Holds(v, g, b, ThrowPc)
    <3>1. CASE v = w
      BY <2>3, <2>9, <3>1 DEF Handing
    <3>2. CASE v # w
      BY <2>2, <3>2 DEF Handing, Holds, Busy, JobOf
    <3> QED
      BY <3>1, <3>2
  <2>11. ASSUME NEW b \in Batch
         PROVE  ~Token(g, b)'
    <3>1. Token(g, b)' => Token(g, b)
      BY <1>7, <2>2, <2>10 DEF Token
    <3>2. ~AllReady(g)
      BY <2>1 DEF AllReady
    <3> QED
      BY <1>1, <2>1, <3>1, <3>2 DEF Carrying, OnWay, Single
  <2>12. Chain(g)'
    <3>1. \A b \in claimed : Handing(w, g, b)'
      BY <1>6, <2>2, <2>3 DEF Handing
    <3>2. ~AllReady(g)'
      BY <1>7, <2>1 DEF AllReady
    <3>3. \E b \in Batch : batch'[g][b] = "processing"
      BY <1>7, <2>1
    <3>4. ASSUME ActiveRun(g)', run'[g].prepare = "ready", NEW b \in Batch, batch'[g][b] = "processing"
          PROVE  Live(EmbedJob(g, b))' \/ \E v \in Worker : Handing(v, g, b)'
      <4>1. CASE b \in claimed
        BY <3>1, <4>1
      <4>2. CASE b \notin claimed
        <5>1. ActiveRun(g) /\ run[g].prepare = "ready" /\ batch[g][b] = "processing"
          BY <1>1, <1>7, <2>7, <3>4, <4>2
        <5>2. Live(EmbedJob(g, b)) \/ \E v \in Worker : Handing(v, g, b)
          BY <1>1, <2>1, <5>1 DEF Carrying, OnWay, Chain
        <5> QED
          BY <2>2, <2>10, <5>2 DEF Live
      <4> QED
        BY <4>1, <4>2
    <3> QED
      BY <3>2, <3>3, <3>4 DEF Chain
  <2>13. Retries(g)'
    <3>1. Retries(g) /\ spent' = spent
      BY <1>1, <2>1 DEF Carrying, OnWay
    <3> QED
      BY <2>2, <2>7, <2>10, <3>1 DEF Retries, Live
  <2>14. OnWay(g)'
    BY <2>11, <2>12, <2>13 DEF OnWay, Single
  <2>15. Ending(w)'
    <3>1. \A b \in Batch : JobOf(w) = EmbedJob(g, b) => batch'[g][b] = "ready"
      BY <1>5, <1>7, <1>8, <2>1
    <3> QED
      BY <2>2, <2>3, <3>1 DEF Ending, At
  <2>16. ASSUME NEW v \in Worker \ {w}, Busy(v), G(v) = g
         PROVE  Ending(v)'
    <3>1. ~At(v, "claim")
      <4> SUFFICES ASSUME At(v, "claim")
                   PROVE  FALSE
        OBVIOUS
      <4>1. JobOf(v) = PrepareJob(g) /\ \A b \in Batch : batch[g][b] \in {"none", "pending"}
        BY <2>1, <2>16 DEF Ground, Scheduling, Places
      <4>2. JobOf(w) = PrepareJob(g)
        BY <1>1, <1>2, <2>1, <4>1 DEF Ground, Scheduling, Places, At
      <4> QED
        BY <1>1, <2>16, <4>1, <4>2 DEF Inv, QueueOK, OwnsAlone
    <3>2. /\ worker'[v] = worker[v] /\ Ending(v) /\ doc' = doc /\ row' = row
          /\ \A b \in Batch : batch[g][b] = "ready" => batch'[g][b] = "ready"
      BY <1>1, <1>5, <1>7, <2>2 DEF Carrying
    <3> QED
      BY <2>7, <2>16, <3>1, <3>2, EndingStays
  <2> QED
    BY <1>1, <2>4, <2>5, <2>6, <2>8, <2>14, <2>15, <2>16, HisCarrying
<1> QED
  BY <1>9, <1>10

LEMMA ClaimCarrying ==
    ASSUME Ground, Inv', FenceStays, NEW w \in Worker, Claim(w) \/ ClaimNext(w)
    PROVE  Carrying'
<1>1. CASE Claim(w)
  BY <1>1, ClaimBatchesCarrying, LimitAssumption DEF Claim, At
<1>2. CASE ClaimNext(w)
  BY <1>2, ClaimBatchesCarrying DEF ClaimNext, At
<1> QED
  BY <1>1, <1>2

\* A generation without a batch that is done and without a live embed job.
LEMMA EmptyCarry ==
    ASSUME NEW g \in Gen, \A b \in Batch : batch'[g][b] # "ready" /\ ~Live(EmbedJob(g, b))'
    PROVE  Single(g)' /\ Retries(g)'
  BY DEF Single, Retries, Token

\* A handler moves on and leaves the queue alone.
LEMMA GotoPasses ==
    ASSUME Inv, Carrying, NEW w \in Worker, Busy(w), NEW g \in Gen, job' = job, spent' = spent,
           JobOf(w)' = JobOf(w), worker[w].pc \notin {"claim", "claimNext", "enqueue"},
           NearGraph(w, g) => NearGraph(w, g)',
           \A b \in Batch : batch[g][b] = "ready" /\ ActiveRun(g)' /\ Holds(w, g, b, LastPc) =>
               worker'[w].pc \in LastPc \/ NearGraph(w, g)',
           \A b \in Batch : batch[g][b] = "ready" /\ Holds(w, g, b, LastPc)' => worker[w].pc \in LastPc,
           worker'[w].pc \in ThrowPc => worker[w].pc \in ThrowPc
    PROVE  Passes(w, g)
<1>1. \A b \in Batch : ~Handing(w, g, b)
  BY DEF Carrying, Quiet, Bare, At, Handing
<1>2. ~Claiming(w, g)
  BY DEF Claiming
<1>3. \A b \in Batch : /\ Live(EmbedJob(g, b))' <=> Live(EmbedJob(g, b))
                       /\ Overdue(g, b)' <=> Overdue(g, b)
                       /\ Holds(w, g, b, ThrowPc)' => Holds(w, g, b, ThrowPc)
  BY DEF Live, Overdue, Holds
<1>4. \A b \in Batch : /\ Holds(w, g, b, LastPc) /\ worker'[w].pc \in LastPc => Holds(w, g, b, LastPc)'
                       /\ Holds(w, g, b, LastPc)' /\ worker[w].pc \in LastPc => Holds(w, g, b, LastPc)
  BY DEF Holds
<1>5. \A b \in Batch : batch[g][b] = "ready" /\ ActiveRun(g)' /\ TokenBy(w, g, b) =>
          TokenBy(w, g, b)' \/ NearGraph(w, g)'
  BY <1>4 DEF TokenBy
<1>6. \A b \in Batch : batch[g][b] = "ready" /\ TokenBy(w, g, b)' => TokenBy(w, g, b)
  BY <1>4 DEF TokenBy
<1> QED
  BY <1>1, <1>2, <1>3, <1>5, <1>6 DEF Passes

\* Its step to pc, as it looks to other generations.
LEMMA GotoHis ==
    ASSUME Inv, Carrying, NEW w \in Worker, Busy(w), NEW g \in Gen, G(w) = g, NEW pc, Goto(w, pc), pc # "enqueue",
           worker[w].pc # "enqueue",
           UNCHANGED <<api, removal, spent>>,
           \A h \in Gen \ {g} : /\ run'[h] = run[h] /\ batch'[h] = batch[h]
                                /\ doc'.active = h => doc.active = h
                                /\ doc'.pending = h => doc.pending = h /\ row'[h] = row[h]
    PROVE  /\ HisStep(w, g) /\ Bare(w)' /\ job' = job /\ worker[w].next = {}
           /\ worker'[w].pc = pc /\ worker'[w].next = {} /\ JobOf(w)' = JobOf(w) /\ G(w)' = g
           /\ \A v \in Worker \ {w} : worker'[v] = worker[v]
<1>1. /\ worker'[w].pc = pc /\ worker'[w].next = worker[w].next /\ JobOf(w)' = JobOf(w) /\ G(w)' = g
      /\ \A v \in Worker \ {w} : worker'[v] = worker[v]
  BY GotoWorker
<1>2. worker'[w].added = worker[w].added
  BY DEF Goto, Inv, QueueOK, Handler
<1>3. job' = job
  BY DEF Goto
<1>4. worker[w].next = {} /\ \A j \in worker[w].added : GenOf(j) = g
  BY DEF Carrying, Quiet, Bare, At
<1>5. Bare(w)'
  BY <1>1, <1>2, <1>4 DEF Bare
<1> QED
  BY <1>1, <1>3, <1>4, <1>5 DEF HisStep

LEMMA StoreBatchCarrying ==
    ASSUME Ground, Inv', FenceStays, NEW w \in Worker, StoreBatch(w)
    PROVE  Carrying'
<1>1. /\ At(w, "storeBatch") /\ worker[w].pc = "storeBatch" /\ Busy(w) /\ Inv /\ Carrying
      /\ UNCHANGED <<doc, run, batch, slot, api, removal, spent>>
  BY DEF StoreBatch, At, Busy, Ground
<1>2. PICK g \in Gen : G(w) = g
  BY <1>1, BusyFacts
<1>3. \A h : /\ Cancelled(h)' <=> Cancelled(h)
             /\ ActiveRun(h)' <=> ActiveRun(h)
             /\ Doomed(h)' <=> Doomed(h)
  BY <1>1 DEF Exists, Cancelled, ActiveRun, Doomed
<1>4. CASE Cancelled(g)
  <2>1. Goto(w, "embedStale") /\ row' = row
    BY <1>2, <1>4 DEF StoreBatch
  <2>2. HisStep(w, g) /\ Bare(w)' /\ job' = job /\ worker'[w].pc = "embedStale" /\ G(w)' = g
        /\ \A v \in Worker \ {w} : worker'[v] = worker[v]
    BY <1>1, <1>2, <2>1, GotoHis
  <2>3. ~Preparing(w, g)' /\ ~Preparing(w, g)
    BY <1>1, <2>2 DEF Preparing
  <2>4. job'[GraphJob(g)].state \in {"none", "waiting"}
    BY <1>1, <2>2 DEF Carrying, Quiet, Statuses
  <2>5. spent'.provider \in {spent.provider, spent.provider + 1}
    BY <1>1
  <2> QED
    BY <1>1, <1>2, <1>4, <2>1, <2>2, <2>3, <2>4, <2>5, MoveCarrying
<1>5. CASE ~Cancelled(g)
  <2>1. PICK d \in Batch : JobOf(w) = EmbedJob(g, d)
    BY <1>1, <1>2, EmbedHolder DEF Ground
  <2>2. batch[g][d] = "processing"
    BY <1>1, <1>2, <1>5, <2>1, JobKinds DEF Ground, Scheduling, Places
  <2>3. /\ Goto(w, "completeBatch")
        /\ row' = [row EXCEPT ![g] = [c \in Chunk |->
                      IF worker[w].rows[c] # None THEN worker[w].rows[c] ELSE @[c]]]
    BY <1>2, <1>5, <2>1, <2>2, JobKinds DEF StoreBatch
  <2>4. \A h \in Gen \ {g} : row'[h] = row[h]
    BY <1>1, <2>3 DEF Inv, TablesOK
  <2>5. HisStep(w, g) /\ Bare(w)' /\ job' = job /\ worker[w].next = {}
        /\ worker'[w].pc = "completeBatch" /\ worker'[w].next = {} /\ JobOf(w)' = JobOf(w) /\ G(w)' = g
        /\ \A v \in Worker \ {w} : worker'[v] = worker[v]
    BY <1>1, <1>2, <2>3, <2>4, GotoHis
  <2>6. \A v \in Worker : Preparing(v, g)' <=> Preparing(v, g)
    BY <1>1, <2>5 DEF Preparing, G, JobOf
  <2>7. Statuses(g)' /\ Opening(g)'
    <3>1. Statuses(g) /\ Opening(g)
      BY <1>1 DEF Carrying, Quiet
    <3>2. Statuses(g)'
      BY <1>1, <2>5, <3>1 DEF Statuses
    <3> QED
      BY <1>1, <1>3, <2>5, <2>6, <3>1, <3>2, OpeningStays
  <2>8. Passes(w, g)
    <3>1. NearGraph(w, g) => NearGraph(w, g)'
      BY <1>1, <2>5 DEF NearGraph, Heads
    <3>2. \A b \in Batch : /\ Holds(w, g, b, LastPc) => b = d
                           /\ Holds(w, g, b, LastPc)' => b = d
      BY <2>1, <2>5, JobKinds DEF Holds
    <3> QED
      BY <1>1, <2>2, <2>5, <3>1, <3>2, GotoPasses DEF ThrowPc
  <2>9. OnWay(g)'
    <3>1. Chain(g) /\ Single(g) /\ Retries(g)
      BY <1>1, <1>5 DEF Carrying, OnWay
    <3>2. Chain(g)' /\ Single(g)' /\ Retries(g)'
      BY <1>1, <1>3, <2>5, <2>8, <3>1, PassesOnWay
    <3> QED
      BY <3>2 DEF OnWay
  <2>10. Ending(w)'
    BY <2>5 DEF Ending, At
  <2>11. ASSUME NEW v \in Worker \ {w}, Busy(v), G(v) = g
         PROVE  Ending(v)'
    <3>1. ~At(v, "activate")
      BY <1>5, <2>2, <2>11 DEF Ground, Scheduling, Places, AllReady
    <3> QED
      BY <1>1, <1>3, <2>5, <2>11, <3>1, EndingStays DEF Carrying
  <2> QED
    BY <1>1, <2>5, <2>7, <2>9, <2>10, <2>11, HisCarrying
<1> QED
  BY <1>4, <1>5

LEMMA EmbedStaleCarrying ==
    ASSUME Ground, Inv', FenceStays, NEW w \in Worker, EmbedStale(w)
    PROVE  Carrying'
<1>1. /\ At(w, "embedStale") /\ worker[w].pc = "embedStale" /\ Busy(w) /\ Inv /\ Carrying
      /\ UNCHANGED <<doc, batch, row, slot, api, removal, spent>> /\ Goto(w, "finish")
  BY DEF EmbedStale, MarkStale, At, Busy, Ground
<1>2. PICK g \in Gen : G(w) = g /\ run[g] \in Run /\ Exists(g)
  BY <1>1, BusyFacts
<1>3. run' = IF Cancelled(g) THEN run
             ELSE [run EXCEPT ![g] = [@ EXCEPT !.status = "failed", !.embed = "failed"]]
  BY <1>2 DEF EmbedStale, MarkStale
<1>4. /\ \A h \in Gen \ {g} : run'[h] = run[h]
      /\ run'[g] = IF Cancelled(g) THEN run[g]
                   ELSE [run[g] EXCEPT !.status = "failed", !.embed = "failed"]
  BY <1>1, <1>3 DEF Inv, TablesOK
<1>5. /\ run'[g].prepare = run[g].prepare /\ run'[g] \in Run
      /\ Cancelled(g) => run'[g] = run[g]
      /\ ~Cancelled(g) => run'[g].status = "failed"
  BY <1>2, <1>4 DEF Run, RunStatus, StageStatus
<1>6. /\ Cancelled(g)' <=> Cancelled(g)
      /\ ~ActiveRun(g)'
      /\ Doomed(g)' <=> Doomed(g)
  BY <1>1, <1>2, <1>5, NoneGenAssumption DEF Exists, Cancelled, ActiveRun, ActiveStatuses, Doomed
<1>7. HisStep(w, g) /\ Bare(w)' /\ job' = job /\ worker[w].next = {}
      /\ worker'[w].pc = "finish" /\ worker'[w].next = {} /\ JobOf(w)' = JobOf(w) /\ G(w)' = g
      /\ \A v \in Worker \ {w} : worker'[v] = worker[v]
  BY <1>1, <1>2, <1>4, GotoHis
<1>8. \A v \in Worker : Preparing(v, g)' <=> Preparing(v, g)
  BY <1>1, <1>7 DEF Preparing, G, JobOf
<1>9. Statuses(g)' /\ Opening(g)'
  <2>1. Statuses(g) /\ Opening(g)
    BY <1>1 DEF Carrying, Quiet
  <2>2. Statuses(g)'
    BY <1>1, <1>7, <2>1 DEF Statuses
  <2> QED
    BY <1>1, <1>5, <1>6, <1>7, <1>8, <2>1, <2>2, OpeningStays
<1>10. Passes(w, g)
  <2>1. NearGraph(w, g) => NearGraph(w, g)'
    BY <1>1, <1>7 DEF NearGraph, Heads
  <2>2. \A b \in Batch : ~Holds(w, g, b, LastPc)'
    BY <1>7 DEF Holds, LastPc
  <2> QED
    BY <1>1, <1>6, <1>7, <2>1, <2>2, GotoPasses DEF ThrowPc
<1>11. OnWay(g)'
  <2>1. ~Cancelled(g) => Chain(g) /\ Single(g) /\ Retries(g)
    BY <1>1 DEF Carrying, OnWay
  <2>2. ~Cancelled(g) => Chain(g)' /\ Single(g)' /\ Retries(g)'
    BY <1>1, <1>5, <1>6, <1>7, <1>10, <2>1, PassesOnWay
  <2> QED
    BY <1>6, <2>2 DEF OnWay
<1>12. Ending(w)'
  BY <1>6, <1>7 DEF Ending, At
<1>13. ASSUME NEW v \in Worker \ {w}, Busy(v), G(v) = g
       PROVE  Ending(v)'
  BY <1>1, <1>6, <1>7, <1>13, EndingStays DEF Carrying
<1> QED
  BY <1>1, <1>7, <1>9, <1>11, <1>12, <1>13, HisCarrying

\* A handler is about to queue the graph job.
LEMMA GraphHis ==
    ASSUME Inv, Carrying, NEW w \in Worker, Busy(w), NEW g \in Gen, G(w) = g,
           worker' = [worker EXCEPT ![w].pc = "enqueue", ![w].next = {GraphJob(g)}], job' = job,
           UNCHANGED <<api, removal, spent>>,
           \A h \in Gen \ {g} : /\ run'[h] = run[h] /\ batch'[h] = batch[h]
                                /\ doc'.active = h => doc.active = h
                                /\ doc'.pending = h => doc.pending = h /\ row'[h] = row[h]
    PROVE  /\ HisStep(w, g) /\ Bare(w)' /\ Heads(w, g)'
           /\ worker'[w].pc = "enqueue" /\ JobOf(w)' = JobOf(w) /\ G(w)' = g
           /\ \A v \in Worker \ {w} : worker'[v] = worker[v]
<1>1. worker \in [Worker -> Handler] /\ worker[w] \in Handler
  BY DEF Inv, QueueOK
<1>2. /\ worker'[w].pc = "enqueue" /\ worker'[w].next = {GraphJob(g)}
      /\ worker'[w].job = worker[w].job /\ worker'[w].added = worker[w].added
      /\ \A v \in Worker \ {w} : worker'[v] = worker[v]
  BY <1>1 DEF Handler
<1>3. JobOf(w)' = JobOf(w) /\ G(w)' = g /\ Busy(w)'
  BY <1>2 DEF JobOf, G, Busy
<1>4. Heads(w, g)'
  BY <1>2, <1>3 DEF Heads
<1>5. \A j \in worker[w].added : GenOf(j) = g
  BY DEF Carrying, Quiet, Bare
<1>6. Bare(w)'
  BY <1>2, <1>3, <1>5 DEF Bare, At
<1> QED
  BY <1>2, <1>3, <1>4, <1>6 DEF HisStep

LEMMA EmbedReadyCarrying ==
    ASSUME Ground, Inv', FenceStays, NEW w \in Worker, EmbedReady(w)
    PROVE  Carrying'
<1>1. /\ At(w, "embedReady") /\ worker[w].pc = "embedReady" /\ Busy(w) /\ Inv /\ Carrying
      /\ UNCHANGED <<doc, batch, row, job, slot, api, removal, spent>>
  BY DEF EmbedReady, At, Busy, Ground
<1>2. PICK g \in Gen : G(w) = g /\ run[g] \in Run /\ Exists(g)
  BY <1>1, BusyFacts
<1>3. /\ run' = IF Cancelled(g) THEN run ELSE [run EXCEPT ![g].embed = "ready"]
      /\ worker' = [worker EXCEPT ![w].pc = "enqueue", ![w].next = {GraphJob(g)}]
  BY <1>2 DEF EmbedReady
<1>4. /\ \A h \in Gen \ {g} : run'[h] = run[h]
      /\ run'[g] \in {run[g], [run[g] EXCEPT !.embed = "ready"]}
  BY <1>1, <1>3 DEF Inv, TablesOK
<1>5. run'[g].prepare = run[g].prepare /\ run'[g].status = run[g].status /\ run'[g] \in Run
  BY <1>2, <1>4 DEF Run, StageStatus
<1>6. /\ Cancelled(g)' <=> Cancelled(g)
      /\ ActiveRun(g)' <=> ActiveRun(g)
      /\ Doomed(g)' <=> Doomed(g)
  BY <1>1, <1>2, <1>5, NoneGenAssumption DEF Exists, Cancelled, ActiveRun, Doomed
<1>7. /\ HisStep(w, g) /\ Bare(w)' /\ Heads(w, g)'
      /\ worker'[w].pc = "enqueue" /\ JobOf(w)' = JobOf(w) /\ G(w)' = g
      /\ \A v \in Worker \ {w} : worker'[v] = worker[v]
  BY <1>1, <1>2, <1>3, <1>4, GraphHis
<1>8. \A v \in Worker : Preparing(v, g)' <=> Preparing(v, g)
  BY <1>1, <1>7 DEF Preparing, G, JobOf
<1>9. Statuses(g)' /\ Opening(g)'
  <2>1. Statuses(g) /\ Opening(g)
    BY <1>1 DEF Carrying, Quiet
  <2>2. Statuses(g)'
    BY <1>1, <2>1 DEF Statuses
  <2> QED
    BY <1>1, <1>5, <1>6, <1>8, <2>1, <2>2, OpeningStays
<1>10. Passes(w, g)
  <2>1. NearGraph(w, g)'
    BY <1>7 DEF NearGraph
  <2>2. \A b \in Batch : ~Holds(w, g, b, LastPc)'
    BY <1>7 DEF Holds, LastPc
  <2> QED
    BY <1>1, <1>7, <2>1, <2>2, GotoPasses DEF ThrowPc
<1>11. OnWay(g)'
  <2>1. ~Cancelled(g) => Chain(g) /\ Single(g) /\ Retries(g)
    BY <1>1 DEF Carrying, OnWay
  <2>2. ~Cancelled(g) => Chain(g)' /\ Single(g)' /\ Retries(g)'
    BY <1>1, <1>5, <1>6, <1>7, <1>10, <2>1, PassesOnWay
  <2> QED
    BY <1>6, <2>2 DEF OnWay
<1>12. Ending(w)'
  <2>1. ~Cancelled(g) /\ ActiveRun(g) => \A b \in Batch : JobOf(w) = EmbedJob(g, b) => batch[g][b] = "ready"
    BY <1>1, <1>2 DEF Carrying, Ending
  <2> QED
    BY <1>1, <1>6, <1>7, <2>1 DEF Ending, At
<1>13. ASSUME NEW v \in Worker \ {w}, Busy(v), G(v) = g
       PROVE  Ending(v)'
  BY <1>1, <1>6, <1>7, <1>13, EndingStays DEF Carrying
<1> QED
  BY <1>1, <1>7, <1>9, <1>11, <1>12, <1>13, HisCarrying

\* The activation ends the chain of batches: its handler heads for the graph.
LEMMA ActivateCarrying ==
    ASSUME Ground, Inv', FenceStays, NEW w \in Worker, Activate(w)
    PROVE  Carrying'
<1>1. /\ At(w, "activate") /\ worker[w].pc = "activate" /\ Busy(w) /\ Inv /\ Carrying
      /\ UNCHANGED <<run, batch, slot, api, removal, spent>> /\ Goto(w, "embedReady")
  BY DEF Activate, At, Busy, Ground
<1>2. PICK g \in Gen : G(w) = g
  BY <1>1, BusyFacts
<1>3. ~Cancelled(g) /\ doc.pending = g /\ ActivateRows(g, worker[w].context)
  BY <1>2 DEF Activate, Activatable
<1>4. /\ doc'.active = g /\ doc'.pending = None /\ row'[g] = row[g]
      /\ \A h \in Gen : doc'.pending # h
  BY <1>1, <1>3, Swap
<1>5. /\ HisStep(w, g) /\ Bare(w)' /\ job' = job /\ worker'[w].pc = "embedReady"
      /\ JobOf(w)' = JobOf(w) /\ G(w)' = g
      /\ \A v \in Worker \ {w} : worker'[v] = worker[v]
  BY <1>1, <1>2, <1>4, GotoHis
<1>6. /\ Cancelled(g)' <=> Cancelled(g)
      /\ ActiveRun(g)' <=> ActiveRun(g)
  BY <1>1 DEF Exists, Cancelled, ActiveRun
<1>7. Statuses(g)' /\ Opening(g)'
  <2>1. Statuses(g) /\ Opening(g)
    BY <1>1 DEF Carrying, Quiet
  <2>2. Statuses(g)'
    BY <1>1, <1>5, <2>1 DEF Statuses
  <2>3. \A v \in Worker : Preparing(v, g)' <=> Preparing(v, g)
    BY <1>1, <1>5 DEF Preparing, G, JobOf
  <2> QED
    BY <1>1, <1>5, <1>6, <2>1, <2>2, <2>3, OpeningStays
<1>8. PICK d \in Batch : /\ AllReady(g) /\ JobOf(w) = EmbedJob(g, d) /\ batch[g][d] = "ready"
                         /\ \A e \in Batch : Token(g, e) <=> e = d
  BY <1>1, <1>2, <1>3, Activator
<1>9. job[EmbedJob(g, d)].state = "active" /\ \A v \in Worker \ {w} : ~(Busy(v) /\ JobOf(v) = EmbedJob(g, d))
  BY <1>1, <1>2, <1>8, HisJob
<1>10. ASSUME NEW b \in Batch
       PROVE  ~Token(g, b)'
  <2> SUFFICES ASSUME Token(g, b)'
               PROVE  FALSE
    OBVIOUS
  <2>1. ~Holds(w, g, b, LastPc)'
    BY <1>5 DEF Holds, LastPc
  <2>2. \A v \in Worker \ {w} : Holds(v, g, b, LastPc)' => Holds(v, g, b, LastPc) /\ Busy(v)
    BY <1>5 DEF Holds, LastPc, JobOf, Busy
  <2>3. Token(g, b)
    BY <1>1, <1>5, <2>1, <2>2 DEF Token
  <2>4. b = d
    BY <1>8, <2>3
  <2> QED
    BY <1>5, <1>9, <2>1, <2>2, <2>4 DEF Token, Holds
<1>11. Chain(g)'
  <2>1. Closing(g)'
    BY <1>5 DEF Closing, Heads, Busy
  <2> QED
    BY <1>1, <1>8, <2>1 DEF Chain, AllReady
<1>12. Retries(g)'
  <2>1. Retries(g) /\ ~Doomed(g)
    BY <1>1, <1>3 DEF Carrying, OnWay, Doomed
  <2> QED
    BY <1>1, <1>5, <2>1 DEF Retries, Live
<1>13. OnWay(g)'
  BY <1>10, <1>11, <1>12 DEF OnWay, Single
<1>14. Ending(w)'
  BY <1>1, <1>5, <1>8, JobKinds DEF Ending, At
<1>15. ASSUME NEW v \in Worker \ {w}, Busy(v), G(v) = g
       PROVE  Ending(v)'
  BY <1>1, <1>4, <1>5, <1>6, <1>15, EndingStays DEF Carrying
<1> QED
  BY <1>1, <1>5, <1>7, <1>13, <1>14, <1>15, HisCarrying

LEMMA CompleteEmptyCarrying ==
    ASSUME Ground, Inv', FenceStays, NEW w \in Worker, CompleteEmpty(w)
    PROVE  Carrying'
<1>1. /\ At(w, "completeEmpty") /\ worker[w].pc = "completeEmpty" /\ Busy(w) /\ Inv /\ Carrying
      /\ UNCHANGED <<batch, job, slot, api, removal, spent>>
  BY DEF CompleteEmpty, At, Busy, Ground
<1>2. PICK g \in Gen : G(w) = g /\ run[g] \in Run /\ Exists(g)
  BY <1>1, BusyFacts
<1>3. /\ worker' = [worker EXCEPT ![w].pc = "enqueue", ![w].next = {GraphJob(g)}]
      /\ \/ UNCHANGED <<doc, row, run>>
         \/ /\ ~Cancelled(g) /\ doc.pending = g /\ ActivateRows(g, worker[w].context)
            /\ run' = [run EXCEPT ![g].embed = "ready"]
  BY <1>2 DEF CompleteEmpty
<1>4. ~UNCHANGED <<doc, row, run>> =>
        /\ ~Cancelled(g) /\ doc.pending = g
        /\ doc'.active = g /\ row'[g] = row[g] /\ \A h \in Gen : doc'.pending # h
  BY <1>1, <1>3, Swap
<1>5. /\ \A h \in Gen \ {g} : run'[h] = run[h]
      /\ run'[g] \in {run[g], [run[g] EXCEPT !.embed = "ready"]}
  BY <1>1, <1>3 DEF Inv, TablesOK
<1>6. run'[g].prepare = run[g].prepare /\ run'[g].status = run[g].status /\ run'[g] \in Run
  BY <1>2, <1>5 DEF Run, StageStatus
<1>7. /\ Cancelled(g)' <=> Cancelled(g)
      /\ ActiveRun(g)' <=> ActiveRun(g)
  BY <1>2, <1>6, NoneGenAssumption DEF Exists, Cancelled, ActiveRun
<1>8. /\ HisStep(w, g) /\ Bare(w)' /\ Heads(w, g)'
      /\ worker'[w].pc = "enqueue" /\ JobOf(w)' = JobOf(w) /\ G(w)' = g
      /\ \A v \in Worker \ {w} : worker'[v] = worker[v]
  <2>1. \A h \in Gen \ {g} : /\ run'[h] = run[h] /\ batch'[h] = batch[h]
                             /\ doc'.active = h => doc.active = h
                             /\ doc'.pending = h => doc.pending = h /\ row'[h] = row[h]
    BY <1>1, <1>4, <1>5
  <2> QED
    BY <1>1, <1>2, <1>3, <2>1, GraphHis
<1>9. Statuses(g)' /\ Opening(g)'
  <2>1. Statuses(g) /\ Opening(g)
    BY <1>1 DEF Carrying, Quiet
  <2>2. Statuses(g)'
    BY <1>1, <2>1 DEF Statuses
  <2>3. \A v \in Worker : Preparing(v, g)' <=> Preparing(v, g)
    BY <1>1, <1>8 DEF Preparing, G, JobOf
  <2> QED
    BY <1>1, <1>6, <1>7, <2>1, <2>2, <2>3, OpeningStays
<1>10. OnWay(g)'
  <2>1. CASE UNCHANGED <<doc, row, run>>
    <3>1. Passes(w, g)
      <4>1. NearGraph(w, g)'
        BY <1>8 DEF NearGraph
      <4>2. \A b \in Batch : ~Holds(w, g, b, LastPc)'
        BY <1>8 DEF Holds, LastPc
      <4> QED
        BY <1>1, <1>8, <4>1, <4>2, GotoPasses DEF ThrowPc
    <3>2. Doomed(g)' <=> Doomed(g)
      BY <2>1 DEF Doomed
    <3>3. ~Cancelled(g) => Chain(g) /\ Single(g) /\ Retries(g)
      BY <1>1 DEF Carrying, OnWay
    <3>4. ~Cancelled(g) => Chain(g)' /\ Single(g)' /\ Retries(g)'
      BY <1>1, <1>6, <1>7, <1>8, <2>1, <3>1, <3>2, <3>3, PassesOnWay
    <3> QED
      BY <1>7, <3>4 DEF OnWay
  <2>2. CASE ~Cancelled(g) /\ doc.pending = g
    <3>1. BatchesOf(Rev(g)) = {}
      BY <1>1, <1>2 DEF Ground, Whole, HandlerOK, HandlerData, BatchesOf
    <3>2. \A b \in Batch : batch[g][b] = "none"
      BY <2>2, <3>1 DEF Ground, Whole, GenOK, Filling
    <3>3. \A b \in Batch : job[EmbedJob(g, b)].state = "none"
      BY <2>2, <3>2 DEF Ground, Scheduling, Window
    <3>4. Single(g)' /\ Retries(g)'
      BY <1>1, <3>2, <3>3, EmptyCarry DEF Live
    <3>5. Closing(g)'
      BY <1>8 DEF Closing
    <3>6. Chain(g)'
      BY <1>1, <3>2, <3>5 DEF Chain
    <3> QED
      BY <3>4, <3>6 DEF OnWay
  <2> QED
    BY <1>3, <2>1, <2>2
<1>11. Ending(w)'
  <2>1. JobOf(w) = PrepareJob(g)
    BY <1>1, <1>2 DEF Ground, Whole, HandlerOK, HandlerKind
  <2> QED
    BY <1>8, <2>1, JobKinds DEF Ending, At
<1>12. ASSUME NEW v \in Worker \ {w}, Busy(v), G(v) = g
       PROVE  Ending(v)'
  <2>1. doc'.pending = g => doc.pending = g /\ row'[g] = row[g]
    BY <1>4
  <2> QED
    BY <1>1, <1>7, <1>8, <1>12, <2>1, EndingStays DEF Carrying
<1> QED
  BY <1>1, <1>8, <1>9, <1>10, <1>11, <1>12, HisCarrying

LEMMA CompleteBatchCarrying ==
    ASSUME Ground, Inv', FenceStays, NEW w \in Worker, CompleteBatch(w)
    PROVE  Carrying'
<1>1. /\ At(w, "completeBatch") /\ worker[w].pc = "completeBatch" /\ Busy(w) /\ Inv /\ Carrying
      /\ UNCHANGED <<doc, row, slot, api, removal, spent>>
  BY DEF CompleteBatch, At, Busy, Ground
<1>2. PICK g \in Gen : G(w) = g /\ run[g] \in Run /\ Exists(g)
  BY <1>1, BusyFacts
<1>3. CASE Cancelled(g)
  <2>1. Goto(w, "claimNext") /\ UNCHANGED <<run, batch>>
    BY <1>2, <1>3 DEF CompleteBatch
  <2>2. HisStep(w, g) /\ Bare(w)' /\ job' = job /\ worker'[w].pc = "claimNext" /\ G(w)' = g
        /\ \A v \in Worker \ {w} : worker'[v] = worker[v]
    BY <1>1, <1>2, <2>1, GotoHis
  <2>3. ~Preparing(w, g)' /\ ~Preparing(w, g)
    BY <1>1, <2>2 DEF Preparing
  <2>4. job'[GraphJob(g)].state \in {"none", "waiting"}
    BY <1>1, <2>2 DEF Carrying, Quiet, Statuses
  <2>5. spent'.provider \in {spent.provider, spent.provider + 1}
    BY <1>1
  <2> QED
    BY <1>1, <1>2, <1>3, <2>1, <2>2, <2>3, <2>4, <2>5, MoveCarrying
<1>4. CASE ~Cancelled(g)
  <2>1. PICK d \in Batch : /\ JobOf(w) = EmbedJob(g, d) /\ job[EmbedJob(g, d)].state = "active"
                           /\ batch[g][d] \in {"processing", "ready"}
    BY <1>1, <1>2, <1>4, TriesLeft DEF ThrowPc
  <2> DEFINE now == [batch[g] EXCEPT ![d] = IF @ = "none" THEN "none" ELSE "ready"]
             all == \A x \in Batch : now[x] \in {"none", "ready"}
  <2>2. /\ batch' = [batch EXCEPT ![g] = now]
        /\ run' = [run EXCEPT ![g].embed = IF all THEN "ready" ELSE "processing"]
        /\ worker' = [worker EXCEPT ![w].pc = IF all THEN "activate" ELSE "claimNext",
                                    ![w].total = Cardinality(Stored(row[g]))]
        /\ job' = job
    BY <1>2, <1>4, <2>1, JobKinds DEF CompleteBatch
  <2> HIDE DEF now, all
  <2>3. /\ batch'[g][d] = "ready" /\ \A b \in Batch : b # d => batch'[g][b] = batch[g][b]
        /\ \A h \in Gen \ {g} : batch'[h] = batch[h]
        /\ batch'[g] = now
    BY <1>1, <2>1, <2>2 DEF Inv, TablesOK, now
  <2>4. all <=> AllReady(g)'
    BY <2>3 DEF all, AllReady
  <2>5. /\ worker'[w].pc = IF AllReady(g)' THEN "activate" ELSE "claimNext"
        /\ worker'[w].total = Cardinality(Stored(row[g])) /\ worker'[w].job = worker[w].job
        /\ worker'[w].next = worker[w].next /\ worker'[w].added = worker[w].added
        /\ \A v \in Worker \ {w} : worker'[v] = worker[v]
    <3>1. worker \in [Worker -> Handler] /\ worker[w] \in Handler
      BY <1>1 DEF Inv, QueueOK
    <3> QED
      BY <2>2, <2>4, <3>1 DEF Handler
  <2>6. /\ \A h \in Gen \ {g} : run'[h] = run[h]
        /\ run'[g].prepare = run[g].prepare /\ run'[g].status = run[g].status /\ run'[g] \in Run
    <3>1. PICK s \in {"ready", "processing"} : run' = [run EXCEPT ![g].embed = s]
      BY <2>2
    <3>2. run'[g] = [run[g] EXCEPT !.embed = s] /\ \A h \in Gen \ {g} : run'[h] = run[h]
      BY <1>1, <3>1 DEF Inv, TablesOK
    <3> QED
      BY <1>2, <3>2 DEF Run, StageStatus
  <2>7. /\ Cancelled(g)' <=> Cancelled(g)
        /\ ActiveRun(g)' <=> ActiveRun(g)
        /\ Doomed(g)' <=> Doomed(g)
    BY <1>1, <1>2, <2>6, NoneGenAssumption DEF Exists, Cancelled, ActiveRun, Doomed
  <2>8. /\ JobOf(w)' = JobOf(w) /\ G(w)' = g /\ Busy(w)' /\ worker[w].next = {} /\ worker'[w].next = {}
        /\ ~Preparing(w, g)' /\ ~Preparing(w, g)
    <3>1. JobOf(w)' = JobOf(w) /\ G(w)' = g /\ Busy(w)' /\ ~Preparing(w, g)' /\ ~Preparing(w, g)
      BY <1>1, <1>2, <2>5 DEF JobOf, G, Busy, Preparing
    <3>2. worker[w].next = {}
      BY <1>1 DEF Carrying, Quiet, Bare, At
    <3> QED
      BY <2>5, <3>1, <3>2
  <2>9. HisStep(w, g)
    BY <1>1, <1>2, <2>2, <2>3, <2>5, <2>6, <2>8 DEF HisStep
  <2>10. Bare(w)'
    <3>1. \A j \in worker[w].added : GenOf(j) = g
      BY <1>1, <1>2 DEF Carrying, Quiet, Bare
    <3> QED
      BY <2>5, <2>8, <3>1 DEF Bare
  <2>11. Statuses(g)' /\ Opening(g)'
    <3>1. Statuses(g) /\ Opening(g)
      BY <1>1 DEF Carrying, Quiet
    <3>2. Statuses(g)'
      BY <2>2, <2>3, <3>1 DEF Statuses
    <3>3. \A v \in Worker : Preparing(v, g)' <=> Preparing(v, g)
      BY <2>5, <2>8 DEF Preparing, G, JobOf
    <3> QED
      BY <1>1, <2>2, <2>6, <2>7, <3>1, <3>2, <3>3, OpeningStays
  <2>12. Chain(g) /\ Single(g) /\ Retries(g)
    BY <1>1, <1>4 DEF Carrying, OnWay
  <2>13. /\ batch[g][d] = "ready" => Token(g, d)
         /\ Holds(w, g, d, LastPc) /\ Holds(w, g, d, ThrowPc)
         /\ \A b \in Batch \ {d} : ~Holds(w, g, b, LastPc)'
         /\ \A b \in Batch : Holds(w, g, b, ThrowPc)' => b = d
    <3>1. Holds(w, g, d, LastPc) /\ Holds(w, g, d, ThrowPc)
      BY <1>1, <2>1 DEF Holds, LastPc, ThrowPc
    <3>2. \A b \in Batch : EmbedJob(g, d) = EmbedJob(g, b) => b = d
      BY JobKinds
    <3>3. JobOf(w)' = EmbedJob(g, d)
      BY <2>1, <2>8
    <3> QED
      BY <3>1, <3>2, <3>3 DEF Token, Holds
  <2>14. ASSUME NEW b \in Batch, NEW v \in Worker \ {w}
         PROVE  /\ Handing(v, g, b)' <=> Handing(v, g, b)
                /\ Holds(v, g, b, LastPc)' <=> Holds(v, g, b, LastPc)
                /\ Holds(v, g, b, ThrowPc)' <=> Holds(v, g, b, ThrowPc)
    BY <2>5 DEF Handing, Holds, Busy, JobOf
  <2>15. ASSUME NEW b \in Batch, b # d, Token(g, b)'
         PROVE  FALSE
    <3>1. Token(g, b)
      BY <2>2, <2>3, <2>13, <2>14, <2>15 DEF Token
    <3>2. batch[g][d] = "ready"
      BY <2>1, <2>12, <3>1 DEF Single, AllReady
    <3> QED
      BY <2>12, <2>13, <2>15, <3>1, <3>2 DEF Single
  <2>16. Token(g, d)' => AllReady(g)'
    <3> SUFFICES ASSUME ~AllReady(g)', Token(g, d)'
                 PROVE  FALSE
      OBVIOUS
    <3>1. worker'[w].pc = "claimNext"
      BY <2>5
    <3>2. ~Holds(w, g, d, LastPc)'
      BY <3>1 DEF Holds, LastPc
    <3>3. job'[EmbedJob(g, d)].state = "active"
      BY <2>1, <2>2
    <3>4. PICK v \in Worker \ {w} : Holds(v, g, d, LastPc)
      BY <2>14, <3>2, <3>3 DEF Token
    <3> QED
      BY <1>1, <2>1, <3>4 DEF Holds, LastPc, Busy, Inv, QueueOK, OwnsAlone
  <2>17. doc.active # g
    <3>1. CASE batch[g][d] = "ready"
      BY <2>12, <2>13, <3>1 DEF Single
    <3>2. CASE batch[g][d] = "processing"
      BY <1>4, <3>2, NoneGenAssumption DEF Ground, Whole, ActiveWhole
    <3> QED
      BY <2>1, <3>1, <3>2
  <2>18. Single(g)'
    BY <1>1, <2>15, <2>16, <2>17 DEF Single
  <2>19. Chain(g)'
    <3> SUFFICES ASSUME ActiveRun(g)', run'[g].prepare = "ready"
                 PROVE  /\ \A b \in Batch : batch'[g][b] = "processing" =>
                               Live(EmbedJob(g, b))' \/ \E v \in Worker : Handing(v, g, b)'
                        /\ (\E b \in Batch : batch'[g][b] = "pending") =>
                               \/ \E b \in Batch : batch'[g][b] = "processing"
                               \/ \E v \in Worker : Claiming(v, g)'
                        /\ AllReady(g)' => Closing(g)' \/ \E b \in Batch : Token(g, b)'
      BY DEF Chain
    <3>1. ASSUME NEW b \in Batch, batch'[g][b] = "processing"
          PROVE  Live(EmbedJob(g, b))' \/ \E v \in Worker : Handing(v, g, b)'
      <4>1. batch[g][b] = "processing"
        BY <2>3, <3>1
      <4>2. Live(EmbedJob(g, b)) \/ \E v \in Worker : Handing(v, g, b)
        BY <2>6, <2>7, <2>12, <4>1 DEF Chain
      <4>3. ~Handing(w, g, b)
        BY <2>8 DEF Handing
      <4> QED
        BY <2>2, <2>14, <4>2, <4>3 DEF Live
    <3>2. ASSUME NEW b \in Batch, batch'[g][b] = "pending"
          PROVE  Claiming(w, g)'
      <4>1. ~AllReady(g)'
        BY <3>2 DEF AllReady
      <4> QED
        BY <2>5, <2>8, <4>1 DEF Claiming
    <3>3. ASSUME AllReady(g)'
          PROVE  Token(g, d)'
      <4>1. Holds(w, g, d, LastPc)'
        BY <2>1, <2>5, <2>8, <3>3 DEF Holds, LastPc
      <4> QED
        BY <2>3, <4>1 DEF Token
    <3> QED
      BY <3>1, <3>2, <3>3
  <2>20. Retries(g)'
    <3>1. \A b \in Batch, v \in Worker : Holds(v, g, b, ThrowPc)' => Holds(v, g, b, ThrowPc)
      BY <2>13, <2>14
    <3> QED
      BY <1>1, <2>2, <2>7, <2>12, <3>1 DEF Retries, Live
  <2>21. OnWay(g)'
    BY <2>18, <2>19, <2>20 DEF OnWay
  <2>22. Ending(w)'
    <3>1. Cardinality(Stored(row'[g])) = worker'[w].total /\ worker'[w].pc \in {"activate", "claimNext"}
      BY <1>1, <2>5
    <3> QED
      BY <2>8, <3>1 DEF Ending, At
  <2>23. ASSUME NEW v \in Worker \ {w}, Busy(v), G(v) = g
         PROVE  Ending(v)'
    <3>1. ~At(v, "claim")
      BY <1>4, <2>1, <2>23 DEF Ground, Scheduling, Places
    <3> QED
      BY <1>1, <2>3, <2>5, <2>7, <2>23, <3>1, EndingStays DEF Carrying
  <2> QED
    BY <1>1, <2>9, <2>10, <2>11, <2>21, <2>22, <2>23, HisCarrying
<1> QED
  BY <1>3, <1>4

LEMMA JobsOf ==
    ASSUME NEW g \in Gen, NEW j \in JobId, GenOf(j) = g
    PROVE  j = PrepareJob(g) \/ j = GraphJob(g) \/ \E b \in Batch : j = EmbedJob(g, b)
  BY DEF JobId, GenOf, PrepareJob, GraphJob, EmbedJob

\* Nobody else handles a generation before its prepare stage has committed.
LEMMA Preparer ==
    ASSUME Ground, NEW w \in Worker, NEW g \in Gen, Preparing(w, g)
    PROVE  /\ Inv /\ Whole /\ Carrying /\ Busy(w) /\ G(w) = g /\ run[g] \in Run /\ Exists(g)
           /\ JobOf(w) = PrepareJob(g) /\ worker[w].next = {}
           /\ Fresh(g) /\ run[g].prepare \notin {"ready", "cancelled"}
           /\ \A v \in Worker \ {w} : ~(Busy(v) /\ G(v) = g)
<1>1. Inv /\ Whole /\ Carrying /\ Busy(w) /\ G(w) = g
  BY DEF Ground, Preparing, Busy
<1>2. run[g] \in Run /\ Exists(g) /\ job[JobOf(w)].state = "active"
  BY <1>1, BusyFacts
<1>3. JobOf(w) = PrepareJob(g)
  BY <1>1 DEF Preparing, Whole, HandlerOK, HandlerKind
<1>4. worker[w].next = {}
  BY <1>1 DEF Carrying, Quiet, Bare, Preparing, At
<1>5. PrepareOpen(g)
  BY DEF PrepareOpen
<1>6. Fresh(g)
  BY <1>1, <1>5 DEF Ground, Whole, GenOK, Once
<1>7. run[g].prepare \notin {"ready", "cancelled"}
  BY <1>1, <1>5 DEF Carrying, Quiet, Opening, Opens
<1>8. ASSUME NEW v \in Worker \ {w}, Busy(v), G(v) = g
      PROVE  FALSE
  <2>1. JobOf(v) \in JobId /\ job[JobOf(v)].state = "active" /\ GenOf(JobOf(v)) = g
    BY <1>1, <1>8, BusyFacts DEF G
  <2>2. JobOf(v) # PrepareJob(g)
    BY <1>1, <1>3, <1>8 DEF Inv, QueueOK, OwnsAlone
  <2>3. JobOf(v) # GraphJob(g)
    BY <1>1, <2>1 DEF Carrying, Quiet, Statuses
  <2>4. \A b \in Batch : JobOf(v) # EmbedJob(g, b)
    BY <1>6, <2>1 DEF Fresh
  <2> QED
    BY <2>1, <2>2, <2>3, <2>4, JobsOf
<1> QED
  BY <1>1, <1>2, <1>3, <1>4, <1>6, <1>7, <1>8

LEMMA PrepareLoadCarrying ==
    ASSUME Inv, Inv', FenceStays, Carrying, NEW w \in Worker, NEW g \in Gen, PrepareLoad(w, g)
    PROVE  Carrying'
<1>1. /\ At(w, "idle") /\ job[PrepareJob(g)].state = "waiting" /\ Take(PrepareJob(g)) /\ ~Cancelled(g)
      /\ UNCHANGED <<doc, run, batch, row, slot, api, removal, spent>>
      /\ worker'[w].next = {} /\ worker'[w].added = {} /\ worker'[w].job = PrepareJob(g)
      /\ worker'[w].pc \in {"prepareStale", "prepareRun"}
      /\ \A v \in Worker \ {w} : worker'[v] = worker[v]
  BY DEF PrepareLoad, Inv, QueueOK, IdleWorker
<1>2. ~Busy(w) /\ PrepareJob(g) \in JobId /\ GenOf(PrepareJob(g)) = g
  BY <1>1, JobIdFacts DEF Busy, At
<1>3. NotHis(w, g)
  BY <1>2, Strangers
<1>4. JobOf(w)' = PrepareJob(g) /\ G(w)' = g /\ Preparing(w, g)'
  BY <1>1, <1>2 DEF JobOf, G, Preparing
<1>5. /\ \A j \in JobId : GenOf(j) # g => job'[j] = job[j]
      /\ job'[GraphJob(g)] = job[GraphJob(g)]
      /\ \A b \in Batch : job'[EmbedJob(g, b)] = job[EmbedJob(g, b)]
  <2>1. \A i \in JobId \ {PrepareJob(g)} : job'[i] = job[i]
    BY <1>1, <1>2, TakenJob
  <2>2. PrepareJob(g) # GraphJob(g) /\ \A b \in Batch : PrepareJob(g) # EmbedJob(g, b)
    BY DEF PrepareJob, GraphJob, EmbedJob
  <2> QED
    BY <1>2, <2>1, <2>2, JobIdFacts
<1>6. HisStep(w, g)
  BY <1>1, <1>2, <1>4, <1>5 DEF HisStep
<1>7. \A h : /\ Cancelled(h)' <=> Cancelled(h)
             /\ ActiveRun(h)' <=> ActiveRun(h)
             /\ Doomed(h)' <=> Doomed(h)
  BY <1>1 DEF Exists, Cancelled, ActiveRun, Doomed
<1>8. Bare(w)' /\ Ending(w)'
  BY <1>1 DEF Bare, Ending, At
<1>9. Statuses(g)'
  BY <1>1, <1>5 DEF Carrying, Quiet, Statuses
<1>10. Opening(g)'
  <2>1. Opens(g) /\ Opens(g)'
    BY <1>1, <1>4 DEF Opens, PrepareOpen
  <2> QED
    BY <1>1, <2>1 DEF Carrying, Quiet, Opening
<1>11. Passes(w, g)
  <2>1. \A b \in Batch : /\ Live(EmbedJob(g, b))' <=> Live(EmbedJob(g, b))
                         /\ Overdue(g, b)' <=> Overdue(g, b)
                         /\ ~Holds(w, g, b, LastPc)' /\ ~Holds(w, g, b, ThrowPc)'
    BY <1>1, <1>5 DEF Live, Overdue, Holds, LastPc, ThrowPc
  <2>2. \A b \in Batch : TokenBy(w, g, b)' <=> TokenBy(w, g, b)
    BY <1>3, <1>5, <2>1 DEF TokenBy, NotHis
  <2>3. NearGraph(w, g) => NearGraph(w, g)'
    BY <1>3, <1>5 DEF NearGraph, NotHis
  <2> QED
    BY <1>1, <1>3, <1>5, <2>1, <2>2, <2>3 DEF Passes, NotHis
<1>12. OnWay(g)'
  <2>1. Chain(g) /\ Single(g) /\ Retries(g)
    BY <1>1 DEF Carrying, OnWay
  <2>2. Chain(g)' /\ Single(g)' /\ Retries(g)'
    BY <1>1, <1>7, <1>11, <2>1, PassesOnWay
  <2> QED
    BY <2>2 DEF OnWay
<1>13. ASSUME NEW v \in Worker \ {w}, Busy(v), G(v) = g
       PROVE  Ending(v)'
  BY <1>1, <1>7, <1>13, EndingStays DEF Carrying
<1> QED
  BY <1>6, <1>8, <1>9, <1>10, <1>12, <1>13, HisCarrying

LEMMA PrepareStaleCarrying ==
    ASSUME Ground, Inv', FenceStays, NEW w \in Worker, PrepareStale(w)
    PROVE  Carrying'
<1>1. /\ At(w, "prepareStale") /\ worker[w].pc = "prepareStale" /\ Busy(w) /\ Inv /\ Carrying
      /\ UNCHANGED <<doc, batch, row, slot, api, removal, spent>> /\ Goto(w, "finish")
  BY DEF PrepareStale, MarkStale, At, Busy, Ground
<1>2. PICK g \in Gen : G(w) = g
  BY <1>1, BusyFacts
<1>3. /\ Preparing(w, g) /\ run[g] \in Run /\ Exists(g) /\ Fresh(g) /\ Whole
      /\ \A v \in Worker \ {w} : ~(Busy(v) /\ G(v) = g)
  BY <1>1, <1>2, Preparer DEF Preparing
<1>4. run' = IF Cancelled(g) THEN run
             ELSE [run EXCEPT ![g] = [@ EXCEPT !.status = "failed", !.prepare = "failed"]]
  BY <1>2 DEF PrepareStale, MarkStale
<1>5. /\ \A h \in Gen \ {g} : run'[h] = run[h]
      /\ run'[g] = IF Cancelled(g) THEN run[g]
                   ELSE [run[g] EXCEPT !.status = "failed", !.prepare = "failed"]
  BY <1>1, <1>4 DEF Inv, TablesOK
<1>6. ~ActiveRun(g)'
  <2>1. ~Cancelled(g) => run'[g].status = "failed"
    BY <1>3, <1>5 DEF Run
  <2> QED
    BY <1>3, <1>5, <2>1 DEF ActiveRun, ActiveStatuses, Cancelled, Exists
<1>7. /\ HisStep(w, g) /\ Bare(w)' /\ job' = job /\ worker'[w].pc = "finish" /\ G(w)' = g
      /\ \A v \in Worker \ {w} : worker'[v] = worker[v]
  BY <1>1, <1>2, <1>5, GotoHis
<1>8. Statuses(g)'
  BY <1>1, <1>7 DEF Carrying, Quiet, Statuses
<1>9. Opening(g)'
  <2>1. ~Preparing(w, g)'
    BY <1>7 DEF Preparing
  <2>2. ~Opens(g)'
    BY <1>1, <1>2, <1>3, <1>7, <2>1, PrepareCloses DEF Opens
  <2> QED
    BY <1>6, <2>2 DEF Opening
<1>10. OnWay(g)'
  <2>1. Single(g)' /\ Retries(g)'
    BY <1>1, <1>3, <1>7, EmptyCarry DEF Fresh, Live
  <2>2. Chain(g)'
    BY <1>6 DEF Chain
  <2> QED
    BY <2>1, <2>2 DEF OnWay
<1>11. Ending(w)'
  BY <1>6, <1>7 DEF Ending, At
<1> QED
  BY <1>1, <1>3, <1>7, <1>8, <1>9, <1>10, <1>11, HisCarrying

\* prepareRun hands on to the first claim, or to the end of an empty document.
LEMMA PrepareRunCarrying ==
    ASSUME Ground, Inv', FenceStays, NEW w \in Worker, PrepareRun(w)
    PROVE  Carrying'
<1>1. /\ At(w, "prepareRun") /\ worker[w].pc = "prepareRun" /\ Busy(w) /\ Inv /\ Carrying
      /\ UNCHANGED <<slot, api, removal, spent>>
  BY DEF PrepareRun, At, Busy, Ground
<1>2. PICK g \in Gen : G(w) = g
  BY <1>1, BusyFacts
<1>3. /\ Preparing(w, g) /\ run[g] \in Run /\ Exists(g) /\ Fresh(g) /\ Whole
      /\ \A v \in Worker \ {w} : ~(Busy(v) /\ G(v) = g)
  BY <1>1, <1>2, Preparer DEF Preparing
<1>4. PICK r \in Revision : r = run[g].revision
  BY <1>3 DEF Run
<1>5. /\ row' = [row EXCEPT ![g] = [c \in Chunk |-> IF @[c] = None THEN worker[w].rows[c] ELSE @[c]]]
      /\ doc' = [doc EXCEPT !.pending = g]
      /\ batch' = [batch EXCEPT ![g] = [b \in Batch |-> IF b \in BatchesOf(r) /\ @[b] = "none"
                                                        THEN "pending" ELSE @[b]]]
      /\ run' = IF Cancelled(g) THEN run
                ELSE [run EXCEPT ![g] = [@ EXCEPT
                        !.status = "processing", !.prepare = "ready", !.embed = "pending",
                        !.context = worker[w].context,
                        !.full = (Stored(worker[w].rows) = {})]]
      /\ Goto(w, IF Chunks(r) = {} THEN "completeEmpty" ELSE "claim")
  BY <1>2, <1>4 DEF PrepareRun
<1>6. /\ doc'.pending = g /\ doc'.active = doc.active
      /\ \A h \in Gen \ {g} : row'[h] = row[h] /\ batch'[h] = batch[h] /\ run'[h] = run[h]
      /\ \A b \in Batch : batch'[g][b] = IF b \in BatchesOf(r) THEN "pending" ELSE "none"
  BY <1>1, <1>3, <1>5 DEF Inv, TablesOK, Document, Fresh
<1>7. /\ Cancelled(g) => run'[g] = run[g]
      /\ ~Cancelled(g) => run'[g].status = "processing" /\ run'[g].prepare = "ready"
  <2>1. Cancelled(g) => run'[g] = run[g]
    BY <1>5
  <2>2. ASSUME ~Cancelled(g)
        PROVE  run'[g].status = "processing" /\ run'[g].prepare = "ready"
    BY <1>1, <1>3, <1>5, <2>2 DEF Inv, TablesOK, Run
  <2> QED
    BY <2>1, <2>2
<1>8. PICK pc \in {"completeEmpty", "claim"} :
        Goto(w, pc) /\ pc = IF Chunks(r) = {} THEN "completeEmpty" ELSE "claim"
  BY <1>5
<1>9. /\ HisStep(w, g) /\ Bare(w)' /\ job' = job /\ worker'[w].pc = pc /\ G(w)' = g
      /\ JobOf(w)' = JobOf(w)
      /\ \A v \in Worker \ {w} : worker'[v] = worker[v]
  <2>1. \A h \in Gen \ {g} : /\ run'[h] = run[h] /\ batch'[h] = batch[h]
                             /\ doc'.active = h => doc.active = h
                             /\ doc'.pending = h => doc.pending = h /\ row'[h] = row[h]
    BY <1>6
  <2> QED
    BY <1>1, <1>2, <1>8, <2>1, GotoHis
<1>10. Statuses(g)'
  BY <1>1, <1>6, <1>9 DEF Carrying, Quiet, Statuses
<1>11. Cancelled(g) => Cancelled(g)' /\ ~ActiveRun(g)'
  BY <1>3, <1>7 DEF Cancelled, Exists, ActiveRun, ActiveStatuses
<1>12. Opening(g)'
  <2>1. ~Preparing(w, g)'
    BY <1>9 DEF Preparing
  <2>2. ~Opens(g)'
    BY <1>1, <1>2, <1>3, <1>9, <2>1, PrepareCloses DEF Opens
  <2> QED
    BY <1>7, <1>11, <2>2 DEF Opening
<1>13. \A c \in Chunks(r) : BatchOf(c) \in Batch /\ BatchOf(c) \in BatchesOf(r)
  BY ChunkText DEF Batch, BatchesOf
<1>14. OnWay(g)'
  <2>1. Single(g)' /\ Retries(g)'
    BY <1>3, <1>6, <1>9, EmptyCarry DEF Fresh, Live
  <2>2. Chain(g)'
    <3>1. \A b \in Batch : batch'[g][b] \notin {"processing", "ready"}
      BY <1>6
    <3>2. ASSUME NEW b \in Batch, batch'[g][b] = "pending"
          PROVE  Claiming(w, g)'
      <4>1. Chunks(r) # {}
        BY <1>6, <3>2 DEF BatchesOf
      <4> QED
        BY <1>8, <1>9, <4>1 DEF Claiming
    <3>3. ASSUME AllReady(g)'
          PROVE  Closing(g)'
      <4>1. Chunks(r) = {}
        BY <1>6, <1>13, <3>3 DEF AllReady
      <4>2. Heads(w, g)'
        BY <1>8, <1>9, <4>1 DEF Heads, Busy
      <4> QED
        BY <4>2 DEF Closing
    <3> QED
      BY <3>1, <3>2, <3>3 DEF Chain
  <2> QED
    BY <2>1, <2>2 DEF OnWay
<1>15. Ending(w)'
  <2>1. pc = "claim" => \E b \in Batch : batch'[g][b] = "pending"
    <3>1. pc = "claim" => Chunks(r) # {}
      BY <1>8
    <3> QED
      BY <1>6, <1>13, <3>1
  <2> QED
    BY <1>9, <2>1 DEF Ending, At
<1> QED
  BY <1>1, <1>3, <1>9, <1>10, <1>12, <1>14, <1>15, HisCarrying

\* A handler lets go of a cancelled run.
LEMMA FencedCarrying ==
    ASSUME Inv, Inv', FenceStays, Carrying, NEW w \in Worker, NEW g \in Gen, Cancelled(g), HisStep(w, g),
           UNCHANGED <<doc, row, run, batch, api>>, Bare(w)', Ending(w)',
           job'[GraphJob(g)] = job[GraphJob(g)], Preparing(w, g)' => Preparing(w, g),
           job'[PrepareJob(g)].state = "waiting" => job[PrepareJob(g)].state = "waiting"
    PROVE  Carrying'
<1>1. Cancelled(g)' /\ ~ActiveRun(g)'
  BY DEF Cancelled, Exists, ActiveRun, ActiveStatuses
<1>2. Statuses(g)'
  BY DEF Carrying, Quiet, Statuses
<1>3. Opening(g)'
  <2>1. \A v \in Worker : Preparing(v, g)' => Preparing(v, g)
    BY DEF HisStep, Preparing, G, JobOf
  <2>2. Opens(g)' => Opens(g)
    BY <1>1, <2>1 DEF Opens, PrepareOpen, Adding
  <2> QED
    BY <1>1, <2>2 DEF Carrying, Quiet, Opening
<1>4. OnWay(g)'
  BY <1>1 DEF OnWay
<1>5. ASSUME NEW v \in Worker \ {w}, Busy(v), G(v) = g
      PROVE  Ending(v)'
  BY <1>1, <1>5, EndingStays DEF Carrying, HisStep
<1> QED
  BY <1>2, <1>3, <1>4, <1>5, HisCarrying

LEMMA AbandonCarrying ==
    ASSUME Inv, Inv', FenceStays, Carrying, NEW w \in Worker, Abandon(w)
    PROVE  Carrying'
<1>1. /\ Busy(w) /\ Done(w) /\ Cancelled(G(w)) /\ UNCHANGED <<doc, run, batch, row, slot, api, removal, spent>>
      /\ job' = Ended(job, JobOf(w))
  BY DEF Abandon, Busy, Done
<1>2. PICK g \in Gen : G(w) = g
  BY <1>1, BusyFacts
<1>3. worker'[w] = IdleWorker /\ \A v \in Worker \ {w} : worker'[v] = worker[v]
  BY <1>1, ThrowIdle
<1>4. ~Busy(w)' /\ Bare(w)' /\ Ending(w)' /\ ~Preparing(w, g)'
  BY <1>3 DEF IdleWorker, Busy, Bare, Ending, Preparing, At
<1>5. JobOf(w) \in JobId /\ GenOf(JobOf(w)) = g /\ JobOf(w) # GraphJob(g)
  BY <1>1, <1>2, HisJob
<1>6. job'[JobOf(w)].state = "completed" /\ \A i \in JobId \ {JobOf(w)} : job'[i] = job[i]
  BY <1>1, EndedJob
<1>7. /\ \A j \in JobId : GenOf(j) # g => job'[j] = job[j]
      /\ job'[GraphJob(g)] = job[GraphJob(g)]
      /\ job'[PrepareJob(g)].state = "waiting" => job[PrepareJob(g)].state = "waiting"
  BY <1>5, <1>6, JobIdFacts
<1>8. HisStep(w, g)
  BY <1>1, <1>2, <1>3, <1>4, <1>7 DEF HisStep
<1> QED
  BY <1>1, <1>2, <1>4, <1>7, <1>8, FencedCarrying

LEMMA DropCancelledCarrying ==
    ASSUME Inv, Inv', FenceStays, Carrying, NEW w \in Worker, NEW j \in JobId, DropCancelled(w, j)
    PROVE  Carrying'
<1>1. /\ At(w, "idle") /\ job[j].state = "waiting" /\ j[1] \in {"prepare", "embed"} /\ Cancelled(GenOf(j))
      /\ job' = Ended(job, j) /\ UNCHANGED <<doc, run, batch, row, slot, api, worker, removal, spent>>
  BY DEF DropCancelled
<1>2. PICK g \in Gen : g = GenOf(j)
  BY JobIdFacts
<1>3. ~Busy(w) /\ ~Busy(w)'
  BY <1>1 DEF Busy, At
<1>4. job'[j].state = "completed" /\ \A i \in JobId \ {j} : job'[i] = job[i]
  BY <1>1 DEF Ended, Inv, QueueOK, Job
<1>5. j # GraphJob(g)
  BY <1>1 DEF GraphJob
<1>6. /\ \A i \in JobId : GenOf(i) # g => job'[i] = job[i]
      /\ job'[GraphJob(g)] = job[GraphJob(g)]
      /\ job'[PrepareJob(g)].state = "waiting" => job[PrepareJob(g)].state = "waiting"
  BY <1>2, <1>4, <1>5, JobIdFacts
<1>7. HisStep(w, g)
  BY <1>1, <1>3, <1>6 DEF HisStep
<1>8. Bare(w)' /\ Ending(w)'
  <2>1. Bare(w)'
    BY <1>1, BareStays DEF Carrying, Quiet
  <2> QED
    BY <1>3, <2>1 DEF Ending
<1>9. Preparing(w, g)' => Preparing(w, g)
  BY <1>1 DEF Preparing, G, JobOf
<1> QED
  BY <1>1, <1>2, <1>6, <1>7, <1>8, <1>9, FencedCarrying

LEMMA HandleCarrying ==
    ASSUME Ground, Inv', FenceStays, spent.provider + 1 < MaxTries, Profile = {Primary},
           NEW w \in Worker, Handle(w)
    PROVE  Carrying'
<1>1. Inv /\ Carrying
  BY DEF Ground
<1>2. ASSUME NEW j \in JobId, DropCancelled(w, j)
      PROVE  Carrying'
  BY <1>1, <1>2, DropCancelledCarrying
<1>3. ASSUME NEW g \in Gen, PrepareLoad(w, g)
      PROVE  Carrying'
  BY <1>1, <1>3, PrepareLoadCarrying
<1>4. CASE PrepareStale(w) \/ PrepareRun(w) \/ CompleteEmpty(w)
  BY <1>4, PrepareStaleCarrying, PrepareRunCarrying, CompleteEmptyCarrying
<1>5. ASSUME PrepareRepeated(w)
      PROVE  FALSE
  <2>1. At(w, "prepareRun") /\ Busy(w) /\ run[G(w)].prepare \in {"ready", "cancelled"}
    BY <1>5 DEF PrepareRepeated, At, Busy
  <2>2. PICK g \in Gen : G(w) = g
    BY <1>1, <2>1, BusyFacts
  <2>3. Preparing(w, g)
    BY <2>1, <2>2 DEF Preparing, At
  <2> QED
    BY <2>1, <2>2, <2>3, Preparer
<1>6. CASE Claim(w) \/ ClaimNext(w)
  BY <1>6, ClaimCarrying
<1>7. ASSUME NEW g \in Gen, NEW b \in Batch, EmbedLoadStale(w, g, b)
      PROVE  Carrying'
  BY <1>1, <1>7, EmbedLoadStaleCarrying
<1>8. ASSUME NEW g \in Gen, NEW b \in Batch, NEW p \in Profile, EmbedLoad(w, g, b, p)
      PROVE  Carrying'
  BY <1>1, <1>8, EmbedLoadCarrying
<1>9. CASE EmbedStale(w) \/ StoreBatch(w) \/ CompleteBatch(w)
  BY <1>9, EmbedStaleCarrying, StoreBatchCarrying, CompleteBatchCarrying
<1>10. CASE Activate(w) \/ ActivateRefused(w) \/ EmbedReady(w)
  BY <1>10, ActivateCarrying, ActivateRefusedCarrying, EmbedReadyCarrying
<1>11. ASSUME ActivateAgain(w)
       PROVE  FALSE
  <2>1. At(w, "activate") /\ Busy(w) /\ ~Cancelled(G(w)) /\ doc.active = G(w)
    BY <1>11 DEF ActivateAgain, AlreadyActive, At, Busy
  <2>2. PICK g \in Gen : G(w) = g
    BY <1>1, <2>1, BusyFacts
  <2> QED
    BY <2>1, <2>2, Activator
<1>12. CASE Enqueue(w) \/ Finish(w) \/ Abandon(w)
  BY <1>1, <1>12, EnqueueCarrying, FinishCarrying, AbandonCarrying
<1> QED
  BY <1>2, <1>3, <1>4, <1>5, <1>6, <1>7, <1>8, <1>9, <1>10, <1>11, <1>12 DEF Handle

-----------------------------------------------------------------------------
\* A step outside the handlers that does not touch the prepare stage of h.
LEMMA OpeningFrame ==
    ASSUME NEW h \in Gen, Opening(h), worker' = worker,
           \A c \in Client : Adding(c, h)' <=> Adding(c, h),
           Cancelled(h) => Cancelled(h)', ActiveRun(h)' => ActiveRun(h), run'[h].prepare = run[h].prepare,
           ~Cancelled(h)' => (job'[PrepareJob(h)].state = "waiting" <=> job[PrepareJob(h)].state = "waiting")
    PROVE  Opening(h)'
<1>1. \A w \in Worker : Preparing(w, h)' <=> Preparing(w, h)
  BY DEF Preparing, G, JobOf
<1>2. Opens(h)' => Opens(h)
  BY <1>1 DEF Opens, PrepareOpen
<1>3. ~Cancelled(h)' /\ Opens(h) => Opens(h)'
  BY <1>1 DEF Opens, PrepareOpen
<1>4. ActiveRun(h)' => ~Cancelled(h)'
  BY DEF ActiveRun, Cancelled, ActiveStatuses
<1> QED
  BY <1>2, <1>3, <1>4 DEF Opening

\* Steps that leave batches, rows and handlers alone: the prepare stages are
\* left to show, and the runs that start.
LEMMA OutsideCarrying ==
    ASSUME Inv, FenceStays, Carrying, UNCHANGED <<batch, row, worker, removal>>,
           doc'.active = doc.active, doc'.pending = doc.pending, spent'.provider = spent.provider,
           \A g \in Gen : /\ \A b \in Batch : job'[EmbedJob(g, b)] = job[EmbedJob(g, b)]
                          /\ job'[GraphJob(g)] = job[GraphJob(g)],
           \A g \in Gen : Exists(g) => (ActiveRun(g)' => ActiveRun(g)) /\ run'[g].prepare = run[g].prepare,
           \A g \in Gen : ~Exists(g) => OnWay(g)' \/ run'[g] = run[g],
           \A g \in Gen : Opening(g)'
    PROVE  Carrying'
<1>1. ASSUME NEW g \in Gen
      PROVE  Statuses(g)'
  BY DEF Carrying, Quiet, Statuses
<1>2. ASSUME NEW g \in Gen
      PROVE  OnWay(g)'
  <2>1. CASE Exists(g) \/ run'[g] = run[g]
    <3>1. (ActiveRun(g)' => ActiveRun(g)) /\ run'[g].prepare = run[g].prepare
      BY <2>1 DEF ActiveRun, Exists
    <3>2. Cancelled(g) => Cancelled(g)'
      BY DEF FenceStays
    <3>3. OnWay(g)
      BY DEF Carrying
    <3> QED
      BY <3>1, <3>2, <3>3, OnWayStays
  <2> QED
    BY <2>1
<1>3. ASSUME NEW w \in Worker
      PROVE  Ending(w)' /\ Bare(w)'
  <2>1. Ending(w) /\ Bare(w)
    BY DEF Carrying, Quiet
  <2>2. PICK g : g = G(w)
    OBVIOUS
  <2>3. Busy(w) => g \in Gen /\ Exists(g)
    BY <2>2, BusyFacts
  <2>4. Busy(w) => (Cancelled(g) => Cancelled(g)') /\ (ActiveRun(g)' => ActiveRun(g))
    BY <2>3 DEF FenceStays
  <2> QED
    BY <2>1, <2>2, <2>4, EndingStays, BareStays
<1> QED
  BY <1>1, <1>2, <1>3 DEF Carrying, Quiet

\* Steps of a request that is not about to queue a prepare job, and of the
\* environment, change neither runs nor jobs.
LEMMA QuietCarrying ==
    ASSUME Inv, FenceStays, Carrying, UNCHANGED <<run, job, batch, row, worker, removal>>,
           doc'.active = doc.active, doc'.pending = doc.pending, spent'.provider = spent.provider,
           \A c \in Client, g \in Gen : Adding(c, g)' <=> Adding(c, g)
    PROVE  Carrying'
<1>1. \A g \in Gen : (Cancelled(g)' <=> Cancelled(g)) /\ (ActiveRun(g)' <=> ActiveRun(g))
  BY DEF Cancelled, ActiveRun, Exists
<1>2. ASSUME NEW g \in Gen
      PROVE  Opening(g)'
  BY <1>1, OpeningFrame DEF Carrying, Quiet
<1> QED
  BY <1>1, <1>2, OutsideCarrying

LEMMA ClientMoves ==
    ASSUME Inv, NEW c \in Client, NEW q, api' = [api EXCEPT ![c] = q], q.pc # "add", api[c].pc # "add"
    PROVE  \A d \in Client, g \in Gen : Adding(d, g)' <=> Adding(d, g)
<1>1. api'[c] = q /\ \A d \in Client \ {c} : api'[d] = api[d]
  BY DEF Inv, RequestsOK
<1> QED
  BY <1>1 DEF Adding

LEMMA RequestCarrying ==
    ASSUME Inv, FenceStays, Carrying, NEW c \in Client,
           \/ ClaimSlot(c) \/ EnqueueDeduplicated(c)
           \/ \E r \in Revision : Edit(c, r)
           \/ \E x \in Context, full \in BOOLEAN : Request(c, x, full)
    PROVE  Carrying'
<1>1. CASE ClaimSlot(c)
  <2> DEFINE q == IF api[c].revision \in slot THEN IdleClient ELSE [api[c] EXCEPT !.pc = "enqueue"]
  <2>1. q.pc # "add" /\ api[c].pc # "add"
    BY <1>1 DEF ClaimSlot, IdleClient, Inv, RequestsOK, Caller
  <2>2. /\ UNCHANGED <<doc, run, batch, row, job, worker, removal, spent>>
        /\ api' = [api EXCEPT ![c] = q]
    BY <1>1 DEF ClaimSlot, Inv, RequestsOK
  <2> HIDE DEF q
  <2> QED
    BY <2>1, <2>2, ClientMoves, QuietCarrying
<1>2. CASE EnqueueDeduplicated(c)
  <2>1. /\ UNCHANGED <<doc, run, batch, row, job, worker, removal, spent>>
        /\ api' = [api EXCEPT ![c] = IdleClient] /\ api[c].pc # "add"
    BY <1>2 DEF EnqueueDeduplicated
  <2> QED
    BY <2>1, IdleClientType, ClientMoves, QuietCarrying
<1>3. ASSUME NEW r \in Revision, Edit(c, r)
      PROVE  Carrying'
  <2> DEFINE q == [IdleClient EXCEPT !.pc = "slot", !.revision = r]
  <2>1. /\ UNCHANGED <<run, batch, row, job, worker, removal>> /\ Spend("edits")
        /\ doc' = [doc EXCEPT !.revision = r] /\ api' = [api EXCEPT ![c] = q]
        /\ api[c].pc # "add" /\ q.pc # "add"
    BY <1>3 DEF Edit, IdleClient
  <2> HIDE DEF q
  <2>2. doc'.active = doc.active /\ doc'.pending = doc.pending /\ spent'.provider = spent.provider
    BY <2>1 DEF Inv, TablesOK, Document, BoundsOK, Spend
  <2> QED
    BY <2>1, <2>2, ClientMoves, QuietCarrying
<1>4. ASSUME NEW x \in Context, NEW full \in BOOLEAN, Request(c, x, full)
      PROVE  Carrying'
  <2> DEFINE q == [pc |-> "enqueue", revision |-> doc.revision, full |-> full, gen |-> None]
  <2>1. /\ UNCHANGED <<run, batch, row, job, worker, removal>> /\ Spend("requests")
        /\ doc' = [doc EXCEPT !.context = x] /\ api' = [api EXCEPT ![c] = q]
        /\ api[c].pc # "add" /\ q.pc # "add"
    BY <1>4 DEF Request
  <2> HIDE DEF q
  <2>2. doc'.active = doc.active /\ doc'.pending = doc.pending /\ spent'.provider = spent.provider
    BY <2>1 DEF Inv, TablesOK, Document, BoundsOK, Spend
  <2> QED
    BY <2>1, <2>2, ClientMoves, QuietCarrying
<1> QED
  BY <1>1, <1>2, <1>3, <1>4

\* The job that opens the prepare stage is queued after its run was started.
LEMMA AddPrepareCarrying ==
    ASSUME Inv, Whole, FenceStays, Carrying, NEW c \in Client, AddPrepare(c)
    PROVE  Carrying'
<1>1. PICK g \in Gen : g = api[c].gen /\ Adding(c, g)
  BY DEF AddPrepare, Adding, Inv, RequestsOK, Caller
<1>2. /\ UNCHANGED <<doc, run, batch, row, worker, removal, spent>>
      /\ job' = Add(job, [j \in {PrepareJob(g)} |-> Queued(api[c].full, None)])
      /\ api' = [api EXCEPT ![c].pc = "recheck"]
  BY <1>1 DEF AddPrepare
<1>3. \A j \in JobId : j # PrepareJob(g) => job'[j] = job[j]
  BY <1>2 DEF Add
<1>4. job[PrepareJob(g)].state = "none"
  BY <1>1 DEF Whole, GenOK, Once
<1>5. job'[PrepareJob(g)].state = "waiting"
  BY <1>2, <1>4, JobIdFacts DEF Add, Queued
<1>6. \A h \in Gen : /\ \A b \in Batch : job'[EmbedJob(h, b)] = job[EmbedJob(h, b)]
                     /\ job'[GraphJob(h)] = job[GraphJob(h)]
  <2>1. \A h \in Gen : GraphJob(h) # PrepareJob(g) /\ \A b \in Batch : EmbedJob(h, b) # PrepareJob(g)
    BY DEF PrepareJob, GraphJob, EmbedJob
  <2> QED
    BY <1>3, <2>1, JobIdFacts
<1>7. /\ \A d \in Client \ {c} : api'[d] = api[d]
      /\ api'[c].pc = "recheck"
  BY <1>2 DEF Inv, RequestsOK, Caller
<1>8. \A h \in Gen : (Cancelled(h)' <=> Cancelled(h)) /\ (ActiveRun(h)' <=> ActiveRun(h))
  BY <1>2 DEF Cancelled, ActiveRun, Exists
<1>9. Opening(g)'
  <2>1. Opens(g) /\ Opening(g)
    BY <1>1 DEF Opens, Carrying, Quiet
  <2>2. ActiveRun(g)' => ~Cancelled(g)'
    BY DEF ActiveRun, Cancelled, ActiveStatuses
  <2>3. ~Cancelled(g)' => Opens(g)'
    BY <1>5 DEF Opens, PrepareOpen
  <2> QED
    BY <1>2, <2>1, <2>2, <2>3 DEF Opening
<1>10. ASSUME NEW h \in Gen \ {g}
       PROVE  Opening(h)'
  <2>1. job'[PrepareJob(h)] = job[PrepareJob(h)]
    BY <1>3, JobIdFacts
  <2>2. \A d \in Client : Adding(d, h)' <=> Adding(d, h)
    BY <1>1, <1>7 DEF Adding
  <2> QED
    BY <1>2, <1>8, <2>1, <2>2, OpeningFrame DEF Carrying, Quiet
<1> QED
  BY <1>2, <1>6, <1>8, <1>9, <1>10, OutsideCarrying

LEMMA RecheckPrepareCarrying ==
    ASSUME Inv, FenceStays, Carrying, NEW c \in Client, RecheckPrepare(c)
    PROVE  Carrying'
<1>1. PICK g \in Gen : g = api[c].gen
  BY DEF RecheckPrepare, Inv, RequestsOK, Caller
<1>2. /\ UNCHANGED <<doc, run, batch, row, worker, removal, spent>>
      /\ job' = IF Cancelled(g) THEN Remove(job, {PrepareJob(g)}) ELSE job
      /\ api' = [api EXCEPT ![c] = IdleClient] /\ api[c].pc = "recheck"
  BY <1>1 DEF RecheckPrepare
<1>3. \A j \in JobId : j # PrepareJob(g) \/ ~Cancelled(g) => job'[j] = job[j]
  BY <1>2 DEF Remove
<1>4. \A h \in Gen : /\ \A b \in Batch : job'[EmbedJob(h, b)] = job[EmbedJob(h, b)]
                     /\ job'[GraphJob(h)] = job[GraphJob(h)]
  <2>1. \A h \in Gen : GraphJob(h) # PrepareJob(g) /\ \A b \in Batch : EmbedJob(h, b) # PrepareJob(g)
    BY DEF PrepareJob, GraphJob, EmbedJob
  <2> QED
    BY <1>3, <2>1, JobIdFacts
<1>5. \A d \in Client, h \in Gen : Adding(d, h)' <=> Adding(d, h)
  BY <1>2, IdleClientType, ClientMoves
<1>6. \A h \in Gen : (Cancelled(h)' <=> Cancelled(h)) /\ (ActiveRun(h)' <=> ActiveRun(h))
  BY <1>2 DEF Cancelled, ActiveRun, Exists
<1>7. ASSUME NEW h \in Gen
      PROVE  Opening(h)'
  <2>1. ~Cancelled(h) => job'[PrepareJob(h)] = job[PrepareJob(h)]
    BY <1>3, JobIdFacts
  <2> QED
    BY <1>2, <1>5, <1>6, <2>1, OpeningFrame DEF Carrying, Quiet
<1> QED
  BY <1>2, <1>4, <1>6, <1>7, OutsideCarrying

\* A run starts with a request that is about to queue its prepare job; the runs
\* it supersedes are cancelled, and nobody adds to those.
LEMMA FindOrCreateCarrying ==
    ASSUME Inv, Whole, FenceStays, Carrying, NEW c \in Client, NEW g \in Gen, FindOrCreate(c, g)
    PROVE  Carrying'
<1>1. /\ UNCHANGED <<doc, batch, row, job, worker, removal, spent>> /\ ~Exists(g) /\ api[c].pc = "enqueue"
      /\ run' = [h \in Gen |->
                 CASE h = g -> NewRun(api[c].revision, api[c].full)
                   [] h # g /\ api[c].full /\ ActiveRun(h) -> [run[h] EXCEPT !.status = "cancelled"]
                   [] OTHER -> run[h]]
      /\ api' = [api EXCEPT ![c].pc = "add", ![c].gen = g]
  BY DEF FindOrCreate
<1>2. \A h \in Gen \ {g} : \/ run'[h] = run[h]
                           \/ ActiveRun(h) /\ run'[h] = [run[h] EXCEPT !.status = "cancelled"]
  <2> SUFFICES ASSUME NEW h \in Gen, h # g
               PROVE  \/ run'[h] = run[h]
                      \/ ActiveRun(h) /\ run'[h] = [run[h] EXCEPT !.status = "cancelled"]
    OBVIOUS
  <2>1. CASE api[c].full /\ ActiveRun(h)
    BY <1>1, <2>1
  <2>2. CASE ~(api[c].full /\ ActiveRun(h))
    BY <1>1, <2>2
  <2> QED
    BY <2>1, <2>2
<1>3. ASSUME NEW h \in Gen \ {g}
      PROVE  (ActiveRun(h)' => ActiveRun(h)) /\ run'[h].prepare = run[h].prepare
  <2>1. CASE run'[h] = run[h]
    BY <2>1 DEF ActiveRun, Exists
  <2>2. CASE ActiveRun(h) /\ run'[h] = [run[h] EXCEPT !.status = "cancelled"]
    <3>1. run[h] \in Run
      BY <2>2 DEF Inv, TablesOK, ActiveRun, Exists
    <3> QED
      BY <2>2, <3>1 DEF Run
  <2> QED
    BY <1>2, <2>1, <2>2
<1>4. run'[g].prepare = "pending"
  BY <1>1 DEF NewRun
<1>5. /\ \A d \in Client \ {c} : api'[d] = api[d]
      /\ api'[c].pc = "add" /\ api'[c].gen = g
  BY <1>1 DEF Inv, RequestsOK, Caller
<1>6. OnWay(g)'
  <2>1. Fresh(g)
    BY <1>1 DEF Whole, GenOK, Once
  <2>2. \A b \in Batch : batch'[g][b] # "ready" /\ ~Live(EmbedJob(g, b))'
    BY <1>1, <2>1 DEF Fresh, Live
  <2>3. Chain(g)'
    BY <1>4 DEF Chain
  <2> QED
    BY <2>2, <2>3, EmptyCarry DEF OnWay
<1>7. Opening(g)'
  <2>1. Adding(c, g)'
    BY <1>5 DEF Adding
  <2> QED
    BY <1>4, <2>1 DEF Opening, Opens
<1>8. ASSUME NEW h \in Gen \ {g}
      PROVE  Opening(h)'
  <2>1. \A d \in Client : Adding(d, h)' <=> Adding(d, h)
    BY <1>1, <1>5 DEF Adding
  <2>2. Cancelled(h) => Cancelled(h)'
    BY DEF FenceStays
  <2> QED
    BY <1>1, <1>3, <2>1, <2>2, OpeningFrame DEF Carrying, Quiet
<1>9. \A h \in Gen : Exists(h) => h \in Gen \ {g}
  BY <1>1
<1>10. \A h \in Gen : ~Exists(h) => OnWay(h)' \/ run'[h] = run[h]
  BY <1>2, <1>6 DEF ActiveRun
<1>11. \A h \in Gen : Opening(h)'
  BY <1>7, <1>8
<1> QED
  BY <1>1, <1>3, <1>9, <1>10, <1>11, OutsideCarrying

LEMMA ApiStepCarrying ==
    ASSUME Inv, Whole, FenceStays, Carrying, NEW c \in Client, ApiStep(c)
    PROVE  Carrying'
<1>1. CASE ClaimSlot(c) \/ EnqueueDeduplicated(c)
  BY <1>1, RequestCarrying
<1>2. ASSUME NEW g \in Gen, FindOrCreate(c, g)
      PROVE  Carrying'
  BY <1>2, FindOrCreateCarrying
<1> QED
  BY <1>1, <1>2, AddPrepareCarrying, RecheckPrepareCarrying DEF ApiStep

-----------------------------------------------------------------------------
\* What the environment has spent is never taken back.
LEMMA SpendCounts ==
    ASSUME Inv, NEW what \in {"edits", "requests", "provider", "infra", "crashes", "cancels"}, Spend(what)
    PROVE  /\ spent'.provider = IF what = "provider" THEN spent.provider + 1 ELSE spent.provider
           /\ spent'.cancels = IF what = "cancels" THEN spent.cancels + 1 ELSE spent.cancels
<1>1. spent \in [edits : 0..MaxEdits, requests : 0..MaxRequests,
                 provider : 0..MaxProviderFailures, infra : 0..MaxInfraFailures,
                 crashes : 0..MaxCrashes, cancels : 0..MaxCancels]
  BY DEF Inv, BoundsOK
<1>2. CASE what = "provider"
  BY <1>1, <1>2 DEF Spend
<1>3. CASE what = "cancels"
  BY <1>1, <1>3 DEF Spend
<1>4. CASE what \notin {"provider", "cancels"}
  BY <1>1, <1>4 DEF Spend
<1> QED
  BY <1>2, <1>3, <1>4

LEMMA SpentGrows ==
    ASSUME Inv, [Next]_vars
    PROVE  /\ spent.provider \in Nat /\ spent.cancels \in Nat
           /\ spent'.provider \in {spent.provider, spent.provider + 1}
           /\ spent'.cancels \in {spent.cancels, spent.cancels + 1}
<1>1. spent.provider \in Nat /\ spent.cancels \in Nat
  BY BoundAssumption DEF Inv, BoundsOK
<1>2. ASSUME NEW c \in Client, ApiStep(c)
      PROVE  UNCHANGED spent
  BY <1>2 DEF ApiStep, ClaimSlot, EnqueueDeduplicated, FindOrCreate, AddPrepare, RecheckPrepare
<1>3. ASSUME NEW w \in Worker, Handle(w)
      PROVE  UNCHANGED spent
  BY <1>3, HandleElsewhere
<1>4. CASE RemoveJobs \/ UNCHANGED vars
  BY <1>1, <1>4 DEF RemoveJobs, vars
<1>5. CASE Environment
  <2>1. ASSUME NEW r \in Revision, SlotExpire(r)
        PROVE  UNCHANGED spent
    BY <2>1 DEF SlotExpire
  <2>2. (\E r \in Revision : SlotExpire(r))
        \/ \E what \in {"edits", "requests", "provider", "infra", "crashes", "cancels"} : Spend(what)
    BY <1>5 DEF Environment, Edit, Request, ProviderFails, InfraFails, CancelRuns, Restart
  <2> QED
    BY <1>1, <2>1, <2>2, SpendCounts
<1> QED
  BY <1>1, <1>2, <1>3, <1>4, <1>5 DEF Next

\* What may disturb a run: a fault repeats a step that has committed, account
\* cancellation removes jobs, and a job fails for good when its attempts are
\* used up, or when its rows were stored under another profile.
Undisturbed ==
    Faults = 0 /\ spent.cancels = 0 /\ spent.provider + 1 < MaxTries /\ Profile = {Primary}

CarriedInv == Undisturbed => Carrying

LEMMA UndisturbedBefore == Inv /\ [Next]_vars /\ Undisturbed' => Undisturbed
<1> SUFFICES ASSUME Inv, [Next]_vars, Undisturbed'
             PROVE  Undisturbed
  OBVIOUS
<1>1. Faults = 0
  BY FaultsGrow DEF Undisturbed
<1>2. spent.cancels = 0 /\ spent.provider + 1 < MaxTries
  BY SpentGrows, LimitAssumption DEF Undisturbed
<1> QED
  BY <1>1, <1>2 DEF Undisturbed

LEMMA EnvironmentCarrying ==
    ASSUME Ground, Inv', FenceStays, Undisturbed, Undisturbed', Environment
    PROVE  Carrying'
<1>1. Inv /\ Whole /\ Carrying /\ Faults = 0 /\ spent.cancels = 0
  BY DEF Ground, Undisturbed
<1>2. ASSUME NEW c \in Client, NEW r \in Revision, Edit(c, r)
      PROVE  Carrying'
  BY <1>1, <1>2, RequestCarrying
<1>3. ASSUME NEW c \in Client, NEW x \in Context, NEW full \in BOOLEAN, Request(c, x, full)
      PROVE  Carrying'
  BY <1>1, <1>3, RequestCarrying
<1>4. ASSUME NEW r \in Revision, SlotExpire(r)
      PROVE  Carrying'
  <2>1. UNCHANGED <<doc, run, batch, row, job, api, worker, removal, spent>>
    BY <1>4 DEF SlotExpire
  <2>2. \A c \in Client, g \in Gen : Adding(c, g)' <=> Adding(c, g)
    BY <2>1 DEF Adding
  <2> QED
    BY <1>1, <2>1, <2>2, QuietCarrying
<1>5. ASSUME NEW w \in Worker, ProviderFails(w)
      PROVE  Carrying'
  <2>1. spent'.provider + 1 < MaxTries
    BY DEF Undisturbed
  <2> QED
    BY <1>5, <2>1, ProviderFailsCarrying
<1>6. ASSUME NEW w \in Worker, InfraFails(w)
      PROVE  FALSE
  BY <1>1, <1>6, SpendFaults DEF InfraFails, Undisturbed
<1>7. ASSUME CancelRuns
      PROVE  FALSE
  <2>1. Spend("cancels")
    BY <1>7 DEF CancelRuns
  <2>2. spent'.cancels = 1
    BY <1>1, <2>1, SpendCounts
  <2> QED
    BY <2>2 DEF Undisturbed
<1>8. ASSUME NEW survives, NEW S, Restart(survives, S)
      PROVE  FALSE
  BY <1>1, <1>8, SpendFaults DEF Restart, Undisturbed
<1> QED
  BY <1>2, <1>3, <1>4, <1>5, <1>6, <1>7, <1>8 DEF Environment

LEMMA NextCarrying == Inv /\ Inv' /\ IndexInv /\ WindowInv /\ CarriedInv /\ [Next]_vars => CarriedInv'
<1> SUFFICES ASSUME Inv, Inv', IndexInv, WindowInv, CarriedInv, [Next]_vars, Undisturbed'
             PROVE  Carrying'
  BY DEF CarriedInv
<1>1. Undisturbed
  BY UndisturbedBefore
<1>2. Ground
  BY <1>1 DEF Ground, Undisturbed, IndexInv, WindowInv, CarriedInv
<1>3. Whole /\ Carrying /\ spent.provider + 1 < MaxTries /\ Profile = {Primary}
  BY <1>1, <1>2 DEF Ground, Undisturbed
<1>4. FenceStays
  BY NextTables DEF TablesStep, FenceKept, FenceStays
<1>5. ASSUME NEW c \in Client, ApiStep(c)
      PROVE  Carrying'
  BY <1>3, <1>4, <1>5, ApiStepCarrying
<1>6. ASSUME NEW w \in Worker, Handle(w)
      PROVE  Carrying'
  BY <1>2, <1>3, <1>4, <1>6, HandleCarrying
<1>7. ASSUME RemoveJobs
      PROVE  FALSE
  BY <1>3, <1>7 DEF RemoveJobs, Carrying, Quiet
<1>8. CASE Environment
  BY <1>1, <1>2, <1>4, <1>8, EnvironmentCarrying
<1>9. CASE UNCHANGED vars
  <2>1. UNCHANGED <<doc, run, batch, row, job, api, worker, removal, spent>>
    BY <1>9 DEF vars
  <2>2. \A c \in Client, g \in Gen : Adding(c, g)' <=> Adding(c, g)
    BY <2>1 DEF Adding
  <2> QED
    BY <1>3, <1>4, <2>1, <2>2, QuietCarrying
<1> QED
  BY <1>5, <1>6, <1>7, <1>8, <1>9 DEF Next

LEMMA InitCarrying == Init => Carrying
<1> SUFFICES ASSUME Init
             PROVE  Carrying
  OBVIOUS
<1>1. /\ \A g \in Gen : run[g] = None /\ job[GraphJob(g)].state = "none"
      /\ \A g \in Gen : job[PrepareJob(g)].state = "none"
      /\ \A g \in Gen, b \in Batch : batch[g][b] = "none" /\ job[EmbedJob(g, b)].state = "none"
      /\ \A w \in Worker : worker[w] = IdleWorker
      /\ \A c \in Client : api[c].pc # "add"
      /\ ~removal
  BY NoJobType, JobIdFacts DEF Init, IdleClient
<1>2. \A w \in Worker : ~Busy(w) /\ worker[w].next = {} /\ \A g \in Gen : ~Preparing(w, g)
  BY <1>1 DEF Busy, IdleWorker, Preparing
<1>3. ASSUME NEW g \in Gen
      PROVE  Statuses(g) /\ Opening(g) /\ OnWay(g)
  <2>1. ~ActiveRun(g) /\ ~Opens(g)
    BY <1>1, <1>2 DEF ActiveRun, Exists, Opens, PrepareOpen, Adding
  <2>2. Chain(g) /\ Single(g) /\ Retries(g)
    BY <1>1, <2>1 DEF Chain, Single, Retries, Token, Live
  <2> QED
    BY <1>1, <2>1, <2>2 DEF Statuses, Opening, OnWay
<1>4. ASSUME NEW w \in Worker
      PROVE  Bare(w) /\ Ending(w)
  BY <1>2 DEF Bare, Ending
<1> QED
  BY <1>1, <1>3, <1>4 DEF Carrying, Quiet

\* A handler carries the run whose job it holds.
LEMMA HandlerCarries ==
    ASSUME Inv, NEW g \in Gen, NEW w \in Worker, Busy(w), G(w) = g
    PROVE  Carried(g)
<1>1. JobOf(w) \in JobId /\ job[JobOf(w)].state = "active" /\ GenOf(JobOf(w)) = g
  BY BusyFacts DEF G
<1> QED
  BY <1>1 DEF Carried

LEMMA CarryingCarried == Inv /\ Carrying => RunCarried
<1> SUFFICES ASSUME Inv, Carrying, NEW g \in Gen, ActiveRun(g)
             PROVE  Carried(g)
  BY DEF RunCarried
<1>1. ~Cancelled(g)
  BY DEF ActiveRun, Cancelled, ActiveStatuses
<1>2. Chain(g)
  BY <1>1 DEF Carrying, OnWay
<1>3. CASE run[g].prepare # "ready"
  <2>1. Opens(g)
    BY <1>3 DEF Carrying, Quiet, Opening
  <2>2. CASE \E c \in Client : Adding(c, g)
    BY <2>2 DEF Adding, Carried
  <2>3. CASE job[PrepareJob(g)].state = "waiting"
    BY <2>3, JobIdFacts DEF Carried
  <2>4. ASSUME NEW w \in Worker, Preparing(w, g)
        PROVE  Carried(g)
    BY <2>4, HandlerCarries DEF Preparing, Busy
  <2> QED
    BY <2>1, <2>2, <2>3, <2>4 DEF Opens, PrepareOpen
<1>4. CASE run[g].prepare = "ready"
  <2>1. ASSUME NEW b \in Batch, Live(EmbedJob(g, b))
        PROVE  Carried(g)
    BY <2>1, JobIdFacts DEF Live, Carried
  <2>2. ASSUME NEW b \in Batch, NEW w \in Worker, Handing(w, g, b)
        PROVE  Carried(g)
    <3>1. Busy(w) /\ G(w) = g
      BY <2>2, JobIdFacts DEF Handing, Inv, QueueOK, OwnsJob
    <3> QED
      BY <3>1, HandlerCarries
  <2>3. ASSUME NEW b \in Batch, batch[g][b] = "processing"
        PROVE  Carried(g)
    BY <1>2, <1>4, <2>1, <2>2, <2>3 DEF Chain
  <2>4. ASSUME NEW w \in Worker, Claiming(w, g)
        PROVE  Carried(g)
    BY <2>4, HandlerCarries DEF Claiming, Busy
  <2>5. CASE \E b \in Batch : batch[g][b] = "pending"
    BY <1>2, <1>4, <2>3, <2>4, <2>5 DEF Chain
  <2>6. CASE AllReady(g)
    <3>1. CASE Closing(g)
      BY <3>1, HandlerCarries, JobIdFacts DEF Closing, Heads, Carried
    <3>2. ASSUME NEW b \in Batch, Token(g, b)
          PROVE  Carried(g)
      <4>1. CASE job[EmbedJob(g, b)].state = "waiting"
        BY <2>1, <4>1 DEF Live
      <4>2. ASSUME NEW w \in Worker, Holds(w, g, b, LastPc)
            PROVE  Carried(g)
        <5>1. Busy(w) /\ G(w) = g
          BY <4>2, JobIdFacts DEF Holds, LastPc, Busy, G
        <5> QED
          BY <5>1, HandlerCarries
      <4> QED
        BY <3>2, <4>1, <4>2 DEF Token
    <3> QED
      BY <1>2, <1>4, <2>6, <3>1, <3>2 DEF Chain
  <2> QED
    BY <2>3, <2>5, <2>6 DEF AllReady, Carrying, Quiet, Statuses
<1> QED
  BY <1>3, <1>4

\* No run is stranded, however requests that start and supersede generations,
\* handlers, provider failures, refused activations and stale jobs interleave:
\* as long as no call of a handler fails and no process dies, no account is
\* cancelled, a job has attempts left for one refusal beyond the provider's
\* failures, and the provider answers with the configured profile.  Each of
\* these is needed: TLC finds a stranded run without any one of them.
THEOREM CarriedCorrect == Spec /\ []Undisturbed => []RunCarried
<1>1. Init => IndexInv /\ WindowInv /\ CarriedInv
  BY InitWhole, InitScheduling, InitCarrying DEF IndexInv, WindowInv, CarriedInv
<1>2. Inv /\ CarriedInv /\ Undisturbed => RunCarried
  BY CarryingCarried DEF CarriedInv
<1> QED
  BY <1>1, <1>2, InitInv, NextInv, NextWhole, NextScheduling, NextCarrying, PTL DEF Spec
=============================================================================
