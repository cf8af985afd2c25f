------------------------- MODULE PipelineTail_proofs -------------------------
(***************************************************************************)
(* Proofs about PipelineTail, for any workers, clients and bounds: types,  *)
(* that a cancelled run stays cancelled, and that a run which is called    *)
(* ready has its stages behind it.                                         *)
(*                                                                         *)
(* None is inductive.  A handler writes what it planned before an await, a *)
(* recovery what it saw: the invariant says what of it still holds, which  *)
(* rests on every job being active for one handler alone.                  *)
(***************************************************************************)
EXTENDS PipelineTail, TLAPS

\* A handler's job is active for it alone, and what it plans can be written.
HandlerInv(w) ==
    /\ At(w, "idle") => worker[w] = IdleWorker
    /\ ~At(w, "idle") =>
        /\ JobOf(w) \in JobId /\ Locked(JobOf(w))
        /\ \A v \in Worker : ~At(v, "idle") /\ JobOf(v) = JobOf(w) => v = w
    /\ At(w, "finWrite") => worker[w].plan \in RunStatus
    /\ worker[w].pc \in {"sumRecord", "sumReady"} => worker[w].plan \in {"ready", "skipped"}

\* A job that may run has an attempt left.
JobInv(j) == Live(j) => job[j].tries < MaxTries

\* The row that the recovery compares with was active, and so is one that equals it.
RecoveryInv ==
    recovery.pc = "claim" =>
        /\ recovery.seen \in Run
        /\ recovery.seen.status \in ActiveStatuses
        /\ recovery.seen.attempts < MaxAttempts

Handlers == \A w \in Worker : HandlerInv(w)
Jobs == \A j \in JobId : JobInv(j)
BaseInv == TypeOK /\ Handlers /\ Jobs /\ RecoveryInv

USE DEF First, Retry, StageOf

-----------------------------------------------------------------------------
(***************************************************************************)
(* The run row                                                             *)
(***************************************************************************)
\* A run row is written to a typed row, and a cancellation stays.
RunKept == run' \in Run /\ (Cancelled => Cancelled')

LEMMA FencedKept ==
    ASSUME TypeOK, NEW row \in Run, Fenced(row)
    PROVE  RunKept
BY DEF TypeOK, Fenced, RunKept, Cancelled

LEMMA SameRun ==
    ASSUME TypeOK, UNCHANGED run
    PROVE  RunKept
BY DEF TypeOK, RunKept, Cancelled

LEMMA SetKept ==
    ASSUME TypeOK, NEW s \in {"graph", "summarize"}, NEW st \in StageStatus, NEW r \in BOOLEAN,
           SetStage(s, st, r)
    PROVE  RunKept
<1>1. [run EXCEPT !.graph = st, !.graphRetryable = r] \in Run
  BY DEF TypeOK, Run
<1>2. [run EXCEPT !.summarize = st, !.summarizeRetryable = r] \in Run
  BY DEF TypeOK, Run
<1> QED BY <1>1, <1>2, FencedKept DEF SetStage

LEMMA AllCancelledRow ==
    ASSUME TypeOK
    PROVE  AllCancelled \in Run /\ AllCancelled.status = "cancelled"
BY DEF TypeOK, Run, AllCancelled, RunStatus, StageStatus

LEMMA FinalTyped ==
    ASSUME NEW r \in Run
    PROVE  DeriveFinalStatus(r) \in RunStatus
<1>1. CASE r.status = "cancelled"
  BY <1>1 DEF DeriveFinalStatus, RunStatus
<1>2. CASE r.status # "cancelled" /\ "failed" \in {r.graph, r.summarize}
  BY <1>2 DEF DeriveFinalStatus, RunStatus
<1>3. CASE r.status # "cancelled" /\ {r.graph, r.summarize} \subseteq {"ready", "skipped"}
  BY <1>3 DEF DeriveFinalStatus, RunStatus
<1>4. CASE /\ r.status # "cancelled" /\ ~("failed" \in {r.graph, r.summarize})
           /\ ~({r.graph, r.summarize} \subseteq {"ready", "skipped"})
  BY <1>4 DEF DeriveFinalStatus, RunStatus
<1> QED BY <1>1, <1>2, <1>3, <1>4

LEMMA FinalReady ==
    ASSUME NEW r \in Run, DeriveFinalStatus(r) = "ready"
    PROVE  {r.graph, r.summarize} \subseteq {"ready", "skipped"}
<1> SUFFICES ASSUME ~({r.graph, r.summarize} \subseteq {"ready", "skipped"}) PROVE FALSE
  OBVIOUS
<1>1. CASE r.status = "cancelled"
  BY <1>1 DEF DeriveFinalStatus
<1>2. CASE r.status # "cancelled" /\ "failed" \in {r.graph, r.summarize}
  BY <1>2 DEF DeriveFinalStatus
<1>3. CASE r.status # "cancelled" /\ ~("failed" \in {r.graph, r.summarize})
  BY <1>3 DEF DeriveFinalStatus
<1> QED BY <1>1, <1>2, <1>3

-----------------------------------------------------------------------------
(***************************************************************************)
(* Jobs                                                                    *)
(***************************************************************************)
LEMMA FirstIsJob ==
    ASSUME NEW s \in Stage
    PROVE  First(s) \in JobId
BY DEF Stage, JobId

LEMMA JobIdShape ==
    ASSUME NEW j \in JobId
    PROVE  /\ j[1] \in Stage
           /\ j[1] = "graph" => <<"summarize", j[2], 0>> \in JobId
BY DEF JobId, Stage

LEMMA RowsTyped ==
    /\ NoJob \in Job /\ NoJob.state = "absent"
    /\ \A n \in 0..MaxRetries : [Added EXCEPT !.requested = n] \in Job
    /\ Added \in Job /\ Added.state = "waiting" /\ Added.tries = 0
    /\ Completed(NoJob) \in Job /\ Completed(NoJob).state = "ended"
BY BoundsAssumption DEF NoJob, Added, Job, Completed

\* Jobs stay typed with attempts left, and none that a worker has is touched
\* but those in own.
JobsKept(own) ==
    /\ job' \in [JobId -> Job]
    /\ \A j \in JobId : JobInv(j)'
    /\ \A j \in JobId : Locked(j) /\ j \notin own => job'[j] = job[j]

LEMMA SameJobs ==
    ASSUME BaseInv, UNCHANGED job
    PROVE  JobsKept({})
BY DEF BaseInv, TypeOK, Jobs, JobInv, Live, JobsKept

LEMMA AddKept ==
    ASSUME BaseInv, NEW j \in JobId, NEW n \in 0..MaxRetries, Add(j, n)
    PROVE  JobsKept({})
<1> DEFINE r == [Added EXCEPT !.requested = n]
<1>1. r \in Job /\ r.tries = 0 /\ r.state = "waiting"
  BY RowsTyped DEF Added
<1> HIDE DEF r
<1>2. (job' = [job EXCEPT ![j] = r] /\ job[j].state = "absent") \/ job' = job
  BY DEF Add, r
<1> QED BY <1>1, <1>2, BoundsAssumption DEF BaseInv, TypeOK, Jobs, JobInv, Live, JobsKept, Locked

LEMMA DropKept ==
    ASSUME BaseInv, NEW j \in JobId, ~Locked(j), job' = [job EXCEPT ![j] = NoJob]
    PROVE  JobsKept({})
BY RowsTyped DEF BaseInv, TypeOK, Jobs, JobInv, Live, JobsKept, Locked

\* What an attempt leaves of its job.
LEMMA EndedRows ==
    ASSUME BaseInv, NEW j \in JobId, Locked(j)
    PROVE  /\ Completed(job[j]) \in Job /\ Completed(job[j]).state = "ended"
           /\ Thrown(job[j]) \in Job /\ Thrown(job[j]).state \in {"waiting", "ended"}
           /\ Thrown(job[j]).state = "waiting" => Thrown(job[j]).tries < MaxTries
<1>1. job[j] \in Job /\ job[j].tries < MaxTries
  BY DEF BaseInv, TypeOK, Jobs, JobInv, Live, Locked
<1>2. job[j].tries + 1 \in 0..MaxTries
  BY <1>1, BoundsAssumption DEF Job
<1>3. Completed(job[j]) \in Job /\ Completed(job[j]).state = "ended"
  BY BoundsAssumption DEF Completed, NoJob, Job
<1>4. Thrown(job[j]) = [job[j] EXCEPT !.state = IF job[j].tries + 1 < MaxTries THEN "waiting" ELSE "ended",
                                      !.tries = job[j].tries + 1]
  BY DEF Thrown
<1> QED BY <1>1, <1>2, <1>3, <1>4 DEF Job

LEMMA EndKept ==
    ASSUME BaseInv, NEW j \in JobId, Locked(j), NEW r \in {Completed(job[j]), Thrown(job[j])},
           job' = [job EXCEPT ![j] = r]
    PROVE  JobsKept({j})
BY EndedRows DEF BaseInv, TypeOK, Jobs, JobInv, Live, JobsKept, Locked

-----------------------------------------------------------------------------
(***************************************************************************)
(* Handlers                                                                *)
(***************************************************************************)
\* Only the handler w moves.
Alone(w) ==
    /\ worker' \in [Worker -> Handler]
    /\ \A v \in Worker \ {w} : worker'[v] = worker[v]

\* It goes on with its job, or has left it.
Moved(w) ==
    /\ Alone(w)
    /\ worker'[w].pc # "idle" /\ worker'[w].job = worker[w].job
    /\ worker'[w].pc = "finWrite" => worker'[w].plan \in RunStatus
    /\ worker'[w].pc \in {"sumRecord", "sumReady"} => worker'[w].plan \in {"ready", "skipped"}
Left(w) == Alone(w) /\ worker'[w] = IdleWorker

Leases == [Stage -> SUBSET Lease]

LEMMA GotoMoves ==
    ASSUME BaseInv, NEW w \in Worker, NEW pc \in WorkerPc \ {"idle"}, Goto(w, pc),
           pc = "finWrite" => worker[w].plan \in RunStatus,
           pc \in {"sumRecord", "sumReady"} => worker[w].plan \in {"ready", "skipped"}
    PROVE  /\ Moved(w)
           /\ worker'[w].plan = worker[w].plan /\ worker'[w].throws = worker[w].throws
           /\ worker'[w].pc = pc
<1>1. worker[w] \in Handler /\ worker' = [worker EXCEPT ![w] = [worker[w] EXCEPT !.pc = pc]]
  BY DEF BaseInv, TypeOK, Goto
<1> DEFINE h == [worker[w] EXCEPT !.pc = pc]
<1>2. h \in Handler /\ h.pc = pc /\ h.job = worker[w].job /\ h.plan = worker[w].plan /\ h.throws = worker[w].throws
  BY <1>1 DEF Handler
<1> HIDE DEF h
<1>3. worker' = [worker EXCEPT ![w] = h]
  BY <1>1 DEF h
<1> QED BY <1>2, <1>3 DEF BaseInv, TypeOK, Moved, Alone

LEMMA KeepMoves ==
    ASSUME BaseInv, NEW w \in Worker, NEW pc \in WorkerPc \ {"idle"},
           NEW plan \in {"none"} \cup Stage \cup RunStatus \cup StageStatus, Keep(w, pc, plan),
           pc = "finWrite" => plan \in RunStatus,
           pc \in {"sumRecord", "sumReady"} => plan \in {"ready", "skipped"}
    PROVE  /\ Moved(w)
           /\ worker'[w].plan = plan /\ worker'[w].throws = worker[w].throws
           /\ worker'[w].pc = pc
<1>1. worker[w] \in Handler /\ worker' = [worker EXCEPT ![w] = [worker[w] EXCEPT !.pc = pc, !.plan = plan]]
  BY DEF BaseInv, TypeOK, Keep
<1> DEFINE h == [worker[w] EXCEPT !.pc = pc, !.plan = plan]
<1>2. h \in Handler /\ h.pc = pc /\ h.job = worker[w].job /\ h.plan = plan /\ h.throws = worker[w].throws
  BY <1>1 DEF Handler
<1> HIDE DEF h
<1>3. worker' = [worker EXCEPT ![w] = h]
  BY <1>1 DEF h
<1> QED BY <1>2, <1>3 DEF BaseInv, TypeOK, Moved, Alone

\* Any other change of a handler's own record, to a place without a plan.
LEMMA RecordMoves ==
    ASSUME BaseInv, NEW w \in Worker, NEW h \in Handler, worker' = [worker EXCEPT ![w] = h],
           h.job = worker[w].job, h.pc \notin {"idle", "finWrite", "sumRecord", "sumReady"}
    PROVE  Moved(w) /\ worker'[w] = h
BY DEF BaseInv, TypeOK, Moved, Alone

LEMMA LeaveLeft ==
    ASSUME BaseInv, NEW w \in Worker, JobOf(w) \in JobId, Leave(w)
    PROVE  Left(w) /\ lease' \in Leases
<1>1. IdleWorker \in Handler
  BY DEF IdleWorker, Handler, WorkerPc
<1>2. JobOf(w)[1] \in Stage
  BY JobIdShape
<1> QED BY <1>1, <1>2 DEF BaseInv, TypeOK, Leave, Left, Alone, Leases

\* The handler ends, and its job is completed, or thrown.
LEMMA EndLeft ==
    ASSUME BaseInv, NEW w \in Worker, ~At(w, "idle"), Complete(w) \/ Throw(w) \/ End(w)
    PROVE  Left(w) /\ lease' \in Leases /\ JobsKept({JobOf(w)})
<1> DEFINE j == JobOf(w)
<1>1. j \in JobId /\ Locked(j)
  BY DEF BaseInv, Handlers, HandlerInv
<1>2. \E r \in {Completed(job[j]), Thrown(job[j])} : job' = [job EXCEPT ![j] = r]
  BY DEF Complete, Throw, End, After
<1>3. JobsKept({j})
  BY <1>1, <1>2, EndKept
<1> QED BY <1>1, <1>3, LeaveLeft DEF Complete, Throw, End

\* What a step of a handler at work does, whatever it does to the run.
Handled(w) ==
    /\ RunKept
    /\ UNCHANGED <<doc, client, host>>
    /\ projected' \in BOOLEAN /\ summarized' \in BOOLEAN
    /\ lease' \in Leases
    /\ spent' \in [retries : 0..MaxRetries, failures : 0..MaxFailures, outages : 0..MaxOutages,
                   crashes : 0..MaxCrashes, stalls : 0..MaxStalls]
    /\ \/ Moved(w) /\ JobsKept({})
       \/ Left(w) /\ JobsKept({JobOf(w)})

LEMMA Spends ==
    ASSUME TypeOK, Fails \/ Outage
    PROVE  spent' \in [retries : 0..MaxRetries, failures : 0..MaxFailures, outages : 0..MaxOutages,
                      crashes : 0..MaxCrashes, stalls : 0..MaxStalls]
BY BoundsAssumption DEF TypeOK, Fails, Outage, Spend

LEMMA Unspent ==
    ASSUME TypeOK, UNCHANGED spent
    PROVE  spent' \in [retries : 0..MaxRetries, failures : 0..MaxFailures, outages : 0..MaxOutages,
                      crashes : 0..MaxCrashes, stalls : 0..MaxStalls]
BY DEF TypeOK

\* The handlers of the graph stage.
LEMMA GraphHandled ==
    ASSUME BaseInv, NEW w \in Worker,
           \/ GraphRead(w) \/ GraphMark(w) \/ Extract(w) \/ Persist(w) \/ Compensate(w)
           \/ GraphDone(w) \/ GraphStale(w) \/ GraphWarned(w) \/ GraphFailed(w)
    PROVE  Handled(w)
<1> USE DEF Handled, At, store, queue, host
<1>t. TypeOK /\ worker[w] \in Handler
  BY DEF BaseInv, TypeOK
<1>r. worker[w].retryable \in BOOLEAN
  BY <1>t DEF Handler
<1>l. (UNCHANGED lease => lease' \in Leases) /\ projected \in BOOLEAN /\ summarized \in BOOLEAN
  BY DEF BaseInv, TypeOK, Leases
<1>1. CASE GraphRead(w)
  <2>1. CASE Complete(w)
    BY <1>1, <2>1, <1>t, <1>l, EndLeft, SameRun, Unspent DEF GraphRead
  <2>2. CASE ~Complete(w)
    <3>1. PICK plan \in {"finalize", "summarize"} : Keep(w, "graphMark", plan)
      BY <1>1, <2>2 DEF GraphRead
    <3>2. Moved(w)
      BY <3>1, KeepMoves DEF WorkerPc, Stage
    <3> QED BY <1>1, <2>2, <3>2, <1>t, <1>l, SameRun, SameJobs, Unspent DEF GraphRead
  <2> QED BY <2>1, <2>2
<1>2. CASE GraphMark(w)
  <2>1. CASE Cancelled
    BY <1>2, <2>1, <1>t, <1>l, EndLeft, SameRun, Unspent DEF GraphMark
  <2>2. CASE ~Cancelled
    <3>1. Moved(w)
      BY <1>2, <2>2, GotoMoves DEF GraphMark, WorkerPc
    <3>2. RunKept
      BY <1>2, <2>2, <1>t, SetKept DEF GraphMark, Set, StageStatus
    <3> QED BY <1>2, <2>2, <3>1, <3>2, <1>t, <1>l, SameJobs, Unspent DEF GraphMark
  <2> QED BY <2>1, <2>2
<1>3. CASE Extract(w)
  <2>0. RunKept /\ (lease' \in Leases \/ ~UNCHANGED lease)
    BY <1>3, <1>t, <1>l, SameRun DEF Extract
  <2>s. spent' \in [retries : 0..MaxRetries, failures : 0..MaxFailures, outages : 0..MaxOutages,
                   crashes : 0..MaxCrashes, stalls : 0..MaxStalls]
    BY <1>3, <1>t, Spends, Unspent DEF Extract
  <2>1. CASE Complete(w)
    BY <1>3, <2>1, <2>0, <2>s, <1>l, EndLeft DEF Extract
  <2>2. CASE ~Complete(w)
    <3>1. ASSUME \E pc \in {"persist", "graphFailed"} : Goto(w, pc)
          PROVE  Moved(w)
      BY <3>1, GotoMoves DEF WorkerPc
    <3>2. ASSUME Throwing(w, "graphThrown", TRUE)
          PROVE  Moved(w)
      <4> DEFINE h == [worker[w] EXCEPT !.pc = "graphThrown", !.retryable = TRUE, !.throws = TRUE]
      <4>1. h \in Handler /\ h.job = worker[w].job /\ h.pc = "graphThrown"
        BY <1>t DEF Handler, WorkerPc
      <4>2. worker' = [worker EXCEPT ![w] = h]
        BY <3>2 DEF Throwing, BaseInv, TypeOK
      <4> QED BY <4>1, <4>2, RecordMoves
    <3>3. ASSUME NEW r \in BOOLEAN,
                 worker' = [worker EXCEPT ![w].pc = "graphWarned", ![w].retryable = r]
          PROVE  Moved(w)
      <4> DEFINE h == [worker[w] EXCEPT !.pc = "graphWarned", !.retryable = r]
      <4>1. h \in Handler /\ h.job = worker[w].job /\ h.pc = "graphWarned"
        BY <1>t DEF Handler, WorkerPc
      <4>2. worker' = [worker EXCEPT ![w] = h]
        BY <3>3 DEF BaseInv, TypeOK
      <4> QED BY <4>1, <4>2, RecordMoves
    <3>4. Moved(w) /\ UNCHANGED <<job, lease>>
      BY <1>3, <2>2, <3>1, <3>2, <3>3 DEF Extract
    <3> QED BY <1>3, <3>4, <2>0, <2>s, <1>l, SameJobs DEF Extract
  <2> QED BY <2>1, <2>2
<1>4. CASE Persist(w)
  <2>1. Moved(w) /\ projected' \in BOOLEAN
    BY <1>4, <1>l, GotoMoves DEF Persist, WorkerPc
  <2> QED BY <1>4, <2>1, <1>t, <1>l, SameRun, SameJobs, Unspent DEF Persist
<1>5. CASE Compensate(w)
  BY <1>5, <1>t, <1>l, EndLeft, SameRun, Unspent DEF Compensate
<1>6. CASE GraphDone(w)
  <2>1. Moved(w) /\ RunKept
    BY <1>6, <1>t, GotoMoves, SetKept DEF GraphDone, Set, StageStatus, WorkerPc
  <2> QED BY <1>6, <2>1, <1>t, <1>l, SameJobs, Unspent DEF GraphDone
<1>7. CASE GraphStale(w)
  <2>1. Moved(w) /\ RunKept
    BY <1>7, <1>t, GotoMoves, SetKept DEF GraphStale, Set, StageStatus, WorkerPc
  <2> QED BY <1>7, <2>1, <1>t, <1>l, SameJobs, Unspent DEF GraphStale
<1>8. CASE GraphWarned(w)
  <2>1. Moved(w) /\ RunKept
    BY <1>8, <1>t, <1>r, GotoMoves, SetKept DEF GraphWarned, SetFailed, StageStatus, WorkerPc
  <2> QED BY <1>8, <2>1, <1>t, <1>l, SameJobs, Unspent DEF GraphWarned
<1>9. CASE GraphFailed(w)
  <2>1. CASE Cancelled
    BY <1>9, <2>1, <1>t, <1>l, EndLeft, SameRun, Unspent DEF GraphFailed
  <2>2. CASE ~Cancelled
    <3> DEFINE h == [worker[w] EXCEPT !.pc = "next", !.plan = "summarize", !.throws = TRUE]
    <3>1. h \in Handler /\ h.job = worker[w].job /\ h.pc = "next"
      BY <1>t DEF Handler, WorkerPc, Stage
    <3>2. worker' = [worker EXCEPT ![w] = h]
      BY <1>9, <2>2 DEF GraphFailed, BaseInv, TypeOK
    <3>3. Moved(w)
      BY <3>1, <3>2, RecordMoves
    <3>4. RunKept
      BY <1>9, <2>2, <1>t, SetKept DEF GraphFailed, SetFailed, StageStatus
    <3> QED BY <1>9, <2>2, <3>3, <3>4, <1>t, <1>l, SameJobs, Unspent DEF GraphFailed
  <2> QED BY <2>1, <2>2
<1> QED BY <1>1, <1>2, <1>3, <1>4, <1>5, <1>6, <1>7, <1>8, <1>9

\* The handlers of the summarize stage.
LEMMA SummaryHandled ==
    ASSUME BaseInv, NEW w \in Worker,
           \/ SummaryStart(w) \/ SummaryCheck(w) \/ SummaryRetry(w) \/ SummaryNext(w)
           \/ SummaryMark(w) \/ Summarize(w) \/ PersistIfCurrent(w) \/ SummaryRecord(w)
           \/ SummaryReady(w) \/ SummaryLost(w) \/ SummaryFailed(w)
    PROVE  Handled(w)
<1> USE DEF Handled, At, store, queue, host
<1>t. TypeOK /\ worker[w] \in Handler
  BY DEF BaseInv, TypeOK
<1>r. worker[w].retryable \in BOOLEAN
  BY <1>t DEF Handler
<1>l. (UNCHANGED lease => lease' \in Leases) /\ projected \in BOOLEAN /\ summarized \in BOOLEAN
  BY DEF BaseInv, TypeOK, Leases
<1>p. worker[w].pc \in {"sumRecord", "sumReady"} => worker[w].plan \in {"ready", "skipped"}
  BY DEF BaseInv, Handlers, HandlerInv
<1>1. ASSUME NEW pc \in {"sumStart", "sumGuard", "sumThrown", "sumNext"},
             NEW next \in {"sumMark", "sumRead", "sumFailed", "next"}, SummaryGuard(w, pc, next)
      PROVE  Handled(w)
  <2>1. CASE Cancelled
    BY <1>1, <2>1, <1>t, <1>l, EndLeft, SameRun, Unspent DEF SummaryGuard
  <2>2. CASE ~Cancelled
    <3>1. Moved(w)
      BY <1>1, <2>2, GotoMoves DEF SummaryGuard, WorkerPc
    <3> QED BY <1>1, <2>2, <3>1, <1>t, <1>l, SameRun, SameJobs, Unspent DEF SummaryGuard
  <2> QED BY <2>1, <2>2
<1>2. CASE SummaryMark(w)
  <2>1. Moved(w) /\ RunKept
    BY <1>2, <1>t, GotoMoves, SetKept DEF SummaryMark, Set, StageStatus, WorkerPc
  <2> QED BY <1>2, <2>1, <1>t, <1>l, SameJobs, Unspent DEF SummaryMark
<1>3. CASE Summarize(w)
  <2>1. CASE \E pc \in {"sumPersist", "sumLost", "sumThrown"} : Goto(w, pc)
    <3>1. Moved(w)
      BY <2>1, GotoMoves DEF WorkerPc
    <3> QED BY <1>3, <3>1, <1>t, <1>l, SameRun, SameJobs, Unspent, Spends DEF Summarize
  <2>2. CASE Keep(w, "sumRecord", "skipped")
    <3>1. Moved(w)
      BY <2>2, KeepMoves DEF WorkerPc, StageStatus
    <3> QED BY <1>3, <3>1, <1>t, <1>l, SameRun, SameJobs, Unspent, Spends DEF Summarize
  <2>3. CASE Throwing(w, "sumThrown", TRUE)
    <3> DEFINE h == [worker[w] EXCEPT !.pc = "sumThrown", !.retryable = TRUE, !.throws = TRUE]
    <3>1. h \in Handler /\ h.job = worker[w].job /\ h.pc = "sumThrown"
      BY <1>t DEF Handler, WorkerPc
    <3>2. worker' = [worker EXCEPT ![w] = h]
      BY <2>3 DEF Throwing, BaseInv, TypeOK
    <3>3. Moved(w)
      BY <3>1, <3>2, RecordMoves
    <3> QED BY <1>3, <3>3, <1>t, <1>l, SameRun, SameJobs, Unspent, Spends DEF Summarize
  <2> QED BY <1>3, <2>1, <2>2, <2>3 DEF Summarize
<1>4. CASE PersistIfCurrent(w)
  <2>1. Moved(w) /\ summarized' \in BOOLEAN
    BY <1>4, <1>l, GotoMoves, KeepMoves DEF PersistIfCurrent, WorkerPc, StageStatus
  <2> QED BY <1>4, <2>1, <1>t, <1>l, SameRun, SameJobs, Unspent DEF PersistIfCurrent
<1>5. CASE SummaryRecord(w)
  <2>1. CASE Cancelled
    BY <1>5, <2>1, <1>t, <1>l, EndLeft, SameRun, Unspent DEF SummaryRecord
  <2>2. CASE ~Cancelled
    <3>1. Moved(w)
      BY <1>5, <2>2, <1>p, GotoMoves DEF SummaryRecord, WorkerPc
    <3> QED BY <1>5, <2>2, <3>1, <1>t, <1>l, SameRun, SameJobs, Unspent DEF SummaryRecord
  <2> QED BY <2>1, <2>2
<1>6. CASE SummaryReady(w)
  <2>1. Moved(w) /\ RunKept
    BY <1>6, <1>p, <1>t, GotoMoves, SetKept DEF SummaryReady, Set, StageStatus, WorkerPc
  <2> QED BY <1>6, <2>1, <1>t, <1>l, SameJobs, Unspent DEF SummaryReady
<1>7. CASE SummaryLost(w)
  <2>1. RunKept
    BY <1>7, <1>t, SetKept DEF SummaryLost, Set, StageStatus
  <2>2. CASE Cancelled
    BY <1>7, <2>1, <2>2, <1>t, <1>l, EndLeft, Unspent DEF SummaryLost
  <2>3. CASE ~Cancelled
    <3>1. Moved(w)
      BY <1>7, <2>3, GotoMoves DEF SummaryLost, WorkerPc
    <3> QED BY <1>7, <2>1, <2>3, <3>1, <1>t, <1>l, SameJobs, Unspent DEF SummaryLost
  <2> QED BY <2>2, <2>3
<1>8. CASE SummaryFailed(w)
  <2>1. Moved(w) /\ RunKept
    BY <1>8, <1>t, <1>r, GotoMoves, SetKept DEF SummaryFailed, SetFailed, StageStatus, WorkerPc
  <2> QED BY <1>8, <2>1, <1>t, <1>l, SameJobs, Unspent DEF SummaryFailed
<1> QED BY <1>1, <1>2, <1>3, <1>4, <1>5, <1>6, <1>7, <1>8
     DEF SummaryStart, SummaryCheck, SummaryRetry, SummaryNext

\* The job that comes next is another one.
LEMMA FollowingIsJob ==
    ASSUME BaseInv, NEW w \in Worker, JobOf(w) \in JobId
    PROVE  /\ Following(w) \in JobId
           /\ JobOf(w)[1] # "finalize" => Following(w) # JobOf(w)
           /\ job[JobOf(w)].requested \in 0..MaxRetries
<1>1. job[JobOf(w)].requested \in 0..MaxRetries
  BY DEF BaseInv, TypeOK, Job
<1>2. <<"finalize", "graph", job[JobOf(w)].requested>> \in JobId /\ First("finalize") \in JobId
  BY <1>1 DEF JobId
<1> QED BY <1>1, <1>2, JobIdShape DEF Following

\* What every job ends with: the next job, the final status, or a cancellation.
LEMMA EndHandled ==
    ASSUME BaseInv, NEW w \in Worker,
           \/ Acquire(w) \/ CancelRun(w) \/ Enqueue(w) \/ Recheck(w)
           \/ FinalizeRead(w) \/ FinalizeWrite(w)
    PROVE  Handled(w)
<1> USE DEF Handled, At, store, queue, host
<1>t. TypeOK /\ worker[w] \in Handler
  BY DEF BaseInv, TypeOK
<1>j. ~At(w, "idle") => JobOf(w) \in JobId /\ Locked(JobOf(w))
  BY DEF BaseInv, Handlers, HandlerInv
<1>l. (UNCHANGED lease => lease' \in Leases) /\ projected \in BOOLEAN /\ summarized \in BOOLEAN
  BY DEF BaseInv, TypeOK, Leases
<1>1. CASE Acquire(w)
  <2>1. Moved(w)
    BY <1>1, GotoMoves DEF Acquire, WorkerPc
  <2>2. lease' \in Leases
    <3>1. JobOf(w)[1] \in Stage /\ <<w, "held">> \in Lease
      BY <1>1, <1>j, JobIdShape DEF Acquire, Lease
    <3>2. lease' = [lease EXCEPT ![JobOf(w)[1]] = @ \cup {<<w, "held">>}]
      BY <1>1 DEF Acquire
    <3>3. lease \in [Stage -> SUBSET Lease]
      BY <1>t DEF TypeOK
    <3> QED BY <3>1, <3>2, <3>3 DEF Leases
  <2> QED BY <1>1, <2>1, <2>2, <1>t, <1>l, SameRun, SameJobs, Unspent DEF Acquire
<1>2. CASE CancelRun(w)
  BY <1>2, <1>t, <1>l, AllCancelledRow, FencedKept, EndLeft, Unspent DEF CancelRun
<1>3. CASE Enqueue(w)
  <2>0. /\ RunKept
        /\ spent' \in [retries : 0..MaxRetries, failures : 0..MaxFailures, outages : 0..MaxOutages,
                      crashes : 0..MaxCrashes, stalls : 0..MaxStalls]
    BY <1>3, <1>t, SameRun, Spends, Unspent DEF Enqueue
  <2>1. CASE End(w) \/ Throw(w)
    BY <1>3, <2>0, <2>1, <1>l, EndLeft DEF Enqueue
  <2>2. CASE Add(Following(w), job[JobOf(w)].requested) /\ Goto(w, "recheck") /\ UNCHANGED lease
    <3>1. JobsKept({}) /\ Moved(w)
      BY <1>3, <2>2, <1>j, FollowingIsJob, AddKept, GotoMoves DEF Enqueue, WorkerPc
    <3> QED BY <1>3, <2>0, <2>2, <3>1, <1>l DEF Enqueue
  <2>3. CASE Goto(w, "graphFailed") /\ UNCHANGED <<job, lease>>
    BY <1>3, <2>0, <2>3, <1>l, SameJobs, GotoMoves DEF Enqueue, WorkerPc
  <2> QED BY <1>3, <2>1, <2>2, <2>3 DEF Enqueue
<1>4. CASE Recheck(w)
  <2> DEFINE own == JobOf(w)
             r == After(w)
             j == Following(w)
             left == [job EXCEPT ![own] = r]
  <2>1. /\ own \in JobId /\ Locked(own) /\ j \in JobId
        /\ r \in {Completed(job[own]), Thrown(job[own])}
    BY <1>4, <1>j, FollowingIsJob DEF Recheck, After
  <2>2. r \in Job /\ (r.state = "waiting" => r.tries < MaxTries) /\ r.state # "active"
    BY <2>1, EndedRows
  <2>3. job' = left \/ (job' = [left EXCEPT ![j] = NoJob] /\ ~Locked(j))
    BY <1>4 DEF Recheck
  <2> HIDE DEF r, j
  <2>4. left \in [JobId -> Job] /\ \A i \in JobId : left[i] = IF i = own THEN r ELSE job[i]
    BY <2>1, <2>2, <1>t DEF TypeOK
  <2> HIDE DEF left
  <2>5. /\ job' \in [JobId -> Job]
        /\ \A i \in JobId : job'[i] = left[i] \/ (job'[i] = NoJob /\ ~Locked(i))
    BY <2>1, <2>3, <2>4, RowsTyped
  <2>6. JobsKept({own})
    BY <2>1, <2>2, <2>4, <2>5, RowsTyped DEF JobsKept, BaseInv, Jobs, JobInv, Live, Locked
  <2>7. Left(w) /\ lease' \in Leases
    BY <1>4, <2>1, LeaveLeft DEF Recheck
  <2> QED BY <1>4, <2>6, <2>7, <1>t, <1>l, SameRun, Unspent DEF Recheck
<1>5. CASE FinalizeRead(w)
  <2>1. DeriveFinalStatus(run) \in RunStatus
    BY <1>t, FinalTyped DEF TypeOK
  <2>2. Moved(w)
    BY <1>5, <2>1, KeepMoves DEF FinalizeRead, WorkerPc
  <2> QED BY <1>5, <2>2, <1>t, <1>l, SameRun, SameJobs, Unspent DEF FinalizeRead
<1>6. CASE FinalizeWrite(w)
  <2>1. worker[w].plan \in RunStatus
    BY <1>6 DEF FinalizeWrite, BaseInv, Handlers, HandlerInv
  <2> DEFINE row == [run EXCEPT !.status = worker[w].plan,
                         !.finalize = IF worker[w].plan = "cancelled" THEN "cancelled" ELSE "ready"]
  <2>2. row \in Run
    BY <2>1, <1>t DEF TypeOK, Run, StageStatus
  <2>3. RunKept
    BY <1>6, <2>2, <1>t, FencedKept DEF FinalizeWrite
  <2> QED BY <1>6, <2>3, <1>t, <1>l, EndLeft, Unspent DEF FinalizeWrite
<1> QED BY <1>1, <1>2, <1>3, <1>4, <1>5, <1>6

LEMMA HandleHandled ==
    ASSUME BaseInv, NEW w \in Worker, Handle(w)
    PROVE  Handled(w)
BY GraphHandled, SummaryHandled, EndHandled DEF Handle

-----------------------------------------------------------------------------
(***************************************************************************)
(* Every step keeps the invariant, and a cancellation                      *)
(***************************************************************************)
\* Handlers are in order when only w moved, and kept its job or left it.
LEMMA HandlersKept ==
    ASSUME BaseInv, NEW w \in Worker, ~At(w, "idle"),
           \/ Moved(w) /\ JobsKept({})
           \/ Left(w) /\ JobsKept({JobOf(w)})
    PROVE  Handlers'
<1> USE DEF HandlerInv, At, JobOf, Locked
<1>w. /\ JobOf(w) \in JobId /\ Locked(JobOf(w))
      /\ \A v \in Worker : ~At(v, "idle") /\ JobOf(v) = JobOf(w) => v = w
  BY DEF BaseInv, Handlers
<1>1. CASE Moved(w) /\ JobsKept({})
  <2>1. HandlerInv(w)'
    BY <1>1, <1>w DEF Moved, Alone, JobsKept
  <2>2. ASSUME NEW v \in Worker \ {w} PROVE HandlerInv(v)'
    <3>1. worker'[v] = worker[v] /\ HandlerInv(v) /\ (~At(v, "idle") => JobOf(v) # JobOf(w))
      BY <1>1, <1>w DEF Moved, Alone, BaseInv, Handlers
    <3>2. /\ JobOf(w)' = JobOf(w)
          /\ \A u \in Worker : JobOf(u)' = JobOf(u) /\ (u = w \/ (At(u, "idle")' <=> At(u, "idle")))
      BY <1>1 DEF Moved, Alone
    <3>3. ~At(v, "idle") => JobOf(v) \in JobId /\ Locked(JobOf(v))'
      BY <1>1, <3>1 DEF JobsKept
    <3> QED BY <3>1, <3>2, <3>3
  <2> QED BY <2>1, <2>2 DEF Handlers
<1>2. CASE Left(w) /\ JobsKept({JobOf(w)})
  <2>1. HandlerInv(w)'
    BY <1>2 DEF Left, IdleWorker
  <2>2. ASSUME NEW v \in Worker \ {w} PROVE HandlerInv(v)'
    <3>1. worker'[v] = worker[v] /\ HandlerInv(v) /\ (~At(v, "idle") => JobOf(v) # JobOf(w))
      BY <1>2, <1>w DEF Left, Alone, BaseInv, Handlers
    <3>2. /\ At(w, "idle")'
          /\ \A u \in Worker \ {w} : JobOf(u)' = JobOf(u) /\ (At(u, "idle")' <=> At(u, "idle"))
      BY <1>2 DEF Left, Alone, IdleWorker
    <3>3. ~At(v, "idle") => JobOf(v) \in JobId /\ Locked(JobOf(v))'
      BY <1>2, <3>1 DEF JobsKept
    <3> QED BY <3>1, <3>2, <3>3
  <2> QED BY <2>1, <2>2 DEF Handlers
<1> QED BY <1>1, <1>2

\* Handlers that rest are in order while the jobs that they have are not touched.
LEMMA HandlersRest ==
    ASSUME BaseInv, UNCHANGED worker, JobsKept({})
    PROVE  Handlers'
BY DEF BaseInv, Handlers, HandlerInv, At, JobOf, Locked, JobsKept

LEMMA RecoveryRests ==
    ASSUME BaseInv, UNCHANGED recovery
    PROVE  RecoveryInv'
BY DEF BaseInv, RecoveryInv

LEMMA HandleKept ==
    ASSUME BaseInv, NEW w \in Worker, ~At(w, "idle"), Handle(w)
    PROVE  BaseInv' /\ RunKept
<1>1. Handled(w)
  BY HandleHandled
<1>2. /\ worker' \in [Worker -> Handler]
      /\ job' \in [JobId -> Job] /\ Jobs'
  BY <1>1 DEF Handled, Moved, Left, Alone, JobsKept, Jobs
<1>3. TypeOK'
  BY <1>1, <1>2 DEF Handled, RunKept, Leases, BaseInv, TypeOK, host
<1>4. Handlers' /\ RecoveryInv'
  BY <1>1, HandlersKept, RecoveryRests DEF Handled, host
<1> QED BY <1>1, <1>2, <1>3, <1>4 DEF BaseInv, Handled

\* A free handler takes a job that waits.
LEMMA TakeKept ==
    ASSUME BaseInv, NEW w \in Worker, NEW j \in JobId, Take(w, j)
    PROVE  BaseInv'
<1> DEFINE h == [IdleWorker EXCEPT !.pc = "slot", !.job = j]
           r == [job[j] EXCEPT !.state = "active"]
<1>1. h \in Handler /\ h.pc = "slot" /\ h.job = j
  BY DEF IdleWorker, Handler, WorkerPc
<1>2. r \in Job /\ r.state = "active" /\ r.tries < MaxTries /\ job[j].state = "waiting"
  BY DEF Take, BaseInv, TypeOK, Jobs, JobInv, Live, Job
<1>3. worker' = [worker EXCEPT ![w] = h] /\ job' = [job EXCEPT ![j] = r]
  BY DEF Take
<1> HIDE DEF h, r
<1>4. worker' \in [Worker -> Handler] /\ job' \in [JobId -> Job]
  BY <1>1, <1>2, <1>3 DEF BaseInv, TypeOK
<1>5. Jobs'
  BY <1>2, <1>3 DEF BaseInv, TypeOK, Jobs, JobInv, Live
<1>6. TypeOK'
  BY <1>4 DEF Take, BaseInv, TypeOK, store, host
<1>7. ASSUME NEW v \in Worker PROVE HandlerInv(v)'
  <2> USE DEF HandlerInv, At, JobOf, Locked
  <2>1. CASE v = w
    <3>1. worker'[v] = h /\ job'[j].state = "active"
      BY <1>1, <1>2, <1>3, <2>1 DEF BaseInv, TypeOK
    <3>2. \A u \in Worker \ {w} : ~At(u, "idle")' => JobOf(u)' # j
      BY <1>2, <1>3 DEF BaseInv, TypeOK, Handlers
    <3> QED BY <1>1, <2>1, <3>1, <3>2
  <2>2. CASE v # w
    <3>1. worker'[v] = worker[v] /\ HandlerInv(v)
      BY <1>3, <2>2 DEF BaseInv, TypeOK, Handlers
    <3>2. ~At(v, "idle") => JobOf(v) # j /\ Locked(JobOf(v))'
      BY <1>2, <1>3, <3>1 DEF BaseInv, TypeOK
    <3>3. /\ JobOf(w)' = j
          /\ \A u \in Worker \ {w} : JobOf(u)' = JobOf(u) /\ (At(u, "idle")' <=> At(u, "idle"))
      BY <1>1, <1>3 DEF BaseInv, TypeOK
    <3> QED BY <2>2, <3>1, <3>2, <3>3
  <2> QED BY <2>1, <2>2
<1>8. RecoveryInv'
  BY RecoveryRests DEF Take, host
<1> QED BY <1>5, <1>6, <1>7, <1>8 DEF BaseInv, Handlers

\* A step that leaves the run, jobs, handlers and the recovery alone, but leases.
LEMMA LapseKept ==
    ASSUME BaseInv, NEW s \in Stage, NEW l \in Lease, Lapse(s, l)
    PROVE  BaseInv'
<1>1. lease' \in [Stage -> SUBSET Lease]
  BY DEF Lapse, BaseInv, TypeOK
<1>2. spent' \in [retries : 0..MaxRetries, failures : 0..MaxFailures, outages : 0..MaxOutages,
                 crashes : 0..MaxCrashes, stalls : 0..MaxStalls]
  BY BoundsAssumption DEF Lapse, BaseInv, TypeOK, Spend
<1>3. TypeOK'
  BY <1>1, <1>2 DEF Lapse, BaseInv, TypeOK, store, host
<1> QED BY <1>3, SameJobs, HandlersRest, RecoveryRests DEF Lapse, BaseInv, JobsKept, Jobs, host

\* What a request to retry does to the run, to jobs and to itself.
ClientStep ==
    /\ RunKept
    /\ JobsKept({})
    /\ client' \in [Client -> Request]
    /\ UNCHANGED <<doc, store, lease, worker, host>>
    /\ spent' \in [retries : 0..MaxRetries, failures : 0..MaxFailures, outages : 0..MaxOutages,
                  crashes : 0..MaxCrashes, stalls : 0..MaxStalls]

LEMMA ClientKept ==
    ASSUME BaseInv, ClientStep
    PROVE  BaseInv' /\ RunKept
<1>1. TypeOK'
  BY DEF ClientStep, RunKept, JobsKept, BaseInv, TypeOK, store, host
<1> QED BY <1>1, HandlersRest, RecoveryRests DEF ClientStep, BaseInv, JobsKept, Jobs, host

LEMMA AskTyped ==
    ASSUME TypeOK, NEW c \in Client, NEW r \in Request, Ask(c, r)
    PROVE  client' \in [Client -> Request]
BY DEF TypeOK, Ask

LEMMA IdleTyped == IdleClient \in Request
BY BoundsAssumption DEF IdleClient, Request, ClientPc

LEMMA ForwardTyped ==
    ASSUME TypeOK, NEW c \in Client, NEW pc \in ClientPc, Forward(c, pc)
    PROVE  client' \in [Client -> Request]
<1>1. [client[c] EXCEPT !.pc = pc] \in Request
  BY DEF TypeOK, Request
<1> QED BY <1>1, AskTyped DEF Forward

LEMMA EntryIsJob ==
    ASSUME NEW c \in Client
    PROVE  Entry(c) \in JobId
BY DEF Entry, JobId

LEMMA RetryKept ==
    ASSUME BaseInv, NEW c \in Client, RetryClaim(c) \/ Continue(c)
    PROVE  ClientStep
<1> USE DEF ClientStep, store, queue, host
<1>t. TypeOK /\ client[c] \in Request
  BY DEF BaseInv, TypeOK
<1>1. CASE RetryClaim(c)
  <2> DEFINE Asked(pc, g, s, d, t) ==
               Ask(c, [pc |-> pc, graph |-> g, summarize |-> s, deduplicated |-> d,
                       started |-> t, number |-> spent.retries + 1])
  <2>1. /\ spent.retries + 1 \in 0..MaxRetries
        /\ spent' \in [retries : 0..MaxRetries, failures : 0..MaxFailures, outages : 0..MaxOutages,
                      crashes : 0..MaxCrashes, stalls : 0..MaxStalls]
    BY <1>1, <1>t, BoundsAssumption DEF RetryClaim, TypeOK, Spend
  <2>2. ASSUME NEW pc \in ClientPc, NEW g \in BOOLEAN, NEW s \in BOOLEAN, NEW d \in BOOLEAN,
               NEW t \in BOOLEAN, Asked(pc, g, s, d, t)
        PROVE  client' \in [Client -> Request]
    <3>1. [pc |-> pc, graph |-> g, summarize |-> s, deduplicated |-> d,
           started |-> t, number |-> spent.retries + 1] \in Request
      BY <2>1 DEF Request
    <3> QED BY <2>2, <3>1, <1>t, AskTyped
  <2> DEFINE graph == run.graph = "failed" /\ run.graphRetryable
             summarize == run.summarize = "failed" /\ run.summarizeRetryable
             row == [run EXCEPT !.status = "processing", !.finalize = "pending",
                                !.graph = IF graph THEN "retrying" ELSE @,
                                !.graphRetryable = @ /\ ~graph,
                                !.summarize = IF summarize THEN "retrying" ELSE @,
                                !.summarizeRetryable = @ /\ ~summarize]
  <2>3. CASE /\ run.status = "ready_with_warnings" /\ run' = row
             /\ Asked(IF graph THEN "dropGraph" ELSE "dropSummarize", graph, summarize, FALSE, FALSE)
    <3>1. graph \in BOOLEAN /\ summarize \in BOOLEAN
      OBVIOUS
    <3>2. row \in Run
      BY <1>t DEF TypeOK, Run, RunStatus, StageStatus
    <3>3. RunKept
      BY <2>3, <3>2 DEF RunKept, Cancelled
    <3> HIDE DEF graph, summarize, row
    <3>4. client' \in [Client -> Request]
      BY <2>2, <2>3, <3>1 DEF ClientPc
    <3> QED BY <1>1, <2>1, <3>3, <3>4, SameJobs DEF RetryClaim
  <2> HIDE DEF Asked
  <2> DEFINE atGraph == run.graph \in ActiveStatuses
             atSummary == run.summarize \in ActiveStatuses
             begun == "processing" \in {run.graph, run.summarize}
  <2>4. CASE /\ UNCHANGED run
             /\ Ask(c, [pc |-> "look", graph |-> atGraph, summarize |-> atSummary,
                        deduplicated |-> TRUE, number |-> spent.retries + 1,
                        started |-> begun])
    <3>1. atGraph \in BOOLEAN /\ atSummary \in BOOLEAN /\ begun \in BOOLEAN
      OBVIOUS
    <3> HIDE DEF atGraph, atSummary, begun
    <3>2. Asked("look", atGraph, atSummary, TRUE, begun)
      BY <2>4 DEF Asked
    <3>3. client' \in [Client -> Request]
      BY <2>2, <3>1, <3>2 DEF ClientPc
    <3> QED BY <1>1, <2>1, <2>4, <3>3, <1>t, SameRun, SameJobs DEF RetryClaim
  <2>5. \/ /\ run.status = "ready_with_warnings" /\ run' = row
           /\ Ask(c, [pc |-> IF graph THEN "dropGraph" ELSE "dropSummarize", graph |-> graph,
                      summarize |-> summarize, deduplicated |-> FALSE, started |-> FALSE,
                      number |-> spent.retries + 1])
        \/ /\ UNCHANGED run
           /\ Ask(c, [pc |-> "look", graph |-> atGraph, summarize |-> atSummary,
                      deduplicated |-> TRUE, number |-> spent.retries + 1,
                      started |-> begun])
    BY <1>1, Zenon DEF RetryClaim
  <2> QED BY <2>3, <2>4, <2>5 DEF Asked
<1>u. ASSUME Unclaim(c) PROVE JobsKept({}) /\ client' \in [Client -> Request]
  <2>1. [client[c] EXCEPT !.pc = "restore"] \in Request
    BY <1>t DEF Request, ClientPc
  <2> QED BY <1>u, <2>1, <1>t, IdleTyped, AskTyped, SameJobs DEF Unclaim
<1>v. ASSUME Outage \/ UNCHANGED spent
      PROVE  spent' \in [retries : 0..MaxRetries, failures : 0..MaxFailures, outages : 0..MaxOutages,
                         crashes : 0..MaxCrashes, stalls : 0..MaxStalls]
  BY <1>v, <1>t, Spends, Unspent
<1>2. CASE RetryDrop(c)
  <2>1. (\E s \in Stage, pc \in ClientPc : Remove(First(s)) /\ Forward(c, pc)) \/ Unclaim(c)
    BY <1>2 DEF RetryDrop, Stage, ClientPc
  <2>2. JobsKept({}) /\ client' \in [Client -> Request]
    BY <2>1, <1>t, <1>u, FirstIsJob, DropKept, SameJobs, ForwardTyped DEF Remove
  <2> QED BY <1>2, <2>2, <1>t, <1>v, SameRun DEF RetryDrop
<1>3. CASE RetryLook(c)
  <2>1. JobsKept({})
    BY <1>3, <1>u, EntryIsJob, DropKept, SameJobs DEF RetryLook, Locked
  <2>2. client' \in [Client -> Request]
    BY <1>3, <1>t, <1>u, IdleTyped, AskTyped, ForwardTyped DEF RetryLook, ClientPc
  <2> QED BY <1>3, <2>1, <2>2, <1>t, <1>v, SameRun DEF RetryLook
<1>4. CASE RetryAdd(c)
  <2>1. JobsKept({})
    BY <1>4, <1>t, <1>u, EntryIsJob, AddKept, SameJobs DEF RetryAdd, Request
  <2>2. client' \in [Client -> Request]
    BY <1>4, <1>t, <1>u, IdleTyped, AskTyped DEF RetryAdd
  <2> QED BY <1>4, <2>1, <2>2, <1>t, <1>v, SameRun DEF RetryAdd
<1>5. CASE RetryRestore(c)
  <2> DEFINE graph == client[c].graph
             summarize == client[c].summarize
             row == [run EXCEPT !.status = "ready_with_warnings", !.finalize = "ready",
                                !.graph = IF graph THEN "failed" ELSE @,
                                !.graphRetryable = @ \/ graph,
                                !.summarize = IF summarize THEN "failed" ELSE @,
                                !.summarizeRetryable = @ \/ summarize]
  <2>1. graph \in BOOLEAN /\ summarize \in BOOLEAN
    BY <1>t DEF Request
  <2> HIDE DEF graph, summarize
  <2>2. row \in Run
    BY <1>t, <2>1 DEF TypeOK, Run, RunStatus, StageStatus
  <2>3. run' = IF run.status # "processing" THEN run ELSE row
    BY <1>5 DEF RetryRestore, graph, summarize
  <2>4. RunKept
    BY <2>2, <2>3, <1>t DEF RunKept, Cancelled, TypeOK
  <2>5. client' \in [Client -> Request]
    BY <1>5, <1>t, IdleTyped, AskTyped DEF RetryRestore
  <2> QED BY <1>5, <2>4, <2>5, <1>t, SameJobs, Unspent DEF RetryRestore
<1> QED BY <1>1, <1>2, <1>3, <1>4, <1>5 DEF Continue

\* Edits, cancellations, and a crash.
LEMMA EnvironmentKept ==
    ASSUME BaseInv,
           \/ Edit \/ Replace \/ Supersede \/ CancelAccount
           \/ \E j \in JobId : RemoveWaiting(j)
    PROVE  BaseInv' /\ RunKept
<1> USE DEF store, queue, host
<1>t. TypeOK
  BY DEF BaseInv
<1>1. RunKept
  <2>1. CASE Supersede
    BY <2>1, <1>t DEF Supersede, RunKept, Cancelled, TypeOK, Run, RunStatus
  <2>2. CASE CancelAccount
    BY <2>2, <1>t, AllCancelledRow DEF CancelAccount, RunKept, Cancelled, TypeOK
  <2>3. CASE UNCHANGED run
    BY <2>3, <1>t, SameRun
  <2> QED BY <2>1, <2>2, <2>3 DEF Edit, Replace, RemoveWaiting
<1>2. JobsKept({})
  BY DropKept, SameJobs DEF Edit, Replace, Supersede, CancelAccount, RemoveWaiting, Locked
<1>3. TypeOK'
  BY <1>1, <1>2, <1>t DEF RunKept, JobsKept, TypeOK, Edit, Replace, Supersede, CancelAccount, RemoveWaiting
<1>4. Handlers' /\ RecoveryInv'
  BY <1>2, HandlersRest, RecoveryRests DEF Edit, Replace, Supersede, CancelAccount, RemoveWaiting
<1> QED BY <1>1, <1>2, <1>3, <1>4 DEF BaseInv, JobsKept, Jobs

LEMMA CrashKept ==
    ASSUME BaseInv, Crash
    PROVE  BaseInv'
<1>1. IdleWorker \in Handler /\ IdleWorker.pc = "idle" /\ Off.pc = "off" /\ Off.stage = "graph" /\ Off.seen = None
  BY DEF IdleWorker, Handler, WorkerPc, Off
<1>2. worker' \in [Worker -> Handler] /\ client' \in [Client -> Request]
  BY <1>1, IdleTyped DEF Crash
<1>3. job' \in [JobId -> Job] /\ Jobs'
  <2>1. CASE job' = [j \in JobId |-> NoJob]
    BY <2>1, RowsTyped DEF Jobs, JobInv, Live
  <2>2. CASE job' = [j \in JobId |-> [job[j] EXCEPT !.state = IF @ = "active" THEN "waiting" ELSE @]]
    <3>1. ASSUME NEW j \in JobId
          PROVE  job'[j] \in Job /\ (Live(j)' => job'[j].tries < MaxTries)
      <4> DEFINE r == [job[j] EXCEPT !.state = IF @ = "active" THEN "waiting" ELSE @]
      <4>1. job[j] \in Job /\ JobInv(j)
        BY DEF BaseInv, TypeOK, Jobs
      <4>2. r \in Job /\ (r.state \in {"waiting", "active"} => Live(j)) /\ r.tries = job[j].tries
        BY <4>1 DEF Job, Live
      <4>3. job'[j] = r
        BY <2>2
      <4> QED BY <4>1, <4>2, <4>3 DEF JobInv, Live
    <3>2. job' \in [JobId -> Job]
      BY <2>2, <3>1
    <3> QED BY <3>1, <3>2 DEF Jobs, JobInv
  <2> QED BY <2>1, <2>2 DEF Crash
<1>4. lease' \in [Stage -> SUBSET Lease]
  <2>1. CASE lease' = [s \in Stage |-> {}]
    BY <2>1
  <2>2. CASE lease' = [s \in Stage |-> {<<l[1], "left">> : l \in lease[s]}]
    BY <2>2 DEF BaseInv, TypeOK, Lease
  <2> QED BY <2>1, <2>2 DEF Crash
<1>5. recovery' \in [pc : RecoveryPc, stage : Stage, seen : Run \cup {None}] /\ recovery'.pc = "find"
  BY DEF Crash, Off, RecoveryPc, Stage
<1>6. spent' \in [retries : 0..MaxRetries, failures : 0..MaxFailures, outages : 0..MaxOutages,
                 crashes : 0..MaxCrashes, stalls : 0..MaxStalls]
  BY BoundsAssumption DEF Crash, Spend, BaseInv, TypeOK
<1>7. TypeOK'
  BY <1>2, <1>3, <1>4, <1>5, <1>6 DEF Crash, BaseInv, TypeOK, store
<1>8. Handlers'
  BY <1>1 DEF Crash, Handlers, HandlerInv, At
<1> QED BY <1>3, <1>5, <1>7, <1>8 DEF BaseInv, RecoveryInv

\* The recovery: a claim writes only a row that equals the active one it saw.
LEMMA RecoveryKept ==
    ASSUME BaseInv, RecoveryStep
    PROVE  BaseInv' /\ (RunKept \/ RecoverExhaust)
<1> USE DEF store, queue, host
<1>t. TypeOK /\ run \in Run /\ recovery.stage \in Stage /\ recovery.pc \in RecoveryPc
  BY DEF BaseInv, TypeOK
<1> DEFINE Typed == recovery' \in [pc : RecoveryPc, stage : Stage, seen : Run \cup {None}]
<1>o. Off \in [pc : RecoveryPc, stage : Stage, seen : Run \cup {None}] /\ Off.pc = "off"
  BY DEF Off, RecoveryPc, Stage
<1>1. CASE RecoverFind
  <2>1. RunKept /\ JobsKept({}) /\ UNCHANGED worker
    BY <1>1, <1>t, SameRun, SameJobs DEF RecoverFind
  <2>2. CASE recovery' = Off
    BY <1>1, <2>1, <2>2, <1>t, <1>o, HandlersRest
    DEF RecoverFind, Recover, RunKept, JobsKept, Jobs, BaseInv, TypeOK, RecoveryInv
  <2>3. CASE /\ run.status \in ActiveStatuses
             /\ recovery' = [pc |-> IF run.attempts < MaxAttempts THEN "claim" ELSE "exhaust",
                             stage |-> RecoveryStage, seen |-> run]
             /\ RecoveryStage # "none"
    <3>1. RecoveryStage \in Stage
      BY <2>3 DEF RecoveryStage, Stage
    <3>2. Typed /\ RecoveryInv'
      BY <2>3, <3>1, <1>t DEF RecoveryPc, RecoveryInv
    <3>3. TypeOK'
      BY <1>1, <2>1, <3>2, <1>t DEF RecoverFind, Recover, RunKept, JobsKept, TypeOK
    <3> QED BY <2>1, <3>2, <3>3, HandlersRest DEF BaseInv, JobsKept, Jobs
  <2> QED BY <1>1, <2>2, <2>3 DEF RecoverFind, Recover
<1>2. CASE RecoverClaim
  <2>1. JobsKept({}) /\ UNCHANGED worker /\ recovery.pc = "claim"
    BY <1>2, SameJobs DEF RecoverClaim
  <2>2. RunKept
    <3>1. CASE run = recovery.seen
      <4>1. run.status \in ActiveStatuses /\ run.attempts < MaxAttempts
        BY <2>1, <3>1 DEF BaseInv, RecoveryInv
      <4>2. run.attempts + 1 \in 0..MaxAttempts
        BY <4>1, <1>t, BoundsAssumption DEF Run
      <4>3. run' = [run EXCEPT !.status = "retrying", ![recovery.stage] = "retrying", !.attempts = @ + 1]
        BY <1>2, <3>1 DEF RecoverClaim
      <4>4. CASE recovery.stage = "graph"
        <5>1. run' = [run EXCEPT !.status = "retrying", !.graph = "retrying", !.attempts = @ + 1]
          BY <4>3, <4>4
        <5> QED BY <4>1, <4>2, <5>1, <1>t DEF RunKept, Cancelled, ActiveStatuses, Run, RunStatus, StageStatus
      <4>5. CASE recovery.stage = "summarize"
        <5>1. run' = [run EXCEPT !.status = "retrying", !.summarize = "retrying", !.attempts = @ + 1]
          BY <4>3, <4>5
        <5> QED BY <4>1, <4>2, <5>1, <1>t DEF RunKept, Cancelled, ActiveStatuses, Run, RunStatus, StageStatus
      <4>6. CASE recovery.stage = "finalize"
        <5>1. run' = [run EXCEPT !.status = "retrying", !.finalize = "retrying", !.attempts = @ + 1]
          BY <4>3, <4>6
        <5> QED BY <4>1, <4>2, <5>1, <1>t DEF RunKept, Cancelled, ActiveStatuses, Run, RunStatus, StageStatus
      <4> QED BY <4>4, <4>5, <4>6, <1>t DEF Stage
    <3>2. CASE run # recovery.seen
      BY <1>2, <3>2, <1>t, SameRun DEF RecoverClaim
    <3> QED BY <3>1, <3>2
  <2>3. Typed /\ RecoveryInv'
    BY <1>2, <1>t, <1>o DEF RecoverClaim, Recover, RecoveryPc, RecoveryInv, TypeOK
  <2>4. TypeOK'
    BY <1>2, <2>1, <2>2, <2>3, <1>t DEF RecoverClaim, Recover, RunKept, JobsKept, TypeOK
  <2> QED BY <2>1, <2>2, <2>3, <2>4, HandlersRest DEF BaseInv, JobsKept, Jobs
<1>3. CASE RecoverExhaust
  <2>1. JobsKept({}) /\ UNCHANGED worker
    BY <1>3, SameJobs DEF RecoverExhaust
  <2>2. run' \in Run
    <3>1. run' = [run EXCEPT !.status = "failed", ![recovery.stage] = "failed"]
      BY <1>3 DEF RecoverExhaust
    <3>2. CASE recovery.stage = "graph"
      <4>1. run' = [run EXCEPT !.status = "failed", !.graph = "failed"]
        BY <3>1, <3>2
      <4> QED BY <4>1, <1>t DEF Run, RunStatus, StageStatus
    <3>3. CASE recovery.stage = "summarize"
      <4>1. run' = [run EXCEPT !.status = "failed", !.summarize = "failed"]
        BY <3>1, <3>3
      <4> QED BY <4>1, <1>t DEF Run, RunStatus, StageStatus
    <3>4. CASE recovery.stage = "finalize"
      <4>1. run' = [run EXCEPT !.status = "failed", !.finalize = "failed"]
        BY <3>1, <3>4
      <4> QED BY <4>1, <1>t DEF Run, RunStatus, StageStatus
    <3> QED BY <3>2, <3>3, <3>4, <1>t DEF Stage
  <2>3. Typed /\ RecoveryInv'
    BY <1>3, <1>o DEF RecoverExhaust, Recover, RecoveryInv
  <2>4. TypeOK'
    BY <1>3, <2>1, <2>2, <2>3, <1>t DEF RecoverExhaust, Recover, JobsKept, TypeOK
  <2> QED BY <1>3, <2>1, <2>3, <2>4, HandlersRest DEF BaseInv, JobsKept, Jobs
<1>4. CASE RecoverAdd
  <2>1. JobsKept({}) /\ UNCHANGED worker /\ RunKept
    BY <1>4, <1>t, SameRun, FirstIsJob, AddKept, BoundsAssumption DEF RecoverAdd
  <2>2. Typed /\ RecoveryInv'
    BY <1>4, <1>o DEF RecoverAdd, Recover, RecoveryInv
  <2>3. TypeOK'
    BY <1>4, <2>1, <2>2, <1>t DEF RecoverAdd, Recover, JobsKept, RunKept, TypeOK
  <2> QED BY <2>1, <2>2, <2>3, HandlersRest DEF BaseInv, JobsKept, Jobs
<1> QED BY <1>1, <1>2, <1>3, <1>4 DEF RecoveryStep

LEMMA BaseInit ==
    ASSUME Init
    PROVE  BaseInv
<1>1. run \in Run
  BY BoundsAssumption DEF Init, Run, RunStatus, StageStatus
<1>2. IdleWorker \in Handler /\ IdleWorker.pc = "idle"
  BY DEF IdleWorker, Handler, WorkerPc
<1>3. worker \in [Worker -> Handler] /\ Handlers
  BY <1>2 DEF Init, Handlers, HandlerInv, At
<1>4. job \in [JobId -> Job] /\ Jobs
  BY RowsTyped, BoundsAssumption DEF Init, Jobs, JobInv, Live
<1>5. /\ client \in [Client -> Request] /\ lease \in [Stage -> SUBSET Lease]
      /\ recovery \in [pc : RecoveryPc, stage : Stage, seen : Run \cup {None}]
      /\ recovery.pc = "off"
  BY IdleTyped DEF Init, Off, RecoveryPc, Stage
<1>6. spent \in [retries : 0..MaxRetries, failures : 0..MaxFailures, outages : 0..MaxOutages,
                crashes : 0..MaxCrashes, stalls : 0..MaxStalls]
  BY BoundsAssumption DEF Init
<1> QED BY <1>1, <1>3, <1>4, <1>5, <1>6 DEF Init, BaseInv, TypeOK, RecoveryInv

\* A handler that steps is at work.
LEMMA HandlesAtWork ==
    ASSUME NEW w \in Worker, Handle(w)
    PROVE  ~At(w, "idle")
<1>1. worker[w].pc # "idle"
  BY DEF Handle, At, Acquire, CancelRun, Enqueue, Recheck, GraphRead, GraphMark, Extract, Persist,
         Compensate, GraphDone, GraphStale, GraphWarned, GraphFailed, SummaryStart, SummaryCheck,
         SummaryRetry, SummaryNext, SummaryGuard, SummaryMark, Summarize, PersistIfCurrent,
         SummaryRecord, SummaryReady, SummaryLost, SummaryFailed, FinalizeRead, FinalizeWrite
<1> QED BY <1>1 DEF At

LEMMA BaseNext ==
    ASSUME BaseInv, [Next]_vars
    PROVE  BaseInv' /\ (RunKept \/ RecoverExhaust)
<1>0. UNCHANGED run => RunKept
  BY SameRun DEF BaseInv
<1>1. ASSUME NEW w \in Worker, Handle(w) PROVE BaseInv' /\ RunKept
  BY <1>1, HandlesAtWork, HandleKept
<1>2. ASSUME NEW w \in Worker, NEW j \in JobId, Take(w, j) PROVE BaseInv' /\ RunKept
  BY <1>2, <1>0, TakeKept DEF Take
<1>3. ASSUME NEW s \in Stage, NEW l \in Lease, Lapse(s, l) PROVE BaseInv' /\ RunKept
  BY <1>3, <1>0, LapseKept DEF Lapse
<1>4. ASSUME NEW c \in Client, RetryClaim(c) \/ Continue(c) PROVE BaseInv' /\ RunKept
  BY <1>4, RetryKept, ClientKept
<1>5. CASE Edit \/ Replace \/ Supersede \/ CancelAccount \/ \E j \in JobId : RemoveWaiting(j)
  BY <1>5, EnvironmentKept
<1>6. CASE Crash
  BY <1>6, <1>0, CrashKept DEF Crash
<1>7. CASE RecoveryStep
  BY <1>7, RecoveryKept
<1>8. CASE UNCHANGED vars
  <2>1. BaseInv' <=> BaseInv
    BY <1>8 DEF vars, store, queue, host, BaseInv, TypeOK, Handlers, HandlerInv, Jobs, JobInv, Live,
                RecoveryInv, At, JobOf, Locked
  <2> QED BY <1>8, <2>1, <1>0 DEF vars
<1> QED BY <1>1, <1>2, <1>3, <1>4, <1>5, <1>6, <1>7, <1>8 DEF Next

LEMMA BaseCorrect == Spec => []BaseInv
BY BaseInit, BaseNext, PTL DEF Spec

\* The state keeps its types, and no job is tried more often than it may be.
THEOREM TypeCorrect == Spec => []TypeOK
BY BaseCorrect, PTL DEF BaseInv

\* A cancelled run stays cancelled: handlers, finalizations, retry requests and
\* claims of the recovery write behind the fence or compare the row they saw.
THEOREM CancelledCorrect == Spec => CancelledStays
<1>1. BaseInv /\ [Next]_vars => [Cancelled => run'.status = "cancelled" \/ RecoverExhaust]_vars
  BY BaseNext DEF RunKept, Cancelled
<1> QED BY <1>1, BaseCorrect, PTL DEF Spec, CancelledStays

-----------------------------------------------------------------------------
(***************************************************************************)
(* What is called ready has its stages behind it                           *)
(*                                                                         *)
(* A stage that is behind stays so: its job has ended, or its handler has  *)
(* nothing left to do but to queue the next job.                           *)
(***************************************************************************)
Quiet == spent.crashes = 0 /\ spent.retries = 0 /\ spent.outages = 0
Optional == {"graph", "summarize"}

AtGraph == {"graphRead", "graphMark", "extract", "persist", "graphDone", "graphStale",
            "graphWarned", "graphThrown", "graphFailed"}
AtSummary == {"sumStart", "sumMark", "sumGuard", "sumRead", "sumPersist", "sumRecord", "sumReady",
              "sumLost", "sumThrown", "sumFailed", "sumNext"}
AtEnd == {"sumNext", "next", "recheck", "cancelRun"}

Behind(s) == run[s] \in {"ready", "skipped"}
Working(w, s) == ~At(w, "idle") /\ JobOf(w) = First(s)
Ending(w) == worker[w].pc \in AtEnd /\ ~worker[w].throws
Through(s) ==
    /\ job[First(s)].state \in {"active", "ended"}
    /\ \A w \in Worker : Working(w, s) => Ending(w)

\* A run is called ready, or finalization is about to.
Judged == run.status = "ready" \/ \E w \in Worker : At(w, "finWrite") /\ worker[w].plan = "ready"

\* Without retries there is one job for each stage, and a handler that will
\* throw has failed.
InPlace(w) ==
    /\ worker[w].pc \in AtGraph => JobOf(w) = First("graph")
    /\ worker[w].pc \in AtSummary => JobOf(w) = First("summarize")
    /\ worker[w].throws => worker[w].pc \in {"graphThrown", "sumThrown", "sumFailed"} \cup AtEnd
NoRetries == \A j \in JobId : j[2] = "retry" => job[j].state = "absent"

QuietInv ==
    Quiet =>
        /\ recovery.pc = "off" /\ \A c \in Client : client[c].pc = "idle"
        /\ ~Cancelled =>
            /\ NoRetries
            /\ \A w \in Worker : InPlace(w)
            /\ \A s \in Optional : Behind(s) => Through(s)
            /\ Judged => \A s \in Optional : Behind(s)

\* What a step of the handler w means for the stages, while all is quiet.
Effect(w) ==
    /\ InPlace(w)' /\ NoRetries'
    /\ \A s \in Optional :
        /\ run'[s] # run[s] => Working(w, s) /\ ~Ending(w)
        /\ Working(w, s) /\ (Ending(w) \/ (Behind(s)' /\ run'[s] # run[s])) =>
            (Ending(w) /\ ~At(w, "idle"))' \/ (At(w, "idle")' /\ job'[First(s)].state = "ended")
        /\ job[First(s)].state = "ended" => job'[First(s)].state = "ended"
    /\ Judged' => Judged \/ \A s \in Optional : Behind(s)

LEMMA EffectKept ==
    ASSUME BaseInv, BaseInv', QuietInv, Quiet, ~Cancelled, NEW w \in Worker, ~At(w, "idle"),
           \/ Moved(w) /\ JobsKept({})
           \/ Left(w) /\ JobsKept({JobOf(w)}),
           Effect(w)
    PROVE  /\ NoRetries'
           /\ \A v \in Worker : InPlace(v)'
           /\ \A s \in Optional : Behind(s)' => Through(s)'
           /\ Judged' => \A s \in Optional : Behind(s)'
<1>q. /\ \A v \in Worker : InPlace(v)
      /\ \A s \in Optional : Behind(s) => Through(s)
      /\ Judged => \A s \in Optional : Behind(s)
  BY DEF QuietInv
<1>o. \A v \in Worker \ {w} : worker'[v] = worker[v]
  BY DEF Moved, Left, Alone
<1>w. /\ JobOf(w) \in JobId /\ Locked(JobOf(w))
      /\ \A v \in Worker : ~At(v, "idle") /\ JobOf(v) = JobOf(w) => v = w
  BY DEF BaseInv, Handlers, HandlerInv
<1>1. \A v \in Worker : InPlace(v)'
  BY <1>q, <1>o DEF Effect, InPlace, JobOf
<1>2. ASSUME NEW s \in Optional, Behind(s)' PROVE Through(s)'
  <2> DEFINE j == First(s)
  <2>j. j \in JobId
    BY FirstIsJob DEF Optional, Stage
  <2>1. CASE Working(w, s)
    <3>1. Ending(w) \/ run'[s] # run[s]
      BY <1>q, <1>2, <2>1 DEF Behind, Through
    <3>2. (Ending(w) /\ ~At(w, "idle"))' \/ (At(w, "idle")' /\ job'[j].state = "ended")
      BY <1>2, <2>1, <3>1 DEF Effect
    <3>3. job'[j].state \in {"active", "ended"}
      <4>1. CASE At(w, "idle")'
        BY <3>2, <4>1
      <4>2. CASE ~At(w, "idle")'
        BY <1>w, <2>1, <2>j, <4>2 DEF Left, At, IdleWorker, JobsKept, Locked, Working
      <4> QED BY <4>1, <4>2
    <3>4. \A v \in Worker : Working(v, s)' => v = w
      BY <1>o, <1>w, <2>1 DEF Working, At, JobOf
    <3>5. Working(w, s)' => Ending(w)'
      BY <3>2 DEF Working
    <3> QED BY <3>3, <3>4, <3>5 DEF Through
  <2>2. CASE ~Working(w, s)
    <3>1. run'[s] = run[s] /\ Through(s)
      BY <1>q, <1>2, <2>2 DEF Effect, Behind
    <3>2. JobOf(w) # j
      BY <2>2 DEF Working
    <3>3. job'[j].state \in {"active", "ended"}
      BY <2>j, <3>1, <3>2 DEF Effect, Through, JobsKept, Locked
    <3>4. ~Working(w, s)'
      BY <3>2 DEF Working, Moved, Left, IdleWorker, At, JobOf
    <3>5. \A v \in Worker \ {w} : Working(v, s)' => Ending(v)'
      BY <1>o, <3>1 DEF Through, Working, Ending, At, JobOf
    <3> QED BY <3>3, <3>4, <3>5 DEF Through
  <2> QED BY <2>1, <2>2
<1>3. ASSUME Judged', NEW s \in Optional PROVE Behind(s)'
  <2>1. Behind(s) /\ Through(s)
    BY <1>q, <1>3 DEF Effect
  <2>2. run'[s] = run[s]
    BY <2>1 DEF Effect, Through
  <2> QED BY <2>1, <2>2 DEF Behind
<1> QED BY <1>1, <1>2, <1>3 DEF Effect

\* A handler that goes on and leaves the queue alone.
LEMMA PlainEffect ==
    ASSUME QuietInv, Quiet, ~Cancelled, NEW w \in Worker, ~At(w, "idle"),
           Moved(w), UNCHANGED job, InPlace(w)', run'.status = run.status,
           worker'[w].pc # "finWrite",
           Ending(w) => Ending(w)',
           \A s \in Optional : run'[s] # run[s] =>
               Working(w, s) /\ ~Ending(w) /\ (Behind(s)' => Ending(w)')
    PROVE  Effect(w)
<1>1. NoRetries'
  BY DEF QuietInv, NoRetries
<1>2. Judged' => Judged
  BY DEF Judged, Moved, Alone, At
<1>3. ~At(w, "idle")'
  BY DEF Moved, At
<1> QED BY <1>1, <1>2, <1>3 DEF Effect

LEMMA SetFields ==
    ASSUME TypeOK, ~Cancelled, NEW s \in Optional, NEW st \in StageStatus, NEW r \in BOOLEAN,
           SetStage(s, st, r)
    PROVE  run'.status = run.status /\ run'[s] = st /\ \A t \in Optional : t # s => run'[t] = run[t]
BY DEF TypeOK, Run, SetStage, Fenced, Optional

LEMMA GraphEffect ==
    ASSUME BaseInv, QuietInv, Quiet, Quiet', ~Cancelled, ~Cancelled', NEW w \in Worker,
           \/ GraphRead(w) \/ GraphMark(w) \/ Extract(w) \/ Persist(w) \/ Compensate(w)
           \/ GraphDone(w) \/ GraphStale(w) \/ GraphWarned(w) \/ GraphFailed(w)
    PROVE  Effect(w)
<1>t. TypeOK /\ worker[w] \in Handler /\ worker[w].retryable \in BOOLEAN
  BY DEF BaseInv, TypeOK, Handler
<1>i. InPlace(w)
  BY DEF QuietInv
<1>w. /\ worker[w].pc \in AtGraph /\ ~At(w, "idle") /\ ~Ending(w)
      /\ JobOf(w) = First("graph") /\ Working(w, "graph")
  BY <1>i DEF InPlace, Working, Ending, AtGraph, AtEnd, At, GraphRead, GraphMark, Extract, Persist,
              Compensate, GraphDone, GraphStale, GraphWarned, GraphFailed
<1>n. worker[w].pc # "graphThrown" => ~worker[w].throws
  BY <1>i, <1>w DEF InPlace, AtGraph, AtEnd
<1>1. CASE GraphRead(w)
  <2>1. PICK plan \in {"finalize", "summarize"} : Keep(w, "graphMark", plan)
    BY <1>1 DEF GraphRead
  <2>2. Moved(w) /\ worker'[w].throws = worker[w].throws /\ worker'[w].pc = "graphMark"
    BY <2>1, KeepMoves DEF WorkerPc, Stage
  <2>3. InPlace(w)'
    BY <1>1, <1>w, <1>n, <2>2 DEF GraphRead, At, InPlace, Moved, JobOf, AtGraph, AtSummary
  <2> QED BY <1>1, <1>w, <2>2, <2>3, PlainEffect DEF GraphRead
<1>2. CASE GraphMark(w)
  <2>1. Moved(w) /\ worker'[w].throws = worker[w].throws /\ worker'[w].pc = "extract"
    BY <1>2, GotoMoves DEF GraphMark, WorkerPc
  <2>2. run'.status = run.status /\ run'["graph"] = "processing" /\ run'["summarize"] = run["summarize"]
    BY <1>2, <1>t, SetFields DEF GraphMark, Set, StageStatus, Optional
  <2>3. InPlace(w)'
    BY <1>2, <1>w, <1>n, <2>1 DEF GraphMark, At, InPlace, Moved, JobOf, AtGraph, AtSummary
  <2> QED BY <1>2, <1>w, <2>1, <2>2, <2>3, PlainEffect DEF GraphMark, Optional, Behind
<1>3. CASE Extract(w)
  <2>0. UNCHANGED <<run, job>>
    BY <1>3 DEF Extract
  <2>1. /\ Moved(w) /\ worker'[w].pc \in {"persist", "graphFailed", "graphThrown", "graphWarned"}
        /\ worker'[w].throws => worker'[w].pc = "graphThrown"
    <3>0. worker[w].pc = "extract" /\ ~worker[w].throws
      BY <1>3, <1>n DEF Extract, At
    <3>1. ASSUME NEW pc \in {"persist", "graphFailed"}, Goto(w, pc)
          PROVE  Moved(w) /\ worker'[w].pc = pc /\ ~worker'[w].throws
      BY <3>0, <3>1, GotoMoves DEF WorkerPc
    <3>2. ASSUME Throwing(w, "graphThrown", TRUE)
          PROVE  Moved(w) /\ worker'[w].pc = "graphThrown"
      <4> DEFINE h == [worker[w] EXCEPT !.pc = "graphThrown", !.retryable = TRUE, !.throws = TRUE]
      <4>1. h \in Handler /\ h.job = worker[w].job /\ h.pc = "graphThrown"
        BY <1>t DEF Handler, WorkerPc
      <4>2. worker' = [worker EXCEPT ![w] = h]
        BY <3>2 DEF Throwing, BaseInv, TypeOK
      <4> QED BY <4>1, <4>2, RecordMoves
    <3>3. ASSUME NEW r \in BOOLEAN,
                 worker' = [worker EXCEPT ![w].pc = "graphWarned", ![w].retryable = r]
          PROVE  Moved(w) /\ worker'[w].pc = "graphWarned" /\ ~worker'[w].throws
      <4> DEFINE h == [worker[w] EXCEPT !.pc = "graphWarned", !.retryable = r]
      <4>1. h \in Handler /\ h.job = worker[w].job /\ h.pc = "graphWarned" /\ ~h.throws
        BY <1>t, <3>0 DEF Handler, WorkerPc
      <4>2. worker' = [worker EXCEPT ![w] = h]
        BY <3>3 DEF BaseInv, TypeOK
      <4> QED BY <4>1, <4>2, RecordMoves
    <3> QED BY <1>3, <3>1, <3>2, <3>3 DEF Extract
  <2>2. InPlace(w)'
    BY <1>w, <2>1 DEF InPlace, Moved, JobOf, AtGraph, AtSummary
  <2> QED BY <1>w, <2>0, <2>1, <2>2, PlainEffect
<1>4. CASE Persist(w)
  <2>1. /\ Moved(w) /\ worker'[w].throws = worker[w].throws
        /\ worker'[w].pc \in {"graphDone", "graphStale"}
    BY <1>4, GotoMoves DEF Persist, WorkerPc
  <2>2. InPlace(w)'
    BY <1>4, <1>w, <1>n, <2>1 DEF Persist, At, InPlace, Moved, JobOf, AtGraph, AtSummary
  <2> QED BY <1>4, <1>w, <2>1, <2>2, PlainEffect DEF Persist, queue
<1>5. CASE GraphDone(w)
  <2>1. Moved(w) /\ worker'[w].throws = worker[w].throws /\ worker'[w].pc = "next"
    BY <1>5, GotoMoves DEF GraphDone, WorkerPc
  <2>2. run'.status = run.status /\ run'["summarize"] = run["summarize"]
    BY <1>5, <1>t, SetFields DEF GraphDone, Set, StageStatus, Optional
  <2>3. InPlace(w)' /\ Ending(w)'
    BY <1>5, <1>w, <1>n, <2>1 DEF GraphDone, At, InPlace, Ending, Moved, JobOf, AtGraph, AtSummary, AtEnd
  <2> QED BY <1>5, <1>w, <2>1, <2>2, <2>3, PlainEffect DEF GraphDone, Optional, queue
<1>6. CASE GraphStale(w)
  <2>1. Moved(w) /\ worker'[w].throws = worker[w].throws /\ worker'[w].pc = "cancelRun"
    BY <1>6, GotoMoves DEF GraphStale, WorkerPc
  <2>2. run'.status = run.status /\ run'["graph"] = "cancelled" /\ run'["summarize"] = run["summarize"]
    BY <1>6, <1>t, SetFields DEF GraphStale, Set, StageStatus, Optional
  <2>3. InPlace(w)'
    BY <1>6, <1>w, <1>n, <2>1 DEF GraphStale, At, InPlace, Moved, JobOf, AtGraph, AtSummary
  <2> QED BY <1>6, <1>w, <2>1, <2>2, <2>3, PlainEffect DEF GraphStale, Optional, Behind, queue
<1>7. CASE GraphWarned(w)
  <2>1. Moved(w) /\ worker'[w].pc = "next"
    BY <1>7, GotoMoves DEF GraphWarned, WorkerPc
  <2>2. run'.status = run.status /\ run'["graph"] = "failed" /\ run'["summarize"] = run["summarize"]
    BY <1>7, <1>t, SetFields DEF GraphWarned, SetFailed, StageStatus, Optional
  <2>3. InPlace(w)'
    BY <2>1 DEF InPlace, Moved, JobOf, AtGraph, AtSummary, AtEnd
  <2> QED BY <1>7, <1>w, <2>1, <2>2, <2>3, PlainEffect DEF GraphWarned, Optional, Behind, queue
<1>8. CASE GraphFailed(w)
  <2> DEFINE h == [worker[w] EXCEPT !.pc = "next", !.plan = "summarize", !.throws = TRUE]
  <2>1. h \in Handler /\ h.job = worker[w].job /\ h.pc = "next"
    BY <1>t DEF Handler, WorkerPc, Stage
  <2>2. worker' = [worker EXCEPT ![w] = h]
    BY <1>8 DEF GraphFailed, BaseInv, TypeOK
  <2>3. Moved(w) /\ worker'[w].pc = "next"
    BY <2>1, <2>2, RecordMoves
  <2>4. run'.status = run.status /\ run'["graph"] = "failed" /\ run'["summarize"] = run["summarize"]
    BY <1>8, <1>t, SetFields DEF GraphFailed, SetFailed, StageStatus, Optional
  <2>5. InPlace(w)'
    BY <2>3 DEF InPlace, Moved, JobOf, AtGraph, AtSummary, AtEnd
  <2> QED BY <1>8, <1>w, <2>3, <2>4, <2>5, PlainEffect DEF GraphFailed, Optional, Behind
<1>9. ~Compensate(w)
  BY DEF Compensate
<1> QED BY <1>1, <1>2, <1>3, <1>4, <1>5, <1>6, <1>7, <1>8, <1>9

LEMMA SummaryEffect ==
    ASSUME BaseInv, QuietInv, Quiet, Quiet', ~Cancelled, ~Cancelled', NEW w \in Worker,
           \/ SummaryStart(w) \/ SummaryCheck(w) \/ SummaryRetry(w) \/ SummaryNext(w)
           \/ SummaryMark(w) \/ Summarize(w) \/ PersistIfCurrent(w) \/ SummaryRecord(w)
           \/ SummaryReady(w) \/ SummaryLost(w) \/ SummaryFailed(w)
    PROVE  Effect(w)
<1>t. TypeOK /\ worker[w] \in Handler /\ worker[w].retryable \in BOOLEAN
  BY DEF BaseInv, TypeOK, Handler
<1>i. InPlace(w)
  BY DEF QuietInv
<1>w. /\ worker[w].pc \in AtSummary /\ ~At(w, "idle")
      /\ JobOf(w) = First("summarize") /\ Working(w, "summarize")
      /\ worker[w].pc # "sumNext" => ~Ending(w)
  BY <1>i DEF InPlace, Working, Ending, AtSummary, AtEnd, At, SummaryStart, SummaryCheck, SummaryRetry,
              SummaryNext, SummaryGuard, SummaryMark, Summarize, PersistIfCurrent, SummaryRecord,
              SummaryReady, SummaryLost, SummaryFailed
<1>n. worker[w].pc \notin {"sumThrown", "sumFailed", "sumNext"} => ~worker[w].throws
  BY <1>i, <1>w DEF InPlace, AtSummary, AtEnd
<1>1. CASE SummaryStart(w) \/ SummaryCheck(w)
  <2>1. /\ Moved(w) /\ worker'[w].throws = worker[w].throws
        /\ worker'[w].pc \in {"sumMark", "sumRead", "cancelRun"}
        /\ UNCHANGED <<run, job>> /\ worker[w].pc \in {"sumStart", "sumGuard"}
    BY <1>1, GotoMoves DEF SummaryStart, SummaryCheck, SummaryGuard, WorkerPc, At
  <2>2. InPlace(w)'
    BY <1>w, <1>n, <2>1 DEF InPlace, Moved, JobOf, AtGraph, AtSummary
  <2> QED BY <1>w, <2>1, <2>2, PlainEffect
<1>2. CASE SummaryRetry(w) \/ SummaryNext(w)
  <2>1. /\ Moved(w) /\ worker'[w].throws = worker[w].throws /\ UNCHANGED <<run, job>>
        /\ \/ worker[w].pc = "sumThrown" /\ worker'[w].pc \in {"sumFailed", "cancelRun"}
           \/ worker[w].pc = "sumNext" /\ worker'[w].pc \in {"next", "cancelRun"}
    BY <1>2, GotoMoves DEF SummaryRetry, SummaryNext, SummaryGuard, WorkerPc, At
  <2>2. InPlace(w)' /\ (Ending(w) => Ending(w)')
    BY <1>w, <1>n, <2>1 DEF InPlace, Ending, Moved, JobOf, AtGraph, AtSummary, AtEnd
  <2> QED BY <1>w, <2>1, <2>2, PlainEffect
<1>3. CASE SummaryMark(w)
  <2>1. /\ Moved(w) /\ worker'[w].throws = worker[w].throws /\ worker[w].pc = "sumMark"
        /\ worker'[w].pc = IF enabled THEN "sumGuard" ELSE "sumNext"
    BY <1>3, GotoMoves DEF SummaryMark, WorkerPc, At
  <2>2. /\ run'.status = run.status /\ run'["graph"] = run["graph"]
        /\ run'["summarize"] = IF enabled THEN "processing" ELSE "skipped"
    BY <1>3, <1>t, SetFields DEF SummaryMark, Set, StageStatus, Optional
  <2>3. InPlace(w)' /\ (~enabled => Ending(w)')
    BY <1>w, <1>n, <2>1 DEF InPlace, Ending, Moved, JobOf, AtGraph, AtSummary, AtEnd
  <2> QED BY <1>3, <1>w, <2>1, <2>2, <2>3, PlainEffect DEF SummaryMark, Optional, Behind, queue
<1>4. CASE Summarize(w)
  <2>0. worker[w].pc = "sumRead" /\ ~worker[w].throws /\ UNCHANGED <<run, job>>
    BY <1>4, <1>n DEF Summarize, At, queue
  <2>1. ASSUME NEW pc \in {"sumPersist", "sumLost", "sumThrown"}, Goto(w, pc)
        PROVE  Moved(w) /\ worker'[w].pc = pc /\ ~worker'[w].throws
    BY <2>0, <2>1, GotoMoves DEF WorkerPc
  <2>2. ASSUME Keep(w, "sumRecord", "skipped")
        PROVE  Moved(w) /\ worker'[w].pc = "sumRecord" /\ ~worker'[w].throws
    BY <2>0, <2>2, KeepMoves DEF WorkerPc, StageStatus
  <2>3. ASSUME Throwing(w, "sumThrown", TRUE)
        PROVE  Moved(w) /\ worker'[w].pc = "sumThrown"
    <3> DEFINE h == [worker[w] EXCEPT !.pc = "sumThrown", !.retryable = TRUE, !.throws = TRUE]
    <3>1. h \in Handler /\ h.job = worker[w].job /\ h.pc = "sumThrown"
      BY <1>t DEF Handler, WorkerPc
    <3>2. worker' = [worker EXCEPT ![w] = h]
      BY <2>3 DEF Throwing, BaseInv, TypeOK
    <3> QED BY <3>1, <3>2, RecordMoves
  <2>4. /\ Moved(w) /\ worker'[w].pc \in {"sumPersist", "sumLost", "sumThrown", "sumRecord"}
        /\ worker'[w].throws => worker'[w].pc = "sumThrown"
    BY <1>4, <2>1, <2>2, <2>3 DEF Summarize
  <2>5. InPlace(w)'
    BY <1>w, <2>4 DEF InPlace, Moved, JobOf, AtGraph, AtSummary
  <2> QED BY <1>w, <2>0, <2>4, <2>5, PlainEffect
<1>5. CASE PersistIfCurrent(w)
  <2>1. /\ Moved(w) /\ worker'[w].throws = worker[w].throws /\ worker[w].pc = "sumPersist"
        /\ worker'[w].pc \in {"sumRecord", "sumLost"} /\ UNCHANGED <<run, job>>
    BY <1>5, GotoMoves, KeepMoves DEF PersistIfCurrent, WorkerPc, StageStatus, At, queue
  <2>2. InPlace(w)'
    BY <1>w, <1>n, <2>1 DEF InPlace, Moved, JobOf, AtGraph, AtSummary
  <2> QED BY <1>w, <2>1, <2>2, PlainEffect
<1>6. CASE SummaryRecord(w)
  <2>0. worker[w].pc = "sumRecord" /\ worker[w].plan \in {"ready", "skipped"}
    BY <1>6 DEF SummaryRecord, At, BaseInv, Handlers, HandlerInv
  <2>1. /\ Moved(w) /\ worker'[w].throws = worker[w].throws
        /\ worker'[w].pc \in {"sumReady", "sumLost"} /\ UNCHANGED <<run, job>>
    BY <1>6, <2>0, GotoMoves DEF SummaryRecord, WorkerPc
  <2>2. InPlace(w)'
    BY <1>w, <1>n, <2>0, <2>1 DEF InPlace, Moved, JobOf, AtGraph, AtSummary
  <2> QED BY <1>w, <2>0, <2>1, <2>2, PlainEffect
<1>7. CASE SummaryReady(w)
  <2>0. worker[w].pc = "sumReady" /\ worker[w].plan \in {"ready", "skipped"}
    BY <1>7 DEF SummaryReady, At, BaseInv, Handlers, HandlerInv
  <2>1. Moved(w) /\ worker'[w].throws = worker[w].throws /\ worker'[w].pc = "sumNext"
    BY <1>7, GotoMoves DEF SummaryReady, WorkerPc
  <2>2. run'.status = run.status /\ run'["graph"] = run["graph"]
    BY <1>7, <1>t, <2>0, SetFields DEF SummaryReady, Set, StageStatus, Optional
  <2>3. InPlace(w)' /\ Ending(w)'
    BY <1>w, <1>n, <2>0, <2>1 DEF InPlace, Ending, Moved, JobOf, AtGraph, AtSummary, AtEnd
  <2> QED BY <1>7, <1>w, <2>0, <2>1, <2>2, <2>3, PlainEffect DEF SummaryReady, Optional, queue
<1>8. CASE SummaryLost(w)
  <2>1. /\ Moved(w) /\ worker'[w].throws = worker[w].throws /\ worker[w].pc = "sumLost"
        /\ worker'[w].pc = "cancelRun"
    BY <1>8, GotoMoves DEF SummaryLost, WorkerPc, At
  <2>2. run'.status = run.status /\ run'["summarize"] = "cancelled" /\ run'["graph"] = run["graph"]
    BY <1>8, <1>t, SetFields DEF SummaryLost, Set, StageStatus, Optional
  <2>3. InPlace(w)'
    BY <1>w, <1>n, <2>1 DEF InPlace, Moved, JobOf, AtGraph, AtSummary
  <2> QED BY <1>8, <1>w, <2>1, <2>2, <2>3, PlainEffect DEF SummaryLost, Optional, Behind
<1>9. CASE SummaryFailed(w)
  <2>1. Moved(w) /\ worker[w].pc = "sumFailed" /\ worker'[w].pc = "sumNext"
    BY <1>9, GotoMoves DEF SummaryFailed, WorkerPc, At
  <2>2. run'.status = run.status /\ run'["summarize"] = "failed" /\ run'["graph"] = run["graph"]
    BY <1>9, <1>t, SetFields DEF SummaryFailed, SetFailed, StageStatus, Optional
  <2>3. InPlace(w)'
    BY <1>w, <2>1 DEF InPlace, Moved, JobOf, AtGraph, AtSummary, AtEnd
  <2> QED BY <1>9, <1>w, <2>1, <2>2, <2>3, PlainEffect DEF SummaryFailed, Optional, Behind, queue
<1> QED BY <1>1, <1>2, <1>3, <1>4, <1>5, <1>6, <1>7, <1>8, <1>9

\* An outage is not quiet.
LEMMA QuietOutage ==
    ASSUME TypeOK, Quiet'
    PROVE  ~Outage
BY BoundsAssumption DEF TypeOK, Quiet, Outage, Spend

\* The job that comes next is no retry either.
LEMMA FollowingFirst ==
    ASSUME BaseInv, NoRetries, NEW w \in Worker, JobOf(w) \in JobId, Locked(JobOf(w))
    PROVE  JobOf(w)[2] # "retry" /\ Following(w)[2] # "retry"
<1>1. JobOf(w)[2] # "retry"
  BY DEF NoRetries, Locked
<1> QED BY <1>1 DEF Following

LEMMA EndEffect ==
    ASSUME BaseInv, QuietInv, Quiet, Quiet', ~Cancelled, ~Cancelled', NEW w \in Worker,
           \/ Acquire(w) \/ CancelRun(w) \/ Enqueue(w) \/ Recheck(w)
           \/ FinalizeRead(w) \/ FinalizeWrite(w)
    PROVE  Effect(w)
<1>t. TypeOK /\ worker[w] \in Handler
  BY DEF BaseInv, TypeOK
<1>i. InPlace(w) /\ NoRetries
  BY DEF QuietInv
<1>w. ~At(w, "idle")
  BY DEF At, Acquire, CancelRun, Enqueue, Recheck, FinalizeRead, FinalizeWrite
<1>j. JobOf(w) \in JobId /\ Locked(JobOf(w))
  BY <1>w DEF BaseInv, Handlers, HandlerInv
<1>k. Following(w) \in JobId /\ JobOf(w)[2] # "retry" /\ Following(w)[2] # "retry"
  BY <1>i, <1>j, FollowingIsJob, FollowingFirst
<1>1. CASE Acquire(w)
  <2>1. /\ JobOf(w)[1] = "graph" => JobOf(w) = First("graph")
        /\ JobOf(w)[1] = "summarize" => JobOf(w) = First("summarize")
    BY <1>j, <1>k DEF JobId
  <2>2. /\ Moved(w) /\ worker'[w].throws = worker[w].throws /\ worker[w].pc = "slot"
        /\ worker'[w].pc = IF JobOf(w)[1] = "graph" THEN "graphRead"
                           ELSE IF JobOf(w)[1] = "summarize" THEN "sumStart" ELSE "finRead"
        /\ UNCHANGED <<run, job>>
    BY <1>1, GotoMoves DEF Acquire, WorkerPc, At
  <2>3. InPlace(w)' /\ ~Ending(w)
    BY <1>i, <2>1, <2>2 DEF InPlace, Ending, Moved, JobOf, AtGraph, AtSummary, AtEnd
  <2> QED BY <1>w, <2>2, <2>3, PlainEffect
<1>2. ~CancelRun(w)
  BY <1>t, AllCancelledRow DEF CancelRun, Fenced, Cancelled
<1>3. CASE Enqueue(w)
  <2>1. /\ Add(Following(w), job[JobOf(w)].requested) /\ Goto(w, "recheck") /\ UNCHANGED run
        /\ worker[w].pc = "next"
    BY <1>3, <1>t, QuietOutage DEF Enqueue, At
  <2>2. Moved(w) /\ worker'[w].throws = worker[w].throws /\ worker'[w].pc = "recheck"
    BY <2>1, GotoMoves DEF WorkerPc
  <2>3. InPlace(w)' /\ (Ending(w) => Ending(w)')
    BY <2>1, <2>2 DEF InPlace, Ending, Moved, JobOf, AtGraph, AtSummary, AtEnd
  <2>4. \A i \in JobId : i # Following(w) \/ job[i].state # "absent" => job'[i] = job[i]
    BY <1>t, <2>1 DEF Add, TypeOK
  <2>5. NoRetries'
    BY <1>i, <1>k, <2>4 DEF NoRetries
  <2>6. \A s \in Optional : job[First(s)].state = "ended" => job'[First(s)].state = "ended"
    BY <2>4, FirstIsJob DEF Optional, Stage
  <2>7. Judged' => Judged
    BY <2>1, <2>2 DEF Judged, Moved, Alone, At
  <2>8. ~At(w, "idle")'
    BY <2>2 DEF At
  <2> QED BY <2>1, <2>3, <2>5, <2>6, <2>7, <2>8 DEF Effect
<1>4. CASE Recheck(w)
  <2>1. job' = [job EXCEPT ![JobOf(w)] = After(w)] /\ UNCHANGED run /\ Leave(w)
    BY <1>4 DEF Recheck
  <2>2. Left(w)
    BY <1>j, <2>1, LeaveLeft
  <2>3. InPlace(w)' /\ At(w, "idle")'
    BY <2>2 DEF Left, InPlace, At, IdleWorker, AtGraph, AtSummary
  <2>4. \A i \in JobId : job'[i] = IF i = JobOf(w) THEN After(w) ELSE job[i]
    BY <1>t, <2>1 DEF TypeOK
  <2>5. NoRetries'
    BY <1>i, <1>k, <2>4 DEF NoRetries
  <2>6. ~worker[w].throws => After(w).state = "ended"
    BY <1>j, EndedRows DEF After
  <2>7. ASSUME NEW s \in Optional
        PROVE  /\ Working(w, s) /\ Ending(w) => job'[First(s)].state = "ended"
               /\ job[First(s)].state = "ended" => job'[First(s)].state = "ended"
    <3>1. First(s) \in JobId
      BY FirstIsJob DEF Optional, Stage
    <3> QED BY <1>j, <2>4, <2>6, <3>1 DEF Working, Ending, Locked
  <2>8. Judged' => Judged
    BY <2>1, <2>2 DEF Judged, Left, Alone, At, IdleWorker
  <2> QED BY <2>1, <2>3, <2>5, <2>7, <2>8 DEF Effect
<1>5. CASE FinalizeRead(w)
  <2>1. DeriveFinalStatus(run) \in RunStatus /\ Keep(w, "finWrite", DeriveFinalStatus(run))
    BY <1>5, <1>t, FinalTyped DEF FinalizeRead, TypeOK
  <2>2. /\ Moved(w) /\ worker'[w].throws = worker[w].throws /\ worker'[w].pc = "finWrite"
        /\ worker'[w].plan = DeriveFinalStatus(run)
    BY <2>1, KeepMoves DEF WorkerPc
  <2>3. UNCHANGED <<run, job>> /\ worker[w].pc = "finRead"
    BY <1>5 DEF FinalizeRead, At, queue
  <2>4. DeriveFinalStatus(run) = "ready" => {run.graph, run.summarize} \subseteq {"ready", "skipped"}
    BY <1>t, FinalReady DEF TypeOK
  <2>5. Judged' => Judged \/ \A s \in Optional : Behind(s)
    BY <2>2, <2>3, <2>4 DEF Judged, Moved, Alone, At, Behind, Optional
  <2>6. InPlace(w)' /\ ~Ending(w)
    BY <1>i, <2>2, <2>3 DEF InPlace, Ending, Moved, JobOf, AtGraph, AtSummary, AtEnd
  <2>7. NoRetries'
    BY <1>i, <2>3 DEF NoRetries
  <2> QED BY <2>3, <2>5, <2>6, <2>7 DEF Effect
<1>6. CASE FinalizeWrite(w)
  <2>1. /\ run'.status = worker[w].plan /\ run'["graph"] = run["graph"]
        /\ run'["summarize"] = run["summarize"] /\ worker[w].pc = "finWrite"
    BY <1>6, <1>t DEF FinalizeWrite, Fenced, TypeOK, Run, At
  <2>2. Left(w) /\ job' = [job EXCEPT ![JobOf(w)] = Completed(@)]
    BY <1>6, <1>j, LeaveLeft DEF FinalizeWrite, Complete
  <2>3. InPlace(w)' /\ At(w, "idle")' /\ ~Ending(w)
    BY <2>1, <2>2 DEF Left, InPlace, Ending, At, IdleWorker, AtGraph, AtSummary, AtEnd
  <2>4. \A i \in JobId : job'[i] = IF i = JobOf(w) THEN Completed(job[i]) ELSE job[i]
    BY <1>t, <2>2 DEF TypeOK
  <2>5. NoRetries'
    BY <1>i, <1>k, <2>4 DEF NoRetries
  <2>6. ASSUME NEW s \in Optional
        PROVE  job[First(s)].state = "ended" => job'[First(s)].state = "ended"
    <3>1. First(s) \in JobId
      BY FirstIsJob DEF Optional, Stage
    <3> QED BY <1>j, <2>4, <3>1 DEF Locked
  <2>7. Judged' => Judged
    BY <2>1, <2>2, <1>t DEF Judged, Left, Alone, At, IdleWorker
  <2> QED BY <2>1, <2>3, <2>5, <2>6, <2>7 DEF Effect, Optional
<1> QED BY <1>1, <1>2, <1>3, <1>4, <1>5, <1>6

\* What was not quiet before does not become so, and no step that is not quiet is.
LEMMA QuietBefore ==
    ASSUME TypeOK, Quiet',
           \/ UNCHANGED spent
           \/ \E what \in {"retries", "failures", "outages", "crashes", "stalls"}, n \in Nat : Spend(what, n)
    PROVE  /\ Quiet
           /\ \A what \in {"retries", "outages", "crashes"}, n \in Nat : ~Spend(what, n)
<1>1. \A what \in {"retries", "failures", "outages", "crashes", "stalls"} : spent[what] \in Nat
  BY BoundsAssumption DEF TypeOK
<1>2. CASE UNCHANGED spent
  BY <1>1, <1>2 DEF Quiet, TypeOK, Spend
<1>3. ASSUME NEW what \in {"retries", "failures", "outages", "crashes", "stalls"}, NEW n \in Nat,
             Spend(what, n)
      PROVE  Quiet /\ what \notin {"retries", "outages", "crashes"}
  <2>1. spent' = [spent EXCEPT ![what] = @ + 1]
    BY <1>3 DEF Spend
  <2> QED BY <1>1, <2>1 DEF Quiet, TypeOK
<1>4. ASSUME NEW what \in {"retries", "outages", "crashes"}, NEW n \in Nat, Spend(what, n)
      PROVE  FALSE
  BY <1>3, <1>4
<1> QED BY <1>2, <1>3, <1>4

\* Handlers rest, and the jobs of the stages that are behind are left alone.
LEMMA QuietRest ==
    ASSUME BaseInv, QuietInv, Quiet, UNCHANGED <<run, worker, recovery, client>>,
           \A j \in JobId : job'[j] = job[j] \/ (job[j].state = "waiting" /\ job'[j].state = "absent")
    PROVE  QuietInv'
<1>1. recovery'.pc = "off" /\ \A c \in Client : client'[c].pc = "idle"
  BY DEF QuietInv
<1>2. ASSUME ~Cancelled'
      PROVE  /\ NoRetries'
             /\ \A w \in Worker : InPlace(w)'
             /\ \A s \in Optional : Behind(s)' => Through(s)'
             /\ Judged' => \A s \in Optional : Behind(s)'
  <2>q. ~Cancelled
    BY <1>2 DEF Cancelled
  <2>1. NoRetries' /\ (\A w \in Worker : InPlace(w)') /\ (Judged' => \A s \in Optional : Behind(s)')
    BY <2>q DEF QuietInv, NoRetries, InPlace, JobOf, Judged, At, Behind
  <2>2. ASSUME NEW s \in Optional, Behind(s)' PROVE Through(s)'
    <3>1. First(s) \in JobId
      BY FirstIsJob DEF Optional, Stage
    <3>2. Through(s)
      BY <2>q, <2>2 DEF QuietInv, Behind
    <3> QED BY <3>1, <3>2 DEF Through, Working, Ending, At, JobOf
  <2> QED BY <2>1, <2>2
<1> QED BY <1>1, <1>2 DEF QuietInv

LEMMA QuietTake ==
    ASSUME BaseInv, QuietInv, Quiet, NEW w \in Worker, NEW j \in JobId, Take(w, j)
    PROVE  QuietInv'
<1>1. /\ UNCHANGED <<run, recovery, client>>
      /\ worker[w].pc = "idle" /\ job[j].state = "waiting"
  BY DEF Take, At, host
<1>2. /\ worker'[w].pc = "slot" /\ worker'[w].job = j /\ ~worker'[w].throws /\ worker'[w].plan = "none"
      /\ \A v \in Worker \ {w} : worker'[v] = worker[v]
      /\ job'[j].state = "active" /\ \A i \in JobId \ {j} : job'[i] = job[i]
  BY DEF Take, BaseInv, TypeOK, IdleWorker, Job
<1>3. recovery'.pc = "off" /\ \A c \in Client : client'[c].pc = "idle"
  BY <1>1 DEF QuietInv
<1>4. ASSUME ~Cancelled'
      PROVE  /\ NoRetries'
             /\ \A v \in Worker : InPlace(v)'
             /\ \A s \in Optional : Behind(s)' => Through(s)'
             /\ Judged' => \A s \in Optional : Behind(s)'
  <2>q. ~Cancelled
    BY <1>1, <1>4 DEF Cancelled
  <2>1. NoRetries'
    BY <1>1, <1>2, <2>q DEF QuietInv, NoRetries
  <2>2. \A v \in Worker : InPlace(v)'
    BY <1>2, <2>q DEF QuietInv, InPlace, JobOf, AtGraph, AtSummary
  <2>3. Judged' => \A s \in Optional : Behind(s)'
    BY <1>1, <1>2, <2>q DEF QuietInv, Judged, At, Behind
  <2>4. ASSUME NEW s \in Optional, Behind(s)' PROVE Through(s)'
    <3>1. First(s) \in JobId
      BY FirstIsJob DEF Optional, Stage
    <3>2. Through(s)
      BY <1>1, <2>q, <2>4 DEF QuietInv, Behind
    <3>3. First(s) # j
      BY <1>1, <3>2 DEF Through
    <3> QED BY <1>2, <3>1, <3>2, <3>3 DEF Through, Working, Ending, At, JobOf
  <2> QED BY <2>1, <2>2, <2>3, <2>4
<1> QED BY <1>3, <1>4 DEF QuietInv

LEMMA QuietHandle ==
    ASSUME BaseInv, BaseInv', QuietInv, Quiet, Quiet', NEW w \in Worker, Handle(w)
    PROVE  QuietInv'
<1>1. ~At(w, "idle") /\ Handled(w)
  BY HandlesAtWork, HandleHandled
<1>2. recovery'.pc = "off" /\ \A c \in Client : client'[c].pc = "idle"
  BY <1>1 DEF QuietInv, Handled, host
<1>3. ASSUME ~Cancelled'
      PROVE  /\ NoRetries'
             /\ \A v \in Worker : InPlace(v)'
             /\ \A s \in Optional : Behind(s)' => Through(s)'
             /\ Judged' => \A s \in Optional : Behind(s)'
  <2>1. ~Cancelled
    BY <1>1, <1>3 DEF Handled, RunKept
  <2>2. Effect(w)
    BY <1>3, <2>1, GraphEffect, SummaryEffect, EndEffect DEF Handle
  <2> QED BY <1>1, <2>1, <2>2, EffectKept DEF Handled
<1> QED BY <1>2, <1>3 DEF QuietInv

LEMMA QuietNext ==
    ASSUME BaseInv, BaseInv', QuietInv, [Next]_vars
    PROVE  QuietInv'
<1> SUFFICES ASSUME Quiet' PROVE QuietInv'
  BY DEF QuietInv
<1>t. TypeOK
  BY DEF BaseInv
<1>b. MaxRetries \in Nat /\ MaxFailures \in Nat /\ MaxOutages \in Nat /\ MaxCrashes \in Nat /\ MaxStalls \in Nat
  BY BoundsAssumption
<1>s. \/ UNCHANGED spent
      \/ Spend("failures", MaxFailures) \/ Spend("outages", MaxOutages) \/ Spend("retries", MaxRetries)
      \/ Spend("crashes", MaxCrashes) \/ Spend("stalls", MaxStalls)
  <2>1. ASSUME NEW w \in Worker, Handle(w)
        PROVE  UNCHANGED spent \/ Spend("failures", MaxFailures) \/ Spend("outages", MaxOutages)
    BY <2>1 DEF Handle, At, Acquire, CancelRun, Enqueue, Recheck, GraphRead, GraphMark, Extract, Persist,
         Compensate, GraphDone, GraphStale, GraphWarned, GraphFailed, SummaryStart, SummaryCheck,
         SummaryRetry, SummaryNext, SummaryGuard, SummaryMark, Summarize, PersistIfCurrent,
         SummaryRecord, SummaryReady, SummaryLost, SummaryFailed, FinalizeRead, FinalizeWrite,
         Fails, Outage
  <2>2. ASSUME NEW c \in Client, RetryClaim(c) \/ Continue(c)
        PROVE  UNCHANGED spent \/ Spend("retries", MaxRetries) \/ Spend("outages", MaxOutages)
    BY <2>2 DEF RetryClaim, Continue, RetryDrop, RetryLook, RetryAdd, RetryRestore, Outage
  <2> QED BY <2>1, <2>2 DEF Next, vars, Take, Lapse, Edit, Replace, Supersede, CancelAccount, RemoveWaiting,
             Crash, RecoveryStep, RecoverFind, RecoverClaim, RecoverExhaust, RecoverAdd
<1>q. Quiet /\ ~Spend("retries", MaxRetries) /\ ~Spend("crashes", MaxCrashes)
  BY <1>t, <1>b, <1>s, QuietBefore
<1>1. ASSUME NEW w \in Worker, Handle(w) PROVE QuietInv'
  BY <1>1, <1>q, QuietHandle
<1>2. ASSUME NEW w \in Worker, NEW j \in JobId, Take(w, j) PROVE QuietInv'
  BY <1>2, <1>q, QuietTake
<1>3. ASSUME NEW s \in Stage, NEW l \in Lease, Lapse(s, l) PROVE QuietInv'
  BY <1>3, <1>q, QuietRest DEF Lapse, host
<1>4. ASSUME NEW c \in Client, RetryClaim(c) \/ Continue(c) PROVE FALSE
  BY <1>4, <1>q DEF QuietInv, RetryClaim, Continue, RetryDrop, RetryLook, RetryAdd, RetryRestore
<1>5. CASE Edit \/ Replace
  BY <1>5, <1>q, QuietRest DEF Edit, Replace, host, queue
<1>6. CASE Supersede \/ CancelAccount
  <2>1. UNCHANGED <<worker, job, client, recovery>> /\ (UNCHANGED run \/ Cancelled')
    BY <1>6, <1>t, AllCancelledRow DEF Supersede, CancelAccount, Cancelled, TypeOK, Run, host, queue
  <2>2. CASE UNCHANGED run
    BY <1>q, <2>1, <2>2, QuietRest
  <2>3. CASE Cancelled'
    BY <1>q, <2>1, <2>3 DEF QuietInv
  <2> QED BY <2>1, <2>2, <2>3
<1>7. ASSUME NEW j \in JobId, RemoveWaiting(j) PROVE QuietInv'
  <2>1. \A i \in JobId : job'[i] = job[i] \/ (job[i].state = "waiting" /\ job'[i].state = "absent")
    BY <1>7, <1>t, RowsTyped DEF RemoveWaiting, TypeOK
  <2> QED BY <1>7, <1>q, <2>1, QuietRest DEF RemoveWaiting, host
<1>8. ~Crash /\ ~RecoveryStep
  BY <1>q DEF QuietInv, Crash, RecoveryStep, RecoverFind, RecoverClaim, RecoverExhaust, RecoverAdd
<1>9. CASE UNCHANGED vars
  BY <1>9, <1>q, QuietRest DEF vars, host, queue
<1> QED BY <1>1, <1>2, <1>3, <1>4, <1>5, <1>6, <1>7, <1>8, <1>9 DEF Next

LEMMA QuietInit ==
    ASSUME Init
    PROVE  QuietInv
<1>1. /\ recovery.pc = "off" /\ \A c \in Client : client[c].pc = "idle"
      /\ \A w \in Worker : worker[w].pc = "idle" /\ ~worker[w].throws
      /\ run.status = "processing" /\ run.graph = "pending" /\ run.summarize = "pending"
  BY DEF Init, Off, IdleClient, IdleWorker
<1>2. NoRetries
  BY RowsTyped DEF Init, NoRetries
<1> QED BY <1>1, <1>2 DEF QuietInv, InPlace, Behind, Judged, Optional, At, AtGraph, AtSummary

\* A run that is called ready has both optional stages behind it, although
\* finalization judges a row it read before and a failed stage is tried again beside it.
THEOREM HonestCorrect == Spec => []ReadyIsHonest
<1>1. Init => BaseInv /\ QuietInv
  BY BaseInit, QuietInit
<1>2. BaseInv /\ QuietInv /\ [Next]_vars => BaseInv' /\ QuietInv'
  BY BaseNext, QuietNext
<1>3. QuietInv => ReadyIsHonest
  BY DEF QuietInv, Quiet, ReadyIsHonest, Judged, Cancelled, Behind, Optional
<1> QED BY <1>1, <1>2, <1>3, PTL DEF Spec

=============================================================================
