---------------------- MODULE PipelineTailCarried_proofs ----------------------
(***************************************************************************)
(* Proofs about PipelineTail: what is called ready is stored, and a run    *)
(* that is not over is carried on.                                         *)
(***************************************************************************)
EXTENDS PipelineTail_proofs, FiniteSetTheorems

USE DEF First, Retry, StageOf

-----------------------------------------------------------------------------
(***************************************************************************)
(* What is called ready is stored                                          *)
(*                                                                         *)
(* A handler of the graph stage works behind a slot of that stage: with    *)
(* one slot, and while no lease of a live handler expires, it is alone,    *)
(* and takes back no projection but its own.                               *)
(***************************************************************************)
Exclusive == Limit["graph"] = 1 /\ spent.stalls = 0

\* It has a slot of the graph stage.
Inside(w) == ~At(w, "idle") /\ ~At(w, "slot") /\ JobOf(w)[1] = "graph"

\* It has marked its stage as processing, and may yet take its projection back.
Marked == {"extract", "persist", "graphDone", "graphStale", "graphWarned", "graphThrown"}

SlotInv ==
    /\ \A w \in Worker : worker[w].pc \in AtGraph => JobOf(w)[1] = "graph"
    /\ Limit["graph"] = 1 => \A k, l \in lease["graph"] : k = l
    /\ spent.stalls = 0 => \A w \in Worker : Inside(w) => <<w, "held">> \in lease["graph"]

\* The recovery runs alone, and does not bring a cancelled run back that lacks what
\* it claims: it saw the run active, and nobody has taken a projection back since.
StoredInv ==
    /\ recovery.pc # "off" => \A w \in Worker : At(w, "idle")
    /\ \A w \in Worker : At(w, "graphDone") /\ ~Cancelled => projected
    /\ Exclusive => \A w \in Worker : worker[w].pc \in Marked => run.graph # "ready"
    /\ run.graph = "ready" /\ (Cancelled => Exclusive \/ recovery.pc \notin {"off", "find"}) => projected
    /\ \A w \in Worker : worker[w].pc \in {"sumRecord", "sumReady"} /\ worker[w].plan = "ready" => summarized
    /\ run.summarize = "ready" => summarized

\* What a step of the handler w does to its slot, to the claims of the run, and to
\* what is stored.
StoreStep(w) ==
    /\ spent'.stalls = spent.stalls
    /\ \/ Moved(w) /\ (Acquire(w) \/ (UNCHANGED lease /\ ~At(w, "slot")))
       \/ Left(w) /\ Leave(w)
    /\ worker'[w].pc \in AtGraph => worker[w].pc \in AtGraph \/ JobOf(w)[1] = "graph"
    /\ run'.graph = "ready" => run.graph = "ready" \/ (At(w, "graphDone") /\ ~Cancelled)
    /\ worker'[w].pc \in Marked =>
        (worker[w].pc \in Marked /\ run'.graph = run.graph) \/ run'.graph # "ready"
    /\ projected /\ ~projected' => Cancelled /\ worker[w].pc \in Marked
    /\ worker'[w].pc = "graphDone" => projected'
    /\ run'.summarize = "ready" =>
        run.summarize = "ready" \/ (At(w, "sumReady") /\ worker[w].plan = "ready")
    /\ summarized => summarized'
    /\ worker'[w].pc \in {"sumRecord", "sumReady"} /\ worker'[w].plan = "ready" =>
        summarized' \/ (worker[w].pc = "sumRecord" /\ worker[w].plan = "ready")

LEMMA SetEither ==
    ASSUME TypeOK, NEW s \in Optional, NEW st \in StageStatus, NEW r \in BOOLEAN, SetStage(s, st, r)
    PROVE  /\ s = "graph" => run'.graph \in {run.graph, st} /\ run'.summarize = run.summarize
           /\ s = "summarize" => run'.summarize \in {run.summarize, st} /\ run'.graph = run.graph
BY DEF TypeOK, Run, SetStage, Fenced, Optional

LEMMA SpendsNoStall ==
    ASSUME TypeOK, Fails \/ Outage \/ UNCHANGED spent
    PROVE  spent'.stalls = spent.stalls
BY DEF TypeOK, Fails, Outage, Spend

\* A handler that leaves.
LEMMA LeftStore ==
    ASSUME BaseInv, NEW w \in Worker, ~At(w, "idle"), Complete(w) \/ Throw(w) \/ End(w) \/ Leave(w),
           run'.graph = "ready" => run.graph = "ready",
           run'.summarize = "ready" => run.summarize = "ready",
           UNCHANGED summarized, projected' = projected \/ (Cancelled /\ worker[w].pc \in Marked),
           spent'.stalls = spent.stalls
    PROVE  StoreStep(w)
<1>1. JobOf(w) \in JobId /\ Leave(w)
  BY DEF BaseInv, Handlers, HandlerInv, Complete, Throw, End
<1>2. Left(w)
  BY <1>1, LeaveLeft
<1>3. worker'[w].pc = "idle"
  BY <1>2 DEF Left, IdleWorker
<1> QED BY <1>1, <1>2, <1>3 DEF StoreStep, AtGraph, Marked

\* A handler that goes on to pc and claims nothing new.
LEMMA MovedStore ==
    ASSUME NEW w \in Worker, NEW pc, Moved(w), worker'[w].pc = pc,
           pc \notin Marked \cup {"sumRecord", "sumReady"},
           pc \in AtGraph => worker[w].pc \in AtGraph \/ JobOf(w)[1] = "graph",
           run'.graph = "ready" => run.graph = "ready",
           run'.summarize = "ready" => run.summarize = "ready",
           UNCHANGED store, UNCHANGED lease, ~At(w, "slot"), spent'.stalls = spent.stalls
    PROVE  StoreStep(w)
BY DEF StoreStep, store, Marked

LEMMA GraphStore ==
    ASSUME BaseInv, NEW w \in Worker,
           \/ GraphRead(w) \/ GraphMark(w) \/ Extract(w) \/ Persist(w) \/ Compensate(w)
           \/ GraphDone(w) \/ GraphStale(w) \/ GraphWarned(w) \/ GraphFailed(w)
    PROVE  StoreStep(w)
<1>t. TypeOK /\ worker[w] \in Handler /\ worker[w].retryable \in BOOLEAN
  BY DEF BaseInv, TypeOK, Handler
<1>w. worker[w].pc \in AtGraph /\ ~At(w, "idle") /\ ~At(w, "slot")
  BY DEF At, GraphRead, GraphMark, Extract, Persist, Compensate, GraphDone, GraphStale, GraphWarned,
         GraphFailed, AtGraph
<1>s. spent'.stalls = spent.stalls
  BY <1>t, SpendsNoStall DEF GraphRead, GraphMark, Extract, Persist, Compensate, GraphDone, GraphStale,
                             GraphWarned, GraphFailed
<1>h. ASSUME Complete(w) \/ Throw(w), UNCHANGED <<run, summarized>>,
             projected' = projected \/ (Cancelled /\ worker[w].pc \in Marked)
      PROVE  StoreStep(w)
  BY <1>h, <1>w, <1>s, LeftStore
<1>1. CASE GraphRead(w)
  <2>1. CASE Complete(w)
    BY <1>1, <1>h, <2>1 DEF GraphRead, store
  <2>2. CASE ~Complete(w)
    <3>1. PICK plan \in {"finalize", "summarize"} : Keep(w, "graphMark", plan)
      BY <1>1, <2>2 DEF GraphRead
    <3>2. Moved(w) /\ worker'[w].pc = "graphMark"
      BY <3>1, KeepMoves DEF WorkerPc, Stage
    <3> QED BY <1>1, <1>w, <1>s, <2>2, <3>2, MovedStore DEF GraphRead, Marked
  <2> QED BY <2>1, <2>2
<1>2. CASE GraphMark(w)
  <2>1. CASE Cancelled
    BY <1>2, <1>h, <2>1 DEF GraphMark, store
  <2>2. CASE ~Cancelled
    <3>1. Moved(w) /\ worker'[w].pc = "extract"
      BY <1>2, <2>2, GotoMoves DEF GraphMark, WorkerPc
    <3>2. run'.graph = "processing" /\ run'.summarize = run.summarize
      BY <1>2, <2>2, <1>t, SetFields DEF GraphMark, Set, StageStatus, Optional
    <3> QED BY <1>2, <1>w, <1>s, <2>2, <3>1, <3>2 DEF GraphMark, StoreStep, store
  <2> QED BY <2>1, <2>2
<1>3. CASE Extract(w)
  <2>1. CASE Complete(w)
    BY <1>3, <1>h, <2>1 DEF Extract, store
  <2>2. CASE ~Complete(w)
    <3>1. ASSUME NEW pc \in {"persist", "graphFailed"}, Goto(w, pc)
          PROVE  Moved(w) /\ worker'[w].pc = pc
      BY <3>1, GotoMoves DEF WorkerPc
    <3>2. ASSUME Throwing(w, "graphThrown", TRUE)
          PROVE  Moved(w) /\ worker'[w].pc = "graphThrown"
      <4> DEFINE h == [worker[w] EXCEPT !.pc = "graphThrown", !.retryable = TRUE, !.throws = TRUE]
      <4>1. h \in Handler /\ h.job = worker[w].job /\ h.pc = "graphThrown"
        BY <1>t DEF Handler, WorkerPc
      <4>2. worker' = [worker EXCEPT ![w] = h]
        BY <3>2 DEF Throwing, BaseInv, TypeOK
      <4> QED BY <4>1, <4>2, RecordMoves
    <3>3. ASSUME NEW r \in BOOLEAN,
                 worker' = [worker EXCEPT ![w].pc = "graphWarned", ![w].retryable = r]
          PROVE  Moved(w) /\ worker'[w].pc = "graphWarned"
      <4> DEFINE h == [worker[w] EXCEPT !.pc = "graphWarned", !.retryable = r]
      <4>1. h \in Handler /\ h.job = worker[w].job /\ h.pc = "graphWarned"
        BY <1>t DEF Handler, WorkerPc
      <4>2. worker' = [worker EXCEPT ![w] = h]
        BY <3>3 DEF BaseInv, TypeOK
      <4> QED BY <4>1, <4>2, RecordMoves
    <3>4. /\ Moved(w) /\ worker'[w].pc \in {"persist", "graphFailed", "graphThrown", "graphWarned"}
          /\ worker[w].pc = "extract" /\ UNCHANGED <<run, store, lease>>
      BY <1>3, <2>2, <3>1, <3>2, <3>3 DEF Extract, At
    <3> QED BY <1>w, <1>s, <3>4 DEF StoreStep, store, Marked
  <2> QED BY <2>1, <2>2
<1>4. CASE Persist(w)
  <2>1. /\ Moved(w) /\ worker'[w].pc \in {"graphDone", "graphStale"}
        /\ worker[w].pc = "persist" /\ UNCHANGED <<run, summarized, lease>>
        /\ projected' = projected \/ projected' = TRUE
        /\ worker'[w].pc = "graphDone" => projected' = TRUE
    BY <1>4, GotoMoves DEF Persist, WorkerPc, At, queue
  <2>2. projected \in BOOLEAN
    BY <1>t DEF TypeOK
  <2> QED BY <1>w, <1>s, <2>1, <2>2 DEF StoreStep, Marked
<1>5. CASE Compensate(w)
  <2>1. Complete(w) /\ Cancelled /\ worker[w].pc \in Marked /\ UNCHANGED <<run, summarized>>
    BY <1>5 DEF Compensate, Marked
  <2> QED BY <1>h, <2>1
<1>6. CASE GraphDone(w)
  <2>1. Moved(w) /\ worker'[w].pc = "next"
    BY <1>6, GotoMoves DEF GraphDone, WorkerPc
  <2>2. run'.summarize = run.summarize /\ (Cancelled => run' = run)
    BY <1>6, <1>t, SetEither DEF GraphDone, Set, SetStage, Fenced, StageStatus, Optional
  <2> QED BY <1>6, <1>w, <1>s, <2>1, <2>2 DEF GraphDone, StoreStep, store, queue, AtGraph, Marked
<1>7. CASE GraphStale(w)
  <2>1. Moved(w) /\ worker'[w].pc = "cancelRun"
    BY <1>7, GotoMoves DEF GraphStale, WorkerPc
  <2>2. run'.graph \in {run.graph, "cancelled"} /\ run'.summarize = run.summarize
    BY <1>7, <1>t, SetEither DEF GraphStale, Set, StageStatus, Optional
  <2> QED BY <1>7, <1>w, <1>s, <2>1, <2>2, MovedStore DEF GraphStale, Marked, queue
<1>8. CASE GraphWarned(w)
  <2>1. Moved(w) /\ worker'[w].pc = "next"
    BY <1>8, GotoMoves DEF GraphWarned, WorkerPc
  <2>2. run'.graph \in {run.graph, "failed"} /\ run'.summarize = run.summarize
    BY <1>8, <1>t, SetEither DEF GraphWarned, SetFailed, StageStatus, Optional
  <2> QED BY <1>8, <1>w, <1>s, <2>1, <2>2, MovedStore DEF GraphWarned, Marked, queue
<1>9. CASE GraphFailed(w)
  <2>1. CASE Cancelled
    BY <1>9, <1>h, <2>1 DEF GraphFailed, store
  <2>2. CASE ~Cancelled
    <3> DEFINE h == [worker[w] EXCEPT !.pc = "next", !.plan = "summarize", !.throws = TRUE]
    <3>1. h \in Handler /\ h.job = worker[w].job /\ h.pc = "next"
      BY <1>t DEF Handler, WorkerPc, Stage
    <3>2. worker' = [worker EXCEPT ![w] = h]
      BY <1>9, <2>2 DEF GraphFailed, BaseInv, TypeOK
    <3>3. Moved(w) /\ worker'[w].pc = "next"
      BY <3>1, <3>2, RecordMoves
    <3>4. run'.graph = "failed" /\ run'.summarize = run.summarize
      BY <1>9, <2>2, <1>t, SetFields DEF GraphFailed, SetFailed, StageStatus, Optional
    <3> QED BY <1>9, <1>w, <1>s, <2>2, <3>3, <3>4, MovedStore DEF GraphFailed, Marked
  <2> QED BY <2>1, <2>2
<1> QED BY <1>1, <1>2, <1>3, <1>4, <1>5, <1>6, <1>7, <1>8, <1>9

LEMMA SummaryStore ==
    ASSUME BaseInv, NEW w \in Worker,
           \/ SummaryStart(w) \/ SummaryCheck(w) \/ SummaryRetry(w) \/ SummaryNext(w)
           \/ SummaryMark(w) \/ Summarize(w) \/ PersistIfCurrent(w) \/ SummaryRecord(w)
           \/ SummaryReady(w) \/ SummaryLost(w) \/ SummaryFailed(w)
    PROVE  StoreStep(w)
<1>t. TypeOK /\ worker[w] \in Handler /\ worker[w].retryable \in BOOLEAN
  BY DEF BaseInv, TypeOK, Handler
<1>w. worker[w].pc \in AtSummary /\ ~At(w, "idle") /\ ~At(w, "slot")
  BY DEF At, SummaryStart, SummaryCheck, SummaryRetry, SummaryNext, SummaryGuard, SummaryMark, Summarize,
         PersistIfCurrent, SummaryRecord, SummaryReady, SummaryLost, SummaryFailed, AtSummary
<1>s. spent'.stalls = spent.stalls
  BY <1>t, SpendsNoStall DEF SummaryStart, SummaryCheck, SummaryRetry, SummaryNext, SummaryGuard, SummaryMark,
                             Summarize, PersistIfCurrent, SummaryRecord, SummaryReady, SummaryLost,
                             SummaryFailed
<1>1. ASSUME NEW pc \in {"sumStart", "sumGuard", "sumThrown", "sumNext"},
             NEW next \in {"sumMark", "sumRead", "sumFailed", "next"}, SummaryGuard(w, pc, next)
      PROVE  StoreStep(w)
  <2>1. CASE Cancelled
    BY <1>1, <1>w, <1>s, <2>1, LeftStore DEF SummaryGuard, store
  <2>2. CASE ~Cancelled
    <3>1. Moved(w) /\ worker'[w].pc \in {"sumMark", "sumRead", "sumFailed", "next", "cancelRun"}
      BY <1>1, <2>2, GotoMoves DEF SummaryGuard, WorkerPc
    <3> QED BY <1>1, <1>w, <1>s, <2>2, <3>1, MovedStore DEF SummaryGuard, Marked, AtGraph
  <2> QED BY <2>1, <2>2
<1>2. CASE SummaryMark(w)
  <2>1. Moved(w) /\ worker'[w].pc \in {"sumGuard", "sumNext"}
    BY <1>2, GotoMoves DEF SummaryMark, WorkerPc
  <2>2. run'.graph = run.graph /\ (run'.summarize = "ready" => run.summarize = "ready")
    BY <1>2, <1>t, SetEither DEF SummaryMark, Set, StageStatus, Optional
  <2> QED BY <1>2, <1>w, <1>s, <2>1, <2>2, MovedStore DEF SummaryMark, Marked, AtGraph, queue
<1>3. CASE Summarize(w)
  <2>1. CASE \E pc \in {"sumPersist", "sumLost", "sumThrown"} : Goto(w, pc)
    <3>1. Moved(w) /\ worker'[w].pc \in {"sumPersist", "sumLost", "sumThrown"}
      BY <2>1, GotoMoves DEF WorkerPc
    <3> QED BY <1>3, <1>w, <1>s, <3>1, MovedStore DEF Summarize, Marked, AtGraph, queue
  <2>2. CASE Keep(w, "sumRecord", "skipped")
    <3>1. Moved(w) /\ worker'[w].pc = "sumRecord" /\ worker'[w].plan = "skipped"
      BY <2>2, KeepMoves DEF WorkerPc, StageStatus
    <3> QED BY <1>3, <1>w, <1>s, <3>1 DEF StoreStep, Summarize, Marked, AtGraph, queue, store
  <2>3. CASE Throwing(w, "sumThrown", TRUE)
    <3> DEFINE h == [worker[w] EXCEPT !.pc = "sumThrown", !.retryable = TRUE, !.throws = TRUE]
    <3>1. h \in Handler /\ h.job = worker[w].job /\ h.pc = "sumThrown"
      BY <1>t DEF Handler, WorkerPc
    <3>2. worker' = [worker EXCEPT ![w] = h]
      BY <2>3 DEF Throwing, BaseInv, TypeOK
    <3>3. Moved(w) /\ worker'[w].pc = "sumThrown"
      BY <3>1, <3>2, RecordMoves
    <3> QED BY <1>3, <1>w, <1>s, <3>3, MovedStore DEF Summarize, Marked, AtGraph, queue
  <2> QED BY <1>3, <2>1, <2>2, <2>3 DEF Summarize
<1>4. CASE PersistIfCurrent(w)
  <2>1. /\ Moved(w) /\ UNCHANGED <<run, projected, lease>>
        /\ \/ worker'[w].pc = "sumRecord" /\ summarized' = TRUE
           \/ worker'[w].pc = "sumLost" /\ summarized' = summarized
    BY <1>4, GotoMoves, KeepMoves DEF PersistIfCurrent, WorkerPc, StageStatus, queue
  <2> QED BY <1>w, <1>s, <2>1 DEF StoreStep, Marked, AtGraph
<1>5. CASE SummaryRecord(w)
  <2>1. CASE Cancelled
    BY <1>5, <1>w, <1>s, <2>1, LeftStore DEF SummaryRecord, store
  <2>2. CASE ~Cancelled
    <3>0. worker[w].plan \in {"ready", "skipped"} /\ worker[w].pc = "sumRecord"
      BY <1>5 DEF SummaryRecord, At, BaseInv, Handlers, HandlerInv
    <3>1. Moved(w) /\ worker'[w].pc \in {"sumReady", "sumLost"} /\ worker'[w].plan = worker[w].plan
      BY <1>5, <2>2, <3>0, GotoMoves DEF SummaryRecord, WorkerPc
    <3> QED BY <1>5, <1>w, <1>s, <2>2, <3>0, <3>1 DEF StoreStep, SummaryRecord, Marked, AtGraph, store
  <2> QED BY <2>1, <2>2
<1>6. CASE SummaryReady(w)
  <2>0. worker[w].plan \in {"ready", "skipped"} /\ At(w, "sumReady")
    BY <1>6 DEF SummaryReady, At, BaseInv, Handlers, HandlerInv
  <2>1. Moved(w) /\ worker'[w].pc = "sumNext"
    BY <1>6, GotoMoves DEF SummaryReady, WorkerPc
  <2>2. run'.graph = run.graph /\ run'.summarize \in {run.summarize, worker[w].plan}
    BY <1>6, <1>t, <2>0, SetEither DEF SummaryReady, Set, StageStatus, Optional
  <2> QED BY <1>6, <1>w, <1>s, <2>0, <2>1, <2>2 DEF StoreStep, SummaryReady, Marked, AtGraph, queue, store
<1>7. CASE SummaryLost(w)
  <2>1. run'.graph = run.graph /\ (run'.summarize = "ready" => run.summarize = "ready")
    BY <1>7, <1>t, SetEither DEF SummaryLost, Set, StageStatus, Optional
  <2>2. CASE Cancelled
    BY <1>7, <1>w, <1>s, <2>1, <2>2, LeftStore DEF SummaryLost, store
  <2>3. CASE ~Cancelled
    <3>1. Moved(w) /\ worker'[w].pc = "cancelRun"
      BY <1>7, <2>3, GotoMoves DEF SummaryLost, WorkerPc
    <3> QED BY <1>7, <1>w, <1>s, <2>1, <2>3, <3>1, MovedStore DEF SummaryLost, Marked, AtGraph
  <2> QED BY <2>2, <2>3
<1>8. CASE SummaryFailed(w)
  <2>1. Moved(w) /\ worker'[w].pc = "sumNext"
    BY <1>8, GotoMoves DEF SummaryFailed, WorkerPc
  <2>2. run'.graph = run.graph /\ (run'.summarize = "ready" => run.summarize = "ready")
    BY <1>8, <1>t, SetEither DEF SummaryFailed, SetFailed, StageStatus, Optional
  <2> QED BY <1>8, <1>w, <1>s, <2>1, <2>2, MovedStore DEF SummaryFailed, Marked, AtGraph, queue
<1> QED BY <1>1, <1>2, <1>3, <1>4, <1>5, <1>6, <1>7, <1>8
     DEF SummaryStart, SummaryCheck, SummaryRetry, SummaryNext

LEMMA EndStore ==
    ASSUME BaseInv, NEW w \in Worker,
           \/ Acquire(w) \/ CancelRun(w) \/ Enqueue(w) \/ Recheck(w)
           \/ FinalizeRead(w) \/ FinalizeWrite(w)
    PROVE  StoreStep(w)
<1>t. TypeOK /\ worker[w] \in Handler /\ worker[w].plan \in {"none"} \cup Stage \cup RunStatus \cup StageStatus
  BY DEF BaseInv, TypeOK, Handler
<1>w. ~At(w, "idle") /\ (~Acquire(w) => ~At(w, "slot"))
  BY DEF At, Acquire, CancelRun, Enqueue, Recheck, FinalizeRead, FinalizeWrite
<1>s. spent'.stalls = spent.stalls
  BY <1>t, SpendsNoStall DEF Acquire, CancelRun, Enqueue, Recheck, FinalizeRead, FinalizeWrite
<1>1. CASE Acquire(w)
  <2>1. Moved(w) /\ worker'[w].pc = IF JobOf(w)[1] = "graph" THEN "graphRead"
                                    ELSE IF JobOf(w)[1] = "summarize" THEN "sumStart" ELSE "finRead"
    BY <1>1, GotoMoves DEF Acquire, WorkerPc
  <2> QED BY <1>1, <1>s, <2>1 DEF Acquire, StoreStep, Marked, AtGraph, store
<1>2. CASE CancelRun(w)
  <2>1. run' \in {run, AllCancelled}
    BY <1>2 DEF CancelRun, Fenced
  <2>2. (run'.graph = "ready" => run.graph = "ready") /\ (run'.summarize = "ready" => run.summarize = "ready")
    BY <1>t, <2>1 DEF AllCancelled, TypeOK, Run
  <2> QED BY <1>2, <1>w, <1>s, <2>2, LeftStore DEF CancelRun, store
<1>3. CASE Enqueue(w)
  <2>1. CASE End(w) \/ Throw(w)
    BY <1>3, <1>w, <1>s, <2>1, LeftStore DEF Enqueue, store
  <2>2. CASE Goto(w, "recheck") /\ UNCHANGED lease
    <3>1. Moved(w) /\ worker'[w].pc = "recheck"
      BY <2>2, GotoMoves DEF WorkerPc
    <3> QED BY <1>3, <1>w, <1>s, <2>2, <3>1, MovedStore DEF Enqueue, Acquire, At, Marked, AtGraph
  <2>3. CASE Goto(w, "graphFailed") /\ UNCHANGED lease /\ JobOf(w)[1] = "graph"
    <3>1. Moved(w) /\ worker'[w].pc = "graphFailed"
      BY <2>3, GotoMoves DEF WorkerPc
    <3> QED BY <1>3, <1>w, <1>s, <2>3, <3>1, MovedStore DEF Enqueue, Acquire, At, Marked
  <2> QED BY <1>3, <2>1, <2>2, <2>3 DEF Enqueue
<1>4. CASE Recheck(w)
  BY <1>4, <1>w, <1>s, LeftStore DEF Recheck, store
<1>5. CASE FinalizeRead(w)
  <2>1. DeriveFinalStatus(run) \in RunStatus
    BY <1>t, FinalTyped DEF TypeOK
  <2>2. Moved(w) /\ worker'[w].pc = "finWrite"
    BY <1>5, <2>1, KeepMoves DEF FinalizeRead, WorkerPc
  <2> QED BY <1>5, <1>w, <1>s, <2>2, MovedStore DEF FinalizeRead, Acquire, At, Marked, AtGraph, queue
<1>6. CASE FinalizeWrite(w)
  <2>1. run'.graph = run.graph /\ run'.summarize = run.summarize
    BY <1>6, <1>t DEF FinalizeWrite, Fenced, TypeOK, Run
  <2> QED BY <1>6, <1>w, <1>s, <2>1, LeftStore DEF FinalizeWrite, store
<1> QED BY <1>1, <1>2, <1>3, <1>4, <1>5, <1>6

LEMMA HandleStore ==
    ASSUME BaseInv, NEW w \in Worker, Handle(w)
    PROVE  StoreStep(w)
BY GraphStore, SummaryStore, EndStore DEF Handle

\* A handler keeps its slot, and no other takes it.
LEMMA SlotHandle ==
    ASSUME BaseInv, SlotInv, NEW w \in Worker, Handle(w)
    PROVE  SlotInv'
<1> USE DEF Inside, At, JobOf
<1>1. StoreStep(w) /\ ~At(w, "idle")
  BY HandleStore, HandlesAtWork
<1>t. lease \in [Stage -> SUBSET Lease] /\ "graph" \in Stage
  BY DEF BaseInv, TypeOK, Stage
<1>j. JobOf(w) \in JobId /\ JobOf(w)[1] \in Stage
  BY <1>1, JobIdShape DEF BaseInv, Handlers, HandlerInv
<1>2. /\ \A v \in Worker \ {w} : worker'[v] = worker[v]
      /\ \/ worker'[w].job = worker[w].job
         \/ worker'[w].pc = "idle"
  BY <1>1 DEF StoreStep, Moved, Left, Alone, IdleWorker
<1>3. \A v \in Worker : worker'[v].pc \in AtGraph => worker'[v].job[1] = "graph"
  <2>1. worker'[w].pc \in AtGraph => worker'[w].job[1] = "graph"
    BY <1>1, <1>2 DEF SlotInv, StoreStep, AtGraph
  <2> QED BY <1>2, <2>1 DEF SlotInv
<1>4. ASSUME Limit["graph"] = 1 PROVE \A k, l \in lease'["graph"] : k = l
  <2>1. CASE Acquire(w)
    <3>1. CASE JobOf(w)[1] = "graph"
      <4>1. lease["graph"] = {}
        <5>1. SUFFICES ASSUME NEW l \in lease["graph"] PROVE FALSE
          OBVIOUS
        <5>2. lease["graph"] = {l}
          BY <1>4, <5>1 DEF SlotInv
        <5>3. Cardinality({l}) = 1
          BY FS_Singleton
        <5>4. Cardinality(lease["graph"]) < 1
          BY <1>4, <2>1, <3>1 DEF Acquire
        <5> QED BY <5>2, <5>3, <5>4
      <4>2. lease'["graph"] = {<<w, "held">>}
        BY <1>t, <2>1, <3>1, <4>1 DEF Acquire
      <4> QED BY <4>2
    <3>2. CASE JobOf(w)[1] # "graph"
      <4>1. lease'["graph"] = lease["graph"]
        BY <1>t, <2>1, <3>2 DEF Acquire
      <4> QED BY <1>4, <4>1 DEF SlotInv
    <3> QED BY <3>1, <3>2
  <2>2. CASE ~Acquire(w)
    <3>1. lease'["graph"] \subseteq lease["graph"]
      BY <1>1, <1>t, <1>j, <2>2 DEF StoreStep, Leave
    <3> QED BY <1>4, <3>1 DEF SlotInv
  <2> QED BY <2>1, <2>2
<1>5. ASSUME spent'.stalls = 0, NEW v \in Worker, Inside(v)' PROVE <<v, "held">> \in lease'["graph"]
  <2>0. spent.stalls = 0
    BY <1>1, <1>5 DEF StoreStep
  <2>1. CASE v # w
    <3>1. <<v, "held">> \in lease["graph"]
      BY <1>2, <1>5, <2>0, <2>1 DEF SlotInv
    <3>2. lease["graph"] \ {<<w, "held">>} \subseteq lease'["graph"]
      BY <1>1, <1>t, <1>j DEF StoreStep, Acquire, Leave
    <3> QED BY <2>1, <3>1, <3>2
  <2>2. CASE v = w
    <3>1. Moved(w) /\ JobOf(w)[1] = "graph"
      BY <1>1, <1>2, <1>5, <2>2 DEF StoreStep, Left, IdleWorker
    <3>2. CASE Acquire(w)
      BY <1>t, <2>2, <3>1, <3>2 DEF Acquire
    <3>3. CASE ~Acquire(w) /\ UNCHANGED lease /\ ~At(w, "slot")
      <4>1. Inside(w)
        BY <1>1, <3>1, <3>3
      <4> QED BY <2>0, <2>2, <3>3, <4>1 DEF SlotInv
    <3>4. ~Left(w)
      BY <3>1 DEF Moved, Left, IdleWorker
    <3> QED BY <1>1, <3>2, <3>3, <3>4 DEF StoreStep
  <2> QED BY <2>1, <2>2
<1> QED BY <1>3, <1>4, <1>5 DEF SlotInv

\* What a handler claims it has stored, and it takes back what nobody claims.
LEMMA StoredHandle ==
    ASSUME BaseInv, SlotInv, StoredInv, NEW w \in Worker, Handle(w)
    PROVE  StoredInv'
<1> USE DEF At
<1>1. StoreStep(w) /\ worker[w].pc # "idle" /\ Handled(w)
  BY HandleStore, HandlesAtWork, HandleHandled
<1>2. \A v \in Worker \ {w} : worker'[v] = worker[v]
  BY <1>1 DEF StoreStep, Moved, Left, Alone
<1>3. recovery.pc = "off" /\ recovery'.pc = "off"
  BY <1>1 DEF StoredInv, Handled, host
<1>c. Cancelled => Cancelled'
  BY <1>1 DEF Handled, RunKept
<1>e. Exclusive' <=> Exclusive
  BY <1>1 DEF StoreStep, Exclusive
\* With one slot, no other handler of the graph stage is at work.
<1>o. ASSUME Exclusive, NEW u \in Worker, NEW v \in Worker, worker[u].pc \in AtGraph, worker[v].pc \in AtGraph
      PROVE  u = v
  <2>1. Inside(u) /\ Inside(v)
    BY <1>o DEF SlotInv, Inside, AtGraph
  <2>2. <<u, "held">> \in lease["graph"] /\ <<v, "held">> \in lease["graph"]
    BY <1>o, <2>1 DEF SlotInv, Exclusive
  <2>3. <<u, "held">> = <<v, "held">>
    BY <1>o, <2>2 DEF SlotInv, Exclusive
  <2> QED BY <2>3
<1>m. Marked \subseteq AtGraph /\ "graphDone" \in Marked
  BY DEF Marked, AtGraph
<1>4. ASSUME NEW v \in Worker, At(v, "graphDone")', ~Cancelled' PROVE projected'
  <2>1. ~Cancelled
    BY <1>c, <1>4
  <2>2. CASE v = w
    BY <1>1, <1>4, <2>2 DEF StoreStep
  <2>3. CASE v # w
    <3>1. projected
      BY <1>2, <1>4, <2>1, <2>3 DEF StoredInv
    <3> QED BY <1>1, <2>1, <3>1 DEF StoreStep
  <2> QED BY <2>2, <2>3
<1>5. ASSUME Exclusive', NEW v \in Worker, worker'[v].pc \in Marked PROVE run'.graph # "ready"
  <2>1. CASE v = w
    BY <1>1, <1>5, <1>e, <2>1 DEF StoreStep, StoredInv
  <2>2. CASE v # w
    <3>1. worker[v].pc \in Marked /\ run.graph # "ready"
      BY <1>2, <1>5, <1>e, <2>2 DEF StoredInv
    <3>2. ~At(w, "graphDone")
      BY <1>5, <1>e, <1>m, <1>o, <2>2, <3>1
    <3> QED BY <1>1, <3>1, <3>2 DEF StoreStep
  <2> QED BY <2>1, <2>2
<1>6. ASSUME run'.graph = "ready", Cancelled' => Exclusive' PROVE projected'
  <2>1. CASE At(w, "graphDone") /\ ~Cancelled
    <3>1. projected
      BY <2>1 DEF StoredInv
    <3> QED BY <1>1, <2>1, <3>1 DEF StoreStep
  <2>2. CASE run.graph = "ready"
    <3>1. projected
      BY <1>6, <1>c, <1>e, <2>2 DEF StoredInv
    <3>2. ~(Cancelled /\ worker[w].pc \in Marked)
      BY <1>6, <1>c, <1>e, <2>2 DEF StoredInv
    <3> QED BY <1>1, <3>1, <3>2 DEF StoreStep
  <2> QED BY <1>1, <1>6, <2>1, <2>2 DEF StoreStep
<1>7. ASSUME NEW v \in Worker, worker'[v].pc \in {"sumRecord", "sumReady"}, worker'[v].plan = "ready"
      PROVE  summarized'
  BY <1>1, <1>2, <1>7 DEF StoreStep, StoredInv
<1>8. ASSUME run'.summarize = "ready" PROVE summarized'
  BY <1>1, <1>8 DEF StoreStep, StoredInv
<1> QED BY <1>3, <1>4, <1>5, <1>6, <1>7, <1>8 DEF StoredInv

\* A step of anybody else, who claims nothing, takes nothing back and no slot.
LEMMA StoredRest ==
    ASSUME StoredInv, UNCHANGED <<worker, store, recovery>>,
           run'.graph = "ready" => run.graph = "ready",
           run'.summarize = "ready" => run.summarize = "ready",
           Cancelled => Cancelled', Exclusive' => Exclusive
    PROVE  StoredInv'
BY DEF StoredInv, At, store

LEMMA SlotRest ==
    ASSUME SlotInv, UNCHANGED <<worker, lease>>, spent'.stalls = spent.stalls
    PROVE  SlotInv'
BY DEF SlotInv, Inside, At, JobOf

LEMMA StoredLapse ==
    ASSUME BaseInv, SlotInv, StoredInv, NEW s \in Stage, NEW l \in Lease, Lapse(s, l)
    PROVE  SlotInv' /\ StoredInv'
<1>t. /\ lease \in [Stage -> SUBSET Lease] /\ "graph" \in Stage
      /\ spent.stalls \in Nat /\ MaxStalls \in Nat
      /\ spent \in [retries : 0..MaxRetries, failures : 0..MaxFailures, outages : 0..MaxOutages,
                    crashes : 0..MaxCrashes, stalls : 0..MaxStalls]
  BY BoundsAssumption DEF BaseInv, TypeOK, Stage
<1>1. /\ lease'["graph"] \subseteq lease["graph"]
      /\ lease["graph"] \subseteq lease'["graph"] \cup {l}
  BY <1>t DEF Lapse
<1>2. (spent'.stalls = spent.stalls /\ l[2] # "held") \/ spent'.stalls = spent.stalls + 1
  BY <1>t DEF Lapse, Spend
<1>3. SlotInv'
  <2>1. UNCHANGED worker
    BY DEF Lapse
  <2>2. ASSUME spent'.stalls = 0, NEW w \in Worker, Inside(w)' PROVE <<w, "held">> \in lease'["graph"]
    <3>1. spent.stalls = 0 /\ l[2] # "held"
      BY <1>t, <1>2, <2>2
    <3>2. Inside(w)
      BY <2>1, <2>2 DEF Inside, At, JobOf
    <3>3. <<w, "held">> \in lease["graph"] /\ <<w, "held">> # l
      BY <3>1, <3>2 DEF SlotInv
    <3> QED BY <1>1, <3>3
  <2> QED BY <1>1, <2>1, <2>2 DEF SlotInv, JobOf
<1>4. Exclusive' => Exclusive
  BY <1>t, <1>2 DEF Exclusive
<1> QED BY <1>3, <1>4, StoredRest DEF Lapse, Cancelled, host

LEMMA StoredTake ==
    ASSUME BaseInv, SlotInv, StoredInv, NEW w \in Worker, NEW j \in JobId, Take(w, j)
    PROVE  SlotInv' /\ StoredInv'
<1>1. worker'[w].pc = "slot" /\ \A v \in Worker \ {w} : worker'[v] = worker[v]
  BY DEF Take, BaseInv, TypeOK, IdleWorker
<1>2. UNCHANGED <<run, store, lease, recovery, spent>> /\ recovery.pc = "off"
  BY DEF Take, Running, host
<1>3. SlotInv'
  <2>1. \A v \in Worker : worker'[v].pc \in AtGraph => worker'[v].job[1] = "graph"
    BY <1>1 DEF SlotInv, AtGraph, JobOf
  <2>2. \A v \in Worker : Inside(v)' => Inside(v)
    BY <1>1 DEF Inside, At, JobOf
  <2> QED BY <1>2, <2>1, <2>2 DEF SlotInv, JobOf
<1>4. StoredInv'
  <2>1. /\ \A v \in Worker : worker'[v].pc \in Marked => worker[v].pc \in Marked
        /\ \A v \in Worker : worker'[v].pc = "graphDone" => worker[v].pc = "graphDone"
        /\ \A v \in Worker : worker'[v].pc \in {"sumRecord", "sumReady"} /\ worker'[v].plan = "ready" =>
                                worker[v].pc \in {"sumRecord", "sumReady"} /\ worker[v].plan = "ready"
    BY <1>1 DEF Marked
  <2> QED BY <1>2, <2>1 DEF StoredInv, store, At, Cancelled, Exclusive
<1> QED BY <1>3, <1>4

\* Requests to retry take claims back.
LEMMA StoredClient ==
    ASSUME BaseInv, SlotInv, StoredInv, NEW c \in Client, RetryClaim(c) \/ Continue(c)
    PROVE  SlotInv' /\ StoredInv'
<1> USE DEF store, queue, host
<1>t. TypeOK
  BY DEF BaseInv
<1>1. ClientStep
  BY RetryKept
<1>2. spent'.stalls = spent.stalls
  BY <1>t DEF RetryClaim, Continue, RetryDrop, RetryLook, RetryAdd, RetryRestore, Outage, Spend, TypeOK
<1>3. (run'.graph = "ready" => run.graph = "ready") /\ (run'.summarize = "ready" => run.summarize = "ready")
  <2>1. CASE RetryClaim(c) /\ ~UNCHANGED run
    <3> DEFINE graph == run.graph = "failed" /\ run.graphRetryable
               summarize == run.summarize = "failed" /\ run.summarizeRetryable
               row == [run EXCEPT !.status = "processing", !.finalize = "pending",
                                  !.graph = IF graph THEN "retrying" ELSE @,
                                  !.graphRetryable = @ /\ ~graph,
                                  !.summarize = IF summarize THEN "retrying" ELSE @,
                                  !.summarizeRetryable = @ /\ ~summarize]
    <3>1. run' = row
      BY <2>1, Zenon DEF RetryClaim
    <3> QED BY <1>t, <3>1 DEF TypeOK, Run
  <2>2. CASE RetryRestore(c)
    BY <1>t, <2>2 DEF RetryRestore, TypeOK, Run
  <2>3. CASE UNCHANGED run
    BY <2>3
  <2> QED BY <2>1, <2>2, <2>3 DEF Continue, RetryDrop, RetryLook, RetryAdd
<1> QED BY <1>1, <1>2, <1>3, StoredRest, SlotRest DEF ClientStep, RunKept, Exclusive

LEMMA StoredEnvironment ==
    ASSUME BaseInv, SlotInv, StoredInv,
           \/ Edit \/ Replace \/ Supersede \/ CancelAccount
           \/ \E j \in JobId : RemoveWaiting(j)
    PROVE  SlotInv' /\ StoredInv'
<1>t. TypeOK /\ RunKept
  BY EnvironmentKept DEF BaseInv
<1>1. UNCHANGED <<worker, store, recovery, lease, spent>>
  BY DEF Edit, Replace, Supersede, CancelAccount, RemoveWaiting, queue, host
<1>2. (run'.graph = "ready" => run.graph = "ready") /\ (run'.summarize = "ready" => run.summarize = "ready")
  BY <1>t DEF Edit, Replace, Supersede, CancelAccount, RemoveWaiting, AllCancelled, TypeOK, Run
<1> QED BY <1>t, <1>1, <1>2, StoredRest, SlotRest DEF RunKept, Exclusive

LEMMA StoredCrash ==
    ASSUME BaseInv, SlotInv, StoredInv, Crash
    PROVE  SlotInv' /\ StoredInv'
<1>1. \A w \in Worker : worker'[w].pc = "idle"
  BY DEF Crash, IdleWorker
<1>2. UNCHANGED <<run, store>> /\ recovery'.pc = "find"
  BY DEF Crash, Off
<1>3. spent'.stalls = spent.stalls
  BY DEF Crash, Spend, BaseInv, TypeOK
<1>4. Limit["graph"] = 1 => \A k, l \in lease'["graph"] : k = l
  <2>1. \/ lease'["graph"] = {}
        \/ lease'["graph"] = {<<l[1], "left">> : l \in lease["graph"]}
    BY DEF Crash, Stage
  <2> QED BY <2>1 DEF SlotInv
<1>5. SlotInv'
  BY <1>1, <1>4 DEF SlotInv, Inside, At, AtGraph
<1>6. StoredInv'
  BY <1>1, <1>2, <1>3 DEF StoredInv, At, Marked, store, Cancelled, Exclusive
<1> QED BY <1>5, <1>6

\* While the recovery runs no handler does, and it claims nothing.
LEMMA StoredRecovery ==
    ASSUME BaseInv, SlotInv, StoredInv, RecoveryStep
    PROVE  SlotInv' /\ StoredInv'
<1>t. TypeOK /\ run \in Run /\ recovery.stage \in Stage
  BY DEF BaseInv, TypeOK
<1>1. UNCHANGED <<worker, store, lease, spent>> /\ recovery.pc # "off"
  BY DEF RecoveryStep, RecoverFind, RecoverClaim, RecoverExhaust, RecoverAdd, queue
<1>2. \A w \in Worker : worker'[w].pc = "idle"
  BY <1>1 DEF StoredInv, At
<1>3. (run'.graph = "ready" => run.graph = "ready") /\ (run'.summarize = "ready" => run.summarize = "ready")
  <2>1. CASE UNCHANGED run
    BY <2>1
  <2>2. ASSUME NEW st \in {"retrying", "failed"}, NEW n,
               run' = [run EXCEPT !.status = st, ![recovery.stage] = st, !.attempts = n]
               \/ run' = [run EXCEPT !.status = st, ![recovery.stage] = st]
        PROVE  /\ run'.graph = "ready" => run.graph = "ready"
               /\ run'.summarize = "ready" => run.summarize = "ready"
    <3>1. CASE recovery.stage = "graph"
      BY <1>t, <2>2, <3>1 DEF Run
    <3>2. CASE recovery.stage = "summarize"
      BY <1>t, <2>2, <3>2 DEF Run
    <3>3. CASE recovery.stage = "finalize"
      BY <1>t, <2>2, <3>3 DEF Run
    <3> QED BY <1>t, <3>1, <3>2, <3>3 DEF Stage
  <2> QED BY <2>1, <2>2 DEF RecoveryStep, RecoverFind, RecoverClaim, RecoverExhaust, RecoverAdd
<1>4. ASSUME run'.graph = "ready", Cancelled' => Exclusive' \/ recovery'.pc \notin {"off", "find"}
      PROVE  projected
  <2>1. run.graph = "ready" /\ (Exclusive' <=> Exclusive)
    BY <1>1, <1>3, <1>4 DEF Exclusive
  <2>2. CASE RecoverFind
    BY <1>4, <2>1, <2>2 DEF RecoverFind, Recover, Off, StoredInv, Cancelled, ActiveStatuses
  <2>3. CASE RecoverClaim \/ RecoverExhaust
    BY <2>1, <2>3 DEF RecoverClaim, RecoverExhaust, StoredInv
  <2>4. CASE RecoverAdd
    BY <2>1, <2>4 DEF RecoverAdd, StoredInv
  <2> QED BY <2>2, <2>3, <2>4 DEF RecoveryStep
<1>5. SlotInv'
  BY <1>1, SlotRest
<1>6. StoredInv'
  BY <1>1, <1>2, <1>3, <1>4 DEF StoredInv, At, Marked, store
<1> QED BY <1>5, <1>6

LEMMA StoredNext ==
    ASSUME BaseInv, SlotInv, StoredInv, [Next]_vars
    PROVE  SlotInv' /\ StoredInv'
<1>1. ASSUME NEW w \in Worker, Handle(w) PROVE SlotInv' /\ StoredInv'
  BY <1>1, SlotHandle, StoredHandle
<1>2. CASE UNCHANGED vars
  <2>1. StoredInv'
    BY <1>2, StoredRest DEF vars, store, host, Cancelled, Exclusive
  <2>2. SlotInv'
    BY <1>2, SlotRest DEF vars, queue
  <2> QED BY <2>1, <2>2
<1> QED BY <1>1, <1>2, StoredTake, StoredLapse, StoredClient, StoredEnvironment, StoredCrash, StoredRecovery
     DEF Next

LEMMA StoredInit ==
    ASSUME Init
    PROVE  SlotInv /\ StoredInv
<1>1. /\ \A w \in Worker : worker[w].pc = "idle"
      /\ lease["graph"] = {} /\ run.graph = "pending" /\ run.summarize = "pending"
      /\ recovery.pc = "off"
  BY DEF Init, IdleWorker, Stage, Off
<1> QED BY <1>1 DEF SlotInv, StoredInv, At, Inside, AtGraph, Marked

\* What a stage that is ready stands for is stored: the graph stage of a run that is
\* not over, or was cancelled while one handler at a time could hold its only slot;
\* the summary always.
THEOREM ClaimsCorrect == Spec => []ClaimsAreStored
<1>1. Init => BaseInv /\ SlotInv /\ StoredInv
  BY BaseInit, StoredInit
<1>2. BaseInv /\ SlotInv /\ StoredInv /\ [Next]_vars => BaseInv' /\ SlotInv' /\ StoredInv'
  BY BaseNext, StoredNext
<1>3. StoredInv => ClaimsAreStored
  BY DEF StoredInv, ClaimsAreStored, Exclusive
<1> QED BY <1>1, <1>2, <1>3, PTL DEF Spec

-----------------------------------------------------------------------------
(***************************************************************************)
(* A run that is not over is carried on                                    *)
(*                                                                         *)
(* By the jobs of its first pass, or by those of its retry, from the claim *)
(* of which the request carries it until it has added the first of them.   *)
(* Within a pass a job ends when the next one is there: an attempt that    *)
(* queued nothing met an outage, of which there are fewer than attempts.   *)
(***************************************************************************)
Calm ==
    /\ spent.crashes = 0 /\ spent.retries < 2 /\ spent.outages < MaxTries
    /\ ~sweeping
Active == run.status \in ActiveStatuses

Present(j) == job[j].state # "absent"
Ended(j) == job[j].state = "ended"

\* The jobs of a pass, "first" or "retry".
Graph(k) == <<"graph", k, 0>>
Summary(k) == <<"summarize", k, 0>>
Short(k) == <<"finalize", "graph", IF k = "first" THEN 0 ELSE 1>>

Chain(g, s, f) ==
    /\ Present(g) \/ Present(s)
    /\ Ended(g) => Present(s) \/ Present(f)
    /\ Ended(s) => Present(First("finalize"))
    /\ ~Ended(First("finalize")) /\ ~Ended(f)

\* An attempt of a job that has queued nothing met an outage; one that did is not
\* forgotten.
Attempts(g, s, f, n) ==
    /\ Live(g) => job[g].requested = n
    /\ Live(g) /\ ~Present(s) /\ ~Present(f) => job[g].tries <= spent.outages
    /\ Live(s) /\ ~Present(First("finalize")) => job[s].tries <= spent.outages
    /\ \A w \in Worker : At(w, "recheck") /\ JobOf(w) \in {g, s} => Present(Following(w))

Carried(k) ==
    Active => /\ Chain(Graph(k), Summary(k), Short(k))
              /\ Attempts(Graph(k), Summary(k), Short(k), IF k = "first" THEN 0 ELSE 1)

\* Nothing of a retry has been queued.
Unretried ==
    /\ ~Present(Graph("retry")) /\ ~Present(Summary("retry"))
    /\ \A j \in JobId : j[1] = "finalize" /\ j[3] # 0 => ~Present(j)
    /\ Live(Graph("first")) => job[Graph("first")].requested = 0

FirstPass ==
    /\ Unretried /\ Carried("first")
    /\ "retrying" \notin {run.graph, run.summarize}
    /\ \A c \in Client : client[c].pc # "idle" =>
           client[c].pc = "look" /\ client[c].deduplicated /\ client[c].started /\ spent.retries = 1

Claiming ==
    /\ Unretried /\ spent.retries = 1
    /\ \E c \in Client :
        /\ client[c].pc # "idle" /\ ~client[c].deduplicated /\ client[c].number = 1
        /\ \A d \in Client \ {c} : client[d].pc = "idle"
        /\ client[c].pc \in {"look", "add"} /\ Active => ~Ended(First("finalize"))

RetryPass ==
    /\ spent.retries = 1 /\ Carried("retry")
    /\ \A c \in Client : client[c].pc = "idle"

PlaceInv ==
    \A w \in Worker :
        /\ worker[w].pc \in AtGraph \cup AtSummary \cup {"next", "recheck", "cancelRun"} =>
               JobOf(w)[1] # "finalize"
        /\ At(w, "finWrite") => worker[w].plan \notin ActiveStatuses

CarriedInv ==
    Calm => recovery.pc = "off" /\ run.status # "retrying" /\ (FirstPass \/ Claiming \/ RetryPass)

\* What a step of the handler w does to its job and to the next one.
Going(w) == Moved(w) /\ UNCHANGED job /\ worker'[w].pc # "recheck"
Adding(w) ==
    /\ At(w, "next") /\ ~Cancelled
    /\ Add(Following(w), job[JobOf(w)].requested)
    /\ Moved(w) /\ worker'[w].plan = worker[w].plan
Passing(w) == At(w, "recheck") /\ Left(w) /\ job' = [job EXCEPT ![JobOf(w)] = After(w)]
Refused(w) == At(w, "next") /\ Left(w) /\ job' = [job EXCEPT ![JobOf(w)] = Thrown(@)] /\ Outage
Stopping(w) ==
    /\ ~Active' /\ Left(w)
    /\ \A j \in JobId :
        /\ Present(j)' => Present(j)
        /\ Live(j)' => Live(j) /\ job'[j].requested = job[j].requested

CarryStep(w) ==
    /\ Active' => Active
    /\ \A s \in {"status", "graph", "summarize"} : run'[s] = "retrying" => run[s] = "retrying"
    /\ UNCHANGED <<client, recovery, sweeping>>
    /\ spent'.crashes = spent.crashes /\ spent'.retries = spent.retries
    /\ spent'.outages = spent.outages \/ Outage
    /\ Going(w) \/ Adding(w) \/ Passing(w) \/ Refused(w) \/ Stopping(w)

\* The run of a step that writes the status of a stage.
LEMMA SetCarries ==
    ASSUME TypeOK, NEW s \in Optional, NEW st \in StageStatus \ {"retrying"}, NEW r \in BOOLEAN,
           SetStage(s, st, r)
    PROVE  /\ run'.status = run.status
           /\ \A t \in {"status", "graph", "summarize"} : run'[t] = "retrying" => run[t] = "retrying"
BY DEF TypeOK, Run, SetStage, Fenced, Optional

LEMMA SpendCarries ==
    ASSUME TypeOK, Fails \/ Outage \/ UNCHANGED spent
    PROVE  /\ spent'.crashes = spent.crashes /\ spent'.retries = spent.retries
           /\ spent'.outages = spent.outages \/ Outage
BY DEF TypeOK, Fails, Outage, Spend

\* A handler that leaves stops the run, or finds it stopped.
LEMMA StopCarries ==
    ASSUME BaseInv, NEW w \in Worker, ~At(w, "idle"), Complete(w) \/ Throw(w) \/ End(w), ~Active'
    PROVE  Stopping(w)
<1> DEFINE j == JobOf(w)
<1>1. j \in JobId /\ Locked(j) /\ Left(w)
  BY EndLeft DEF BaseInv, Handlers, HandlerInv
<1>2. \E r \in {Completed(job[j]), Thrown(job[j])} : job' = [job EXCEPT ![j] = r]
  BY DEF Complete, Throw, End, After
<1>3. Completed(job[j]).state = "ended" /\ Thrown(job[j]).requested = job[j].requested
  BY <1>1 DEF Completed, NoJob, Thrown, BaseInv, TypeOK, Job
<1>4. \A i \in JobId : i # j => job'[i] = job[i]
  BY <1>2 DEF BaseInv, TypeOK
<1>5. job'[j] \in {Completed(job[j]), Thrown(job[j])}
  BY <1>1, <1>2 DEF BaseInv, TypeOK
<1> QED BY <1>1, <1>3, <1>4, <1>5 DEF Stopping, Present, Live, Locked

LEMMA GraphCarries ==
    ASSUME BaseInv, NEW w \in Worker,
           \/ GraphRead(w) \/ GraphMark(w) \/ Extract(w) \/ Persist(w) \/ Compensate(w)
           \/ GraphDone(w) \/ GraphStale(w) \/ GraphWarned(w) \/ GraphFailed(w)
    PROVE  /\ CarryStep(w)
           /\ worker'[w].pc \in AtGraph \cup {"idle", "next", "cancelRun"}
<1>t. TypeOK /\ worker[w] \in Handler /\ worker[w].retryable \in BOOLEAN
  BY DEF BaseInv, TypeOK, Handler
<1>w. worker[w].pc \in AtGraph /\ ~At(w, "idle") /\ Handled(w)
  BY GraphHandled DEF At, GraphRead, GraphMark, Extract, Persist, Compensate, GraphDone, GraphStale,
                      GraphWarned, GraphFailed, AtGraph
<1>s. /\ spent'.crashes = spent.crashes /\ spent'.retries = spent.retries
      /\ spent'.outages = spent.outages \/ Outage
  BY <1>t, SpendCarries DEF GraphRead, GraphMark, Extract, Persist, Compensate, GraphDone, GraphStale,
                            GraphWarned, GraphFailed
<1>r. /\ run'.status = run.status
      /\ \A t \in {"status", "graph", "summarize"} : run'[t] = "retrying" => run[t] = "retrying"
  BY <1>t, SetCarries DEF GraphRead, GraphMark, Extract, Persist, Compensate, GraphDone, GraphStale,
                          GraphWarned, GraphFailed, Set, SetFailed, StageStatus, Optional
<1> DEFINE Stops == Cancelled /\ (Complete(w) \/ Throw(w))
           Goes == UNCHANGED job /\ worker'[w].pc \in AtGraph \cup {"next", "cancelRun"}
<1>g. worker \in [Worker -> Handler]
  BY <1>t DEF TypeOK
<1>1. ASSUME GraphRead(w) \/ GraphMark(w) \/ GraphFailed(w) PROVE Stops \/ Goes
  BY <1>1, <1>g DEF GraphRead, GraphMark, GraphFailed, Goto, Keep, AtGraph, Handler
<1>2. ASSUME Extract(w) PROVE Stops \/ Goes
  BY <1>2, <1>g DEF Extract, Goto, Throwing, AtGraph, Handler
<1>3. ASSUME Persist(w) \/ GraphDone(w) \/ GraphStale(w) \/ GraphWarned(w) PROVE Stops \/ Goes
  BY <1>3, <1>g DEF Persist, GraphDone, GraphStale, GraphWarned, Goto, AtGraph, Handler, queue
<1>4. ASSUME Compensate(w) PROVE Stops \/ Goes
  BY <1>4 DEF Compensate
<1>5. Stops \/ Goes
  BY <1>1, <1>2, <1>3, <1>4
<1>6. CASE Stops
  <2>1. ~Active'
    BY <1>6, <1>r DEF Active, Cancelled, ActiveStatuses
  <2>2. Stopping(w)
    BY <1>6, <1>w, <2>1, StopCarries
  <2>3. worker'[w].pc = "idle"
    BY <2>2 DEF Stopping, Left, IdleWorker
  <2> QED BY <1>r, <1>s, <1>w, <2>2, <2>3 DEF CarryStep, Handled, host, Active
<1>7. CASE Goes
  <2>1. Moved(w)
    BY <1>7, <1>w DEF Handled, Left, IdleWorker, AtGraph
  <2>2. Going(w)
    BY <1>7, <2>1 DEF Going, AtGraph
  <2> QED BY <1>r, <1>s, <1>w, <1>7, <2>2 DEF CarryStep, Handled, host, Active
<1> QED BY <1>5, <1>6, <1>7

LEMMA SummaryCarries ==
    ASSUME BaseInv, NEW w \in Worker,
           \/ SummaryStart(w) \/ SummaryCheck(w) \/ SummaryRetry(w) \/ SummaryNext(w)
           \/ SummaryMark(w) \/ Summarize(w) \/ PersistIfCurrent(w) \/ SummaryRecord(w)
           \/ SummaryReady(w) \/ SummaryLost(w) \/ SummaryFailed(w)
    PROVE  /\ CarryStep(w)
           /\ worker'[w].pc \in AtSummary \cup {"idle", "next", "cancelRun"}
<1>t. TypeOK /\ worker[w] \in Handler /\ worker[w].retryable \in BOOLEAN
  BY DEF BaseInv, TypeOK, Handler
<1>p. worker[w].pc \in {"sumRecord", "sumReady"} => worker[w].plan \in {"ready", "skipped"}
  BY DEF BaseInv, Handlers, HandlerInv
<1>w. worker[w].pc \in AtSummary /\ ~At(w, "idle") /\ Handled(w)
  BY SummaryHandled DEF At, SummaryStart, SummaryCheck, SummaryRetry, SummaryNext, SummaryGuard, SummaryMark,
         Summarize, PersistIfCurrent, SummaryRecord, SummaryReady, SummaryLost, SummaryFailed, AtSummary
<1>s. /\ spent'.crashes = spent.crashes /\ spent'.retries = spent.retries
      /\ spent'.outages = spent.outages \/ Outage
  BY <1>t, SpendCarries DEF SummaryStart, SummaryCheck, SummaryRetry, SummaryNext, SummaryGuard, SummaryMark,
                            Summarize, PersistIfCurrent, SummaryRecord, SummaryReady, SummaryLost,
                            SummaryFailed
<1>r. /\ run'.status = run.status
      /\ \A t \in {"status", "graph", "summarize"} : run'[t] = "retrying" => run[t] = "retrying"
  BY <1>t, <1>p, SetCarries
     DEF SummaryStart, SummaryCheck, SummaryRetry, SummaryNext, SummaryGuard, SummaryMark, Summarize,
         PersistIfCurrent, SummaryRecord, SummaryReady, SummaryLost, SummaryFailed, Set, SetFailed,
         StageStatus, Optional, At
<1> DEFINE Stops == Cancelled /\ Complete(w)
           Goes == UNCHANGED job /\ worker'[w].pc \in AtSummary \cup {"next", "cancelRun"}
<1>g. worker \in [Worker -> Handler]
  BY <1>t DEF TypeOK
<1>1. ASSUME SummaryStart(w) \/ SummaryCheck(w) \/ SummaryRetry(w) \/ SummaryNext(w) PROVE Stops \/ Goes
  BY <1>1, <1>g DEF SummaryStart, SummaryCheck, SummaryRetry, SummaryNext, SummaryGuard, Goto, AtSummary, Handler
<1>2. ASSUME SummaryMark(w) \/ PersistIfCurrent(w) \/ SummaryReady(w) \/ SummaryFailed(w) PROVE Stops \/ Goes
  BY <1>2, <1>g DEF SummaryMark, PersistIfCurrent, SummaryReady, SummaryFailed, Goto, Keep, AtSummary, Handler,
                    queue
<1>3. ASSUME Summarize(w) PROVE Stops \/ Goes
  BY <1>3, <1>g DEF Summarize, Goto, Keep, Throwing, AtSummary, Handler, queue
<1>4. ASSUME SummaryRecord(w) \/ SummaryLost(w) PROVE Stops \/ Goes
  BY <1>4, <1>g DEF SummaryRecord, SummaryLost, Goto, AtSummary, Handler
<1>5. Stops \/ Goes
  BY <1>1, <1>2, <1>3, <1>4
<1>6. CASE Stops
  <2>1. ~Active'
    BY <1>6, <1>r DEF Active, Cancelled, ActiveStatuses
  <2>2. Stopping(w)
    BY <1>6, <1>w, <2>1, StopCarries
  <2>3. worker'[w].pc = "idle"
    BY <2>2 DEF Stopping, Left, IdleWorker
  <2> QED BY <1>r, <1>s, <1>w, <2>2, <2>3 DEF CarryStep, Handled, host, Active
<1>7. CASE Goes
  <2>1. Moved(w)
    BY <1>7, <1>w DEF Handled, Left, IdleWorker, AtSummary
  <2>2. Going(w)
    BY <1>7, <2>1 DEF Going, AtSummary
  <2> QED BY <1>r, <1>s, <1>w, <1>7, <2>2 DEF CarryStep, Handled, host, Active
<1> QED BY <1>5, <1>6, <1>7

Placed(w) ==
    /\ worker'[w].pc \in AtGraph \cup AtSummary \cup {"next", "recheck", "cancelRun"} => JobOf(w)[1] # "finalize"
    /\ worker'[w].pc = "finWrite" => worker'[w].plan \notin ActiveStatuses

LEMMA FinalIsOver ==
    ASSUME NEW r \in Run
    PROVE  DeriveFinalStatus(r) \notin ActiveStatuses
<1> USE DEF DeriveFinalStatus, ActiveStatuses
<1>1. CASE r.status = "cancelled"
  BY <1>1
<1>2. CASE r.status # "cancelled" /\ "failed" \in {r.graph, r.summarize}
  BY <1>2
<1>3. CASE r.status # "cancelled" /\ {r.graph, r.summarize} \subseteq {"ready", "skipped"}
  BY <1>3
<1>4. CASE /\ r.status # "cancelled" /\ ~("failed" \in {r.graph, r.summarize})
           /\ ~({r.graph, r.summarize} \subseteq {"ready", "skipped"})
  BY <1>4
<1> QED BY <1>1, <1>2, <1>3, <1>4

\* A handler that ends while the run is cancelled, its successor taken back.
LEMMA RecheckStops ==
    ASSUME BaseInv, NEW w \in Worker, Recheck(w), Cancelled
    PROVE  Stopping(w)
<1> DEFINE own == JobOf(w)
           r == After(w)
           j == Following(w)
           left == [job EXCEPT ![own] = r]
<1>1. own \in JobId /\ Locked(own) /\ j \in JobId
  BY FollowingIsJob DEF Recheck, At, BaseInv, Handlers, HandlerInv
<1>2. r \in {Completed(job[own]), Thrown(job[own])}
  BY DEF After
<1>3. r.state \in {"waiting", "ended"} /\ (r.state = "waiting" => r.requested = job[own].requested)
  BY <1>1, <1>2 DEF Completed, NoJob, Thrown, BaseInv, TypeOK, Job
<1>4. job' = left \/ job' = [left EXCEPT ![j] = NoJob]
  BY DEF Recheck
<1> HIDE DEF r, j
<1>5. left \in [JobId -> Job \cup {r}] /\ \A i \in JobId : left[i] = IF i = own THEN r ELSE job[i]
  BY <1>1 DEF BaseInv, TypeOK
<1> HIDE DEF left
<1>6. \A i \in JobId : job'[i] = left[i] \/ job'[i] = NoJob
  BY <1>1, <1>4, <1>5
<1>7. Left(w)
  BY <1>1, LeaveLeft DEF Recheck
<1>8. ~Active'
  BY DEF Recheck, Active, Cancelled, ActiveStatuses
<1> QED BY <1>1, <1>3, <1>5, <1>6, <1>7, <1>8 DEF Stopping, Present, Live, Locked, NoJob

LEMMA EndCarries ==
    ASSUME BaseInv, PlaceInv, NEW w \in Worker,
           \/ Acquire(w) \/ CancelRun(w) \/ Enqueue(w) \/ Recheck(w)
           \/ FinalizeRead(w) \/ FinalizeWrite(w)
    PROVE  CarryStep(w) /\ Placed(w)
<1>t. TypeOK /\ worker[w] \in Handler
  BY DEF BaseInv, TypeOK
<1>w. ~At(w, "idle") /\ Handled(w)
  BY EndHandled DEF At, Acquire, CancelRun, Enqueue, Recheck, FinalizeRead, FinalizeWrite
<1>j. JobOf(w) \in JobId /\ JobOf(w)[1] \in Stage
  BY <1>w, JobIdShape DEF BaseInv, Handlers, HandlerInv
<1>s. /\ spent'.crashes = spent.crashes /\ spent'.retries = spent.retries
      /\ spent'.outages = spent.outages \/ Outage
  BY <1>t, SpendCarries DEF Acquire, CancelRun, Enqueue, Recheck, FinalizeRead, FinalizeWrite
<1>u. UNCHANGED <<client, recovery, sweeping>>
  BY <1>w DEF Handled, host
<1>z. ASSUME worker'[w] = IdleWorker PROVE Placed(w)
  BY <1>z DEF Placed, IdleWorker, AtGraph, AtSummary
<1>1. CASE Acquire(w)
  <2>1. Moved(w) /\ worker'[w].pc = IF JobOf(w)[1] = "graph" THEN "graphRead"
                                    ELSE IF JobOf(w)[1] = "summarize" THEN "sumStart" ELSE "finRead"
    BY <1>1, GotoMoves DEF Acquire, WorkerPc
  <2>2. UNCHANGED <<run, job>>
    BY <1>1 DEF Acquire
  <2>3. Going(w) /\ Placed(w)
    BY <2>1, <2>2 DEF Going, Placed, AtGraph, AtSummary
  <2> QED BY <1>s, <1>u, <2>2, <2>3 DEF CarryStep, Active
<1>2. CASE CancelRun(w)
  <2>1. run' \in {run, AllCancelled} /\ Cancelled' /\ Complete(w)
    BY <1>2, <1>t, AllCancelledRow DEF CancelRun, Fenced, Cancelled
  <2>2. ~Active' /\ \A t \in {"status", "graph", "summarize"} : run'[t] = "retrying" => run[t] = "retrying"
    BY <1>t, <2>1 DEF Active, Cancelled, ActiveStatuses, AllCancelled, TypeOK, Run
  <2>3. Stopping(w)
    BY <1>w, <2>1, <2>2, StopCarries
  <2>4. Placed(w)
    BY <1>z, <2>3 DEF Stopping, Left
  <2> QED BY <1>s, <1>u, <2>2, <2>3, <2>4 DEF CarryStep
<1>3. CASE Enqueue(w)
  <2>0. UNCHANGED run /\ At(w, "next") /\ JobOf(w)[1] # "finalize"
    BY <1>3 DEF Enqueue, PlaceInv, At
  <2>1. CASE Cancelled /\ End(w)
    <3>1. ~Active'
      BY <2>0, <2>1 DEF Active, Cancelled, ActiveStatuses
    <3>2. Stopping(w)
      BY <1>w, <2>1, <3>1, StopCarries
    <3>3. Placed(w)
      BY <1>z, <3>2 DEF Stopping, Left
    <3> QED BY <1>s, <1>u, <2>0, <3>1, <3>2, <3>3 DEF CarryStep
  <2>2. CASE ~Cancelled /\ Add(Following(w), job[JobOf(w)].requested) /\ Goto(w, "recheck")
    <3>1. Moved(w) /\ worker'[w].plan = worker[w].plan /\ worker'[w].pc = "recheck"
      BY <2>2, GotoMoves DEF WorkerPc
    <3>2. Adding(w) /\ Placed(w)
      BY <2>0, <2>2, <3>1 DEF Adding, Placed
    <3> QED BY <1>s, <1>u, <2>0, <3>2 DEF CarryStep, Active
  <2>3. CASE Goto(w, "graphFailed") /\ UNCHANGED job
    <3>1. Moved(w) /\ worker'[w].pc = "graphFailed"
      BY <2>3, GotoMoves DEF WorkerPc
    <3>2. Going(w) /\ Placed(w)
      BY <2>0, <2>3, <3>1 DEF Going, Placed
    <3> QED BY <1>s, <1>u, <2>0, <3>2 DEF CarryStep, Active
  <2>4. CASE Throw(w) /\ Outage
    <3>1. Refused(w)
      BY <1>w, <2>0, <2>4, EndLeft DEF Refused, Throw
    <3>2. Placed(w)
      BY <1>z, <3>1 DEF Refused, Left
    <3> QED BY <1>s, <1>u, <2>0, <3>1, <3>2 DEF CarryStep, Active
  <2> QED BY <1>3, <2>1, <2>2, <2>3, <2>4 DEF Enqueue
<1>4. CASE Recheck(w)
  <2>1. Left(w) /\ UNCHANGED run /\ At(w, "recheck")
    BY <1>4, <1>j, LeaveLeft DEF Recheck
  <2>2. Placed(w)
    BY <1>z, <2>1 DEF Left
  <2>3. CASE Cancelled
    <3>1. Stopping(w)
      BY <1>4, <2>3, RecheckStops
    <3> QED BY <1>s, <1>u, <2>1, <2>2, <3>1 DEF CarryStep, Active
  <2>4. CASE ~Cancelled
    <3>1. Passing(w)
      BY <1>4, <2>1, <2>4 DEF Recheck, Passing
    <3> QED BY <1>s, <1>u, <2>1, <2>2, <3>1 DEF CarryStep, Active
  <2> QED BY <2>3, <2>4
<1>5. CASE FinalizeRead(w)
  <2>1. DeriveFinalStatus(run) \in RunStatus \ ActiveStatuses
    BY <1>t, FinalTyped, FinalIsOver DEF TypeOK
  <2>2. Moved(w) /\ worker'[w].pc = "finWrite" /\ worker'[w].plan = DeriveFinalStatus(run)
    BY <1>5, <2>1, KeepMoves DEF FinalizeRead, WorkerPc
  <2>3. UNCHANGED <<run, job>>
    BY <1>5 DEF FinalizeRead, queue
  <2>4. Going(w) /\ Placed(w)
    BY <2>1, <2>2, <2>3 DEF Going, Placed, AtGraph, AtSummary
  <2> QED BY <1>s, <1>u, <2>3, <2>4 DEF CarryStep, Active
<1>6. CASE FinalizeWrite(w)
  <2>1. worker[w].plan \notin ActiveStatuses /\ Complete(w)
    BY <1>6 DEF FinalizeWrite, PlaceInv
  <2>2. /\ run'.status \in {"cancelled", worker[w].plan}
        /\ run'.graph = run.graph /\ run'.summarize = run.summarize
    BY <1>6, <1>t DEF FinalizeWrite, Fenced, Cancelled, TypeOK, Run
  <2>3. ~Active' /\ \A t \in {"status", "graph", "summarize"} : run'[t] = "retrying" => run[t] = "retrying"
    BY <2>1, <2>2 DEF Active, ActiveStatuses
  <2>4. Stopping(w)
    BY <1>w, <2>1, <2>3, StopCarries
  <2>5. Placed(w)
    BY <1>z, <2>4 DEF Stopping, Left
  <2> QED BY <1>s, <1>u, <2>3, <2>4, <2>5 DEF CarryStep
<1> QED BY <1>1, <1>2, <1>3, <1>4, <1>5, <1>6

LEMMA HandleCarries ==
    ASSUME BaseInv, PlaceInv, NEW w \in Worker, Handle(w)
    PROVE  CarryStep(w) /\ Placed(w)
<1>1. CASE \/ GraphRead(w) \/ GraphMark(w) \/ Extract(w) \/ Persist(w) \/ Compensate(w)
           \/ GraphDone(w) \/ GraphStale(w) \/ GraphWarned(w) \/ GraphFailed(w)
  <2>1. worker[w].pc \in AtGraph
    BY <1>1 DEF At, GraphRead, GraphMark, Extract, Persist, Compensate, GraphDone, GraphStale,
                GraphWarned, GraphFailed, AtGraph
  <2>2. CarryStep(w) /\ worker'[w].pc \in AtGraph \cup {"idle", "next", "cancelRun"}
    BY <1>1, GraphCarries
  <2> QED BY <2>1, <2>2 DEF Placed, PlaceInv, AtGraph
<1>2. CASE \/ SummaryStart(w) \/ SummaryCheck(w) \/ SummaryRetry(w) \/ SummaryNext(w)
           \/ SummaryMark(w) \/ Summarize(w) \/ PersistIfCurrent(w) \/ SummaryRecord(w)
           \/ SummaryReady(w) \/ SummaryLost(w) \/ SummaryFailed(w)
  <2>1. worker[w].pc \in AtSummary
    BY <1>2 DEF At, SummaryStart, SummaryCheck, SummaryRetry, SummaryNext, SummaryGuard, SummaryMark,
                Summarize, PersistIfCurrent, SummaryRecord, SummaryReady, SummaryLost, SummaryFailed, AtSummary
  <2>2. CarryStep(w) /\ worker'[w].pc \in AtSummary \cup {"idle", "next", "cancelRun"}
    BY <1>2, SummaryCarries
  <2> QED BY <2>1, <2>2 DEF Placed, PlaceInv, AtSummary
<1> QED BY <1>1, <1>2, EndCarries DEF Handle

LEMMA PlaceNext ==
    ASSUME BaseInv, PlaceInv, [Next]_vars
    PROVE  PlaceInv'
<1> USE DEF At, JobOf
<1>1. ASSUME NEW w \in Worker, Handle(w) PROVE PlaceInv'
  <2>1. CarryStep(w) /\ Placed(w)
    BY <1>1, HandleCarries
  <2>2. /\ \A v \in Worker \ {w} : worker'[v] = worker[v]
        /\ worker'[w].job = worker[w].job \/ worker'[w].pc = "idle"
    BY <2>1 DEF CarryStep, Going, Adding, Passing, Refused, Stopping, Moved, Left, Alone, IdleWorker
  <2> QED BY <2>1, <2>2 DEF Placed, PlaceInv, AtGraph, AtSummary
<1>2. ASSUME NEW w \in Worker, NEW j \in JobId, Take(w, j) PROVE PlaceInv'
  <2>1. worker'[w].pc = "slot" /\ \A v \in Worker \ {w} : worker'[v] = worker[v]
    BY <1>2 DEF Take, BaseInv, TypeOK, IdleWorker
  <2> QED BY <2>1 DEF PlaceInv, AtGraph, AtSummary
<1>3. CASE UNCHANGED worker
  BY <1>3 DEF PlaceInv
<1>4. CASE Crash
  BY <1>4 DEF Crash, PlaceInv, IdleWorker, AtGraph, AtSummary
<1>5. UNCHANGED worker \/ Crash \/ (\E w \in Worker : Handle(w) \/ \E j \in JobId : Take(w, j))
  BY DEF Next, vars, Lapse, RetryClaim, Continue, RetryDrop, RetryLook, RetryAdd, RetryRestore, Edit, Replace,
         Supersede, CancelAccount, RemoveWaiting, RecoveryStep, RecoverFind, RecoverClaim, RecoverExhaust,
         RecoverAdd
<1> QED BY <1>1, <1>2, <1>3, <1>4, <1>5

\* The jobs of a pass are four different ones.
LEMMA PassJobs ==
    ASSUME NEW k \in {"first", "retry"}, k = "retry" => MaxRetries >= 1
    PROVE  /\ {Graph(k), Summary(k), Short(k), First("finalize")} \subseteq JobId
           /\ Graph(k)[1] = "graph" /\ Summary(k)[1] = "summarize"
           /\ Short(k)[1] = "finalize" /\ First("finalize")[1] = "finalize"
<1>1. 0 \in 0..MaxRetries /\ (k = "retry" => 1 \in 0..MaxRetries)
  BY BoundsAssumption
<1> QED BY <1>1 DEF JobId, Graph, Summary, Short

\* What comes after a job of the pass is in the pass.
LEMMA FollowingInPass ==
    ASSUME BaseInv, NEW k \in {"first", "retry"}, NEW w \in Worker,
           job[Graph(k)].requested = IF k = "first" THEN 0 ELSE 1
    PROVE  /\ JobOf(w) = Graph(k) => Following(w) \in {Summary(k), Short(k)}
           /\ JobOf(w) = Summary(k) => Following(w) = First("finalize")
BY DEF Following, Graph, Summary, Short

\* A handler that queues the next job adds at most that one.
LEMMA AddingRows ==
    ASSUME BaseInv, NEW w \in Worker, ~At(w, "idle"), Adding(w), NEW f, f = Following(w)
    PROVE  /\ \A i \in JobId : i # f \/ Present(i) => job'[i] = job[i]
           /\ f \in JobId /\ Present(f)'
           /\ ~Present(f) => job'[f].state = "waiting" /\ job'[f].tries = 0
<1> DEFINE n == job[JobOf(w)].requested
           r == [Added EXCEPT !.requested = n]
<1>1. f \in JobId
  BY FollowingIsJob DEF BaseInv, Handlers, HandlerInv
<1>2. r.state = "waiting" /\ r.tries = 0
  BY DEF Added
<1>3. (job' = [job EXCEPT ![f] = r] /\ job[f].state = "absent") \/ (job' = job /\ job[f].state # "absent")
  BY DEF Adding, Add
<1> HIDE DEF r
<1>4. \A i \in JobId : i # f \/ Present(i) => job'[i] = job[i]
  BY <1>1, <1>3 DEF BaseInv, TypeOK, Present
<1>5. ~Present(f) => job'[f] = r
  BY <1>1, <1>3 DEF BaseInv, TypeOK, Present
<1> QED BY <1>1, <1>2, <1>4, <1>5 DEF Present

\* A handler that ends leaves a job that ended, or one attempt the poorer.
LEMMA EndingRows ==
    ASSUME BaseInv, NEW w \in Worker, Passing(w) \/ Refused(w), NEW j, j = JobOf(w)
    PROVE  /\ j \in JobId /\ Locked(j)
           /\ \A i \in JobId : i # j => job'[i] = job[i]
           /\ Present(j)'
           /\ Live(j)' => job'[j].requested = job[j].requested
           /\ Refused(w) => job'[j].tries = job[j].tries + 1
           /\ Refused(w) /\ Ended(j)' => job[j].tries + 1 >= MaxTries
<1>1. j \in JobId /\ Locked(j) /\ job[j] \in Job
  BY DEF Passing, Refused, At, BaseInv, TypeOK, Handlers, HandlerInv
<1>2. \E r \in {Completed(job[j]), Thrown(job[j])} : job' = [job EXCEPT ![j] = r]
  BY DEF Passing, Refused, After
<1>3. \A i \in JobId : i # j => job'[i] = job[i]
  BY <1>2 DEF BaseInv, TypeOK
<1>4. job'[j] \in {Completed(job[j]), Thrown(job[j])} /\ (Refused(w) => job'[j] = Thrown(job[j]))
  BY <1>1, <1>2 DEF BaseInv, TypeOK, Refused
<1>5. /\ Completed(job[j]).state = "ended"
      /\ Thrown(job[j]).state = (IF job[j].tries + 1 < MaxTries THEN "waiting" ELSE "ended")
      /\ Thrown(job[j]).tries = job[j].tries + 1 /\ Thrown(job[j]).requested = job[j].requested
  BY <1>1 DEF Completed, NoJob, Thrown, Job
<1>6. job[j].tries \in Nat /\ MaxTries \in Nat
  BY <1>1, BoundsAssumption DEF Job
<1>7. job'[j].state \in {"waiting", "ended"}
  BY <1>4, <1>5
<1>8. Live(j)' => job'[j].requested = job[j].requested
  BY <1>4, <1>5 DEF Live
<1>10. Present(j)'
  BY <1>7 DEF Present
<1>11. Refused(w) => job'[j].tries = job[j].tries + 1
  BY <1>4, <1>5
<1>9. Refused(w) /\ job'[j].state = "ended" => job[j].tries + 1 >= MaxTries
  BY <1>4, <1>5, <1>6
<1>12. Refused(w) /\ Ended(j)' => job[j].tries + 1 >= MaxTries
  BY <1>9 DEF Ended
<1> QED BY <1>1, <1>3, <1>8, <1>10, <1>11, <1>12

\* The pass of these jobs, and what a step of a handler may count on.
Pass(g, s, f, n) ==
    /\ {g, s, f} \subseteq JobId
    /\ g[1] = "graph" /\ s[1] = "summarize" /\ f[1] = "finalize"
    /\ Chain(g, s, f) /\ Attempts(g, s, f, n)
    /\ \A v \in Worker : At(v, "recheck") \/ At(v, "next") =>
           /\ JobOf(v) = g => Following(v) \in {s, f}
           /\ JobOf(v) = s => Following(v) = First("finalize")
           /\ JobOf(v) \notin {f, First("finalize")}
    /\ spent.outages \in Nat /\ MaxTries \in Nat
    /\ \A i \in JobId : job[i].tries \in Nat

\* A handler that keeps its job keeps what follows it.
LEMMA FollowingStays ==
    ASSUME NEW v, worker'[v] = worker[v], job'[JobOf(v)].requested = job[JobOf(v)].requested
    PROVE  Following(v)' = Following(v) /\ JobOf(v)' = JobOf(v) /\ (At(v, "recheck")' <=> At(v, "recheck"))
BY DEF Following, JobOf, At

LEMMA CarriedGoing ==
    ASSUME NEW g, NEW s, NEW f, NEW n, Pass(g, s, f, n),
           NEW w \in Worker, Going(w), spent'.outages \in Nat, spent'.outages >= spent.outages
    PROVE  Chain(g, s, f)' /\ Attempts(g, s, f, n)'
<1>1. job' = job
  BY DEF Going
<1>2. Chain(g, s, f)'
  BY <1>1 DEF Pass, Chain, Present, Ended
<1>3. ASSUME NEW v \in Worker, At(v, "recheck")', JobOf(v)' \in {g, s} PROVE Present(Following(v))'
  <2>1. worker'[v] = worker[v]
    BY <1>3 DEF Going, Moved, Alone, At
  <2>2. /\ Following(v)' = Following(v) /\ JobOf(v)' = JobOf(v)
        /\ At(v, "recheck")' <=> At(v, "recheck")
    BY <1>1, <2>1, FollowingStays
  <2>3. Present(Following(v))
    BY <1>3, <2>2 DEF Pass, Attempts
  <2> QED BY <1>1, <2>2, <2>3 DEF Present
<1>4. /\ Live(g)' => job'[g].requested = n
      /\ Live(g)' /\ ~Present(s)' /\ ~Present(f)' => job'[g].tries <= spent'.outages
  BY <1>1 DEF Pass, Attempts, Present, Live
<1>5. Live(s)' /\ ~Present(First("finalize"))' => job'[s].tries <= spent'.outages
  BY <1>1 DEF Pass, Attempts, Present, Live
<1> QED BY <1>2, <1>3, <1>4, <1>5 DEF Attempts

LEMMA CarriedAdding ==
    ASSUME BaseInv, NEW g, NEW s, NEW f, NEW n, Pass(g, s, f, n),
           NEW w \in Worker, Adding(w), spent'.outages \in Nat, spent'.outages >= spent.outages
    PROVE  Chain(g, s, f)' /\ Attempts(g, s, f, n)'
<1>1. PICK h : h = Following(w)
  OBVIOUS
<1>2. ~At(w, "idle") /\ JobOf(w) \in JobId
  BY DEF Adding, At, BaseInv, Handlers, HandlerInv
<1>3. /\ \A i \in JobId : i # h \/ Present(i) => job'[i] = job[i]
      /\ h \in JobId /\ Present(h)'
      /\ ~Present(h) => job'[h].state = "waiting" /\ job'[h].tries = 0
  BY <1>1, <1>2, AddingRows
<1>4. h[1] # "graph"
  BY <1>1 DEF Following
<1>5. \A i \in JobId : (Present(i) => Present(i)') /\ (Ended(i)' <=> Ended(i))
  BY <1>3 DEF Present, Ended
<1>6. First("finalize") \in JobId /\ {g, s, f} \subseteq JobId
  BY FirstIsJob DEF Pass, Stage
<1>7. Chain(g, s, f)'
  BY <1>5, <1>6 DEF Pass, Chain
<1>8. job'[g] = job[g] \/ (Present(g)' /\ ~Present(g))
  BY <1>3, <1>6 DEF Present
<1>9. job'[g] = job[g]
  BY <1>3, <1>4, <1>6 DEF Pass
<1>10. job'[s] = job[s] \/ job'[s].tries = 0
  BY <1>3, <1>6
<1>11. Live(s)' => Live(s) \/ job'[s].tries = 0
  BY <1>10 DEF Live
<1>12. /\ Live(g)' => job'[g].requested = n
       /\ Live(g)' /\ ~Present(s)' /\ ~Present(f)' => job'[g].tries <= spent'.outages
  <2>1. Live(g)' <=> Live(g)
    BY <1>9 DEF Live
  <2> QED BY <1>5, <1>6, <1>9, <2>1 DEF Pass, Attempts
<1>13. Live(s)' /\ ~Present(First("finalize"))' => job'[s].tries <= spent'.outages
  <2>1. CASE job'[s].tries = 0
    BY <2>1
  <2>2. CASE job'[s] = job[s]
    <3>1. Live(s)' <=> Live(s)
      BY <2>2 DEF Live
    <3> QED BY <1>5, <1>6, <2>2, <3>1 DEF Pass, Attempts
  <2> QED BY <1>10, <2>1, <2>2
<1>14. ASSUME NEW v \in Worker, At(v, "recheck")', JobOf(v)' \in {g, s} PROVE Present(Following(v))'
  <2>1. CASE v = w
    <3>1. job'[JobOf(w)] = job[JobOf(w)]
      BY <1>2, <1>3 DEF Adding, At, BaseInv, Handlers, HandlerInv, Locked, Present
    <3>2. worker'[w].job = worker[w].job /\ worker'[w].plan = worker[w].plan
      BY DEF Adding, Moved
    <3>3. Following(w)' = h
      BY <1>1, <3>1, <3>2 DEF Following, JobOf
    <3> QED BY <1>3, <2>1, <3>3 DEF Present
  <2>2. CASE v # w
    <3>1. worker'[v] = worker[v]
      BY <2>2 DEF Adding, Moved, Alone
    <3>2. At(v, "recheck") /\ JobOf(v) \in {g, s}
      BY <1>14, <3>1 DEF At, JobOf
    <3>3. Locked(JobOf(v)) /\ JobOf(v) \in JobId
      BY <3>2 DEF At, BaseInv, Handlers, HandlerInv
    <3>4. job'[JobOf(v)] = job[JobOf(v)]
      BY <1>3, <3>3 DEF Locked, Present
    <3>5. Following(v)' = Following(v)
      BY <3>1, <3>4, FollowingStays
    <3>6. Present(Following(v)) /\ Following(v) \in JobId
      BY <3>2, <3>3, FollowingIsJob DEF Pass, Attempts
    <3>7. PICK i \in JobId : i = Following(v)
      BY <3>6
    <3>8. Present(i)'
      BY <1>5, <3>6, <3>7
    <3> QED BY <3>5, <3>7, <3>8 DEF Present
  <2> QED BY <2>1, <2>2
<1> QED BY <1>7, <1>12, <1>13, <1>14 DEF Attempts

\* A handler that ends has queued the next job, or met an outage.
LEMMA CarriedEnding ==
    ASSUME BaseInv, NEW g, NEW s, NEW f, NEW n, Pass(g, s, f, n),
           NEW w \in Worker, Passing(w) \/ (Refused(w) /\ spent'.outages = spent.outages + 1),
           spent'.outages \in Nat, spent'.outages >= spent.outages, spent'.outages < MaxTries
    PROVE  Chain(g, s, f)' /\ Attempts(g, s, f, n)'
<1>1. PICK j : j = JobOf(w)
  OBVIOUS
<1>2. /\ j \in JobId /\ Locked(j)
      /\ \A i \in JobId : i # j => job'[i] = job[i]
      /\ Present(j)'
      /\ Live(j)' => job'[j].requested = job[j].requested
      /\ Refused(w) => job'[j].tries = job[j].tries + 1
      /\ Refused(w) /\ Ended(j)' => job[j].tries + 1 >= MaxTries
  BY <1>1, EndingRows DEF Passing, Refused
<1>3. At(w, "recheck") \/ At(w, "next")
  BY DEF Passing, Refused
<1>r. Refused(w) => spent'.outages = spent.outages + 1
  BY DEF Passing, Refused, At
<1>4. First("finalize") \in JobId /\ {g, s, f} \subseteq JobId /\ g # s /\ f \notin {g, s}
      /\ First("finalize") \notin {g, s}
  BY FirstIsJob DEF Pass, Stage
<1>5. j \notin {f, First("finalize")}
  BY <1>1, <1>3 DEF Pass
<1>6. \A i \in JobId : Present(i) => Present(i)'
  BY <1>2 DEF Present
<1>7. job'[f] = job[f] /\ job'[First("finalize")] = job[First("finalize")]
  BY <1>2, <1>4, <1>5
<1>8. Live(j)
  BY <1>2 DEF Live, Locked
<1>9. j = g /\ ~Present(s) /\ ~Present(f) => Refused(w) /\ job[g].tries <= spent.outages
  BY <1>1, <1>3, <1>8 DEF Pass, Attempts, Passing
<1>10. j = s /\ ~Present(First("finalize")) => Refused(w) /\ job[s].tries <= spent.outages
  <2>1. j = s => Following(w) = First("finalize")
    BY <1>1, <1>3 DEF Pass
  <2> QED BY <1>1, <1>3, <1>8, <2>1 DEF Pass, Attempts, Passing
<1>11. /\ Present(g)' \/ Present(s)'
       /\ ~Ended(First("finalize"))' /\ ~Ended(f)'
  BY <1>4, <1>6, <1>7 DEF Pass, Chain, Ended
<1>12. spent.outages \in Nat /\ MaxTries \in Nat /\ job[g].tries \in Nat /\ job[s].tries \in Nat
  BY <1>4 DEF Pass
<1>13. Ended(g)' => Present(s)' \/ Present(f)'
  <2>1. CASE j = g
    <3>1. Ended(g)' /\ Refused(w) => job[g].tries + 1 >= MaxTries
      BY <1>2, <2>1 DEF Ended
    <3>2. ~Present(s) /\ ~Present(f) => ~Ended(g)'
      BY <1>9, <1>12, <1>r, <2>1, <3>1
    <3> QED BY <1>4, <1>6, <3>2
  <2>2. CASE j # g
    BY <1>2, <1>4, <1>6, <2>2 DEF Pass, Chain, Ended
  <2> QED BY <2>1, <2>2
<1>14. Ended(s)' => Present(First("finalize"))'
  <2>1. CASE j = s
    <3>1. Ended(s)' /\ Refused(w) => job[s].tries + 1 >= MaxTries
      BY <1>2, <2>1 DEF Ended
    <3>2. ~Present(First("finalize")) => ~Ended(s)'
      BY <1>10, <1>12, <1>r, <2>1, <3>1
    <3> QED BY <1>4, <1>6, <3>2
  <2>2. CASE j # s
    BY <1>2, <1>4, <1>6, <2>2 DEF Pass, Chain, Ended
  <2> QED BY <2>1, <2>2
<1>15. /\ Live(g)' => job'[g].requested = n
       /\ Live(g)' /\ ~Present(s)' /\ ~Present(f)' => job'[g].tries <= spent'.outages
  <2>1. CASE j = g
    <3>1. /\ Live(g)' => job'[g].requested = job[g].requested
          /\ Refused(w) => job'[g].tries = job[g].tries + 1
      BY <1>2, <2>1 DEF Live
    <3>2. Live(g)
      BY <1>8, <2>1
    <3>3. ~Present(s) /\ ~Present(f) => job'[g].tries <= spent'.outages
      BY <1>9, <1>12, <1>r, <2>1, <3>1
    <3> QED BY <1>4, <1>6, <3>1, <3>2, <3>3 DEF Pass, Attempts
  <2>2. CASE j # g
    <3>1. job'[g] = job[g]
      BY <1>2, <1>4, <2>2
    <3> QED BY <1>4, <1>6, <1>12, <3>1 DEF Pass, Attempts, Live
  <2> QED BY <2>1, <2>2
<1>16. Live(s)' /\ ~Present(First("finalize"))' => job'[s].tries <= spent'.outages
  <2>1. CASE j = s
    <3>1. Refused(w) => job'[s].tries = job[s].tries + 1
      BY <1>2, <2>1
    <3>2. ~Present(First("finalize")) => job'[s].tries <= spent'.outages
      BY <1>10, <1>12, <1>r, <2>1, <3>1
    <3> QED BY <1>4, <1>6, <3>2
  <2>2. CASE j # s
    <3>1. job'[s] = job[s]
      BY <1>2, <1>4, <2>2
    <3> QED BY <1>4, <1>6, <1>12, <3>1 DEF Pass, Attempts, Live
  <2> QED BY <2>1, <2>2
<1>17. ASSUME NEW v \in Worker, At(v, "recheck")', JobOf(v)' \in {g, s} PROVE Present(Following(v))'
  <2>1. v # w
    BY <1>17 DEF Passing, Refused, Left, At, IdleWorker
  <2>2. worker'[v] = worker[v]
    BY <2>1 DEF Passing, Refused, Left, Alone
  <2>3. At(v, "recheck") /\ JobOf(v) \in {g, s}
    BY <1>17, <2>2 DEF At, JobOf
  <2>4. JobOf(v) # j
    BY <1>1, <1>3, <2>1, <2>3 DEF At, BaseInv, Handlers, HandlerInv
  <2>5. job'[JobOf(v)] = job[JobOf(v)] /\ JobOf(v) \in JobId
    BY <1>2, <1>4, <2>3, <2>4
  <2>6. Following(v)' = Following(v)
    BY <2>2, <2>5, FollowingStays
  <2>7. Present(Following(v)) /\ Following(v) \in JobId
    BY <2>3, <2>5, FollowingIsJob DEF Pass, Attempts
  <2>8. PICK i \in JobId : i = Following(v)
    BY <2>7
  <2>9. Present(i)'
    BY <1>6, <2>7, <2>8
  <2> QED BY <2>6, <2>8, <2>9 DEF Present
<1>18. Chain(g, s, f)'
  BY <1>11, <1>13, <1>14 DEF Chain
<1> QED BY <1>15, <1>16, <1>17, <1>18 DEF Attempts

\* What a step of a handler may count on, and what is left of the outages.
LEMMA PassHolds ==
    ASSUME BaseInv, PlaceInv, NEW k \in {"first", "retry"}, k = "retry" => MaxRetries >= 1,
           NEW n, n = (IF k = "first" THEN 0 ELSE 1),
           Chain(Graph(k), Summary(k), Short(k)), Attempts(Graph(k), Summary(k), Short(k), n)
    PROVE  Pass(Graph(k), Summary(k), Short(k), n)
<1>1. /\ {Graph(k), Summary(k), Short(k), First("finalize")} \subseteq JobId
      /\ Graph(k)[1] = "graph" /\ Summary(k)[1] = "summarize"
      /\ Short(k)[1] = "finalize" /\ First("finalize")[1] = "finalize"
  BY PassJobs
<1>2. spent.outages \in Nat /\ MaxTries \in Nat /\ \A i \in JobId : job[i].tries \in Nat
  BY BoundsAssumption DEF BaseInv, TypeOK, Job
<1>3. ASSUME NEW v \in Worker, At(v, "recheck") \/ At(v, "next")
      PROVE  /\ JobOf(v) = Graph(k) => Following(v) \in {Summary(k), Short(k)}
             /\ JobOf(v) = Summary(k) => Following(v) = First("finalize")
             /\ JobOf(v) \notin {Short(k), First("finalize")}
  <2>1. JobOf(v)[1] # "finalize" /\ Live(JobOf(v))
    BY <1>3 DEF PlaceInv, At, Live, Locked, BaseInv, Handlers, HandlerInv
  <2>2. JobOf(v) = Summary(k) => Following(v) = First("finalize")
    BY DEF Following, Summary
  <2>3. JobOf(v) = Graph(k) => Following(v) \in {Summary(k), Short(k)}
    <3>1. JobOf(v) = Graph(k) => job[Graph(k)].requested = n
      BY <2>1 DEF Attempts
    <3> QED BY <3>1, FollowingInPass
  <2> QED BY <1>1, <2>1, <2>2, <2>3
<1> QED BY <1>1, <1>2, <1>3 DEF Pass

LEMMA CarryPass ==
    ASSUME BaseInv, NEW g, NEW s, NEW f, NEW n, Pass(g, s, f, n), NEW w \in Worker,
           CarryStep(w), Active', Calm'
    PROVE  Chain(g, s, f)' /\ Attempts(g, s, f, n)'
<1>1. /\ spent'.outages \in Nat /\ spent'.outages >= spent.outages /\ spent'.outages < MaxTries
      /\ Refused(w) => spent'.outages = spent.outages + 1
  <2>1. Outage => spent'.outages = spent.outages + 1
    BY DEF Outage, Spend, BaseInv, TypeOK
  <2> QED BY <2>1 DEF CarryStep, Pass, Calm, Refused
<1>2. Going(w) \/ Adding(w) \/ Passing(w) \/ Refused(w)
  BY DEF CarryStep, Stopping
<1> QED BY <1>1, <1>2, CarriedGoing, CarriedAdding, CarriedEnding

\* A handler that steps keeps the pass together.
LEMMA CarriedHandle ==
    ASSUME BaseInv, PlaceInv, Calm', NEW k \in {"first", "retry"}, k = "retry" => MaxRetries >= 1,
           Carried(k), NEW w \in Worker, CarryStep(w)
    PROVE  Carried(k)'
<1> SUFFICES ASSUME Active' PROVE Carried(k)'
  BY DEF Carried
<1>1. PICK g, s, f, n : /\ g = Graph(k) /\ s = Summary(k) /\ f = Short(k)
                        /\ n = IF k = "first" THEN 0 ELSE 1
  OBVIOUS
<1>2. Chain(g, s, f) /\ Attempts(g, s, f, n)
  BY <1>1 DEF Carried, CarryStep
<1>3. Pass(g, s, f, n)
  BY <1>1, <1>2, PassHolds
<1>4. Chain(g, s, f)' /\ Attempts(g, s, f, n)'
  BY <1>3, CarryPass
<1>5. /\ g = <<"graph", k, 0>> /\ s = <<"summarize", k, 0>>
      /\ f = <<"finalize", "graph", IF k = "first" THEN 0 ELSE 1>>
  BY <1>1 DEF Graph, Summary, Short
<1> QED BY <1>1, <1>4, <1>5 DEF Carried, Chain, Attempts, Graph, Summary, Short

\* A handler that steps makes no job of a retry, and ends no finalization.
LEMMA UnretriedHandle ==
    ASSUME BaseInv, PlaceInv, Unretried, NEW w \in Worker, CarryStep(w)
    PROVE  Unretried' /\ (Active' /\ Ended(First("finalize"))' => Ended(First("finalize")))
<1> USE DEF Present
<1>1. ASSUME Stopping(w) PROVE Unretried' /\ ~Active'
  BY <1>1, FirstIsJob, PassJobs DEF Stopping, Unretried, Stage, Graph, Summary, JobId
<1>2. ASSUME Going(w) PROVE Unretried' /\ (Ended(First("finalize"))' => Ended(First("finalize")))
  BY <1>2 DEF Going, Unretried, Live, Ended
<1>j. /\ {Graph("first"), Summary("first"), Graph("retry"), Summary("retry"), First("finalize")} \subseteq JobId
      /\ \A i \in JobId : i[1] = "graph" \/ i[1] = "summarize" =>
             i \in {Graph("first"), Summary("first"), Graph("retry"), Summary("retry")}
  BY FirstIsJob DEF Stage, JobId, Graph, Summary
<1>u. /\ ~Present(Graph("retry")) /\ ~Present(Summary("retry"))
      /\ \A i \in JobId : i[1] = "finalize" /\ i[3] # 0 => ~Present(i)
      /\ Live(Graph("first")) => job[Graph("first")].requested = 0
  BY DEF Unretried
<1>3. ASSUME Adding(w) PROVE Unretried' /\ (Ended(First("finalize"))' => Ended(First("finalize")))
  <2>1. PICK h : h = Following(w)
    OBVIOUS
  <2>2. /\ ~At(w, "idle") /\ JobOf(w) \in JobId /\ Locked(JobOf(w)) /\ JobOf(w)[1] # "finalize"
    BY <1>3 DEF Adding, At, BaseInv, Handlers, HandlerInv, PlaceInv
  <2>3. /\ \A i \in JobId : i # h \/ Present(i) => job'[i] = job[i]
        /\ h \in JobId
        /\ ~Present(h) => job'[h].state = "waiting"
    BY <1>3, <2>1, <2>2, AddingRows
  <2>4. JobOf(w) \in {Graph("first"), Summary("first")}
    <3>1. JobOf(w)[1] \in {"graph", "summarize"}
      BY <2>2, JobIdShape DEF Stage
    <3>2. JobOf(w) \notin {Graph("retry"), Summary("retry")}
      BY <1>u, <2>2 DEF Locked
    <3> QED BY <1>j, <2>2, <3>1, <3>2
  <2>5. JobOf(w) = Graph("first") => job[JobOf(w)].requested = 0
    BY <1>u, <2>2 DEF Live, Locked
  <2>6. h \in {Summary("first"), <<"finalize", "graph", 0>>, First("finalize")}
    BY <2>1, <2>4, <2>5 DEF Following, Graph, Summary
  <2>7. h \notin {Graph("first"), Graph("retry"), Summary("retry")} /\ ~(h[1] = "finalize" /\ h[3] # 0)
    BY <2>6 DEF Graph, Summary
  <2>8. job'[Graph("first")] = job[Graph("first")]
    BY <1>j, <2>3, <2>7
  <2>9. Unretried'
    <3>1. job'[Graph("retry")] = job[Graph("retry")] /\ job'[Summary("retry")] = job[Summary("retry")]
      BY <1>j, <2>3, <2>7
    <3>2. \A i \in JobId : i[1] = "finalize" /\ i[3] # 0 => job'[i] = job[i]
      BY <2>3, <2>7
    <3> QED BY <1>u, <2>8, <3>1, <3>2 DEF Unretried, Live, Graph, Summary
  <2>10. Ended(First("finalize"))' => Ended(First("finalize"))
    BY <1>j, <2>3 DEF Ended
  <2> QED BY <2>9, <2>10
<1>4. ASSUME Passing(w) \/ Refused(w) PROVE Unretried' /\ (Ended(First("finalize"))' => Ended(First("finalize")))
  <2>1. PICK j : j = JobOf(w)
    OBVIOUS
  <2>2. /\ j \in JobId /\ Locked(j)
        /\ \A i \in JobId : i # j => job'[i] = job[i]
        /\ Live(j)' => job'[j].requested = job[j].requested
    BY <1>4, <2>1, EndingRows
  <2>3. j[1] # "finalize"
    BY <1>4, <2>1 DEF Passing, Refused, At, PlaceInv
  <2>4. \A i \in JobId : ~Present(i) => job'[i] = job[i]
    BY <2>2 DEF Locked
  <2>5. Live(Graph("first"))' => job'[Graph("first")].requested = 0
    <3>1. CASE j = Graph("first")
      BY <1>u, <2>2, <3>1 DEF Live, Locked
    <3>2. CASE j # Graph("first")
      BY <1>j, <1>u, <2>2, <3>2 DEF Live
    <3> QED BY <3>1, <3>2
  <2>6. Unretried'
    <3>1. job'[Graph("retry")] = job[Graph("retry")] /\ job'[Summary("retry")] = job[Summary("retry")]
      BY <1>j, <1>u, <2>4
    <3>2. \A i \in JobId : i[1] = "finalize" /\ i[3] # 0 => job'[i] = job[i]
      BY <1>u, <2>4
    <3> QED BY <1>u, <2>5, <3>1, <3>2 DEF Unretried, Graph, Summary
  <2>7. job'[First("finalize")] = job[First("finalize")]
    BY <1>j, <2>2, <2>3
  <2> QED BY <2>6, <2>7 DEF Ended
<1> QED BY <1>1, <1>2, <1>3, <1>4 DEF CarryStep

\* What keeps the states of the jobs, and adds no handler that looks at the next one.
Unmoved ==
    /\ \A i \in JobId :
        /\ Present(i)' <=> Present(i)
        /\ Ended(i)' <=> Ended(i)
        /\ Live(i)' <=> Live(i)
        /\ job'[i].tries = job[i].tries /\ job'[i].requested = job[i].requested
    /\ \A v \in Worker : At(v, "recheck")' => worker'[v] = worker[v]

LEMMA UnmovedUnretried ==
    ASSUME Unretried, Unmoved
    PROVE  Unretried' /\ (Ended(First("finalize"))' <=> Ended(First("finalize")))
<1>1. {Graph("first"), Graph("retry"), Summary("retry"), First("finalize")} \subseteq JobId
  BY FirstIsJob DEF Stage, JobId, Graph, Summary
<1> QED BY <1>1 DEF Unmoved, Unretried, Present, Live, Ended, Graph, Summary

LEMMA UnmovedCarried ==
    ASSUME BaseInv, Unmoved, NEW k \in {"first", "retry"}, k = "retry" => MaxRetries >= 1,
           Carried(k), Active' => Active,
           spent'.outages = spent.outages \/ (spent'.outages \in Nat /\ spent.outages <= spent'.outages)
    PROVE  Carried(k)'
<1> SUFFICES ASSUME Active' PROVE Carried(k)'
  BY DEF Carried
<1>1. PICK g, s, f, n : /\ g = Graph(k) /\ s = Summary(k) /\ f = Short(k)
                        /\ n = IF k = "first" THEN 0 ELSE 1
  OBVIOUS
<1>2. Chain(g, s, f) /\ Attempts(g, s, f, n)
  BY <1>1 DEF Carried
<1>3. {g, s, f, First("finalize")} \subseteq JobId
  BY <1>1, PassJobs
<1>4. Chain(g, s, f)'
  BY <1>2, <1>3 DEF Chain, Unmoved
<1>5. /\ Live(g)' => job'[g].requested = n
      /\ Live(g)' /\ ~Present(s)' /\ ~Present(f)' => job'[g].tries <= spent'.outages
      /\ Live(s)' /\ ~Present(First("finalize"))' => job'[s].tries <= spent'.outages
  BY <1>2, <1>3 DEF Attempts, Unmoved, BaseInv, TypeOK, Job
<1>6. ASSUME NEW v \in Worker, At(v, "recheck")', JobOf(v)' \in {g, s} PROVE Present(Following(v))'
  <2>1. worker'[v] = worker[v]
    BY <1>6 DEF Unmoved
  <2>2. At(v, "recheck") /\ JobOf(v) \in {g, s}
    BY <1>6, <2>1 DEF At, JobOf
  <2>3. JobOf(v) \in JobId
    BY <1>3, <2>2
  <2>4. Following(v)' = Following(v)
    BY <2>1, <2>3, FollowingStays DEF Unmoved
  <2>5. Following(v) \in JobId /\ Present(Following(v))
    BY <1>2, <2>2, <2>3, FollowingIsJob DEF Attempts
  <2>6. PICK i \in JobId : i = Following(v)
    BY <2>5
  <2>7. Present(i)'
    BY <2>5, <2>6 DEF Unmoved
  <2> QED BY <2>4, <2>6, <2>7 DEF Present
<1>7. Attempts(g, s, f, n)'
  BY <1>5, <1>6 DEF Attempts
<1>8. /\ g = <<"graph", k, 0>> /\ s = <<"summarize", k, 0>>
      /\ f = <<"finalize", "graph", IF k = "first" THEN 0 ELSE 1>>
  BY <1>1 DEF Graph, Summary, Short
<1> QED BY <1>1, <1>4, <1>7, <1>8 DEF Carried, Chain, Attempts, Graph, Summary, Short

LEMMA RetriesLeft ==
    ASSUME BaseInv, spent.retries = 1
    PROVE  MaxRetries >= 1
<1>1. spent.retries \in 0..MaxRetries /\ MaxRetries \in Nat
  BY BoundsAssumption DEF BaseInv, TypeOK
<1> QED BY <1>1

\* A step that leaves the jobs and the requests where they are.
LEMMA CarriedRest ==
    ASSUME BaseInv, CarriedInv, Calm => Unmoved, Calm' => Calm, Active' => Active,
           UNCHANGED <<client, recovery>>,
           spent'.retries = spent.retries, spent'.outages = spent.outages,
           \A s \in {"status", "graph", "summarize"} : run'[s] = "retrying" => run[s] = "retrying"
    PROVE  CarriedInv'
<1> SUFFICES ASSUME Calm' PROVE CarriedInv'
  BY DEF CarriedInv
<1>1. Unmoved /\ recovery.pc = "off" /\ run.status # "retrying" /\ (FirstPass \/ Claiming \/ RetryPass)
  BY DEF CarriedInv
<1>2. recovery'.pc = "off" /\ run'.status # "retrying"
  BY <1>1
<1>3. CASE FirstPass
  <2>1. Unretried' /\ Carried("first")'
    BY <1>1, <1>3, UnmovedUnretried, UnmovedCarried DEF FirstPass
  <2>2. FirstPass'
    BY <1>3, <2>1 DEF FirstPass
  <2> QED BY <1>2, <2>2 DEF CarriedInv
<1>4. CASE Claiming
  <2>1. Unretried' /\ (Ended(First("finalize"))' <=> Ended(First("finalize")))
    BY <1>1, <1>4, UnmovedUnretried DEF Claiming
  <2>2. Claiming'
    BY <1>4, <2>1 DEF Claiming
  <2> QED BY <1>2, <2>2 DEF CarriedInv
<1>5. CASE RetryPass
  <2>1. Carried("retry")'
    BY <1>1, <1>5, UnmovedCarried, RetriesLeft DEF RetryPass
  <2>2. RetryPass'
    BY <1>5, <2>1 DEF RetryPass
  <2> QED BY <1>2, <2>2 DEF CarriedInv
<1> QED BY <1>1, <1>3, <1>4, <1>5

LEMMA CarriedSteps ==
    ASSUME BaseInv, PlaceInv, CarriedInv, Calm' => Calm, NEW w \in Worker, Handle(w)
    PROVE  CarriedInv'
<1> SUFFICES ASSUME Calm' PROVE CarriedInv'
  BY DEF CarriedInv
<1>1. CarryStep(w)
  BY HandleCarries
<1>2. recovery.pc = "off" /\ run.status # "retrying" /\ (FirstPass \/ Claiming \/ RetryPass)
  BY DEF CarriedInv
<1>3. /\ recovery'.pc = "off" /\ run'.status # "retrying" /\ client' = client
      /\ spent'.retries = spent.retries /\ (Active' => Active)
      /\ "retrying" \in {run'.graph, run'.summarize} => "retrying" \in {run.graph, run.summarize}
  BY <1>1, <1>2 DEF CarryStep
<1>4. CASE FirstPass
  <2>1. Unretried' /\ Carried("first")'
    BY <1>1, <1>4, UnretriedHandle, CarriedHandle DEF FirstPass
  <2>2. FirstPass'
    BY <1>3, <1>4, <2>1 DEF FirstPass
  <2> QED BY <1>3, <2>2 DEF CarriedInv
<1>5. CASE Claiming
  <2>1. Unretried' /\ (Active' /\ Ended(First("finalize"))' => Ended(First("finalize")))
    BY <1>1, <1>5, UnretriedHandle DEF Claiming
  <2>2. Claiming'
    BY <1>3, <1>5, <2>1 DEF Claiming
  <2> QED BY <1>3, <2>2 DEF CarriedInv
<1>6. CASE RetryPass
  <2>1. Carried("retry")'
    BY <1>1, <1>6, CarriedHandle, RetriesLeft DEF RetryPass
  <2>2. RetryPass'
    BY <1>3, <1>6, <2>1 DEF RetryPass
  <2> QED BY <1>3, <2>2 DEF CarriedInv
<1> QED BY <1>2, <1>4, <1>5, <1>6

\* A budget is spent, and never given back.
LEMMA CalmBefore ==
    ASSUME TypeOK, Calm', sweeping => sweeping',
           \/ UNCHANGED spent
           \/ \E what \in {"retries", "failures", "outages", "crashes", "stalls"}, n \in Nat : Spend(what, n)
    PROVE  Calm
<1>1. \A what \in {"retries", "failures", "outages", "crashes", "stalls"} : spent[what] \in Nat
  BY BoundsAssumption DEF TypeOK
<1>2. MaxTries \in Nat
  BY BoundsAssumption
<1>3. CASE UNCHANGED spent
  BY <1>3 DEF Calm
<1>4. ASSUME NEW what \in {"retries", "failures", "outages", "crashes", "stalls"}, NEW n \in Nat,
             Spend(what, n)
      PROVE  Calm
  <2>1. spent' = [spent EXCEPT ![what] = @ + 1]
    BY <1>4 DEF Spend
  <2> QED BY <1>1, <1>2, <2>1 DEF Calm, TypeOK
<1> QED BY <1>3, <1>4

LEMMA CalmNext ==
    ASSUME TypeOK, [Next]_vars, Calm'
    PROVE  Calm
<1> USE BoundsAssumption DEF Fails, Outage
<1>1. sweeping => sweeping'
  BY DEF Next, vars, host, Handle, Acquire, CancelRun, Enqueue, Recheck, GraphRead, GraphMark, Extract, Persist,
         Compensate, GraphDone, GraphStale, GraphWarned, GraphFailed, SummaryStart, SummaryCheck, SummaryRetry,
         SummaryNext, SummaryGuard, SummaryMark, Summarize, PersistIfCurrent, SummaryRecord, SummaryReady,
         SummaryLost, SummaryFailed, FinalizeRead, FinalizeWrite, Take, Lapse, RetryClaim, Continue, RetryDrop,
         RetryLook, RetryAdd, RetryRestore, Edit, Replace, Supersede, CancelAccount, RemoveWaiting, Crash,
         RecoveryStep, RecoverFind, RecoverClaim, RecoverExhaust, RecoverAdd, Recover
<1> DEFINE Spent == \/ UNCHANGED spent
                    \/ \E what \in {"retries", "failures", "outages", "crashes", "stalls"}, n \in Nat : Spend(what, n)
<1>2. ASSUME NEW w \in Worker, Handle(w) PROVE Spent
  BY <1>2 DEF Handle, Acquire, CancelRun, Enqueue, Recheck, GraphRead, GraphMark, Extract, Persist,
         Compensate, GraphDone, GraphStale, GraphWarned, GraphFailed, SummaryStart, SummaryCheck, SummaryRetry,
         SummaryNext, SummaryGuard, SummaryMark, Summarize, PersistIfCurrent, SummaryRecord, SummaryReady,
         SummaryLost, SummaryFailed, FinalizeRead, FinalizeWrite
<1>3. ASSUME NEW w \in Worker, NEW j \in JobId, Take(w, j) PROVE Spent
  BY <1>3 DEF Take
<1>4. ASSUME NEW s \in Stage, NEW l \in Lease, Lapse(s, l) PROVE Spent
  BY <1>4 DEF Lapse
<1>5. ASSUME NEW c \in Client, RetryClaim(c) \/ Continue(c) PROVE Spent
  BY <1>5 DEF RetryClaim, Continue, RetryDrop, RetryLook, RetryAdd, RetryRestore
<1>6. ASSUME \/ Edit \/ Replace \/ Supersede \/ CancelAccount \/ \E j \in JobId : RemoveWaiting(j)
             \/ Crash \/ RecoveryStep \/ UNCHANGED vars
      PROVE  Spent
  BY <1>6 DEF Edit, Replace, Supersede, CancelAccount, RemoveWaiting, Crash, RecoveryStep, RecoverFind,
              RecoverClaim, RecoverExhaust, RecoverAdd, vars
<1>7. Spent
  BY <1>2, <1>3, <1>4, <1>5, <1>6 DEF Next
<1> HIDE DEF Fails, Outage
<1> QED BY <1>1, <1>7, CalmBefore

LEMMA CarriedTake ==
    ASSUME BaseInv, CarriedInv, Calm' => Calm, NEW w \in Worker, NEW j \in JobId, Take(w, j)
    PROVE  CarriedInv'
<1>1. UNCHANGED <<run, client, recovery, spent>>
  BY DEF Take, host
<1>2. Unmoved
  <2> DEFINE r == [job[j] EXCEPT !.state = "active"]
  <2>1. job' = [job EXCEPT ![j] = r] /\ job[j].state = "waiting"
    BY DEF Take
  <2>2. r.state = "active" /\ r.tries = job[j].tries /\ r.requested = job[j].requested
    BY DEF BaseInv, TypeOK, Job
  <2> HIDE DEF r
  <2>3. /\ job'[j].state = "active" /\ job'[j].tries = job[j].tries /\ job'[j].requested = job[j].requested
        /\ \A i \in JobId : i # j => job'[i] = job[i]
    BY <2>1, <2>2 DEF BaseInv, TypeOK
  <2>4. worker'[w].pc = "slot" /\ \A v \in Worker \ {w} : worker'[v] = worker[v]
    BY DEF Take, BaseInv, TypeOK, IdleWorker
  <2> QED BY <2>1, <2>3, <2>4 DEF Unmoved, Present, Ended, Live, At
<1> QED BY <1>1, <1>2, CarriedRest DEF Active

\* Leases that lapse, newer content, a newer generation; nothing at all.
LEMMA CarriedEnvironment ==
    ASSUME BaseInv, CarriedInv, Calm' => Calm,
           \/ \E s \in Stage : \E l \in Lease : Lapse(s, l)
           \/ Edit \/ Replace \/ Supersede \/ CancelAccount
           \/ \E j \in JobId : RemoveWaiting(j)
           \/ Crash \/ RecoveryStep \/ UNCHANGED vars
    PROVE  CarriedInv'
<1> SUFFICES ASSUME Calm' PROVE CarriedInv'
  BY DEF CarriedInv
<1>1. Calm /\ recovery.pc = "off"
  BY DEF CarriedInv
<1>2. ~CancelAccount /\ ~RecoveryStep /\ \A j \in JobId : ~RemoveWaiting(j)
  BY <1>1 DEF Calm, CancelAccount, RemoveWaiting, RecoveryStep, RecoverFind, RecoverClaim, RecoverExhaust,
              RecoverAdd
<1>3. ~Crash
  BY DEF Calm, Crash, Spend, BaseInv, TypeOK
<1>4. /\ UNCHANGED <<job, worker, client, recovery>>
      /\ spent'.retries = spent.retries /\ spent'.outages = spent.outages
  BY <1>2, <1>3 DEF Lapse, Spend, Edit, Replace, Supersede, vars, host, queue, BaseInv, TypeOK
<1>5. UNCHANGED run \/ run' = [run EXCEPT !.status = "cancelled"]
  BY <1>2, <1>3 DEF Lapse, Edit, Replace, Supersede, vars
<1>6. /\ Active' => Active
      /\ \A s \in {"status", "graph", "summarize"} : run'[s] = "retrying" => run[s] = "retrying"
  BY <1>5 DEF Active, ActiveStatuses, BaseInv, TypeOK, Run
<1>7. Unmoved
  BY <1>4 DEF Unmoved, Present, Ended, Live
<1> QED BY <1>1, <1>4, <1>6, <1>7, CarriedRest

\* The first request of a retry claims what failed, or joins a stage at work.
LEMMA CarriedClaim ==
    ASSUME BaseInv, CarriedInv, Calm' => Calm, NEW c \in Client, RetryClaim(c)
    PROVE  CarriedInv'
<1> SUFFICES ASSUME Calm' PROVE CarriedInv'
  BY DEF CarriedInv
<1>1. recovery.pc = "off" /\ run.status # "retrying" /\ (FirstPass \/ Claiming \/ RetryPass)
  BY DEF CarriedInv
<1>2. /\ spent.retries = 0 /\ spent'.retries = 1 /\ spent'.outages = spent.outages
      /\ 1 \in 0..MaxRetries
  <2>1. spent' = [spent EXCEPT !.retries = @ + 1] /\ spent.retries < MaxRetries /\ spent.retries \in 0..MaxRetries
    BY DEF RetryClaim, Spend, BaseInv, TypeOK
  <2>2. spent'.retries = spent.retries + 1 /\ spent'.outages = spent.outages
    BY <2>1 DEF BaseInv, TypeOK
  <2>3. spent'.retries < 2
    BY DEF Calm
  <2> QED BY <2>1, <2>2, <2>3, BoundsAssumption
<1>3. FirstPass /\ \A d \in Client : client[d].pc = "idle"
  BY <1>1, <1>2 DEF FirstPass, Claiming, RetryPass
<1>4. UNCHANGED <<job, worker, recovery>>
  BY DEF RetryClaim, queue, host
<1>5. Unmoved
  BY <1>4 DEF Unmoved, Present, Ended, Live
<1>6. Unretried'
  BY <1>3, <1>5, UnmovedUnretried DEF FirstPass
<1>7. ASSUME NEW rec, Ask(c, rec)
      PROVE  client'[c] = rec /\ \A d \in Client \ {c} : client'[d].pc = "idle"
  BY <1>3, <1>7 DEF Ask, BaseInv, TypeOK
<1>8. CASE run' = run
  <2>1. PICK rec : Ask(c, rec) /\ rec.pc = "look" /\ rec.deduplicated /\ rec.started
    <3> DEFINE g == run.graph \in ActiveStatuses
               s == run.summarize \in ActiveStatuses
               rec == [pc |-> "look", graph |-> g, summarize |-> s, deduplicated |-> TRUE,
                       number |-> spent.retries + 1, started |-> "processing" \in {run.graph, run.summarize}]
    <3>1. ~(run.status = "ready_with_warnings" /\ run'.status = "processing")
      BY <1>8
    <3>2. (run.status = "ready_with_warnings" /\ run'.status = "processing") \/ (Ask(c, rec) /\ (g \/ s))
      BY DEF RetryClaim, BaseInv, TypeOK, Run
    <3>3. Ask(c, rec) /\ (g \/ s)
      BY <3>1, <3>2
    <3>4. rec.started
      BY <1>3, <3>3 DEF FirstPass, ActiveStatuses
    <3> QED BY <3>3, <3>4
  <2>2. client'[c] = rec /\ \A d \in Client \ {c} : client'[d].pc = "idle"
    BY <1>7, <2>1
  <2>3. Carried("first")'
    BY <1>2, <1>3, <1>5, <1>8, UnmovedCarried DEF FirstPass, Active
  <2>4. FirstPass'
    BY <1>2, <1>3, <1>6, <1>8, <2>1, <2>2, <2>3 DEF FirstPass
  <2> QED BY <1>1, <1>4, <1>8, <2>4 DEF CarriedInv
<1>9. CASE run' # run
  <2>1. PICK rec : /\ Ask(c, rec) /\ rec.pc \in {"dropGraph", "dropSummarize"}
                   /\ ~rec.deduplicated /\ rec.number = 1
    BY <1>2, <1>9 DEF RetryClaim
  <2>2. run'.status = "processing"
    BY <1>9 DEF RetryClaim, BaseInv, TypeOK, Run
  <2>3. client'[c] = rec /\ \A d \in Client \ {c} : client'[d].pc = "idle"
    BY <1>7, <2>1
  <2>4. Claiming'
    BY <1>2, <1>6, <2>1, <2>3 DEF Claiming
  <2> QED BY <1>1, <1>4, <2>2, <2>4 DEF CarriedInv
<1> QED BY <1>8, <1>9

\* It drops the jobs of the first pass one by one ...
LEMMA ClaimDrops ==
    ASSUME BaseInv, Unretried, NEW c \in Client, ~client[c].deduplicated, RetryDrop(c)
    PROVE  /\ Unretried'
           /\ \E pc \in ClientPc \ {"idle", "add"} :
                /\ Forward(c, pc)
                /\ pc = "look" => ~Ended(First("finalize"))'
<1>o. CASE Unclaim(c)
  <2>1. Forward(c, "restore") /\ UNCHANGED job
    BY <1>o DEF Unclaim, Forward
  <2> QED BY <2>1 DEF Unretried, Present, Live, ClientPc
<1> SUFFICES ASSUME ~Unclaim(c)
             PROVE  /\ Unretried'
                    /\ \E pc \in ClientPc \ {"idle", "add"} :
                         /\ Forward(c, pc)
                         /\ pc = "look" => ~Ended(First("finalize"))'
  BY <1>o
<1>1. PICK stage \in Stage :
        /\ Remove(First(stage))
        /\ Forward(c, IF Locked(First(stage)) THEN "restore"
                      ELSE IF stage = "graph" /\ client[c].summarize THEN "dropSummarize"
                      ELSE IF stage = "finalize" THEN "look" ELSE "dropFinalize")
  BY DEF RetryDrop, Stage
<1>2. First(stage) \in JobId
  BY FirstIsJob
<1>3. \A i \in JobId : job'[i] = job[i] \/ job'[i] = NoJob
  BY <1>1, <1>2 DEF Remove, BaseInv, TypeOK
<1>4. /\ Graph("first") \in JobId /\ Graph("retry") \in JobId /\ Summary("retry") \in JobId
  BY DEF JobId, Graph, Summary
<1>5. Unretried'
  BY <1>3, <1>4 DEF Unretried, Present, Live, NoJob, Graph, Summary
<1>6. stage = "finalize" /\ ~Locked(First(stage)) => ~Ended(First("finalize"))'
  BY <1>1, <1>2 DEF Remove, NoJob, Ended, BaseInv, TypeOK
<1> QED BY <1>1, <1>5, <1>6 DEF ClientPc, Stage

\* ... and adds the first job of the retry.
LEMMA ClaimAdds ==
    ASSUME BaseInv, Unretried, 1 \in 0..MaxRetries, NEW c \in Client, Add(Entry(c), 1), worker' = worker,
           spent'.outages \in Nat, Active' => ~Ended(First("finalize"))
    PROVE  Carried("retry")'
<1> SUFFICES ASSUME Active' PROVE Carried("retry")'
  BY DEF Carried
<1>1. PICK g, s, f, h : /\ g = Graph("retry") /\ s = Summary("retry") /\ f = Short("retry")
                        /\ h = Entry(c)
  OBVIOUS
<1>2. g = <<"graph", "retry", 0>> /\ s = <<"summarize", "retry", 0>> /\ f = <<"finalize", "graph", 1>>
  BY <1>1 DEF Graph, Summary, Short
<1>3. h \in {g, s} /\ {g, s, f, First("finalize")} \subseteq JobId
  BY <1>1, <1>2 DEF Entry, JobId
<1>4. ~Present(g) /\ ~Present(s) /\ ~Present(f)
  BY <1>1, <1>2, <1>3 DEF Unretried
<1>5. job' = [job EXCEPT ![h] = [Added EXCEPT !.requested = 1]]
  BY <1>1, <1>3, <1>4 DEF Add, Present
<1>6. /\ job'[h] = [Added EXCEPT !.requested = 1]
      /\ \A i \in JobId \ {h} : job'[i] = job[i]
  BY <1>3, <1>5 DEF BaseInv, TypeOK
<1>7. job'[h].state = "waiting" /\ job'[h].tries = 0 /\ job'[h].requested = 1
  BY <1>6 DEF Added
<1>8. /\ ~Ended(g)' /\ ~Ended(s)' /\ ~Ended(f)' /\ ~Ended(First("finalize"))'
      /\ Present(g)' \/ Present(s)'
  BY <1>2, <1>3, <1>4, <1>6, <1>7 DEF Present, Ended
<1>9. /\ Live(g)' => job'[g].requested = 1 /\ job'[g].tries = 0
      /\ Live(s)' => job'[s].tries = 0
  BY <1>2, <1>3, <1>4, <1>6, <1>7 DEF Present, Live
<1>10. spent'.outages >= 0
  OBVIOUS
<1>11. \A v \in Worker : At(v, "recheck")' => JobOf(v)' \notin {g, s}
  BY <1>4 DEF At, JobOf, BaseInv, Handlers, HandlerInv, Locked, Present
<1> QED BY <1>1, <1>2, <1>8, <1>9, <1>10, <1>11 DEF Carried, Chain, Attempts, Graph, Summary, Short

\* The request that carries the run goes on, hands it to the retry, or gives it back.
LEMMA CarriedContinue ==
    ASSUME BaseInv, CarriedInv, Calm' => Calm, NEW c \in Client, Continue(c)
    PROVE  CarriedInv'
<1> SUFFICES ASSUME Calm' PROVE CarriedInv'
  BY DEF CarriedInv
<1>1. recovery.pc = "off" /\ run.status # "retrying" /\ (FirstPass \/ Claiming \/ RetryPass)
  BY DEF CarriedInv
<1>2. client[c].pc # "idle"
  BY DEF Continue, RetryDrop, RetryLook, RetryAdd, RetryRestore
<1>3. /\ UNCHANGED <<worker, recovery>> /\ spent'.retries = spent.retries
      /\ spent'.outages \in Nat
      /\ spent.outages <= spent'.outages
      /\ run' = run \/ RetryRestore(c)
  BY BoundsAssumption DEF Continue, RetryDrop, RetryLook, RetryAdd, RetryRestore, Outage, Spend, host, queue,
     BaseInv, TypeOK
<1>4. ASSUME NEW rec, Ask(c, rec)
      PROVE  client'[c] = rec /\ \A d \in Client \ {c} : client'[d] = client[d]
  BY <1>4 DEF Ask, BaseInv, TypeOK
<1>5. ASSUME NEW pc, Forward(c, pc)
      PROVE  /\ client'[c].pc = pc /\ client'[c].deduplicated = client[c].deduplicated
             /\ client'[c].number = client[c].number
             /\ \A d \in Client \ {c} : client'[d] = client[d]
  <2> DEFINE rec == [client[c] EXCEPT !.pc = pc]
  <2>1. Ask(c, rec)
    BY <1>5 DEF Forward
  <2>2. rec.pc = pc /\ rec.deduplicated = client[c].deduplicated /\ rec.number = client[c].number
    BY DEF BaseInv, TypeOK, Request
  <2> HIDE DEF rec
  <2> QED BY <1>4, <2>1, <2>2
<1>6. IdleClient.pc = "idle"
  BY DEF IdleClient
<1>7. CASE FirstPass
  <2>1. RetryLook(c) /\ Ask(c, IdleClient) /\ UNCHANGED <<run, job, worker>>
    BY <1>2, <1>7 DEF FirstPass, Continue, RetryDrop, RetryLook, RetryAdd, RetryRestore, Unclaim
  <2>2. client'[c].pc = "idle" /\ \A d \in Client \ {c} : client'[d] = client[d]
    BY <1>4, <1>6, <2>1
  <2>3. Unmoved
    BY <2>1 DEF Unmoved, Present, Ended, Live
  <2>4. Unretried' /\ Carried("first")'
    BY <1>3, <1>7, <2>1, <2>3, UnmovedUnretried, UnmovedCarried DEF FirstPass, Active
  <2>5. FirstPass'
    BY <1>3, <1>7, <2>1, <2>2, <2>4 DEF FirstPass
  <2> QED BY <1>1, <1>3, <2>1, <2>5 DEF CarriedInv
<1>8. CASE Claiming
  <2>1. /\ Unretried /\ spent.retries = 1
        /\ ~client[c].deduplicated /\ client[c].number = 1
        /\ \A d \in Client \ {c} : client[d].pc = "idle"
        /\ client[c].pc \in {"look", "add"} /\ Active => ~Ended(First("finalize"))
    BY <1>2, <1>8 DEF Claiming
  <2>2. ASSUME RetryDrop(c) PROVE CarriedInv'
    <3>1. PICK pc \in ClientPc \ {"idle", "add"} :
            Unretried' /\ Forward(c, pc) /\ (pc = "look" => ~Ended(First("finalize"))')
      BY <2>1, <2>2, ClaimDrops
    <3>2. Claiming'
      BY <1>3, <1>5, <2>1, <3>1 DEF Claiming
    <3>3. run' = run
      BY <2>2 DEF RetryDrop
    <3> QED BY <1>1, <1>3, <3>2, <3>3 DEF CarriedInv
  <2>3. ASSUME UNCHANGED <<run, job>>, NEW pc \in {"add", "restore"}, Forward(c, pc),
               client[c].pc \in {"look", "add"}
        PROVE  CarriedInv'
    <3>1. Unmoved
      BY <1>3, <2>3 DEF Unmoved, Present, Ended, Live
    <3>2. Unretried' /\ (Ended(First("finalize"))' <=> Ended(First("finalize")))
      BY <2>1, <3>1, UnmovedUnretried
    <3>3. Claiming'
      BY <1>3, <1>5, <2>1, <2>3, <3>2 DEF Claiming, Active
    <3> QED BY <1>1, <1>3, <2>3, <3>3 DEF CarriedInv
  <2>4. ASSUME RetryLook(c) PROVE CarriedInv'
    <3>1. job[Entry(c)].state = "absent"
      BY <2>1 DEF Unretried, Present, Entry, Graph, Summary
    <3>2. /\ UNCHANGED <<run, job>> /\ client[c].pc = "look"
          /\ Forward(c, "add") \/ Forward(c, "restore")
      BY <2>1, <2>4, <3>1 DEF RetryLook, Unclaim, Forward
    <3> QED BY <2>3, <3>2
  <2>5. ASSUME RetryAdd(c) PROVE CarriedInv'
    <3>1. CASE Add(Entry(c), client[c].number) /\ Ask(c, IdleClient)
      <4>1. Carried("retry")'
        <5>1. Active' => ~Ended(First("finalize"))
          BY <2>1, <2>5 DEF RetryAdd, Active
        <5>2. 1 \in 0..MaxRetries
          BY <2>1 DEF BaseInv, TypeOK
        <5> QED BY <1>3, <2>1, <3>1, <5>1, <5>2, ClaimAdds
      <4>2. RetryPass'
        BY <1>3, <1>4, <1>6, <2>1, <3>1, <4>1 DEF RetryPass
      <4>3. run' = run
        BY <2>5 DEF RetryAdd
      <4> QED BY <1>1, <1>3, <4>2, <4>3 DEF CarriedInv
    <3>2. CASE UNCHANGED <<run, job>> /\ Forward(c, "restore") /\ client[c].pc = "add"
      BY <2>3, <3>2
    <3> QED BY <2>1, <2>5, <3>1, <3>2 DEF RetryAdd, Unclaim, Forward
  <2>6. ASSUME RetryRestore(c) PROVE CarriedInv'
    <3>1. run'.status = (IF run.status = "processing" THEN "ready_with_warnings" ELSE run.status)
      BY <2>6 DEF RetryRestore, BaseInv, TypeOK, Run
    <3>2. ~Active' /\ run'.status # "retrying"
      BY <1>1, <3>1 DEF Active, ActiveStatuses
    <3>3. \A d \in Client : client'[d].pc = "idle"
      BY <1>4, <1>6, <2>1, <2>6 DEF RetryRestore
    <3>4. RetryPass'
      BY <1>3, <2>1, <3>2, <3>3 DEF RetryPass, Carried
    <3> QED BY <1>1, <1>3, <3>2, <3>4 DEF CarriedInv
  <2> QED BY <2>2, <2>4, <2>5, <2>6 DEF Continue
<1>9. CASE RetryPass
  BY <1>2, <1>9 DEF RetryPass
<1> QED BY <1>1, <1>7, <1>8, <1>9

LEMMA CarriedNext ==
    ASSUME BaseInv, PlaceInv, CarriedInv, [Next]_vars
    PROVE  CarriedInv'
<1>1. Calm' => Calm
  BY CalmNext DEF BaseInv
<1> QED BY <1>1, CarriedSteps, CarriedTake, CarriedEnvironment, CarriedClaim, CarriedContinue DEF Next

LEMMA CarriedInit ==
    ASSUME Init
    PROVE  PlaceInv /\ CarriedInv
<1>1. /\ \A w \in Worker : worker[w].pc = "idle"
      /\ \A c \in Client : client[c].pc = "idle"
      /\ recovery.pc = "off" /\ run.status = "processing" /\ run.graph = "pending" /\ run.summarize = "pending"
  BY DEF Init, IdleWorker, IdleClient, Off
<1>2. First("graph") \in JobId /\ \A j \in JobId : job[j] = IF j = First("graph") THEN Added ELSE NoJob
  BY FirstIsJob DEF Init, Stage
<1>3. \A j \in JobId : j # First("graph") => job[j].state = "absent"
  BY <1>2 DEF NoJob
<1>4. job[First("graph")].state = "waiting" /\ job[First("graph")].tries = 0 /\ job[First("graph")].requested = 0
  BY <1>2 DEF Added
<1>5. {Graph("first"), Summary("first"), Short("first"), First("finalize"), Graph("retry"), Summary("retry")}
        \subseteq JobId
  BY PassJobs DEF JobId, Graph, Summary
<1>6. Unretried
  BY <1>3, <1>4, <1>5 DEF Unretried, Present, Live, Graph, Summary
<1>7. Chain(Graph("first"), Summary("first"), Short("first"))
  BY <1>3, <1>4, <1>5 DEF Chain, Present, Ended, Graph, Summary, Short
<1>8. Attempts(Graph("first"), Summary("first"), Short("first"), 0)
  BY <1>1, <1>3, <1>4, <1>5 DEF Attempts, Present, Live, Graph, Summary, Short, At, Init
<1>9. FirstPass
  BY <1>1, <1>6, <1>7, <1>8 DEF FirstPass, Carried
<1> QED BY <1>1, <1>9 DEF PlaceInv, At, AtGraph, AtSummary, CarriedInv

\* A pass has a job that may run, until the run is over.
LEMMA PassLives ==
    ASSUME BaseInv, NEW k \in {"first", "retry"}, k = "retry" => MaxRetries >= 1, Carried(k), Active
    PROVE  \E j \in JobId : Live(j)
<1>1. {Graph(k), Summary(k), Short(k), First("finalize")} \subseteq JobId
  BY PassJobs
<1>2. Chain(Graph(k), Summary(k), Short(k))
  BY DEF Carried
<1>3. \A j \in JobId : Present(j) /\ ~Ended(j) => Live(j)
  BY DEF Present, Ended, Live, BaseInv, TypeOK, Job
<1> QED BY <1>1, <1>2, <1>3 DEF Chain

LEMMA InvCarries ==
    ASSUME BaseInv, CarriedInv
    PROVE  TailCarried
<1> SUFFICES ASSUME Calm, Active
             PROVE  (\E j \in JobId : Live(j)) \/ (\E c \in Client : client[c].pc # "idle")
  BY DEF TailCarried, Calm, Active
<1>1. FirstPass \/ Claiming \/ RetryPass
  BY DEF CarriedInv
<1>2. CASE FirstPass
  BY <1>2, PassLives DEF FirstPass
<1>3. CASE Claiming
  BY <1>3 DEF Claiming
<1>4. CASE RetryPass
  BY <1>4, PassLives, RetriesLeft DEF RetryPass
<1> QED BY <1>1, <1>2, <1>3, <1>4

\* A run that is not over has a job or a request to carry it on, whatever fails, is
\* edited or is cancelled: without a crash, with one retry request, and while Redis
\* refuses fewer jobs than a job has attempts.
THEOREM TailCorrect == Spec => []TailCarried
<1>1. Init => BaseInv /\ PlaceInv /\ CarriedInv
  BY BaseInit, CarriedInit
<1>2. BaseInv /\ PlaceInv /\ CarriedInv /\ [Next]_vars => BaseInv' /\ PlaceInv' /\ CarriedInv'
  BY BaseNext, PlaceNext, CarriedNext
<1>3. BaseInv /\ CarriedInv => TailCarried
  BY InvCarries
<1> QED BY <1>1, <1>2, <1>3, PTL DEF Spec

=============================================================================
