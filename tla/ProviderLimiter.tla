--------------------------- MODULE ProviderLimiter ---------------------------
(***************************************************************************)
(* The in-process throttle in front of an embedding, graph or summary      *)
(* provider (backend/src/queue/provider-limiter.ts), for one limiter key   *)
(* "<profile>:<operation>": the counting Semaphore, the sliding            *)
(* requests-per-minute window, the retry loop with backoff and the circuit *)
(* breaker.                                                                *)
(*                                                                         *)
(* Every action is a run of JavaScript between two awaits, so it is atomic.*)
(* A resolved waiter does not run inside release(): its continuation is a  *)
(* later microtask, which is the "woken" phase below.  Time is relative:   *)
(* the window holds the ages of the recorded requests and the timers count *)
(* down, so no clock grows without bound.                                  *)
(***************************************************************************)
EXTENDS Integers, Sequences, FiniteSets

CONSTANTS
    Caller,      \* concurrent withPermit calls that share the key
    Limit,       \* profile.maxConcurrency
    Rpm,         \* profile.requestsPerMinute; 0 means no quota (local mode)
    Window,      \* the 60 s of the rate window, in ticks
    MaxRetries,  \* profile.maxRetries (0 in local mode)
    MaxBackoff,  \* longest backoff or Retry-After, in ticks
    Threshold,   \* profile.circuitFailureThreshold
    Cooldown     \* profile.circuitCooldownMs, in ticks

ASSUME LimitAssumption == Limit \in Nat \ {0}
ASSUME CallerAssumption == IsFiniteSet(Caller)
ASSUME TimingAssumption ==
    /\ Rpm \in Nat /\ Window \in Nat \ {0} /\ MaxRetries \in Nat
    /\ MaxBackoff \in Nat /\ Threshold \in Nat \ {0} /\ Cooldown \in Nat

VARIABLES
    active,    \* Semaphore.active
    waiters,   \* Semaphore.waiters: callers whose promise is unresolved, oldest first
    phase,     \* where each withPermit call is
    attempt,   \* the retry loop's counter
    timer,     \* remaining sleep of a caller inside the loop
    window,    \* ages of the requests in requestWindows.get(key), oldest first
    circuit    \* circuits.get(key): failures counted and time left open

vars == <<active, waiters, phase, attempt, timer, window, circuit>>

Phase == {"idle", "waiting", "woken", "rate", "calling"}
Closed == [failures |-> 0, open |-> 0]

Holding == {c \in Caller : phase[c] \in {"rate", "calling"}}
Woken == {c \in Caller : phase[c] = "woken"}

Init ==
    /\ active = 0
    /\ waiters = <<>>
    /\ phase = [c \in Caller |-> "idle"]
    /\ attempt = [c \in Caller |-> 0]
    /\ timer = [c \in Caller |-> 0]
    /\ window = <<>>
    /\ circuit = Closed

(***************************************************************************)
(* withPermit up to and including Semaphore.acquire.  An open circuit      *)
(* throws before the semaphore is touched.                                 *)
(***************************************************************************)
Reject(c) ==
    /\ phase[c] = "idle"
    /\ circuit.open > 0
    /\ UNCHANGED vars

Admit(c) ==
    /\ phase[c] = "idle"
    /\ circuit.open = 0
    /\ active < Limit
    /\ active' = active + 1
    /\ phase' = [phase EXCEPT ![c] = "rate"]
    /\ attempt' = [attempt EXCEPT ![c] = 0]
    /\ UNCHANGED <<waiters, timer, window, circuit>>

Queue(c) ==
    /\ phase[c] = "idle"
    /\ circuit.open = 0
    /\ active >= Limit
    /\ waiters' = Append(waiters, c)
    /\ phase' = [phase EXCEPT ![c] = "waiting"]
    /\ UNCHANGED <<active, attempt, timer, window, circuit>>

\* The continuation after the awaited promise: it takes a slot without looking.
Resume(c) ==
    /\ phase[c] = "woken"
    /\ active' = active + 1
    /\ phase' = [phase EXCEPT ![c] = "rate"]
    /\ attempt' = [attempt EXCEPT ![c] = 0]
    /\ UNCHANGED <<waiters, timer, window, circuit>>

(***************************************************************************)
(* The closure acquire returns, called once from withPermit's finally.     *)
(***************************************************************************)
\* Mutant: the wake-up is forgotten.
ReleaseNoWake(c) ==
    /\ active' = active - 1
    /\ waiters' = waiters
    /\ phase' = [phase EXCEPT ![c] = "idle"]

\* Mutant: the slot is handed to the waiter without being given back.
ReleaseNoDecrement(c) ==
    /\ active' = IF waiters = <<>> THEN active - 1 ELSE active
    /\ waiters' = IF waiters = <<>> THEN waiters ELSE Tail(waiters)
    /\ phase' = IF waiters = <<>> THEN [phase EXCEPT ![c] = "idle"]
                 ELSE [phase EXCEPT ![c] = "idle", ![Head(waiters)] = "woken"]

\* Mutant: the newest waiter is woken (pop instead of shift).
ReleasePop(c) ==
    /\ active' = active - 1
    /\ waiters' = IF waiters = <<>> THEN waiters
                  ELSE SubSeq(waiters, 1, Len(waiters) - 1)
    /\ phase' = IF waiters = <<>> THEN [phase EXCEPT ![c] = "idle"]
                 ELSE [phase EXCEPT ![c] = "idle",
                                    ![waiters[Len(waiters)]] = "woken"]

\* Mutant: the waiter is woken but stays in the list (peek instead of shift).
ReleasePeek(c) ==
    /\ active' = active - 1
    /\ waiters' = waiters
    /\ phase' = IF waiters = <<>> THEN [phase EXCEPT ![c] = "idle"]
                 ELSE [phase EXCEPT ![c] = "idle", ![Head(waiters)] = "woken"]

Release(c) ==
    /\ active' = active - 1
    /\ IF waiters = <<>>
          THEN /\ waiters' = waiters
               /\ phase' = [phase EXCEPT ![c] = "idle"]
          ELSE /\ waiters' = Tail(waiters)
               /\ phase' = [phase EXCEPT ![c] = "idle", ![Head(waiters)] = "woken"]

(***************************************************************************)
(* waitForRateWindow: drop the requests older than the window, then either *)
(* record this one and go on, or sleep until the oldest one leaves.        *)
(***************************************************************************)
\* The requests are in the order they were made, so the stale ones come first.
Stale(w) == Cardinality({i \in DOMAIN w : w[i] >= Window})
Fresh(w) == SubSeq(w, Stale(w) + 1, Len(w))

Pass(c) ==
    /\ phase[c] = "rate"
    /\ timer[c] = 0
    /\ Rpm > 0 => Len(Fresh(window)) < Rpm
    /\ window' = IF Rpm > 0 THEN Append(Fresh(window), 0) ELSE window
    /\ phase' = [phase EXCEPT ![c] = "calling"]
    /\ UNCHANGED <<active, waiters, attempt, timer, circuit>>

\* window[0] of the filtered window, the oldest request that still counts.
SleepForWindow(c) ==
    /\ phase[c] = "rate"
    /\ timer[c] = 0
    /\ Rpm > 0
    /\ Len(Fresh(window)) >= Rpm
    /\ timer' = [timer EXCEPT ![c] = Window - Head(Fresh(window))]
    /\ UNCHANGED <<active, waiters, phase, attempt, window, circuit>>

(***************************************************************************)
(* The provider call and the three ways out of the retry loop.             *)
(***************************************************************************)
Succeed(c) ==
    /\ phase[c] = "calling"
    /\ circuit' = Closed
    /\ Release(c)
    /\ UNCHANGED <<attempt, timer, window>>

\* Mutant: one retry too many.
RetryOnceMore(c) ==
    /\ phase[c] = "calling"
    /\ attempt[c] <= MaxRetries
    /\ attempt' = [attempt EXCEPT ![c] = @ + 1]
    /\ \E d \in 0..MaxBackoff : timer' = [timer EXCEPT ![c] = d]
    /\ phase' = [phase EXCEPT ![c] = "rate"]
    /\ UNCHANGED <<active, waiters, window, circuit>>

Retry(c) ==
    /\ phase[c] = "calling"
    /\ attempt[c] < MaxRetries
    /\ attempt' = [attempt EXCEPT ![c] = @ + 1]
    /\ \E d \in 0..MaxBackoff : timer' = [timer EXCEPT ![c] = d]
    /\ phase' = [phase EXCEPT ![c] = "rate"]
    /\ UNCHANGED <<active, waiters, window, circuit>>

\* A 429 or 5xx with no retry left counts against the circuit.
FailRetryable(c) ==
    /\ phase[c] = "calling"
    /\ attempt[c] >= MaxRetries
    /\ LET failures == IF circuit.failures < Threshold
                       THEN circuit.failures + 1 ELSE Threshold
       IN circuit' = [failures |-> failures,
                      open |-> IF failures >= Threshold
                               THEN Cooldown ELSE circuit.open]
    /\ Release(c)
    /\ UNCHANGED <<attempt, timer, window>>

FailFatal(c) ==
    /\ phase[c] = "calling"
    /\ Release(c)
    /\ UNCHANGED <<attempt, timer, window, circuit>>

Older(age) == IF age < Window THEN age + 1 ELSE Window
Less(t) == IF t > 0 THEN t - 1 ELSE 0

Tick ==
    /\ \/ circuit.open > 0
       \/ \E c \in Caller : timer[c] > 0
       \/ \E i \in DOMAIN window : window[i] < Window
    /\ window' = [i \in DOMAIN window |-> Older(window[i])]
    /\ timer' = [c \in Caller |-> Less(timer[c])]
    /\ circuit' = [circuit EXCEPT !.open = Less(@)]
    /\ UNCHANGED <<active, waiters, phase, attempt>>

Step(c) ==
    \/ Resume(c) \/ Pass(c) \/ SleepForWindow(c)
    \/ Succeed(c) \/ Retry(c) \/ FailRetryable(c) \/ FailFatal(c)

Next ==
    \/ \E c \in Caller : Reject(c) \/ Admit(c) \/ Queue(c) \/ Step(c)
    \/ Tick

Spec == Init /\ [][Next]_vars

(***************************************************************************)
(* Microtasks and timers always run, and every provider call carries its   *)
(* own timeout, so each step of a started call and the clock are fair.     *)
(* Starting a call is not: nobody has to ask.                              *)
(***************************************************************************)
FairSpec == Spec /\ WF_vars(Tick) /\ \A c \in Caller : WF_vars(Step(c))

-----------------------------------------------------------------------------
(***************************************************************************)
(* Properties                                                              *)
(***************************************************************************)

\* Every variable of the limiter has the type the code gives it.
TypeOK ==
    /\ active \in Int
    /\ waiters \in Seq(Caller)
    /\ phase \in [Caller -> Phase]
    /\ attempt \in [Caller -> 0..MaxRetries]
    /\ timer \in [Caller -> Nat]
    /\ window \in Seq(0..Window)
    /\ circuit \in [failures : 0..Threshold, open : Nat]

\* Semaphore.active counts exactly the calls that hold a permit, through every
\* error path of withPermit: a permit neither leaks nor is given back twice.
PermitAccounting == active = Cardinality(Holding)

\* A call queues only behind a full semaphore, and each release passes the
\* baton: as long as a call waits, the permits in use plus the wake-ups under
\* way fill the limit, so no capacity is idle while somebody waits.
NoIdleCapacity == waiters # <<>> => active + Cardinality(Woken) >= Limit

\* The waiter list is the set of suspended acquire() calls, each once: a call
\* is never woken twice and never suspended without an entry that wakes it.
QueueIsExact ==
    /\ \A c \in Caller : phase[c] = "waiting" <=> \E i \in DOMAIN waiters : waiters[i] = c
    /\ \A i, j \in DOMAIN waiters : waiters[i] = waiters[j] => i = j

\* A suspended acquire() eventually gets its permit, whatever the calls ahead
\* of it do: succeed, retry, fail or trip the circuit.
WaiterServed == \A c \in Caller : phase[c] = "waiting" ~> phase[c] \in {"rate", "calling"}
=============================================================================
