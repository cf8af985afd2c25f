------------------------ MODULE ProviderLimiter_proofs ------------------------
(***************************************************************************)
(* The semaphore of the provider limiter, for any number of callers, any   *)
(* limit and any timing: its type, its waiter list, its permit count and   *)
(* the absence of idle capacity.  Each invariant is proved from the ones   *)
(* before it; their conjunction is inductive.                              *)
(***************************************************************************)
EXTENDS ProviderLimiter, FiniteSetTheorems, SequenceTheorems, TLAPS

(***************************************************************************)
(* The rate window                                                         *)
(***************************************************************************)

\* A suffix of a sequence is a sequence over the same set.
LEMMA SuffixType ==
    ASSUME NEW S, NEW w \in Seq(S), NEW n \in Nat
    PROVE  SubSeq(w, n + 1, Len(w)) \in Seq(S)
<1>1. \A i \in (n + 1)..Len(w) : w[i] \in S
  BY LenProperties
<1> QED
  BY <1>1, LenProperties, SubSeqProperties

\* Pruning the rate window keeps a window: a suffix of the recorded ages.
LEMMA FreshType ==
    ASSUME NEW w \in Seq(0..Window)
    PROVE  Fresh(w) \in Seq(0..Window)
<1> DEFINE n == Cardinality({i \in DOMAIN w : w[i] >= Window})
<1>1. IsFiniteSet(1..Len(w)) /\ DOMAIN w = 1..Len(w) /\ Len(w) \in Nat
  BY FS_Interval, LenProperties
<1>2. n \in Nat
  BY <1>1, FS_Subset, FS_CardinalityType
<1> HIDE DEF n
<1>3. SubSeq(w, n + 1, Len(w)) \in Seq(0..Window)
  BY <1>2, SuffixType
<1> QED
  BY <1>3 DEF Fresh, Stale, n

(***************************************************************************)
(* Types                                                                   *)
(***************************************************************************)

LEMMA ReleaseType ==
    ASSUME TypeOK, NEW c \in Caller, Release(c)
    PROVE  active' \in Int /\ waiters' \in Seq(Caller) /\ phase' \in [Caller -> Phase]
<1> USE DEF TypeOK, Phase
<1>1. CASE waiters = <<>>
  <2>1. active' = active - 1 /\ waiters' = waiters /\ phase' = [phase EXCEPT ![c] = "idle"]
    BY <1>1, Zenon DEF Release
  <2> QED
    BY <2>1
<1>2. CASE waiters # <<>>
  <2>1. Head(waiters) \in Caller /\ Tail(waiters) \in Seq(Caller)
    BY <1>2, HeadTailProperties DEF TypeOK
  <2>2. /\ active' = active - 1 /\ waiters' = Tail(waiters)
        /\ phase' = [phase EXCEPT ![c] = "idle", ![Head(waiters)] = "woken"]
    BY <1>2, Zenon DEF Release
  <2>3. [phase EXCEPT ![c] = "idle", ![Head(waiters)] = "woken"] \in [Caller -> Phase]
    <3>1. [phase EXCEPT ![c] = "idle"] \in [Caller -> Phase]
      OBVIOUS
    <3> QED
      BY <2>1, <3>1
  <2>4. active' \in Int
    BY <2>2
  <2> QED
    BY <2>1, <2>2, <2>3, <2>4, Zenon
<1> QED
  BY <1>1, <1>2

LEMMA TypeStep == TypeOK /\ [Next]_vars => TypeOK'
<1> SUFFICES ASSUME TypeOK, [Next]_vars PROVE TypeOK'
  OBVIOUS
<1> USE LimitAssumption, TimingAssumption
<1>1. ASSUME NEW c \in Caller, Reject(c) PROVE TypeOK'
  BY <1>1 DEF Reject, TypeOK, vars
<1>2. ASSUME NEW c \in Caller, Admit(c) PROVE TypeOK'
  BY <1>2 DEF Admit, TypeOK, Phase
<1>3. ASSUME NEW c \in Caller, Queue(c) PROVE TypeOK'
  <2>1. waiters' \in Seq(Caller)
    BY <1>3 DEF Queue, TypeOK
  <2> QED
    BY <1>3, <2>1 DEF Queue, TypeOK, Phase
<1>4. ASSUME NEW c \in Caller, Resume(c) PROVE TypeOK'
  BY <1>4 DEF Resume, TypeOK, Phase
<1>5. ASSUME NEW c \in Caller, Pass(c) PROVE TypeOK'
  <2>1. Append(Fresh(window), 0) \in Seq(0..Window)
    BY FreshType DEF TypeOK
  <2>2. window' \in Seq(0..Window)
    BY <1>5, <2>1 DEF Pass, TypeOK
  <2> QED
    BY <1>5, <2>2 DEF Pass, TypeOK, Phase
<1>6. ASSUME NEW c \in Caller, SleepForWindow(c) PROVE TypeOK'
  <2>1. Fresh(window) \in Seq(0..Window) /\ Len(Fresh(window)) > 0
    BY <1>6, FreshType DEF SleepForWindow, TypeOK
  <2>2. Head(Fresh(window)) \in 0..Window
    BY <2>1
  <2>3. timer' \in [Caller -> Nat]
    BY <1>6, <2>2 DEF SleepForWindow, TypeOK
  <2> QED
    BY <1>6, <2>3 DEF SleepForWindow, TypeOK
<1>7. ASSUME NEW c \in Caller, Succeed(c) PROVE TypeOK'
  <2>1. circuit' \in [failures : 0..Threshold, open : Nat]
    BY <1>7 DEF Succeed, Closed
  <2> QED
    BY <1>7, <2>1, ReleaseType DEF Succeed, TypeOK
<1>8. ASSUME NEW c \in Caller, Retry(c) PROVE TypeOK'
  BY <1>8 DEF Retry, TypeOK, Phase
<1>9. ASSUME NEW c \in Caller, FailRetryable(c) PROVE TypeOK'
  <2>1. circuit' \in [failures : 0..Threshold, open : Nat]
    BY <1>9 DEF FailRetryable, TypeOK
  <2>2. Release(c) /\ UNCHANGED <<attempt, timer, window>>
    BY <1>9 DEF FailRetryable
  <2> QED
    BY <2>1, <2>2, ReleaseType DEF TypeOK
<1>10. ASSUME NEW c \in Caller, FailFatal(c) PROVE TypeOK'
  BY <1>10, ReleaseType DEF FailFatal, TypeOK
<1>11. ASSUME Tick PROVE TypeOK'
  <2>1. window' \in Seq(0..Window)
    <3>1. DOMAIN window = 1..Len(window) /\ Len(window) \in Nat
      BY DEF TypeOK
    <3>2. \A i \in 1..Len(window) : Older(window[i]) \in 0..Window
      BY ElementOfSeq DEF TypeOK, Older
    <3>3. [i \in 1..Len(window) |-> Older(window[i])] \in Seq(0..Window)
      BY <3>1, <3>2
    <3> QED
      BY <1>11, <3>1, <3>3 DEF Tick
  <2>2. timer' \in [Caller -> Nat]
    BY <1>11 DEF Tick, TypeOK, Less
  <2>3. circuit' \in [failures : 0..Threshold, open : Nat]
    <3>1. Less(circuit.open) \in Nat
      BY DEF TypeOK, Less
    <3> QED
      BY <1>11, <3>1 DEF Tick, TypeOK
  <2> QED
    BY <1>11, <2>1, <2>2, <2>3 DEF Tick, TypeOK
<1>12. CASE UNCHANGED vars
  BY <1>12 DEF TypeOK, vars
<1> QED
  BY <1>1, <1>2, <1>3, <1>4, <1>5, <1>6, <1>7, <1>8, <1>9, <1>10, <1>11, <1>12
  DEF Next, Step

\* The variables of the limiter keep their types: in particular no call makes
\* more than 1 + maxRetries attempts, and the circuit's count stays bounded.
THEOREM TypeCorrect == Spec => []TypeOK
<1>1. Init => TypeOK
  BY LimitAssumption, TimingAssumption DEF Init, TypeOK, Phase, Closed
<1> QED
  BY <1>1, TypeStep, PTL DEF Spec

(***************************************************************************)
(* The waiter list                                                         *)
(***************************************************************************)

\* What release() does when somebody waits: the oldest waiter, a caller other
\* than the one that releases, leaves the list and is woken.
LEMMA ReleaseWakes ==
    ASSUME TypeOK, QueueIsExact, NEW c \in Caller, phase[c] = "calling",
           Release(c), waiters # <<>>
    PROVE  \E h \in Caller :
              /\ h # c /\ phase[h] = "waiting"
              /\ waiters[1] = h
              /\ active' = active - 1
              /\ waiters' = Tail(waiters)
              /\ phase' = [phase EXCEPT ![c] = "idle", ![h] = "woken"]
<1>1. Head(waiters) \in Caller /\ Head(waiters) = waiters[1] /\ 1 \in DOMAIN waiters
  BY HeadTailProperties, LenProperties DEF TypeOK
<1>2. phase[Head(waiters)] = "waiting"
  BY <1>1, Zenon DEF QueueIsExact
<1>3. /\ active' = active - 1 /\ waiters' = Tail(waiters)
      /\ phase' = [phase EXCEPT ![c] = "idle", ![Head(waiters)] = "woken"]
  BY Zenon DEF Release
<1>4. Head(waiters) # c
  BY <1>2
<1> QED
  BY <1>1, <1>2, <1>3, <1>4, Zenon

\* What it does when nobody waits.
LEMMA ReleaseFrees ==
    ASSUME NEW c \in Caller, Release(c), waiters = <<>>
    PROVE  /\ active' = active - 1 /\ waiters' = waiters
           /\ phase' = [phase EXCEPT ![c] = "idle"]
BY Zenon DEF Release

\* The list stays exact when neither it nor the set of waiting calls changes.
LEMMA QueueUntouched ==
    ASSUME QueueIsExact, waiters' = waiters,
           \A c \in Caller : phase'[c] = "waiting" <=> phase[c] = "waiting"
    PROVE  QueueIsExact'
BY DEF QueueIsExact

LEMMA ReleaseQueue ==
    ASSUME TypeOK, QueueIsExact, NEW c \in Caller, phase[c] = "calling", Release(c)
    PROVE  QueueIsExact'
<1>1. CASE waiters = <<>>
  <2>1. \A d \in Caller : phase'[d] = "waiting" <=> phase[d] = "waiting"
    BY <1>1, ReleaseFrees DEF TypeOK
  <2> QED
    BY <1>1, <2>1, ReleaseFrees, QueueUntouched
<1>2. CASE waiters # <<>>
  <2>1. PICK h \in Caller :
           /\ h # c /\ phase[h] = "waiting" /\ waiters[1] = h
           /\ waiters' = Tail(waiters)
           /\ phase' = [phase EXCEPT ![c] = "idle", ![h] = "woken"]
    BY <1>2, ReleaseWakes, Zenon
  <2>2. /\ Len(waiters) \in Nat \ {0} /\ DOMAIN waiters = 1..Len(waiters)
        /\ DOMAIN waiters' = 1..(Len(waiters) - 1)
        /\ \A i \in 1..(Len(waiters) - 1) : waiters'[i] = waiters[i + 1]
    <3>1. Tail(waiters) \in Seq(Caller) /\ Len(Tail(waiters)) = Len(waiters) - 1
      BY <1>2, HeadTailProperties DEF TypeOK
    <3>2. Len(waiters) \in Nat \ {0}
      BY <1>2, EmptySeq DEF TypeOK
    <3> QED
      BY <1>2, <2>1, <3>1, <3>2, HeadTailProperties, LenProperties DEF TypeOK
  <2>3. \A d \in Caller : phase'[d] = "waiting" <=> phase[d] = "waiting" /\ d # h
    BY <2>1 DEF TypeOK
  <2>4. \A i, j \in DOMAIN waiters' : waiters'[i] = waiters'[j] => i = j
    BY <2>2 DEF QueueIsExact
  <2>5. ASSUME NEW d \in Caller
        PROVE  phase'[d] = "waiting" <=> \E i \in DOMAIN waiters' : waiters'[i] = d
    <3>1. ASSUME phase[d] = "waiting", d # h
          PROVE  \E i \in DOMAIN waiters' : waiters'[i] = d
      <4>1. PICK i \in DOMAIN waiters : waiters[i] = d
        BY <3>1 DEF QueueIsExact
      <4>2. i # 1 /\ i - 1 \in DOMAIN waiters'
        BY <2>1, <2>2, <3>1, <4>1
      <4> QED
        BY <2>2, <4>1, <4>2
    <3>2. ASSUME NEW i \in DOMAIN waiters', waiters'[i] = d
          PROVE  phase[d] = "waiting" /\ d # h
      <4>1. i + 1 \in DOMAIN waiters /\ i + 1 # 1 /\ 1 \in DOMAIN waiters
            /\ waiters[i + 1] = d
        BY <2>2, <3>2
      <4> QED
        BY <2>1, <4>1 DEF QueueIsExact
    <3> QED
      BY <2>3, <3>1, <3>2
  <2> QED
    BY <2>4, <2>5 DEF QueueIsExact
<1> QED
  BY <1>1, <1>2

LEMMA QueueStep == TypeOK /\ QueueIsExact /\ [Next]_vars => QueueIsExact'
<1> SUFFICES ASSUME TypeOK, QueueIsExact, [Next]_vars PROVE QueueIsExact'
  OBVIOUS
<1>1. ASSUME NEW c \in Caller, Reject(c) PROVE QueueIsExact'
  BY <1>1, QueueUntouched DEF Reject, vars
<1>2. ASSUME NEW c \in Caller, Admit(c) PROVE QueueIsExact'
  BY <1>2, QueueUntouched DEF Admit, TypeOK
<1>3. ASSUME NEW c \in Caller, Queue(c) PROVE QueueIsExact'
  <2>1. /\ Len(waiters) \in Nat /\ DOMAIN waiters = 1..Len(waiters)
        /\ DOMAIN waiters' = 1..(Len(waiters) + 1)
        /\ waiters'[Len(waiters) + 1] = c
        /\ \A i \in 1..Len(waiters) : waiters'[i] = waiters[i]
    BY <1>3 DEF Queue, TypeOK
  <2>2. \A d \in Caller : phase'[d] = "waiting" <=> phase[d] = "waiting" \/ d = c
    BY <1>3 DEF Queue, TypeOK
  <2>3. \A i \in DOMAIN waiters : waiters[i] # c
    BY <1>3 DEF Queue, QueueIsExact
  <2>4. \A i, j \in DOMAIN waiters' : waiters'[i] = waiters'[j] => i = j
    BY <2>1, <2>3 DEF QueueIsExact
  <2>5. ASSUME NEW d \in Caller
        PROVE  phase'[d] = "waiting" <=> \E i \in DOMAIN waiters' : waiters'[i] = d
    BY <2>1, <2>2, <2>3 DEF QueueIsExact
  <2> QED
    BY <2>4, <2>5 DEF QueueIsExact
<1>4. ASSUME NEW c \in Caller, Resume(c) PROVE QueueIsExact'
  BY <1>4, QueueUntouched DEF Resume, TypeOK
<1>5. ASSUME NEW c \in Caller, Pass(c) PROVE QueueIsExact'
  BY <1>5, QueueUntouched DEF Pass, TypeOK
<1>6. ASSUME NEW c \in Caller, SleepForWindow(c) PROVE QueueIsExact'
  BY <1>6, QueueUntouched DEF SleepForWindow
<1>7. ASSUME NEW c \in Caller, Succeed(c) PROVE QueueIsExact'
  BY <1>7, ReleaseQueue DEF Succeed
<1>8. ASSUME NEW c \in Caller, Retry(c) PROVE QueueIsExact'
  BY <1>8, QueueUntouched DEF Retry, TypeOK
<1>9. ASSUME NEW c \in Caller, FailRetryable(c) PROVE QueueIsExact'
  BY <1>9, ReleaseQueue DEF FailRetryable
<1>10. ASSUME NEW c \in Caller, FailFatal(c) PROVE QueueIsExact'
  BY <1>10, ReleaseQueue DEF FailFatal
<1>11. ASSUME Tick PROVE QueueIsExact'
  BY <1>11, QueueUntouched DEF Tick
<1>12. CASE UNCHANGED vars
  BY <1>12, QueueUntouched DEF vars
<1> QED
  BY <1>1, <1>2, <1>3, <1>4, <1>5, <1>6, <1>7, <1>8, <1>9, <1>10, <1>11, <1>12
  DEF Next, Step

\* Whatever the calls do, the waiter list is exactly the set of suspended
\* acquire() calls, each once: none is woken twice, none is forgotten.
THEOREM QueueCorrect == Spec => []QueueIsExact
<1>1. Init => QueueIsExact
  BY DEF Init, QueueIsExact
<1>2. QueueIsExact /\ TypeOK /\ TypeOK' /\ [Next]_vars => QueueIsExact'
  BY QueueStep
<1> QED
  BY <1>1, <1>2, TypeCorrect, PTL DEF Spec

(***************************************************************************)
(* Counting permits and wake-ups                                           *)
(***************************************************************************)
LEMMA CallersFinite == IsFiniteSet(Holding) /\ IsFiniteSet(Woken)
                       /\ Cardinality(Holding) \in Nat /\ Cardinality(Woken) \in Nat
BY CallerAssumption, FS_Subset, FS_CardinalityType DEF Holding, Woken

\* A caller that comes to hold a permit makes one more holder.
LEMMA Takes ==
    ASSUME PermitAccounting, NEW c \in Caller, c \notin Holding,
           active' = active + 1, Holding' = Holding \cup {c}
    PROVE  PermitAccounting'
BY CallersFinite, FS_AddElement DEF PermitAccounting

\* A holder that gives its permit back makes one less.
LEMMA Gives ==
    ASSUME PermitAccounting, NEW c \in Caller, c \in Holding,
           active' = active - 1, Holding' = Holding \ {c}
    PROVE  PermitAccounting'
BY CallersFinite, FS_RemoveElement DEF PermitAccounting

LEMMA Keeps ==
    ASSUME PermitAccounting, active' = active, Holding' = Holding
    PROVE  PermitAccounting'
BY DEF PermitAccounting

LEMMA ReleasePermits ==
    ASSUME TypeOK, QueueIsExact, PermitAccounting,
           NEW c \in Caller, phase[c] = "calling", Release(c)
    PROVE  PermitAccounting'
<1>1. c \in Holding
  BY DEF Holding
<1>2. active' = active - 1 /\ Holding' = Holding \ {c}
  <2>1. CASE waiters = <<>>
    BY <2>1, ReleaseFrees DEF Holding, TypeOK
  <2>2. CASE waiters # <<>>
    <3>1. PICK h \in Caller :
             /\ h # c /\ phase[h] = "waiting" /\ active' = active - 1
             /\ phase' = [phase EXCEPT ![c] = "idle", ![h] = "woken"]
      BY <2>2, ReleaseWakes, Zenon
    <3> QED
      BY <3>1 DEF Holding, TypeOK
  <2> QED
    BY <2>1, <2>2
<1> QED
  BY <1>1, <1>2, Gives

LEMMA PermitStep ==
    TypeOK /\ QueueIsExact /\ PermitAccounting /\ [Next]_vars => PermitAccounting'
<1> SUFFICES ASSUME TypeOK, QueueIsExact, PermitAccounting, [Next]_vars
             PROVE  PermitAccounting'
  OBVIOUS
<1>1. ASSUME NEW c \in Caller, Reject(c) PROVE PermitAccounting'
  BY <1>1, Keeps DEF Reject, vars, Holding
<1>2. ASSUME NEW c \in Caller, Admit(c) PROVE PermitAccounting'
  <2>1. c \notin Holding /\ Holding' = Holding \cup {c}
    BY <1>2 DEF Admit, Holding, TypeOK
  <2> QED
    BY <1>2, <2>1, Takes DEF Admit
<1>3. ASSUME NEW c \in Caller, Queue(c) PROVE PermitAccounting'
  <2>1. Holding' = Holding
    BY <1>3 DEF Queue, Holding, TypeOK
  <2> QED
    BY <1>3, <2>1, Keeps DEF Queue
<1>4. ASSUME NEW c \in Caller, Resume(c) PROVE PermitAccounting'
  <2>1. c \notin Holding /\ Holding' = Holding \cup {c}
    BY <1>4 DEF Resume, Holding, TypeOK
  <2> QED
    BY <1>4, <2>1, Takes DEF Resume
<1>5. ASSUME NEW c \in Caller, Pass(c) PROVE PermitAccounting'
  <2>1. Holding' = Holding
    BY <1>5 DEF Pass, Holding, TypeOK
  <2> QED
    BY <1>5, <2>1, Keeps DEF Pass
<1>6. ASSUME NEW c \in Caller, SleepForWindow(c) PROVE PermitAccounting'
  BY <1>6, Keeps DEF SleepForWindow, Holding
<1>7. ASSUME NEW c \in Caller, Succeed(c) PROVE PermitAccounting'
  BY <1>7, ReleasePermits DEF Succeed
<1>8. ASSUME NEW c \in Caller, Retry(c) PROVE PermitAccounting'
  <2>1. Holding' = Holding
    BY <1>8 DEF Retry, Holding, TypeOK
  <2> QED
    BY <1>8, <2>1, Keeps DEF Retry
<1>9. ASSUME NEW c \in Caller, FailRetryable(c) PROVE PermitAccounting'
  BY <1>9, ReleasePermits DEF FailRetryable
<1>10. ASSUME NEW c \in Caller, FailFatal(c) PROVE PermitAccounting'
  BY <1>10, ReleasePermits DEF FailFatal
<1>11. ASSUME Tick PROVE PermitAccounting'
  BY <1>11, Keeps DEF Tick, Holding
<1>12. CASE UNCHANGED vars
  BY <1>12, Keeps DEF vars, Holding
<1> QED
  BY <1>1, <1>2, <1>3, <1>4, <1>5, <1>6, <1>7, <1>8, <1>9, <1>10, <1>11, <1>12
  DEF Next, Step

\* Semaphore.active is the number of calls that hold a permit, for any number
\* of callers and through every way out of withPermit.
THEOREM PermitsCorrect == Spec => []PermitAccounting
<1>1. Init => PermitAccounting
  <2> SUFFICES ASSUME Init PROVE PermitAccounting
    OBVIOUS
  <2>1. Holding = {}
    BY DEF Init, Holding
  <2> QED
    BY <2>1, FS_EmptySet DEF Init, PermitAccounting
<1> QED
  BY <1>1, PermitStep, TypeCorrect, QueueCorrect, PTL DEF Spec

(***************************************************************************)
(* No idle capacity                                                        *)
(***************************************************************************)
LEMMA CapacityUntouched ==
    ASSUME NoIdleCapacity, waiters' = waiters, active' = active, Woken' = Woken
    PROVE  NoIdleCapacity'
BY DEF NoIdleCapacity

\* release() gives one permit back and wakes one waiter for it.
LEMMA ReleaseCapacity ==
    ASSUME TypeOK, QueueIsExact, NoIdleCapacity,
           NEW c \in Caller, phase[c] = "calling", Release(c)
    PROVE  NoIdleCapacity'
<1>1. CASE waiters = <<>>
  BY <1>1, ReleaseFrees DEF NoIdleCapacity
<1>2. CASE waiters # <<>>
  <2>1. PICK h \in Caller :
           /\ h # c /\ phase[h] = "waiting" /\ active' = active - 1
           /\ phase' = [phase EXCEPT ![c] = "idle", ![h] = "woken"]
    BY <1>2, ReleaseWakes, Zenon
  <2>2. h \notin Woken /\ Woken' = Woken \cup {h}
    BY <2>1 DEF Woken, TypeOK
  <2>3. Cardinality(Woken') = Cardinality(Woken) + 1
    BY <2>2, CallersFinite, FS_AddElement
  <2> QED
    BY <1>2, <2>1, <2>3, CallersFinite, LimitAssumption DEF NoIdleCapacity, TypeOK
<1> QED
  BY <1>1, <1>2

LEMMA CapacityStep ==
    TypeOK /\ QueueIsExact /\ NoIdleCapacity /\ [Next]_vars => NoIdleCapacity'
<1> SUFFICES ASSUME TypeOK, QueueIsExact, NoIdleCapacity, [Next]_vars
             PROVE  NoIdleCapacity'
  OBVIOUS
<1>1. ASSUME NEW c \in Caller, Reject(c) PROVE NoIdleCapacity'
  BY <1>1, CapacityUntouched DEF Reject, vars, Woken
<1>2. ASSUME NEW c \in Caller, Admit(c) PROVE NoIdleCapacity'
  <2>1. Woken' = Woken
    BY <1>2 DEF Admit, Woken, TypeOK
  <2> QED
    BY <1>2, <2>1, CallersFinite, LimitAssumption DEF Admit, NoIdleCapacity, TypeOK
<1>3. ASSUME NEW c \in Caller, Queue(c) PROVE NoIdleCapacity'
  <2>1. Woken' = Woken
    BY <1>3 DEF Queue, Woken, TypeOK
  <2> QED
    BY <1>3, <2>1, CallersFinite, LimitAssumption DEF Queue, NoIdleCapacity, TypeOK
<1>4. ASSUME NEW c \in Caller, Resume(c) PROVE NoIdleCapacity'
  <2>1. c \in Woken /\ Woken' = Woken \ {c}
    BY <1>4 DEF Resume, Woken, TypeOK
  <2>2. Cardinality(Woken') = Cardinality(Woken) - 1
    BY <2>1, CallersFinite, FS_RemoveElement
  <2> QED
    BY <1>4, <2>2, CallersFinite, LimitAssumption DEF Resume, NoIdleCapacity, TypeOK
<1>5. ASSUME NEW c \in Caller, Pass(c) PROVE NoIdleCapacity'
  <2>1. Woken' = Woken
    BY <1>5 DEF Pass, Woken, TypeOK
  <2> QED
    BY <1>5, <2>1, CapacityUntouched DEF Pass
<1>6. ASSUME NEW c \in Caller, SleepForWindow(c) PROVE NoIdleCapacity'
  BY <1>6, CapacityUntouched DEF SleepForWindow, Woken
<1>7. ASSUME NEW c \in Caller, Succeed(c) PROVE NoIdleCapacity'
  BY <1>7, ReleaseCapacity DEF Succeed
<1>8. ASSUME NEW c \in Caller, Retry(c) PROVE NoIdleCapacity'
  <2>1. Woken' = Woken
    BY <1>8 DEF Retry, Woken, TypeOK
  <2> QED
    BY <1>8, <2>1, CapacityUntouched DEF Retry
<1>9. ASSUME NEW c \in Caller, FailRetryable(c) PROVE NoIdleCapacity'
  BY <1>9, ReleaseCapacity DEF FailRetryable
<1>10. ASSUME NEW c \in Caller, FailFatal(c) PROVE NoIdleCapacity'
  BY <1>10, ReleaseCapacity DEF FailFatal
<1>11. ASSUME Tick PROVE NoIdleCapacity'
  BY <1>11, CapacityUntouched DEF Tick, Woken
<1>12. CASE UNCHANGED vars
  BY <1>12, CapacityUntouched DEF vars, Woken
<1> QED
  BY <1>1, <1>2, <1>3, <1>4, <1>5, <1>6, <1>7, <1>8, <1>9, <1>10, <1>11, <1>12
  DEF Next, Step

\* While a call waits, the permits in use and the wake-ups under way fill the
\* limit: the semaphore never leaves capacity idle in front of a waiter.
THEOREM CapacityCorrect == Spec => []NoIdleCapacity
<1>1. Init => NoIdleCapacity
  BY DEF Init, NoIdleCapacity
<1> QED
  BY <1>1, CapacityStep, TypeCorrect, QueueCorrect, PTL DEF Spec
=============================================================================
