------------------------- MODULE AccountPurge_proofs -------------------------
(***************************************************************************)
(* Proofs about AccountPurge, for every number of keys and calls and every *)
(* list of steps.                                                          *)
(*                                                                         *)
(* PurgeErases is not inductive: that the last step is behind has to mean  *)
(* that every step is on record, and a step on record has to stay done     *)
(* while nobody holds the lease.  So the invariant says what the holder of *)
(* a lease knows (HolderInv), and what the fence keeps for it between two  *)
(* attempts (OpInv).                                                       *)
(***************************************************************************)
EXTENDS AccountPurge, TLAPS

\* TypeOK without what it says of owners.
Typed ==
    /\ op \in [Key -> Operation]
    /\ call \in [Call -> Running]
    /\ rows \subseteq Domain
    /\ audits \in BOOLEAN
    /\ writes \in 0..MaxWrites

\* A call that has something to do has an operation to do it for, and one that is
\* about to put a step on record has a step.
KnowsKey(c) ==
    /\ ~At(c, "idle") => KeyOf(c) \in Key
    /\ At(c, "persist") => call[c].at \in 1..Len(Order)
KeyKnown == \A c \in Call : KnowsKey(c)

\* The holder of the lease works behind the fence, knows no step that is not on
\* record, has every earlier step on record, and puts on record what is done.
HolderInv(c) ==
    /\ call[c].pc \in {"lease", "load"} => call[c].at = 1
    /\ call[c].pc \in {"step", "persist"} /\ Owns(c) => op[KeyOf(c)].fenced
    /\ call[c].pc \in {"verify", "fence", "step", "persist"} /\ Owns(c) =>
        /\ call[c].done \subseteq op[KeyOf(c)].done
        /\ \A i \in 1..Len(Order) : i < call[c].at => Order[i] \in op[KeyOf(c)].done
    /\ At(c, "persist") /\ Owns(c) => Current(c) \notin rows

\* What is on record is behind the fence and stays done; completion means all of it.
OpInv(k) ==
    /\ op[k].status # "running" => op[k].owner = None
    /\ op[k].status = "absent" => op[k] = NoOperation
    /\ op[k].done # {} => op[k].fenced
    /\ op[k].status # "rejected" => op[k].done \cap rows = {}
    /\ op[k].status = "completed" => Domain \subseteq op[k].done

IInv ==
    /\ Typed
    /\ KeyKnown
    /\ \A c \in Call : HolderInv(c)
    /\ \A k \in Key : OpInv(k)

\* What no step takes from an operation, and from where the host's refusal comes.
Grows(k) ==
    /\ op[k].done \subseteq op'[k].done
    /\ op[k].fenced => op'[k].fenced
    /\ op'[k].status = "rejected" => op[k].status \in {"running", "rejected"}
-----------------------------------------------------------------------------
(***************************************************************************)
(* Types                                                                   *)
(***************************************************************************)
LEMMA EntryType ==
    ASSUME NEW S, NEW s \in Seq(S), NEW i \in 1..Len(s)
    PROVE  s[i] \in S
OBVIOUS

LEMMA OrderType ==
    ASSUME NEW i \in 1..Len(Order)
    PROVE  Order[i] \in StepName
BY OrderAssumption, EntryType

LEMMA LenType == Len(Order) \in Nat
BY OrderAssumption

LEMMA InitTyped == Init => TypeOK
<1> SUFFICES ASSUME Init PROVE TypeOK
  OBVIOUS
<1> USE LenType DEF Init
<1>1. NoOperation \in Operation
  BY DEF NoOperation, Operation, OpStatus
<1>2. IdleCall \in Running
  BY DEF IdleCall, Running, CallPc
<1>3. op \in [Key -> Operation] /\ call \in [Call -> Running]
  BY <1>1, <1>2
<1>4. \A k \in Key : op[k].owner = None
  BY DEF NoOperation
<1>5. rows \subseteq Domain /\ audits \in BOOLEAN
  OBVIOUS
<1>6. writes \in 0..MaxWrites
  BY BoundsAssumption
<1> QED BY <1>3, <1>4, <1>5, <1>6 DEF TypeOK

\* The operation that is written.
LEMMA OpTyped ==
    ASSUME Typed, NEW k \in Key, NEW r \in Operation, Update(k, r)
    PROVE  /\ op' \in [Key -> Operation]
           /\ op'[k] = r
           /\ \A j \in Key : j # k => op'[j] = op[j]
BY DEF Typed, Update

LEMMA CallTyped ==
    ASSUME Typed, NEW c \in Call, NEW r \in Running, call' = [call EXCEPT ![c] = r]
    PROVE  call' \in [Call -> Running]
BY DEF Typed

LEMMA GotoTyped ==
    ASSUME Typed, NEW c \in Call, NEW pc \in CallPc, Goto(c, pc)
    PROVE  call' \in [Call -> Running]
<1>1. call[c] \in Running
  BY DEF Typed
<1>2. [call[c] EXCEPT !.pc = pc] \in Running
  BY <1>1 DEF Running
<1> QED BY <1>2 DEF Typed, Goto

LEMMA LeaveTyped ==
    ASSUME Typed, NEW c \in Call, Leave(c)
    PROVE  call' \in [Call -> Running]
BY LenType DEF Typed, Leave, Running, IdleCall, CallPc

LEMMA BeginTyped ==
    ASSUME Typed, NEW c \in Call, NEW k \in Key, Begin(c, k)
    PROVE  Typed'
<1> DEFINE began == [IdleCall EXCEPT !.pc = "lease", !.key = k]
<1>0. began \in Running
  <2>1. IdleCall \in Running
    BY LenType DEF Running, IdleCall, CallPc
  <2> QED BY <2>1 DEF Running, CallPc
<1>1. call' \in [Call -> Running]
  <2>1. call' = [call EXCEPT ![c] = began]
    BY DEF Begin
  <2> HIDE DEF began
  <2> QED BY <1>0, <2>1, CallTyped
<1>2. op' \in [Key -> Operation]
  <2>1. [NoOperation EXCEPT !.status = "pending"] \in Operation /\ op[k] \in Operation
    BY DEF Typed, Operation, NoOperation, OpStatus
  <2> QED BY <2>1 DEF Typed, Begin, Update
<1> QED BY <1>1, <1>2 DEF Begin, Typed

LEMMA AcquireTyped ==
    ASSUME Typed, KeyKnown, NEW c \in Call, AcquireLease(c)
    PROVE  Typed'
<1>1. KeyOf(c) \in Key
  BY DEF AcquireLease, KeyKnown, KnowsKey, At
<1>2. call' \in [Call -> Running]
  BY GotoTyped, LeaveTyped DEF AcquireLease, CallPc
<1> DEFINE taken == [op[KeyOf(c)] EXCEPT !.status = "running", !.owner = c, !.lapsed = FALSE]
<1>3. op' \in [Key -> Operation]
  <2>1. taken \in Operation
    BY <1>1 DEF Typed, Operation, OpStatus
  <2>2. Update(KeyOf(c), taken) \/ UNCHANGED op
    BY Zenon DEF AcquireLease
  <2> HIDE DEF taken
  <2> QED BY <1>1, <2>1, <2>2 DEF Typed, Update
<1> QED BY <1>2, <1>3 DEF AcquireLease, Typed

LEMMA LoadTyped ==
    ASSUME Typed, KeyKnown, NEW c \in Call, Load(c)
    PROVE  Typed'
<1>1. KeyOf(c) \in Key /\ op[KeyOf(c)].done \subseteq StepName
  BY DEF Load, KeyKnown, KnowsKey, At, Typed, Operation
<1>2. call' \in [Call -> Running]
  BY <1>1 DEF Typed, Load, Running, CallPc
<1> QED BY <1>2 DEF Load, Typed

LEMMA VerifyTyped ==
    ASSUME Typed, NEW c \in Call, Verify(c)
    PROVE  Typed'
<1>1. call' \in [Call -> Running]
  BY GotoTyped DEF Verify, CallPc
<1> QED BY <1>1 DEF Verify, Typed

LEMMA PutFenceTyped ==
    ASSUME Typed, KeyKnown, NEW c \in Call, PutFence(c)
    PROVE  Typed'
<1>1. KeyOf(c) \in Key
  BY DEF PutFence, KeyKnown, KnowsKey, At
<1>2. call' \in [Call -> Running]
  BY GotoTyped, LeaveTyped DEF PutFence, CallPc
<1>3. op' \in [Key -> Operation]
  BY <1>1 DEF Typed, PutFence, Update, Operation
<1> QED BY <1>2, <1>3 DEF PutFence, Typed

LEMMA SkipTyped ==
    ASSUME Typed, NEW c \in Call, Skip(c)
    PROVE  Typed'
<1>1. call[c].at \in 1..(Len(Order) + 1) /\ call[c] \in Running
  BY DEF Typed, Running
<1>2. call[c].at + 1 \in 1..(Len(Order) + 1)
  BY <1>1, LenType DEF Skip
<1>3. call' \in [Call -> Running]
  BY <1>2 DEF Typed, Skip, Running
<1> QED BY <1>3 DEF Skip, Typed

LEMMA DeleteTyped ==
    ASSUME Typed, NEW c \in Call, Delete(c)
    PROVE  Typed'
<1>1. call' \in [Call -> Running]
  BY GotoTyped DEF Delete, CallPc
<1>2. rows' \subseteq Domain /\ audits' \in BOOLEAN
  BY DEF Delete, Typed
<1> QED BY <1>1, <1>2 DEF Delete, Typed

LEMMA CallAdapterTyped ==
    ASSUME Typed, NEW c \in Call, CallAdapter(c)
    PROVE  Typed'
<1>1. call' \in [Call -> Running]
  BY GotoTyped DEF CallAdapter, CallPc
<1> QED BY <1>1 DEF CallAdapter, Typed

LEMMA WriteAuditTyped ==
    ASSUME Typed, NEW c \in Call, WriteAudit(c)
    PROVE  Typed'
<1>1. call' \in [Call -> Running]
  BY GotoTyped DEF WriteAudit, CallPc
<1>2. audits' \in BOOLEAN
  BY DEF WriteAudit, Typed
<1> QED BY <1>1, <1>2 DEF WriteAudit, Typed

LEMMA PersistTyped ==
    ASSUME Typed, KeyKnown, NEW c \in Call, PersistStep(c)
    PROVE  Typed'
<1>1. KeyOf(c) \in Key /\ call[c].at \in 1..Len(Order) /\ Current(c) \in StepName
  BY OrderType DEF PersistStep, KeyKnown, KnowsKey, At, Current
<1>2. CASE Leave(c) /\ UNCHANGED op
  BY <1>2, LeaveTyped DEF PersistStep, Typed
<1>3. CASE /\ Update(KeyOf(c), [op[KeyOf(c)] EXCEPT !.done = @ \cup {Current(c)}])
           /\ call' = [call EXCEPT ![c].pc = "step", ![c].at = @ + 1,
                                   ![c].done = @ \cup {Current(c)}]
  <2>1. call[c].at + 1 \in 1..(Len(Order) + 1)
    BY <1>1, LenType
  <2>2. call' \in [Call -> Running]
    BY <1>1, <1>3, <2>1 DEF Typed, Running, CallPc
  <2>3. op' \in [Key -> Operation]
    BY <1>1, <1>3 DEF Typed, Update, Operation
  <2> QED BY <2>2, <2>3 DEF PersistStep, Typed
<1> QED BY <1>2, <1>3 DEF PersistStep

LEMMA EndedTyped ==
    ASSUME Typed, NEW k \in Key, NEW s \in OpStatus, Update(k, Ended(op[k], s))
    PROVE  op' \in [Key -> Operation]
BY DEF Typed, Update, Ended, Operation

LEMMA CompleteTyped ==
    ASSUME Typed, KeyKnown, NEW c \in Call, Complete(c)
    PROVE  Typed'
<1>1. KeyOf(c) \in Key
  BY DEF Complete, KeyKnown, KnowsKey, At
<1>2. op' \in [Key -> Operation]
  BY <1>1, EndedTyped DEF Complete, Typed, OpStatus
<1> QED BY <1>2, LeaveTyped DEF Complete, Typed

LEMMA ThrowTyped ==
    ASSUME Typed, NEW c \in Call, Throw(c)
    PROVE  Typed'
<1>1. call' \in [Call -> Running]
  BY GotoTyped DEF Throw, CallPc
<1> QED BY <1>1 DEF Throw, Typed

LEMMA AbandonTyped ==
    ASSUME Typed, KeyKnown, NEW c \in Call, Abandon(c)
    PROVE  Typed'
<1>1. KeyOf(c) \in Key
  BY DEF Abandon, KeyKnown, KnowsKey, At
<1>2. op' \in [Key -> Operation]
  BY <1>1, EndedTyped DEF Abandon, Typed, OpStatus
<1> QED BY <1>2, LeaveTyped DEF Abandon, Typed

LEMMA WorldTyped ==
    ASSUME Typed,
           \/ \E k \in Key : Lapse(k)
           \/ \E c \in Call : Die(c)
           \/ \E d \in Domain : Write(d)
    PROVE  Typed'
<1>1. ASSUME NEW k \in Key, Lapse(k) PROVE Typed'
  BY <1>1 DEF Lapse, Update, Typed, Operation
<1>2. ASSUME NEW c \in Call, Die(c) PROVE Typed'
  BY <1>2, LeaveTyped DEF Die, Typed
<1>3. ASSUME NEW d \in Domain, Write(d) PROVE Typed'
  BY <1>3, BoundsAssumption DEF Write, Typed
<1> QED BY <1>1, <1>2, <1>3
-----------------------------------------------------------------------------
(***************************************************************************)
(* Shapes of a step                                                        *)
(***************************************************************************)
\* A step of one call, or of none, leaves the others' knowledge true.
LEMMA OthersKept ==
    ASSUME IInv, Typed', NEW c,
           \A d \in Call : d # c => call'[d] = call[d],
           \A k \in Key : Grows(k) /\ op'[k].owner \in {c, None, op[k].owner},
           rows' \subseteq rows,
           NEW d \in Call, d # c
    PROVE  KnowsKey(d)' /\ HolderInv(d)'
<1>1. call'[d] = call[d] /\ KnowsKey(d) /\ HolderInv(d) /\ d # None
  BY NameAssumption DEF IInv, KeyKnown
<1>2. KnowsKey(d)'
  BY <1>1 DEF KnowsKey, At, KeyOf
<1>3. ASSUME ~At(d, "idle")
      PROVE  /\ KeyOf(d) \in Key /\ KeyOf(d)' = KeyOf(d)
             /\ Owns(d)' => Owns(d)
             /\ Grows(KeyOf(d))
  BY <1>1, <1>3 DEF KnowsKey, KeyOf, Owns
<1>4. call[d].pc \in {"lease", "load"} => call'[d].at = 1
  BY <1>1 DEF HolderInv
<1>5. CASE At(d, "idle")
  BY <1>1, <1>2, <1>5 DEF HolderInv, At
<1>6. CASE ~At(d, "idle")
  <2>1. /\ Owns(d)' => Owns(d)
        /\ op[KeyOf(d)].done \subseteq op'[KeyOf(d)'].done
        /\ op[KeyOf(d)].fenced => op'[KeyOf(d)'].fenced
        /\ Current(d)' = Current(d)
    BY <1>1, <1>3, <1>6 DEF Grows, Current
  <2> QED BY <2>1, <1>1, <1>2, <1>4 DEF HolderInv, At
<1> QED BY <1>5, <1>6

\* Operations that are not written stay right while no row comes back.
LEMMA OpKept ==
    ASSUME NEW k \in Key, OpInv(k), op'[k] = op[k], rows' \subseteq rows
    PROVE  OpInv(k)' /\ Grows(k)
BY DEF OpInv, Grows

\* A step of a call that writes no operation.
LEMMA CallStep ==
    ASSUME IInv, Typed', NEW c \in Call,
           \A d \in Call : d # c => call'[d] = call[d],
           op' = op, rows' \subseteq rows,
           KnowsKey(c)', HolderInv(c)'
    PROVE  IInv' /\ \A k \in Key : Grows(k)
<1>1. \A k \in Key : OpInv(k)' /\ Grows(k)
  BY OpKept DEF IInv
<1>2. \A d \in Call : d # c => KnowsKey(d)' /\ HolderInv(d)'
  BY <1>1, OthersKept
<1> QED BY <1>1, <1>2 DEF IInv, KeyKnown

\* A step that writes one operation.
LEMMA OpStep ==
    ASSUME IInv, Typed', NEW c,
           \A d \in Call : d # c => call'[d] = call[d],
           NEW k \in Key, Grows(k), op'[k].owner \in {c, None, op[k].owner}, OpInv(k)',
           \A j \in Key : j # k => op'[j] = op[j],
           rows' = rows,
           c \in Call => KnowsKey(c)' /\ HolderInv(c)'
    PROVE  IInv' /\ \A j \in Key : Grows(j)
<1>1. \A j \in Key : OpInv(j)' /\ Grows(j) /\ op'[j].owner \in {c, None, op[j].owner}
  <2>1. ASSUME NEW j \in Key, j # k
        PROVE  OpInv(j)' /\ Grows(j) /\ op'[j].owner \in {c, None, op[j].owner}
    <3>1. op'[j] = op[j] /\ OpInv(j)
      BY <2>1 DEF IInv
    <3> QED BY <3>1, OpKept
  <2> QED BY <2>1
<1>2. \A d \in Call : d # c => KnowsKey(d)' /\ HolderInv(d)'
  BY <1>1, OthersKept
<1> QED BY <1>1, <1>2 DEF IInv, KeyKnown

\* A call that leaves knows nothing any more.
LEMMA LeftCall ==
    ASSUME IInv, NEW c \in Call, Leave(c)
    PROVE  /\ \A d \in Call : d # c => call'[d] = call[d]
           /\ KnowsKey(c)' /\ HolderInv(c)'
<1>1. call'[c] = IdleCall /\ \A d \in Call : d # c => call'[d] = call[d]
  BY DEF IInv, Typed, Leave
<1> QED BY <1>1 DEF KnowsKey, HolderInv, At, IdleCall

\* One that goes on to fail or to be refused has nothing to know either.
LEMMA FailingCall ==
    ASSUME IInv, NEW c \in Call, ~At(c, "idle"), Goto(c, "fail") \/ Goto(c, "reject")
    PROVE  /\ \A d \in Call : d # c => call'[d] = call[d]
           /\ KnowsKey(c)' /\ HolderInv(c)'
<1>1. call'[c].pc \in {"fail", "reject"} /\ call'[c].key = call[c].key
  BY DEF IInv, Typed, Goto, Running
<1>2. \A d \in Call : d # c => call'[d] = call[d]
  BY DEF IInv, Typed, Goto
<1>3. KeyOf(c) \in Key
  BY DEF IInv, KeyKnown, KnowsKey
<1> QED BY <1>1, <1>2, <1>3 DEF KnowsKey, HolderInv, At, KeyOf

\* What a call that has its step behind it knows.
LEMMA PersistingCall ==
    ASSUME IInv, NEW c \in Call, AtStep(c), Goto(c, "persist"), op' = op,
           Current(c) \notin rows'
    PROVE  /\ \A d \in Call : d # c => call'[d] = call[d]
           /\ KnowsKey(c)' /\ HolderInv(c)'
<1>1. /\ call[c] \in Running
      /\ call'[c] = [call[c] EXCEPT !.pc = "persist"]
      /\ \A d \in Call : d # c => call'[d] = call[d]
  BY DEF IInv, Typed, Goto
<1>2. /\ call'[c].pc = "persist" /\ call'[c].key = call[c].key
      /\ call'[c].at = call[c].at /\ call'[c].done = call[c].done
  BY <1>1 DEF Running
<1>3. KeyOf(c) \in Key /\ HolderInv(c)
  BY DEF IInv, KeyKnown, KnowsKey, AtStep, At
<1>4. call[c].at \in 1..Len(Order)
  BY <1>1, LenType DEF AtStep, Running
<1>5. KnowsKey(c)'
  BY <1>2, <1>3, <1>4 DEF KnowsKey, At, KeyOf
<1>6. Current(c)' = Current(c)
  BY <1>2 DEF Current
<1>7. HolderInv(c)'
  BY <1>2, <1>3, <1>6 DEF HolderInv, At, KeyOf, Owns, AtStep
<1> QED BY <1>1, <1>5, <1>7
-----------------------------------------------------------------------------
(***************************************************************************)
(* The steps                                                               *)
(***************************************************************************)
Kept == IInv' /\ \A k \in Key : Grows(k)

\* No step both deletes guarded rows and calls an adapter.
LEMMA OnlyDeletingErases ==
    ASSUME rows \subseteq Domain, NEW d \in Calling \cup {"write_deletion_audit"}
    PROVE  d \notin rows
BY DEF Domain, Deleting, Calling

LEMMA BeginKept == ASSUME IInv, NEW c \in Call, NEW k \in Key, Begin(c, k) PROVE Kept
<1> DEFINE r == IF op[k].status = "absent" THEN [NoOperation EXCEPT !.status = "pending"] ELSE op[k]
<1> DEFINE began == [IdleCall EXCEPT !.pc = "lease", !.key = k]
<1>1. Typed /\ Typed' /\ OpInv(k)
  BY BeginTyped DEF IInv
<1>2. Update(k, r) /\ call' = [call EXCEPT ![c] = began] /\ rows' = rows
  BY DEF Begin
<1>3. /\ op[k] \in Operation
      /\ \/ r = op[k]
         \/ op[k] = NoOperation /\ r = [op[k] EXCEPT !.status = "pending"]
  BY <1>1 DEF Typed, OpInv
<1> HIDE DEF r
<1>a. /\ NoOperation.status = "absent" /\ NoOperation.owner = None
      /\ NoOperation.done = {} /\ ~NoOperation.fenced
  BY DEF NoOperation
<1>4. /\ r \in Operation
      /\ \/ r = op[k]
         \/ /\ op[k].status = "absent" /\ op[k].owner = None /\ op[k].done = {} /\ ~op[k].fenced
            /\ r.status = "pending" /\ r.owner = None /\ r.done = {} /\ ~r.fenced
  BY <1>3, <1>a DEF Operation, OpStatus
<1>5. began.pc = "lease" /\ began.key = k /\ began.at = 1
  BY DEF IdleCall
<1> HIDE DEF began
<1>6. op'[k] = r /\ \A j \in Key : j # k => op'[j] = op[j]
  BY <1>1, <1>2, <1>4, OpTyped
<1>7. call'[c] = began /\ \A d \in Call : d # c => call'[d] = call[d]
  BY <1>1, <1>2 DEF Typed
<1>8. OpInv(k)' /\ Grows(k) /\ op'[k].owner \in {c, None, op[k].owner}
  BY <1>1, <1>2, <1>4, <1>6 DEF OpInv, Grows
<1>9. KnowsKey(c)' /\ HolderInv(c)'
  BY <1>5, <1>7 DEF KnowsKey, HolderInv, At, KeyOf
<1> QED BY <1>1, <1>2, <1>6, <1>7, <1>8, <1>9, OpStep DEF Kept

LEMMA AcquireKept == ASSUME IInv, NEW c \in Call, AcquireLease(c) PROVE Kept
<1>1. Typed /\ Typed' /\ KeyKnown /\ rows' = rows /\ At(c, "lease")
  BY AcquireTyped DEF IInv, AcquireLease
<1>2. KeyOf(c) \in Key /\ call[c].at = 1
  BY <1>1 DEF IInv, KeyKnown, KnowsKey, HolderInv, At
<1>k. PICK k \in Key : k = KeyOf(c)
  BY <1>2
<1> DEFINE r == [op[k] EXCEPT !.status = "running", !.owner = c, !.lapsed = FALSE]
<1>3. CASE Leave(c) /\ UNCHANGED op
  BY <1>1, <1>3, LeftCall, CallStep DEF Kept
<1>4. CASE Acquirable(op[k]) /\ Update(k, r) /\ Goto(c, "load")
  <2>1. /\ r \in Operation /\ op[k] \in Operation /\ OpInv(k)
        /\ r.status = "running" /\ r.owner = c /\ r.done = op[k].done /\ r.fenced = op[k].fenced
    BY <1>k, <1>1, <1>2 DEF IInv, Typed, Operation, OpStatus
  <2>2. op[k].status \in {"pending", "retryable", "running"}
    BY <1>k, <1>4 DEF Acquirable
  <2> HIDE DEF r
  <2>3. op'[k] = r /\ \A j \in Key : j # k => op'[j] = op[j]
    BY <1>k, <1>1, <1>2, <1>4, <2>1, OpTyped
  <2>4. OpInv(k)' /\ Grows(k) /\ op'[k].owner \in {c, None, op[k].owner}
    BY <1>k, <1>1, <2>1, <2>2, <2>3 DEF OpInv, Grows
  <2>5. /\ call'[c].pc = "load" /\ call'[c].key = call[c].key /\ call'[c].at = 1
        /\ \A d \in Call : d # c => call'[d] = call[d]
    BY <1>k, <1>1, <1>2, <1>4 DEF Typed, Goto, Running
  <2>6. KnowsKey(c)' /\ HolderInv(c)'
    BY <1>k, <1>2, <2>5 DEF KnowsKey, HolderInv, At, KeyOf
  <2> QED BY <1>1, <1>k, <2>3, <2>4, <2>5, <2>6, OpStep DEF Kept
<1> QED BY <1>k, <1>3, <1>4, Zenon DEF AcquireLease

LEMMA LoadKept == ASSUME IInv, NEW c \in Call, Load(c) PROVE Kept
<1>1. Typed /\ Typed' /\ KeyKnown /\ rows' = rows /\ op' = op /\ At(c, "load")
  BY LoadTyped DEF IInv, Load
<1>2. KeyOf(c) \in Key /\ call[c].at = 1
  BY <1>1 DEF IInv, KeyKnown, KnowsKey, HolderInv, At
<1>3. /\ call'[c].pc = "verify" /\ call'[c].key = call[c].key /\ call'[c].at = 1
      /\ call'[c].done = op[KeyOf(c)].done
      /\ \A d \in Call : d # c => call'[d] = call[d]
  BY <1>1, <1>2 DEF Typed, Load, Running
<1>4. KnowsKey(c)' /\ HolderInv(c)'
  BY <1>1, <1>2, <1>3 DEF KnowsKey, HolderInv, At, KeyOf
<1> QED BY <1>1, <1>3, <1>4, CallStep DEF Kept

LEMMA VerifyKept == ASSUME IInv, NEW c \in Call, Verify(c) PROVE Kept
<1>1. Typed /\ Typed' /\ KeyKnown /\ rows' = rows /\ op' = op /\ At(c, "verify")
  BY VerifyTyped DEF IInv, Verify
<1>2. CASE Goto(c, "fail") \/ Goto(c, "reject")
  BY <1>1, <1>2, FailingCall, CallStep DEF Kept, At
<1>3. CASE Goto(c, "fence")
  <2>1. /\ call'[c].pc = "fence" /\ call'[c].key = call[c].key /\ call'[c].at = call[c].at
        /\ call'[c].done = call[c].done
        /\ \A d \in Call : d # c => call'[d] = call[d]
    BY <1>1, <1>3 DEF Typed, Goto, Running
  <2>2. KeyOf(c) \in Key /\ HolderInv(c)
    BY <1>1 DEF IInv, KeyKnown, KnowsKey, At
  <2>3. KnowsKey(c)' /\ HolderInv(c)'
    BY <1>1, <2>1, <2>2 DEF KnowsKey, HolderInv, At, KeyOf, Owns
  <2> QED BY <1>1, <2>1, <2>3, CallStep DEF Kept
<1> QED BY <1>2, <1>3 DEF Verify

LEMMA PutFenceKept == ASSUME IInv, NEW c \in Call, PutFence(c) PROVE Kept
<1>1. Typed /\ Typed' /\ KeyKnown /\ rows' = rows /\ At(c, "fence")
  BY PutFenceTyped DEF IInv, PutFence
<1>2. KeyOf(c) \in Key /\ HolderInv(c)
  BY <1>1 DEF IInv, KeyKnown, KnowsKey, At
<1>k. PICK k \in Key : k = KeyOf(c)
  BY <1>2
<1> DEFINE r == [op[k] EXCEPT !.fenced = TRUE]
<1>3. CASE Leave(c) /\ UNCHANGED op
  BY <1>1, <1>3, LeftCall, CallStep DEF Kept
<1>4. CASE Owns(c) /\ Update(k, r) /\ Goto(c, "step")
  <2>1. /\ r \in Operation /\ op[k] \in Operation /\ OpInv(k)
        /\ r.status = op[k].status /\ r.owner = op[k].owner /\ r.done = op[k].done /\ r.fenced
    BY <1>k, <1>1, <1>2 DEF IInv, Typed, Operation
  <2>2. op[k].status = "running"
    BY <1>k, <1>4, <2>1, NameAssumption DEF OpInv, Owns
  <2> HIDE DEF r
  <2>3. op'[k] = r /\ \A j \in Key : j # k => op'[j] = op[j]
    BY <1>k, <1>1, <1>2, <1>4, <2>1, OpTyped
  <2>4. OpInv(k)' /\ Grows(k) /\ op'[k].owner \in {c, None, op[k].owner}
    BY <1>k, <1>1, <2>1, <2>2, <2>3 DEF OpInv, Grows
  <2>5. /\ call'[c].pc = "step" /\ call'[c].key = call[c].key /\ call'[c].at = call[c].at
        /\ call'[c].done = call[c].done
        /\ \A d \in Call : d # c => call'[d] = call[d]
    BY <1>k, <1>1, <1>4 DEF Typed, Goto, Running
  <2>6. KnowsKey(c)' /\ HolderInv(c)'
    BY <1>k, <1>1, <1>2, <1>4, <2>1, <2>3, <2>5 DEF KnowsKey, HolderInv, At, KeyOf, Owns
  <2> QED BY <1>1, <1>k, <2>3, <2>4, <2>5, <2>6, OpStep DEF Kept
<1> QED BY <1>k, <1>3, <1>4, Zenon DEF PutFence

LEMMA SkipKept == ASSUME IInv, NEW c \in Call, Skip(c) PROVE Kept
<1>1. Typed /\ Typed' /\ KeyKnown /\ rows' = rows /\ op' = op /\ At(c, "step")
  BY SkipTyped DEF IInv, Skip
<1>2. KeyOf(c) \in Key /\ HolderInv(c) /\ call[c].at \in 1..Len(Order)
  BY <1>1, LenType DEF IInv, KeyKnown, KnowsKey, At, Typed, Running, Skip
<1>3. /\ call'[c].pc = "step" /\ call'[c].key = call[c].key /\ call'[c].at = call[c].at + 1
      /\ call'[c].done = call[c].done
      /\ \A d \in Call : d # c => call'[d] = call[d]
  BY <1>1 DEF Typed, Skip, Running, At
<1>4. Order[call[c].at] \in call[c].done
  BY DEF Skip, Current
<1>5. ASSUME Owns(c), NEW i \in 1..Len(Order), i < call[c].at + 1
      PROVE  Order[i] \in op[KeyOf(c)].done
  BY <1>1, <1>2, <1>4, <1>5, LenType DEF HolderInv, At
<1>6. KnowsKey(c)' /\ HolderInv(c)'
  BY <1>1, <1>2, <1>3, <1>5 DEF KnowsKey, HolderInv, At, KeyOf, Owns
<1> QED BY <1>1, <1>3, <1>6, CallStep DEF Kept

LEMMA DeleteKept == ASSUME IInv, NEW c \in Call, Delete(c) PROVE Kept
<1>1. Typed' /\ rows' \subseteq rows /\ op' = op /\ AtStep(c) /\ ~At(c, "idle")
  BY DeleteTyped DEF IInv, Delete, AtStep, At
<1>2. CASE Goto(c, "fail")
  BY <1>1, <1>2, FailingCall, CallStep DEF Kept
<1>3. CASE Goto(c, "persist") /\ rows' = rows \ {Current(c)}
  BY <1>1, <1>3, PersistingCall, CallStep DEF Kept
<1> QED BY <1>2, <1>3, Zenon DEF Delete

LEMMA CallAdapterKept == ASSUME IInv, NEW c \in Call, CallAdapter(c) PROVE Kept
<1>1. Typed' /\ rows' = rows /\ op' = op /\ AtStep(c) /\ Goto(c, "persist")
  BY CallAdapterTyped DEF IInv, CallAdapter
<1>2. Current(c) \notin rows'
  BY <1>1, OnlyDeletingErases DEF IInv, Typed, CallAdapter
<1> QED BY <1>1, <1>2, PersistingCall, CallStep DEF Kept

LEMMA WriteAuditKept == ASSUME IInv, NEW c \in Call, WriteAudit(c) PROVE Kept
<1>1. Typed' /\ rows' = rows /\ op' = op /\ AtStep(c) /\ ~At(c, "idle")
  BY WriteAuditTyped DEF IInv, WriteAudit, AtStep, At
<1>2. Current(c) \notin rows'
  BY <1>1, OnlyDeletingErases DEF IInv, Typed, WriteAudit
<1>3. Goto(c, "fail") \/ Goto(c, "persist")
  BY Zenon DEF WriteAudit
<1> QED BY <1>1, <1>2, <1>3, FailingCall, PersistingCall, CallStep DEF Kept

LEMMA PersistKept == ASSUME IInv, NEW c \in Call, PersistStep(c) PROVE Kept
<1>1. Typed /\ Typed' /\ KeyKnown /\ rows' = rows /\ At(c, "persist")
  BY PersistTyped DEF IInv, PersistStep
<1>2. KeyOf(c) \in Key /\ HolderInv(c) /\ call[c].at \in 1..Len(Order)
  BY <1>1 DEF IInv, KeyKnown, KnowsKey, At
<1>k. PICK k \in Key : k = KeyOf(c)
  BY <1>2
<1> DEFINE r == [op[k] EXCEPT !.done = @ \cup {Current(c)}]
<1>3. CASE Leave(c) /\ UNCHANGED op
  BY <1>1, <1>3, LeftCall, CallStep DEF Kept
<1>4. CASE /\ Owns(c) /\ op[k].status = "running" /\ Update(k, r)
           /\ call' = [call EXCEPT ![c].pc = "step", ![c].at = @ + 1,
                                   ![c].done = @ \cup {Current(c)}]
  <2>1. /\ r \in Operation /\ op[k] \in Operation /\ OpInv(k)
        /\ r.status = op[k].status /\ r.owner = op[k].owner
        /\ r.done = op[k].done \cup {Current(c)} /\ r.fenced = op[k].fenced
    BY <1>k, <1>1, <1>2, OrderType DEF IInv, Typed, Operation, Current
  <2>2. op[k].fenced /\ Current(c) \notin rows
    BY <1>k, <1>1, <1>2, <1>4 DEF HolderInv, At
  <2> HIDE DEF r
  <2>3. op'[k] = r /\ \A j \in Key : j # k => op'[j] = op[j]
    BY <1>k, <1>1, <1>2, <1>4, <2>1, OpTyped
  <2>4. OpInv(k)' /\ Grows(k) /\ op'[k].owner \in {c, None, op[k].owner}
    BY <1>k, <1>1, <1>4, <2>1, <2>2, <2>3 DEF OpInv, Grows
  <2>5. /\ call'[c].pc = "step" /\ call'[c].key = call[c].key /\ call'[c].at = call[c].at + 1
        /\ call'[c].done = call[c].done \cup {Current(c)}
        /\ \A d \in Call : d # c => call'[d] = call[d]
    BY <1>k, <1>1, <1>4 DEF Typed, Running
  <2>6. ASSUME NEW i \in 1..Len(Order), i < call[c].at + 1
        PROVE  Order[i] \in r.done
    BY <1>k, <1>1, <1>2, <1>4, <2>1, <2>6, LenType DEF HolderInv, At, Current
  <2>7. call[c].done \cup {Current(c)} \subseteq r.done
    BY <1>k, <1>1, <1>2, <1>4, <2>1 DEF HolderInv, At
  <2>8. KnowsKey(c)' /\ HolderInv(c)'
    BY <1>k, <1>1, <1>2, <2>1, <2>2, <2>3, <2>5, <2>6, <2>7 DEF KnowsKey, HolderInv, At, KeyOf
  <2> QED BY <1>1, <1>k, <2>3, <2>4, <2>5, <2>8, OpStep DEF Kept
<1> QED BY <1>k, <1>3, <1>4, Zenon DEF PersistStep

\* The end of an attempt gives up the lease and nothing else.
LEMMA EndKept ==
    ASSUME IInv, Typed', NEW c \in Call, Leave(c), NEW k \in Key, Owns(c), k = KeyOf(c),
           NEW s \in {"completed", "rejected", "retryable"}, Update(k, Ended(op[k], s)),
           s = "completed" => Domain \subseteq op[k].done, rows' = rows
    PROVE  Kept
<1> DEFINE r == Ended(op[k], s)
<1>1. /\ r \in Operation /\ op[k] \in Operation /\ OpInv(k) /\ Typed
      /\ r.status = s /\ r.owner = None /\ r.done = op[k].done /\ r.fenced = op[k].fenced
  BY DEF IInv, Typed, Operation, OpStatus, Ended
<1>2. op[k].status = "running"
  BY <1>1, NameAssumption DEF OpInv, Owns
<1> HIDE DEF r
<1>3. op'[k] = r /\ \A j \in Key : j # k => op'[j] = op[j]
  BY <1>1, OpTyped DEF r
<1>4. OpInv(k)' /\ Grows(k) /\ op'[k].owner \in {c, None, op[k].owner}
  BY <1>1, <1>2, <1>3 DEF OpInv, Grows
<1> QED BY <1>3, <1>4, LeftCall, OpStep DEF Kept

LEMMA CompleteKept == ASSUME IInv, NEW c \in Call, Complete(c) PROVE Kept
<1>1. Typed /\ Typed' /\ KeyKnown /\ rows' = rows /\ At(c, "step") /\ Leave(c)
  BY CompleteTyped DEF IInv, Complete
<1>2. KeyOf(c) \in Key /\ HolderInv(c) /\ call[c].at > Len(Order) /\ call[c].at \in Nat
  BY <1>1, LenType DEF IInv, KeyKnown, KnowsKey, At, Typed, Running, Complete
<1>k. PICK k \in Key : k = KeyOf(c)
  BY <1>2
<1>3. CASE UNCHANGED op
  BY <1>1, <1>3, LeftCall, CallStep DEF Kept
<1>4. CASE Owns(c) /\ Update(k, Ended(op[k], "completed"))
  <2>1. \A i \in 1..Len(Order) : Order[i] \in op[k].done
    BY <1>k, <1>1, <1>2, <1>4, LenType DEF HolderInv, At
  <2>2. Domain \subseteq op[k].done
    BY <2>1 DEF Domain
  <2> QED BY <1>k, <1>1, <1>4, <2>2, EndKept
<1> QED BY <1>k, <1>3, <1>4, Zenon DEF Complete

LEMMA ThrowKept == ASSUME IInv, NEW c \in Call, Throw(c) PROVE Kept
<1>1. Typed' /\ rows' = rows /\ op' = op /\ ~At(c, "idle") /\ (Goto(c, "fail") \/ Goto(c, "reject"))
  BY ThrowTyped DEF IInv, Throw, AtStep, At
<1> QED BY <1>1, FailingCall, CallStep DEF Kept

LEMMA AbandonKept == ASSUME IInv, NEW c \in Call, Abandon(c) PROVE Kept
<1>1. Typed' /\ KeyKnown /\ rows' = rows /\ ~At(c, "idle") /\ Leave(c)
  BY AbandonTyped DEF IInv, Abandon, At
<1>k. PICK k \in Key : k = KeyOf(c)
  BY <1>1 DEF KeyKnown, KnowsKey
<1>2. CASE UNCHANGED op
  BY <1>1, <1>2, LeftCall, CallStep DEF Kept
<1>3. CASE Owns(c) /\ Update(k, Ended(op[k], "rejected"))
  BY <1>k, <1>1, <1>3, EndKept
<1>4. CASE Owns(c) /\ Update(k, Ended(op[k], "retryable"))
  BY <1>k, <1>1, <1>4, EndKept
<1>5. CASE Owns(c) /\ Update(k, Ended(op[k], IF At(c, "reject") THEN "rejected" ELSE "retryable"))
  <2>1. CASE At(c, "reject")
    BY <1>3, <1>5, <2>1, Zenon
  <2>2. CASE ~At(c, "reject")
    BY <1>4, <1>5, <2>2, Zenon
  <2> QED BY <2>1, <2>2
<1> QED BY <1>k, <1>2, <1>5, Zenon DEF Abandon

LEMMA DieKept == ASSUME IInv, NEW c \in Call, Die(c) PROVE Kept
<1>1. Typed' /\ rows' = rows /\ op' = op /\ Leave(c)
  BY WorldTyped DEF IInv, Die
<1> QED BY <1>1, LeftCall, CallStep DEF Kept

LEMMA LapseKept == ASSUME IInv, NEW k \in Key, Lapse(k) PROVE Kept
<1> DEFINE r == [op[k] EXCEPT !.lapsed = TRUE]
<1>1. Typed /\ Typed' /\ rows' = rows /\ call' = call /\ Update(k, r) /\ op[k].status = "running"
  BY WorldTyped DEF IInv, Lapse
<1>2. /\ r \in Operation /\ OpInv(k)
      /\ r.status = op[k].status /\ r.owner = op[k].owner
      /\ r.done = op[k].done /\ r.fenced = op[k].fenced
  BY <1>1 DEF IInv, Typed, Operation
<1> HIDE DEF r
<1>3. op'[k] = r /\ \A j \in Key : j # k => op'[j] = op[j]
  BY <1>1, <1>2, OpTyped
<1>4. OpInv(k)' /\ Grows(k) /\ op'[k].owner \in {None, op[k].owner}
  BY <1>1, <1>2, <1>3 DEF OpInv, Grows
<1> QED BY <1>1, <1>3, <1>4, NameAssumption, OpStep DEF Kept

\* The account writes only while no operation has its fence up, so that none has
\* anything on record that a write could undo.
LEMMA WriteKept == ASSUME IInv, NEW d \in Domain, Write(d) PROVE Kept
<1>1. Typed' /\ op' = op /\ call' = call /\ ~Fenced /\ rows' = rows \cup {d}
  BY WorldTyped DEF IInv, Write
<1>2. \A k \in Key : op[k].fenced => op[k].status = "rejected" /\ op[k].owner = None
  BY <1>1 DEF Fenced, Fencing, IInv, OpInv
<1>3. ASSUME NEW k \in Key
      PROVE  OpInv(k)' /\ Grows(k)
  <2>1. OpInv(k) /\ op[k] \in Operation
    BY DEF IInv, Typed
  <2>2. op[k].done = {} \/ op[k].status = "rejected"
    BY <1>2, <2>1 DEF OpInv
  <2>3. op[k].status = "completed" => Domain = {}
    BY <2>1, <2>2 DEF OpInv
  <2> QED BY <1>1, <2>1, <2>2 DEF OpInv, Grows
<1>4. ASSUME NEW c \in Call
      PROVE  KnowsKey(c)' /\ HolderInv(c)'
  <2>1. KnowsKey(c) /\ HolderInv(c) /\ c # None
    BY NameAssumption DEF IInv, KeyKnown
  <2>2. At(c, "persist") => ~Owns(c)
    BY <1>2, <2>1 DEF KnowsKey, HolderInv, At, Owns
  <2> QED BY <1>1, <2>1, <2>2 DEF KnowsKey, HolderInv, At, Owns, KeyOf
<1> QED BY <1>1, <1>3, <1>4 DEF Kept, IInv, KeyKnown
-----------------------------------------------------------------------------
(***************************************************************************)
(* The invariant                                                           *)
(***************************************************************************)
LEMMA InitHolds == Init => IInv
<1> SUFFICES ASSUME Init PROVE IInv
  OBVIOUS
<1>1. TypeOK /\ Typed
  BY InitTyped DEF TypeOK, Typed
<1>2. \A c \in Call : call[c].pc = "idle"
  BY DEF Init, IdleCall
<1>3. \A k \in Key : op[k] = NoOperation
  BY DEF Init
<1>4. NoOperation.status = "absent" /\ NoOperation.owner = None /\ NoOperation.done = {}
  BY DEF NoOperation
<1>5. \A k \in Key : OpInv(k)
  BY <1>3, <1>4 DEF OpInv
<1> QED BY <1>1, <1>2, <1>5 DEF IInv, KeyKnown, KnowsKey, HolderInv, At

LEMMA NextKept == ASSUME IInv, Next PROVE Kept
<1>1. ASSUME NEW c \in Call, Continue(c) PROVE Kept
  BY <1>1, AcquireKept, LoadKept, VerifyKept, PutFenceKept, SkipKept, DeleteKept,
     CallAdapterKept, WriteAuditKept, PersistKept, CompleteKept, ThrowKept, AbandonKept
     DEF Continue
<1>2. ASSUME NEW c \in Call, Die(c) PROVE Kept
  BY <1>2, DieKept
<1>3. ASSUME NEW c \in Call, NEW k \in Key, Begin(c, k) PROVE Kept
  BY <1>3, BeginKept
<1>4. ASSUME NEW k \in Key, Lapse(k) PROVE Kept
  BY <1>4, LapseKept
<1>5. ASSUME NEW d \in Domain, Write(d) PROVE Kept
  BY <1>5, WriteKept
<1> QED BY <1>1, <1>2, <1>3, <1>4, <1>5 DEF Next

LEMMA StutterKept == ASSUME IInv, UNCHANGED vars PROVE IInv'
<1>1. op' = op /\ call' = call /\ rows' = rows /\ audits' = audits /\ writes' = writes
  BY DEF vars
<1>2. Typed' /\ KeyKnown'
  BY <1>1 DEF IInv, Typed, KeyKnown, KnowsKey, At, KeyOf
<1>3. \A c \in Call : HolderInv(c)'
  BY <1>1 DEF IInv, HolderInv, At, Owns, KeyOf, Current
<1>4. \A k \in Key : OpInv(k)'
  BY <1>1 DEF IInv, OpInv
<1> QED BY <1>2, <1>3, <1>4 DEF IInv

LEMMA StepKept == IInv /\ [Next]_vars => IInv'
BY NextKept, StutterKept DEF Kept

LEMMA Inductive == Spec => []IInv
BY InitHolds, StepKept, PTL DEF Spec

\* Type correctness: in every reachable state the variables have their types, and
\* only a running operation has an owner.
THEOREM TypeCorrect == Spec => []TypeOK
<1>1. IInv => TypeOK
  BY DEF IInv, Typed, OpInv, TypeOK
<1> QED BY <1>1, Inductive, PTL

\* A purge that completes has erased every domain its list of steps names, for
\* any list, and however many purges and calls of them interleave, lose their
\* lease, fail or die: purgeUserData answers "completed" truthfully.
THEOREM EraseCorrect == Spec => []PurgeErases
<1>1. IInv => PurgeErases
  BY DEF IInv, Typed, OpInv, PurgeErases
<1> QED BY <1>1, Inductive, PTL

\* What an operation has put on record stays done between two attempts.
THEOREM StepsCorrect == Spec => []StepsStayDone
<1>1. IInv => StepsStayDone
  BY DEF IInv, OpInv, StepsStayDone
<1> QED BY <1>1, Inductive, PTL

\* The fence of a purge opens only by the refusal of the host.
THEOREM FenceCorrect == Spec => FenceHoldsOut
<1> DEFINE Opened == Fenced => \/ Fenced'
                               \/ \E k \in Key : op[k].status = "running" /\ op'[k].status = "rejected"
<1>1. ASSUME IInv, Next PROVE Opened
  <2>1. \A k \in Key : Grows(k)
    BY <1>1, NextKept DEF Kept
  <2>2. SUFFICES ASSUME NEW k \in Key, Fencing(k) PROVE Opened
    BY DEF Fenced
  <2>3. op'[k].fenced /\ (op'[k].status = "rejected" => op[k].status = "running")
    BY <2>1, <2>2 DEF Grows, Fencing
  <2> QED BY <2>3 DEF Fenced, Fencing
<1>2. IInv /\ [Next]_vars => [Opened]_vars
  BY <1>1
<1> QED BY <1>2, Inductive, PTL DEF Spec, FenceHoldsOut
-----------------------------------------------------------------------------
(***************************************************************************)
(* The record of the deletion                                              *)
(***************************************************************************)
\* PurgeIsRecorded is not inductive either: while an operation that has written its
\* record is not completed, the audit step of that same operation must be behind for
\* everyone who may still run it.
Audit == "write_deletion_audit"
ClearAudit == "remove_subject_audit"
OnRecord(k) == audits \/ \E other \in Key \ {k} : op[other].fenced

OpRecord(k) ==
    /\ op[k].status = "completed" => Audit \in op[k].done
    /\ op[k].status # "rejected" /\ Audit \in op[k].done =>
        /\ OnRecord(k)
        /\ ClearAudit \in Domain => ClearAudit \in op[k].done

\* The holder of the lease knows every step that is on record.
CallRecord(c) ==
    /\ call[c].pc \in {"verify", "fence", "step", "persist"} /\ Owns(c) =>
        op[KeyOf(c)].done \subseteq call[c].done
    /\ At(c, "persist") /\ Owns(c) /\ Current(c) = Audit => OnRecord(KeyOf(c))

RecordInv ==
    /\ \A k \in Key : OpRecord(k)
    /\ \A c \in Call : CallRecord(c)

\* Shapes of a step, as above: what is on record stays as long as audits does.
LEMMA OnRecordStays ==
    ASSUME IInv, \A j \in Key : Grows(j), NEW k \in Key, OnRecord(k), audits => audits'
    PROVE  OnRecord(k)'
BY DEF OnRecord, Grows

LEMMA OpRecordStays ==
    ASSUME IInv, \A j \in Key : Grows(j), NEW k \in Key, OpRecord(k), audits => audits',
           op'[k] = op[k]
    PROVE  OpRecord(k)'
BY OnRecordStays DEF OpRecord

\* A call that makes no step gains no lease, and its operation no step.
LEMMA CallRecordStays ==
    ASSUME IInv, \A j \in Key : Grows(j), NEW d \in Call, CallRecord(d), audits => audits',
           call'[d] = call[d],
           \A k \in Key : op'[k].owner = d =>
               op[k].owner = d /\ (op'[k].done = op[k].done \/ call[d].pc \in {"lease", "load"})
    PROVE  CallRecord(d)'
<1>1. CASE At(d, "idle")
  BY <1>1 DEF CallRecord, At
<1>2. CASE ~At(d, "idle")
  <2>1. KeyOf(d) \in Key /\ KeyOf(d)' = KeyOf(d) /\ Current(d)' = Current(d)
    BY <1>2 DEF IInv, KeyKnown, KnowsKey, KeyOf, Current
  <2>2. PICK k \in Key : k = KeyOf(d)
    BY <2>1
  <2>3. Owns(d)' => Owns(d) /\ (op'[k].done = op[k].done \/ call[d].pc \in {"lease", "load"})
    BY <2>1, <2>2 DEF Owns
  <2>4. OnRecord(k) => OnRecord(k)'
    BY OnRecordStays
  <2>5. /\ call'[d].pc \in {"verify", "fence", "step", "persist"} /\ Owns(d)' =>
            op'[k].done \subseteq call'[d].done
        /\ At(d, "persist")' /\ Owns(d)' /\ Current(d)' = Audit => OnRecord(k)'
    BY <2>1, <2>2, <2>3, <2>4 DEF CallRecord, At
  <2>6. (op[KeyOf(d)].done)' = op'[k].done /\ (OnRecord(KeyOf(d))' <=> OnRecord(k)')
    BY <2>1, <2>2 DEF OnRecord
  <2> QED BY <2>5, <2>6 DEF CallRecord
<1> QED BY <1>1, <1>2

\* A step of a call that writes no operation.
LEMMA CallRecords ==
    ASSUME IInv, RecordInv, Kept, NEW c \in Call,
           \A d \in Call : d # c => call'[d] = call[d],
           op' = op, audits => audits', CallRecord(c)'
    PROVE  RecordInv'
<1>1. \A j \in Key : Grows(j)
  BY DEF Kept
<1>2. \A k \in Key : OpRecord(k)'
  BY <1>1, OpRecordStays DEF RecordInv
<1>3. \A d \in Call : d # c => CallRecord(d)'
  BY <1>1, CallRecordStays DEF RecordInv
<1> QED BY <1>2, <1>3 DEF RecordInv

\* A step that writes one operation, of which only the holder completes steps.
LEMMA OpRecords ==
    ASSUME IInv, RecordInv, Kept, NEW c,
           \A d \in Call : d # c => call'[d] = call[d],
           NEW k \in Key, op'[k].owner \in {c, None, op[k].owner},
           op'[k].done = op[k].done \/ op[k].owner = c,
           \A j \in Key : j # k => op'[j] = op[j],
           audits' = audits, OpRecord(k)', c \in Call => CallRecord(c)'
    PROVE  RecordInv'
<1>1. \A j \in Key : Grows(j)
  BY DEF Kept
<1>2. \A j \in Key : OpRecord(j)'
  BY <1>1, OpRecordStays DEF RecordInv
<1>3. ASSUME NEW d \in Call, d # c PROVE CallRecord(d)'
  <2>1. d # None
    BY NameAssumption
  <2>2. \A j \in Key : op'[j].owner = d => op[j].owner = d /\ op'[j].done = op[j].done
    BY <1>3, <2>1
  <2> QED BY <1>1, <1>3, <2>2, CallRecordStays DEF RecordInv
<1> QED BY <1>2, <1>3 DEF RecordInv

\* A call that is at none of the places CallRecord speaks of.
LEMMA NoCallRecord ==
    ASSUME NEW c, call'[c].pc \notin {"verify", "fence", "step", "persist"}
    PROVE  CallRecord(c)'
BY DEF CallRecord, At

\* Steps that only move a call, or end it.
LEMMA MoveRecords ==
    ASSUME IInv, RecordInv, Kept, NEW c \in Call, Leave(c) \/ Goto(c, "fail") \/ Goto(c, "reject"),
           op' = op, audits => audits'
    PROVE  RecordInv'
<1>1. call'[c].pc \in {"idle", "fail", "reject"} /\ \A d \in Call : d # c => call'[d] = call[d]
  BY DEF IInv, Typed, Leave, Goto, IdleCall, Running
<1> QED BY <1>1, NoCallRecord, CallRecords

\* The holder that has not persisted yet, or has, knows what is on record.
LEMMA GoRecords ==
    ASSUME IInv, RecordInv, Kept, NEW c \in Call, KeyOf(c) \in Key,
           \A d \in Call : d # c => call'[d] = call[d],
           call[c].pc \in {"verify", "fence", "step"},
           call'[c].key = call[c].key, call'[c].done = call[c].done,
           op' = op, audits => audits',
           At(c, "persist")' /\ Owns(c) /\ Current(c)' = Audit => OnRecord(KeyOf(c))'
    PROVE  RecordInv'
<1>1. CallRecord(c) /\ KeyOf(c)' = KeyOf(c) /\ (Owns(c)' <=> Owns(c))
  BY DEF RecordInv, KeyOf, Owns
<1>2. CallRecord(c)'
  BY <1>1 DEF CallRecord, At, KeyOf
<1> QED BY <1>2, CallRecords

LEMMA BeginRecord == ASSUME IInv, RecordInv, NEW c \in Call, NEW k \in Key, Begin(c, k), Kept PROVE RecordInv'
<1>1. /\ op[k] \in Operation /\ (op[k].status = "absent" => op[k] = NoOperation)
      /\ audits' = audits /\ \A d \in Call : d # c => call'[d] = call[d]
      /\ \A j \in Key : j # k => op'[j] = op[j]
  BY DEF IInv, Typed, OpInv, Begin, Update
<1>2. call'[c].pc = "lease"
  BY DEF IInv, Typed, Begin, IdleCall
<1>3. CASE op[k].status # "absent"
  <2>1. op' = op
    BY <1>3, <1>1 DEF Begin, Update, IInv, Typed
  <2> QED BY <1>1, <1>2, <2>1, NoCallRecord, CallRecords
<1>4. CASE op[k].status = "absent"
  <2>1. op'[k] = [NoOperation EXCEPT !.status = "pending"] /\ op[k] = NoOperation
    BY <1>1, <1>4 DEF Begin, Update, IInv, Typed
  <2>2. op'[k].done = {} /\ op[k].done = {} /\ op'[k].status = "pending" /\ op'[k].owner = None
    BY <2>1 DEF NoOperation
  <2>3. OpRecord(k)'
    BY <2>2 DEF OpRecord
  <2> QED BY <1>1, <1>2, <2>2, <2>3, NoCallRecord, OpRecords
<1> QED BY <1>3, <1>4

LEMMA AcquireRecord == ASSUME IInv, RecordInv, NEW c \in Call, AcquireLease(c), Kept PROVE RecordInv'
<1>1. Typed /\ KeyOf(c) \in Key /\ audits' = audits
  BY DEF IInv, AcquireLease, KeyKnown, KnowsKey, At
<1>k. PICK k \in Key : k = KeyOf(c)
  BY <1>1
<1>2. CASE Leave(c) /\ UNCHANGED op
  BY <1>1, <1>2, MoveRecords
<1> DEFINE r == [op[k] EXCEPT !.status = "running", !.owner = c, !.lapsed = FALSE]
<1>3. CASE Acquirable(op[k]) /\ Update(k, r) /\ Goto(c, "load")
  <2>1. /\ r \in Operation /\ r.status = "running" /\ r.owner = c /\ r.done = op[k].done
    BY <1>1 DEF Typed, Operation, OpStatus
  <2>2. op[k].status # "rejected"
    BY <1>3 DEF Acquirable
  <2> HIDE DEF r
  <2>3. op'[k] = r /\ \A j \in Key : j # k => op'[j] = op[j]
    BY <1>1, <1>3, <2>1, OpTyped
  <2>4. OpRecord(k)'
    <3>1. OnRecord(k) => OnRecord(k)'
      BY <1>1, OnRecordStays DEF Kept
    <3> QED BY <2>1, <2>2, <2>3, <3>1 DEF RecordInv, OpRecord
  <2>5. call'[c].pc = "load" /\ \A d \in Call : d # c => call'[d] = call[d]
    BY <1>1, <1>3 DEF Typed, Goto, Running
  <2> QED BY <1>1, <2>1, <2>3, <2>4, <2>5, NoCallRecord, OpRecords
<1> QED BY <1>k, <1>2, <1>3, Zenon DEF AcquireLease

LEMMA LoadRecord == ASSUME IInv, RecordInv, NEW c \in Call, Load(c), Kept PROVE RecordInv'
<1>1. KeyOf(c) \in Key /\ op' = op /\ audits' = audits
  BY DEF IInv, Load, KeyKnown, KnowsKey, At
<1>2. /\ call'[c].pc = "verify" /\ call'[c].key = call[c].key /\ call'[c].done = op[KeyOf(c)].done
      /\ \A d \in Call : d # c => call'[d] = call[d]
  BY DEF IInv, Typed, Load, Running
<1>3. CallRecord(c)'
  BY <1>1, <1>2 DEF CallRecord, At, KeyOf
<1> QED BY <1>1, <1>2, <1>3, CallRecords

LEMMA VerifyRecord == ASSUME IInv, RecordInv, NEW c \in Call, Verify(c), Kept PROVE RecordInv'
<1>1. KeyOf(c) \in Key /\ op' = op /\ audits' = audits /\ call[c].pc = "verify"
  BY DEF IInv, Verify, KeyKnown, KnowsKey, At
<1>2. CASE Goto(c, "fail") \/ Goto(c, "reject")
  BY <1>1, <1>2, MoveRecords
<1>3. CASE Goto(c, "fence")
  <2>1. /\ call'[c].pc = "fence" /\ call'[c].key = call[c].key /\ call'[c].done = call[c].done
        /\ \A d \in Call : d # c => call'[d] = call[d]
    BY <1>3 DEF IInv, Typed, Goto, Running
  <2> QED BY <1>1, <2>1, GoRecords DEF At
<1> QED BY <1>2, <1>3 DEF Verify

LEMMA PutFenceRecord == ASSUME IInv, RecordInv, NEW c \in Call, PutFence(c), Kept PROVE RecordInv'
<1>1. Typed /\ KeyOf(c) \in Key /\ audits' = audits /\ call[c].pc = "fence"
  BY DEF IInv, PutFence, KeyKnown, KnowsKey, At
<1>k. PICK k \in Key : k = KeyOf(c)
  BY <1>1
<1>2. CASE Leave(c) /\ UNCHANGED op
  BY <1>1, <1>2, MoveRecords
<1> DEFINE r == [op[k] EXCEPT !.fenced = TRUE]
<1>3. CASE Owns(c) /\ Update(k, r) /\ Goto(c, "step")
  <2>1. r \in Operation /\ r.status = op[k].status /\ r.owner = op[k].owner /\ r.done = op[k].done
    BY <1>1 DEF Typed, Operation
  <2> HIDE DEF r
  <2>2. op'[k] = r /\ \A j \in Key : j # k => op'[j] = op[j]
    BY <1>1, <1>3, <2>1, OpTyped
  <2>3. OpRecord(k)'
    <3>1. OnRecord(k) => OnRecord(k)'
      BY <1>1, OnRecordStays DEF Kept
    <3> QED BY <2>1, <2>2, <3>1 DEF RecordInv, OpRecord
  <2>4. /\ call'[c].pc = "step" /\ call'[c].key = call[c].key /\ call'[c].done = call[c].done
        /\ \A d \in Call : d # c => call'[d] = call[d]
    BY <1>1, <1>3 DEF Typed, Goto, Running
  <2>5. CallRecord(c)'
    BY <1>k, <1>1, <1>3, <2>1, <2>2, <2>4 DEF RecordInv, CallRecord, At, KeyOf, Owns
  <2> QED BY <1>1, <2>1, <2>2, <2>3, <2>4, <2>5, OpRecords
<1> QED BY <1>k, <1>2, <1>3, Zenon DEF PutFence

LEMMA SkipRecord == ASSUME IInv, RecordInv, NEW c \in Call, Skip(c), Kept PROVE RecordInv'
<1>1. KeyOf(c) \in Key /\ op' = op /\ audits' = audits /\ call[c].pc = "step"
  BY DEF IInv, Skip, KeyKnown, KnowsKey, At
<1>2. /\ call'[c].pc = "step" /\ call'[c].key = call[c].key /\ call'[c].done = call[c].done
      /\ \A d \in Call : d # c => call'[d] = call[d]
  BY <1>1 DEF IInv, Typed, Skip, Running
<1> QED BY <1>1, <1>2, GoRecords DEF At

\* What a step keeps of the call that made it.
LEMMA Persisting ==
    ASSUME IInv, NEW c \in Call, AtStep(c), Goto(c, "persist")
    PROVE  /\ KeyOf(c) \in Key /\ call[c].pc = "step" /\ call[c].at \in 1..Len(Order)
           /\ call'[c].pc = "persist" /\ call'[c].key = call[c].key
           /\ call'[c].done = call[c].done /\ Current(c)' = Current(c)
           /\ \A d \in Call : d # c => call'[d] = call[d]
<1>1. call[c] \in Running /\ KeyOf(c) \in Key /\ call[c].pc = "step"
  BY DEF IInv, Typed, KeyKnown, KnowsKey, AtStep, At
<1>2. call[c].at \in 1..Len(Order)
  BY <1>1, LenType DEF AtStep, Running
<1>3. call'[c] = [call[c] EXCEPT !.pc = "persist"] /\ \A d \in Call : d # c => call'[d] = call[d]
  BY DEF IInv, Typed, Goto
<1> QED BY <1>1, <1>2, <1>3 DEF Running, Current

\* The record is deleted only for an operation that is fenced itself, and never for
\* the one that it is the record of.
LEMMA DeleteRecord == ASSUME IInv, RecordInv, NEW c \in Call, Delete(c), Kept PROVE RecordInv'
<1>1. op' = op /\ AtStep(c) /\ Current(c) \in Deleting
  BY DEF Delete
<1>2. CASE Goto(c, "fail") /\ UNCHANGED <<rows, audits>>
  BY <1>1, <1>2, MoveRecords
<1>3. CASE /\ ~((Current(c) \in rows \cap Guarded \/ Recorded(Current(c))) /\ Fenced /\ ~Authorized(c))
           /\ audits' = (audits /\ ~Recorded(Current(c)))
           /\ Goto(c, "persist")
  <2>1. /\ KeyOf(c) \in Key /\ call[c].pc = "step" /\ call[c].at \in 1..Len(Order)
        /\ call'[c].pc = "persist" /\ call'[c].key = call[c].key
        /\ call'[c].done = call[c].done /\ Current(c)' = Current(c)
        /\ \A d \in Call : d # c => call'[d] = call[d]
    BY <1>1, <1>3, Persisting
  <2>2. Current(c) # Audit
    BY <1>1 DEF Deleting, Audit
  <2>3. CASE ~Recorded(Current(c))
    BY <1>1, <1>3, <2>1, <2>2, <2>3, GoRecords DEF IInv, Typed, At
  <2>4. CASE Recorded(Current(c))
    <3>1. Current(c) = ClearAudit /\ (Fenced => Authorized(c))
      BY <1>3, <2>4 DEF Recorded, ClearAudit
    <3>2. ClearAudit \in Domain
      BY <1>1, <2>1, <3>1 DEF Domain, Current
    <3>3. PICK j \in Key : j = KeyOf(c)
      BY <2>1
    <3>4. Authorized(c) => /\ op[j].owner = c /\ op[j].status = "running" /\ op[j].fenced
                           /\ op[j].done \subseteq call[c].done
      BY <2>1, <3>3 DEF Authorized, RecordInv, CallRecord, Owns
    <3>5. Authorized(c) => ClearAudit \notin op[j].done
      BY <1>1, <3>1, <3>4 DEF AtStep
    <3>6. ASSUME NEW k \in Key, Fencing(k), k # j PROVE OnRecord(k)'
      BY <1>1, <3>1, <3>4, <3>6 DEF Fenced, OnRecord
    <3>7. ASSUME NEW k \in Key PROVE OpRecord(k)'
      <4>1. OpRecord(k) /\ OpInv(k)
        BY DEF RecordInv, IInv
      <4>2. SUFFICES ASSUME op[k].status # "rejected", Audit \in op[k].done
                     PROVE  OnRecord(k)'
        BY <1>1, <4>1 DEF OpRecord
      <4>3. Fencing(k) /\ ClearAudit \in op[k].done
        BY <3>2, <4>1, <4>2 DEF OpInv, OpRecord, Fencing
      <4>4. k # j
        BY <3>1, <3>5, <4>3 DEF Fenced
      <4> QED BY <3>6, <4>3, <4>4
    <3>8. ASSUME NEW d \in Call, d # c PROVE CallRecord(d)'
      <4>1. CallRecord(d) /\ HolderInv(d) /\ KnowsKey(d) /\ call'[d] = call[d] /\ d # None
        BY <2>1, <3>8, NameAssumption DEF RecordInv, IInv, KeyKnown
      <4>2. SUFFICES ASSUME At(d, "persist"), Owns(d), Current(d) = Audit
                     PROVE  OnRecord(KeyOf(d))'
        BY <1>1, <4>1 DEF CallRecord, At, KeyOf, Owns, Current
      <4>3. PICK k \in Key : k = KeyOf(d)
        BY <4>1, <4>2 DEF KnowsKey, At
      <4>4. Fencing(k)
        BY <4>1, <4>2, <4>3 DEF HolderInv, At, Fencing, Owns, IInv, OpInv
      <4>5. k # j
        BY <3>1, <3>4, <3>8, <4>2, <4>3, <4>4 DEF Fenced, Owns
      <4>6. OnRecord(k)'
        BY <3>6, <4>4, <4>5
      <4> QED BY <4>1, <4>3, <4>6 DEF OnRecord, KeyOf
    <3>9. CallRecord(c)'
      BY <1>1, <2>1, <2>2 DEF RecordInv, CallRecord, At, KeyOf, Owns
    <3> QED BY <3>7, <3>8, <3>9 DEF RecordInv
  <2> QED BY <2>3, <2>4
<1> QED BY <1>2, <1>3, Zenon DEF Delete

LEMMA CallAdapterRecord == ASSUME IInv, RecordInv, NEW c \in Call, CallAdapter(c), Kept PROVE RecordInv'
<1>1. op' = op /\ audits' = audits /\ AtStep(c) /\ Goto(c, "persist") /\ Current(c) # Audit
  BY DEF CallAdapter, Calling, Audit
<1> QED BY <1>1, Persisting, GoRecords DEF At

LEMMA WriteAuditRecord == ASSUME IInv, RecordInv, NEW c \in Call, WriteAudit(c), Kept PROVE RecordInv'
<1>1. op' = op /\ AtStep(c)
  BY DEF WriteAudit
<1>2. CASE Goto(c, "fail") /\ UNCHANGED audits
  BY <1>1, <1>2, MoveRecords
<1>3. CASE audits' = TRUE /\ Goto(c, "persist")
  BY <1>1, <1>3, Persisting, GoRecords DEF OnRecord, At
<1> QED BY <1>2, <1>3, Zenon DEF WriteAudit

\* Whoever persists the record has the audit step of the same operation behind.
LEMMA PersistRecord == ASSUME IInv, RecordInv, NEW c \in Call, PersistStep(c), Kept PROVE RecordInv'
<1>1. Typed /\ audits' = audits /\ At(c, "persist") /\ HolderInv(c) /\ CallRecord(c)
  BY DEF IInv, PersistStep, RecordInv
<1>2. KeyOf(c) \in Key /\ call[c].at \in 1..Len(Order)
  BY <1>1 DEF IInv, KeyKnown, KnowsKey, At
<1>k. PICK k \in Key : k = KeyOf(c)
  BY <1>2
<1> DEFINE r == [op[k] EXCEPT !.done = @ \cup {Current(c)}]
<1>3. CASE Leave(c) /\ UNCHANGED op
  BY <1>1, <1>3, MoveRecords
<1>4. CASE /\ Owns(c) /\ op[k].status = "running" /\ Update(k, r)
           /\ call' = [call EXCEPT ![c].pc = "step", ![c].at = @ + 1,
                                   ![c].done = @ \cup {Current(c)}]
  <2>1. /\ r \in Operation /\ r.status = op[k].status /\ r.owner = op[k].owner
        /\ r.done = op[k].done \cup {Current(c)} /\ op[k].owner = c
    BY <1>k, <1>1, <1>2, <1>4, OrderType DEF Typed, Operation, Current, Owns
  <2> HIDE DEF r
  <2>2. op'[k] = r /\ \A j \in Key : j # k => op'[j] = op[j]
    BY <1>1, <1>4, <2>1, OpTyped
  <2>3. /\ call'[c].pc = "step" /\ call'[c].key = call[c].key
        /\ call'[c].done = call[c].done \cup {Current(c)}
        /\ \A d \in Call : d # c => call'[d] = call[d]
    BY <1>1, <1>4 DEF Typed, Running
  <2>4. OnRecord(k) => OnRecord(k)'
    BY <1>1, OnRecordStays DEF Kept
  <2>5. Current(c) = Audit => OnRecord(k) /\ (ClearAudit \in Domain => ClearAudit \in op[k].done)
    <3>1. SUFFICES ASSUME Current(c) = Audit, ClearAudit \in Domain
                   PROVE  ClearAudit \in op[k].done
      BY <1>k, <1>1, <1>4 DEF CallRecord
    <3>2. call[c].at = Len(Order)
      BY <1>2, <3>1, RecordAssumption DEF Current, Audit
    <3>3. PICK i \in 1..Len(Order) : Order[i] = ClearAudit
      BY <3>1 DEF Domain
    <3>4. i # Len(Order)
      BY <3>3, RecordAssumption DEF ClearAudit
    <3>5. i < call[c].at
      BY <3>2, <3>4, LenType
    <3> QED BY <1>k, <1>1, <1>4, <3>3, <3>5 DEF HolderInv, At
  <2>6. OpRecord(k)'
    BY <1>4, <2>1, <2>2, <2>4, <2>5 DEF RecordInv, OpRecord
  <2>7. op[k].done \subseteq call[c].done
    BY <1>k, <1>1, <1>4 DEF CallRecord, At
  <2>8. CallRecord(c)'
    BY <1>k, <2>1, <2>2, <2>3, <2>7 DEF CallRecord, At, KeyOf
  <2> QED BY <1>1, <2>1, <2>2, <2>3, <2>6, <2>8, OpRecords
<1> QED BY <1>k, <1>3, <1>4, Zenon DEF PersistStep

\* The end of an attempt.
LEMMA EndRecord ==
    ASSUME IInv, RecordInv, Kept, NEW c \in Call, Leave(c), NEW k \in Key, Owns(c), k = KeyOf(c),
           NEW s \in {"completed", "rejected", "retryable"}, Update(k, Ended(op[k], s)),
           op[k].status # "rejected", s = "completed" => Audit \in op[k].done, audits' = audits
    PROVE  RecordInv'
<1> DEFINE r == Ended(op[k], s)
<1>1. Typed /\ r \in Operation /\ r.status = s /\ r.owner = None /\ r.done = op[k].done
  BY DEF IInv, Typed, Operation, OpStatus, Ended
<1> HIDE DEF r
<1>2. op'[k] = r /\ \A j \in Key : j # k => op'[j] = op[j]
  BY <1>1, OpTyped DEF r
<1>3. OnRecord(k) => OnRecord(k)'
  BY OnRecordStays DEF Kept
<1>4. OpRecord(k)'
  BY <1>1, <1>2, <1>3 DEF RecordInv, OpRecord
<1>5. call'[c].pc = "idle" /\ \A d \in Call : d # c => call'[d] = call[d]
  BY <1>1 DEF Typed, Leave, IdleCall
<1> QED BY <1>1, <1>2, <1>4, <1>5, NoCallRecord, OpRecords

LEMMA CompleteRecord == ASSUME IInv, RecordInv, NEW c \in Call, Complete(c), Kept PROVE RecordInv'
<1>1. /\ At(c, "step") /\ Leave(c) /\ HolderInv(c) /\ KeyOf(c) \in Key /\ audits' = audits
      /\ call[c].at > Len(Order) /\ call[c].at \in Nat
  BY LenType DEF IInv, Typed, Running, KeyKnown, KnowsKey, At, Complete
<1>k. PICK k \in Key : k = KeyOf(c)
  BY <1>1
<1>2. CASE UNCHANGED op
  BY <1>1, <1>2, MoveRecords
<1>3. CASE Owns(c) /\ Update(k, Ended(op[k], "completed"))
  <2>1. Audit \in op[k].done
    <3>1. Len(Order) \in 1..Len(Order) /\ Order[Len(Order)] = Audit /\ Len(Order) < call[c].at
      BY <1>1, LenType, RecordAssumption DEF Audit
    <3> QED BY <1>k, <1>1, <1>3, <3>1 DEF HolderInv, At
  <2>2. op[k].status # "rejected"
    BY <1>k, <1>3, NameAssumption DEF IInv, OpInv, Owns
  <2> QED BY <1>k, <1>1, <1>3, <2>1, <2>2, EndRecord
<1> QED BY <1>k, <1>2, <1>3, Zenon DEF Complete

LEMMA AbandonRecord == ASSUME IInv, RecordInv, NEW c \in Call, Abandon(c), Kept PROVE RecordInv'
<1>1. Leave(c) /\ KeyOf(c) \in Key /\ audits' = audits
  BY DEF IInv, KeyKnown, KnowsKey, At, Abandon
<1>k. PICK k \in Key : k = KeyOf(c)
  BY <1>1
<1>2. CASE UNCHANGED op
  BY <1>1, <1>2, MoveRecords
<1>3. CASE Owns(c) /\ \E s \in {"rejected", "retryable"} : Update(k, Ended(op[k], s))
  <2>1. op[k].status # "rejected"
    BY <1>k, <1>3, NameAssumption DEF IInv, OpInv, Owns
  <2>2. PICK s \in {"rejected", "retryable"} : Update(k, Ended(op[k], s))
    BY <1>3
  <2> QED BY <1>k, <1>1, <1>3, <2>1, <2>2, EndRecord
<1>4. CASE Owns(c) /\ Update(k, Ended(op[k], IF At(c, "reject") THEN "rejected" ELSE "retryable"))
  <2> DEFINE s == IF At(c, "reject") THEN "rejected" ELSE "retryable"
  <2>1. s \in {"rejected", "retryable"}
    OBVIOUS
  <2>2. Update(k, Ended(op[k], s))
    BY <1>4
  <2> HIDE DEF s
  <2> QED BY <1>3, <1>4, <2>1, <2>2
<1> QED BY <1>k, <1>2, <1>4, Zenon DEF Abandon

LEMMA LapseRecord == ASSUME IInv, RecordInv, NEW k \in Key, Lapse(k), Kept PROVE RecordInv'
<1> DEFINE r == [op[k] EXCEPT !.lapsed = TRUE]
<1>1. Typed /\ audits' = audits /\ call' = call /\ Update(k, r) /\ op[k] \in Operation
  BY DEF IInv, Typed, Lapse
<1>2. r \in Operation /\ r.status = op[k].status /\ r.owner = op[k].owner /\ r.done = op[k].done
  BY <1>1 DEF Operation
<1> HIDE DEF r
<1>3. op'[k] = r /\ \A j \in Key : j # k => op'[j] = op[j]
  BY <1>1, <1>2, OpTyped
<1>4. OnRecord(k) => OnRecord(k)'
  BY <1>1, OnRecordStays DEF Kept
<1>5. OpRecord(k)'
  BY <1>2, <1>3, <1>4 DEF RecordInv, OpRecord
<1> QED BY <1>1, <1>2, <1>3, <1>5, NameAssumption, OpRecords

LEMMA StillRecord == ASSUME IInv, RecordInv, UNCHANGED <<op, call, audits>> PROVE RecordInv'
BY DEF RecordInv, OpRecord, CallRecord, OnRecord, At, Owns, KeyOf, Current

LEMMA NextRecord == ASSUME IInv, RecordInv, [Next]_vars PROVE RecordInv'
<1>1. CASE UNCHANGED vars
  BY <1>1, StillRecord DEF vars
<1>2. ASSUME Next PROVE Kept
  BY <1>2, NextKept
<1>3. ASSUME NEW c \in Call, Continue(c), Kept PROVE RecordInv'
  <2>1. CASE Throw(c)
    BY <1>3, <2>1, MoveRecords DEF Throw
  <2> QED BY <1>3, <2>1, AcquireRecord, LoadRecord, VerifyRecord, PutFenceRecord, SkipRecord, DeleteRecord,
          CallAdapterRecord, WriteAuditRecord, PersistRecord, CompleteRecord, AbandonRecord DEF Continue
<1>4. ASSUME NEW c \in Call, Die(c), Kept PROVE RecordInv'
  BY <1>4, MoveRecords DEF Die
<1>5. ASSUME NEW d \in Domain, Write(d) PROVE RecordInv'
  BY <1>5, StillRecord DEF Write
<1> QED BY <1>1, <1>2, <1>3, <1>4, <1>5, BeginRecord, LapseRecord DEF Next

\* A purge that is completed has its record, which no late call of it takes along:
\* only a purge that is asked for under another key does (remove_subject_audit).
THEOREM RecordCorrect == Spec => []PurgeIsRecorded
<1>1. Init => RecordInv
  <2>1. ASSUME Init PROVE RecordInv
    <3>1. /\ \A k \in Key : op[k].status = "absent" /\ op[k].done = {}
          /\ \A c \in Call : call[c].pc = "idle"
      BY <2>1 DEF Init, NoOperation, IdleCall
    <3> QED BY <3>1 DEF RecordInv, OpRecord, CallRecord, At
  <2> QED BY <2>1
<1>2. IInv /\ RecordInv /\ [Next]_vars => RecordInv'
  BY NextRecord
<1>3. RecordInv => PurgeIsRecorded
  BY DEF RecordInv, OpRecord, OnRecord, PurgeIsRecorded
<1> QED BY <1>1, <1>2, <1>3, Inductive, PTL DEF Spec
=============================================================================
