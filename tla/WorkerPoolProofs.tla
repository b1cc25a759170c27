-------------------------- MODULE WorkerPoolProofs --------------------------
(***************************************************************************)
(* For every number of workers, queue capacity and bound: accepted         *)
(* operations are never stranded while the workers run, stop_workers       *)
(* returns only to a quiescent process, each operation has one owner, and  *)
(* writers run alone.  TypeOK with ControlInv is the inductive invariant:  *)
(* which lock a worker holds follows from where it is, a worker about to   *)
(* block saw an empty queue under the mutex, and the workers are gone      *)
(* whenever should_exit is set and nobody is being joined.                 *)
(***************************************************************************)
EXTENDS WorkerPool, TLAPS

(* Who owns mtx_cqueue, and what it knows about the queue. *)
MutexInv ==
    /\ \A w \in Worker : (mtx_cqueue = w) <=> (pc[w] \in {"stab", "shift", "wait"})
    /\ \A w \in Worker : pc[w] = "wait" => cqueue = << >>

(* Who holds rwlock_layers. *)
RwlockInv ==
    /\ \A w \in Worker : writer = w => pc[w] = "handle"
    /\ \A w \in readers : pc[w] = "handle"
    /\ (writer = Main) <=> (main = "purging")

(* An operation is in hand exactly between its shift and its reply. *)
InHandInv == \A w \in Worker : (op[w] # NoOp) <=> (pc[w] \in {"acquire", "handle"})

(* The exit flag and who obeyed it. *)
ExitInv ==
    /\ main \in {"broadcast", "join", "joined", "gone"} => should_exit
    /\ \A w \in Worker : pc[w] = "exited" => should_exit
    /\ should_exit /\ main \notin {"broadcast", "join"}
         => \A w \in Worker : pc[w] = "exited"
    /\ \A w \in Worker : (w \in cond_cqueue) <=> (pc[w] = "blocked")

(* The pool starts with the types it keeps. *)
LEMMA PoolTypeInit == Init => TypeOK
<1> SUFFICES ASSUME Init PROVE TypeOK
  OBVIOUS
<1>1. (CHOOSE t \in OpTypes : TRUE) \in OpTypes
  BY PoolAssumption
<1>2. cqueue \in Seq(1 .. MaxOps) /\ Len(cqueue) <= Capacity
  BY PoolAssumption DEF Init
<1>3. type \in [1 .. MaxOps -> OpTypes]
  BY <1>1 DEF Init
<1>4. op \in [Worker -> 1 .. MaxOps \cup {NoOp}]
  BY DEF Init
<1>5. /\ main = "loop" /\ pc = [w \in Worker |-> "lock"]
      /\ mtx_cqueue = Free /\ cond_cqueue = {} /\ should_exit = FALSE
      /\ writer = Free /\ readers = {} /\ op_tid = 0 /\ stops = 0
      /\ replied = {} /\ refused = {}
  BY DEF Init
<1>6. pc \in [Worker -> {"lock", "stab", "shift", "wait", "blocked",
                         "acquire", "handle", "exited"}]
  BY <1>5
<1>7. op_tid \in 0 .. MaxOps /\ stops \in 0 .. MaxStops
  BY <1>5, PoolAssumption
<1>8. should_exit \in BOOLEAN
  BY <1>5
<1> QED BY <1>2, <1>3, <1>4, <1>5, <1>6, <1>7, <1>8 DEF TypeOK

(* Each step of a thread keeps the types. *)
LEMMA PoolTypeStep == TypeOK /\ InHandInv /\ [Next]_vars => TypeOK'
<1> SUFFICES ASSUME TypeOK, InHandInv, [Next]_vars PROVE TypeOK'
  OBVIOUS
<1> USE PoolAssumption
<1>1. CASE Push
  <2>1. op_tid + 1 \in 1 .. MaxOps
    BY <1>1 DEF Push, TypeOK
  <2>2. cqueue' \in Seq(1 .. MaxOps) /\ Len(cqueue') <= Capacity
    BY <1>1, <2>1 DEF Push, TypeOK
  <2> QED BY <1>1, <2>1, <2>2 DEF Push, TypeOK, lockVars
<1>2. CASE PushRefused
  BY <1>2 DEF PushRefused, TypeOK, lockVars
<1>3. CASE Signal
  BY <1>3 DEF Signal, TypeOK, lockVars
<1>4. CASE HasExpiredKeys \/ PurgeLock \/ PurgeUnlock
  BY <1>4 DEF HasExpiredKeys, PurgeLock, PurgeUnlock, TypeOK, lockVars
<1>5. CASE StopFlag \/ StopWithoutWorkers
  <2>1. stops \in 0 .. MaxStops /\ stops < MaxStops /\ stops' = stops + 1
    BY <1>5 DEF StopFlag, StopWithoutWorkers, TypeOK
  <2>2. stops' \in 0 .. MaxStops
    BY <2>1
  <2>3. /\ main' \in {"broadcast", "gone"} /\ should_exit' \in BOOLEAN
        /\ UNCHANGED <<pc, op, cqueue, mtx_cqueue, cond_cqueue, writer,
                       readers, type, op_tid, replied, refused>>
    BY <1>5 DEF StopFlag, StopWithoutWorkers, TypeOK, lockVars
  <2> QED BY <2>2, <2>3 DEF TypeOK
<1>6. CASE StopBroadcast
  BY <1>6 DEF StopBroadcast, TypeOK, lockVars
<1>7. CASE StopJoin \/ ForkFailed \/ Exit
  BY <1>7 DEF StopJoin, ForkFailed, Exit, TypeOK, lockVars
<1>8. CASE StartWorkers
  BY <1>8 DEF StartWorkers, TypeOK, lockVars
<1>9. ASSUME NEW w \in Worker, Lock(w) PROVE TypeOK'
  BY <1>9 DEF Lock, TypeOK, lockVars, mainVars
<1>10. ASSUME NEW w \in Worker, TestExit(w) PROVE TypeOK'
  BY <1>10 DEF TestExit, TypeOK, lockVars, mainVars
<1>11. ASSUME NEW w \in Worker, Shift(w) PROVE TypeOK'
  <2>1. CASE cqueue # << >>
    <3>1. Head(cqueue) \in 1 .. MaxOps
      BY <2>1 DEF TypeOK
    <3>2. Tail(cqueue) \in Seq(1 .. MaxOps) /\ Len(Tail(cqueue)) <= Capacity
      BY <2>1 DEF TypeOK
    <3>3. cqueue' = Tail(cqueue)
      BY <1>11, <2>1 DEF Shift
    <3>4. op' \in [Worker -> 1 .. MaxOps \cup {NoOp}]
      BY <1>11, <2>1, <3>1, ZenonT(60) DEF Shift, TypeOK
    <3>5. /\ pc' = [pc EXCEPT ![w] = "acquire"] /\ mtx_cqueue' = Free
          /\ UNCHANGED <<mainVars, cond_cqueue, should_exit, lockVars, replied>>
      BY <1>11, <2>1 DEF Shift
    <3> QED BY <3>2, <3>3, <3>4, <3>5 DEF TypeOK, lockVars, mainVars
  <2>2. CASE cqueue = << >>
    BY <1>11, <2>2 DEF Shift, TypeOK, lockVars, mainVars
  <2> QED BY <2>1, <2>2
<1>12. ASSUME NEW w \in Worker, Wait(w) PROVE TypeOK'
  BY <1>12 DEF Wait, TypeOK, lockVars, mainVars
<1>13. ASSUME NEW w \in Worker, SpuriousWakeup(w) PROVE TypeOK'
  BY <1>13 DEF SpuriousWakeup, TypeOK, lockVars, mainVars
<1>14. ASSUME NEW w \in Worker, Acquire(w) PROVE TypeOK'
  BY <1>14 DEF Acquire, TypeOK, lockVars, mainVars
<1>15. ASSUME NEW w \in Worker, Handle(w) PROVE TypeOK'
  <2>1. op[w] # NoOp
    BY <1>15 DEF Handle, InHandInv
  <2> QED BY <1>15, <2>1 DEF Handle, TypeOK, lockVars, mainVars
<1>16. CASE UNCHANGED vars
  BY <1>16 DEF vars, TypeOK
<1> QED
  BY <1>1, <1>2, <1>3, <1>4, <1>5, <1>6, <1>7, <1>8, <1>9, <1>10, <1>11,
     <1>12, <1>13, <1>14, <1>15, <1>16
  DEF Next, MainStep, WorkerStep
-----------------------------------------------------------------------------
(* The control part of the invariant: no sequence or arithmetic in it. *)
ControlInv == MutexInv /\ RwlockInv /\ InHandInv /\ ExitInv /\ NotStranded

(* Workers start outside the mutex and the lock. *)
LEMMA ControlInit == Init => ControlInv
  BY PoolAssumption
  DEF Init, ControlInv, MutexInv, RwlockInv, InHandInv, ExitInv, NotStranded

(* Where a thread is keeps telling what it holds. *)
LEMMA ControlStep == TypeOK /\ ControlInv /\ [Next]_vars => ControlInv'
<1> SUFFICES ASSUME TypeOK, ControlInv, [Next]_vars PROVE ControlInv'
  OBVIOUS
<1> USE PoolAssumption DEF TypeOK, ControlInv, MutexInv, RwlockInv, InHandInv,
        ExitInv, NotStranded, lockVars, mainVars
<1>1. CASE Push
  BY <1>1 DEF Push
<1>2. CASE PushRefused
  BY <1>2 DEF PushRefused
<1>3. CASE Signal
  BY <1>3, SMTT(60) DEF Signal
<1>4. CASE HasExpiredKeys \/ PurgeLock \/ PurgeUnlock
  BY <1>4 DEF HasExpiredKeys, PurgeLock, PurgeUnlock
<1>5. CASE StopFlag \/ StopWithoutWorkers
  BY <1>5 DEF StopFlag, StopWithoutWorkers
<1>6. CASE StopBroadcast
  BY <1>6 DEF StopBroadcast
<1>7. CASE StopJoin \/ ForkFailed \/ Exit
  BY <1>7 DEF StopJoin, ForkFailed, Exit
<1>8. CASE StartWorkers
  BY <1>8 DEF StartWorkers
<1>9. ASSUME NEW w \in Worker, Lock(w) PROVE ControlInv'
  BY <1>9 DEF Lock
<1>10. ASSUME NEW w \in Worker, TestExit(w) PROVE ControlInv'
  BY <1>10 DEF TestExit
<1>11. ASSUME NEW w \in Worker, Shift(w) PROVE ControlInv'
  <2>1. CASE cqueue # << >>
    <3>1. /\ op' = [op EXCEPT ![w] = Head(cqueue)]
          /\ pc[w] = "shift" /\ mtx_cqueue' = Free
          /\ pc' = [pc EXCEPT ![w] = "acquire"]
          /\ UNCHANGED <<mainVars, cond_cqueue, should_exit, lockVars>>
      BY <1>11, <2>1 DEF Shift
    <3>2. Head(cqueue) # NoOp
      BY <2>1
    <3>3. MutexInv'
      BY <3>1
    <3>4. RwlockInv' /\ ExitInv'
      BY <3>1
    <3>5. InHandInv'
      BY <3>1, <3>2
    <3>6. NotStranded'
      BY <3>1
    <3> QED BY <3>3, <3>4, <3>5, <3>6
  <2>2. CASE cqueue = << >>
    BY <1>11, <2>2 DEF Shift
  <2> QED BY <2>1, <2>2
<1>12. ASSUME NEW w \in Worker, Wait(w) PROVE ControlInv'
  BY <1>12 DEF Wait
<1>13. ASSUME NEW w \in Worker, SpuriousWakeup(w) PROVE ControlInv'
  BY <1>13 DEF SpuriousWakeup
<1>14. ASSUME NEW w \in Worker, Acquire(w) PROVE ControlInv'
  BY <1>14 DEF Acquire
<1>15. ASSUME NEW w \in Worker, Handle(w) PROVE ControlInv'
  BY <1>15 DEF Handle
<1>16. CASE UNCHANGED vars
  BY <1>16 DEF vars
<1> QED
  BY <1>1, <1>2, <1>3, <1>4, <1>5, <1>6, <1>7, <1>8, <1>9, <1>10, <1>11,
     <1>12, <1>13, <1>14, <1>15, <1>16
  DEF Next, MainStep, WorkerStep
-----------------------------------------------------------------------------
(* Types and control locations, together, hold always. *)
LEMMA PoolInvariant == Spec => [](TypeOK /\ ControlInv)
<1>1. TypeOK /\ ControlInv /\ [Next]_vars => (TypeOK /\ ControlInv)'
  BY PoolTypeStep, ControlStep DEF ControlInv
<1> QED BY <1>1, PoolTypeInit, ControlInit, PTL DEF Spec

(* The pool's variables keep their types, and the queue its capacity. *)
THEOREM PoolTypeOK == Spec => []TypeOK
  BY PoolInvariant, PTL

(***************************************************************************)
(* No operation is left behind a sleeping pool: worker_do_work tests the   *)
(* queue under mtx_cqueue before it blocks, and every push is followed by  *)
(* a signal, for any number of workers and any interleaving.               *)
(***************************************************************************)
THEOREM NeverStranded == Spec => []NotStranded
<1>1. ControlInv => NotStranded
  BY DEF ControlInv
<1> QED BY <1>1, PoolInvariant, PTL

(***************************************************************************)
(* When stop_workers has joined the workers, neither lock is held and no   *)
(* operation is half done: the rewrite may fork, the shutdown may free.    *)
(***************************************************************************)
THEOREM JoinedIsQuiescent == Spec => []QuiescentWhenJoined
<1>1. TypeOK /\ ControlInv => QuiescentWhenJoined
  <2> SUFFICES ASSUME TypeOK, ControlInv, main \in {"joined", "gone"}
               PROVE  mtx_cqueue = Free /\ writer = Free /\ readers = {}
                      /\ Held = {}
    BY DEF QuiescentWhenJoined
  <2>1. \A w \in Worker : pc[w] = "exited"
    BY DEF ControlInv, ExitInv
  <2>2. mtx_cqueue = Free
    BY <2>1 DEF TypeOK, ControlInv, MutexInv
  <2>3. writer = Free
    BY <2>1 DEF TypeOK, ControlInv, RwlockInv
  <2>4. readers = {}
    BY <2>1 DEF TypeOK, ControlInv, RwlockInv
  <2>5. Held = {}
    BY <2>1 DEF Held, ControlInv, InHandInv
  <2> QED BY <2>2, <2>3, <2>4, <2>5
<1> QED BY <1>1, PoolInvariant, PTL
-----------------------------------------------------------------------------
(* What the two queue operations do to the set of queued tids. *)
LEMMA RangeOfAppend ==
  ASSUME NEW S, NEW s \in Seq(S), NEW e \in S
  PROVE  Range(Append(s, e)) = Range(s) \cup {e}
<1>1. /\ Len(Append(s, e)) = Len(s) + 1
      /\ \A i \in 1 .. Len(s) : Append(s, e)[i] = s[i]
      /\ Append(s, e)[Len(s) + 1] = e
      /\ Len(s) \in Nat
  OBVIOUS
<1>2. \A x : x \in Range(Append(s, e)) <=> x \in Range(s) \cup {e}
  BY <1>1 DEF Range
<1> QED BY <1>2

(* A shift takes the head of the queue, and nothing else. *)
LEMMA RangeOfTail ==
  ASSUME NEW S, NEW s \in Seq(S), s # << >>
  PROVE  Range(s) = {Head(s)} \cup Range(Tail(s))
<1>1. /\ Len(Tail(s)) = Len(s) - 1 /\ Len(s) \in Nat \ {0}
      /\ \A i \in 1 .. Len(Tail(s)) : Tail(s)[i] = s[i + 1]
      /\ Head(s) = s[1]
  OBVIOUS
<1>2. ASSUME NEW x \in Range(s) PROVE x \in {Head(s)} \cup Range(Tail(s))
  <2>1. PICK i \in 1 .. Len(s) : x = s[i]
    BY DEF Range
  <2>2. CASE i = 1
    BY <1>1, <2>1, <2>2
  <2>3. CASE i # 1
    <3>1. i - 1 \in 1 .. Len(Tail(s)) /\ Tail(s)[i - 1] = s[(i - 1) + 1]
      BY <1>1, <2>3
    <3>2. Tail(s)[i - 1] = x
      BY <2>1, <3>1
    <3> QED BY <3>1, <3>2 DEF Range
  <2> QED BY <2>2, <2>3
<1>3. ASSUME NEW x \in {Head(s)} \cup Range(Tail(s)) PROVE x \in Range(s)
  BY <1>1, <1>3 DEF Range
<1> QED BY <1>2, <1>3

(* No tid is queued twice. *)
Distinct(s) == \A i, j \in 1 .. Len(s) : i # j => s[i] # s[j]

(* A push of something new keeps the queue free of duplicates. *)
LEMMA DistinctAppend ==
  ASSUME NEW S, NEW s \in Seq(S), NEW e \in S, Distinct(s), e \notin Range(s)
  PROVE  Distinct(Append(s, e))
<1>1. /\ Len(Append(s, e)) = Len(s) + 1 /\ Len(s) \in Nat
      /\ \A i \in 1 .. Len(s) : Append(s, e)[i] = s[i]
      /\ Append(s, e)[Len(s) + 1] = e
  OBVIOUS
<1>2. \A i \in 1 .. Len(s) : s[i] # e
  BY DEF Range
<1> QED BY <1>1, <1>2 DEF Distinct

(* So does a shift. *)
LEMMA DistinctTail ==
  ASSUME NEW S, NEW s \in Seq(S), s # << >>, Distinct(s)
  PROVE  Distinct(Tail(s)) /\ Head(s) \notin Range(Tail(s))
<1>1. /\ Len(Tail(s)) = Len(s) - 1 /\ Len(s) \in Nat \ {0}
      /\ \A i \in 1 .. Len(Tail(s)) : Tail(s)[i] = s[i + 1]
      /\ Head(s) = s[1]
  OBVIOUS
<1>2. \A i \in 1 .. Len(Tail(s)) : s[i + 1] # s[1]
  BY <1>1 DEF Distinct
<1>3. Head(s) \notin Range(Tail(s))
  BY <1>1, <1>2 DEF Range
<1>4. Distinct(Tail(s))
  BY <1>1 DEF Distinct
<1> QED BY <1>3, <1>4
-----------------------------------------------------------------------------
(* The steps that move no operation from one place to another. *)
LEMMA OneOwnerUnmoved ==
  ASSUME OneOwner, UNCHANGED <<cqueue, op, replied, refused, op_tid>>
  PROVE  OneOwner'
<1>1. UNCHANGED <<Range(cqueue), Held>>
  BY DEF Held
<1> QED BY <1>1 DEF OneOwner

(* An operation changes hands, and is never in two. *)
LEMMA OneOwnerStep == TypeOK /\ ControlInv /\ OneOwner /\ [Next]_vars => OneOwner'
<1> SUFFICES ASSUME TypeOK, ControlInv, OneOwner, [Next]_vars PROVE OneOwner'
  OBVIOUS
<1>1. op_tid \in Nat /\ 1 .. op_tid + 1 = 1 .. op_tid \cup {op_tid + 1}
      /\ op_tid + 1 \notin 1 .. op_tid
  BY PoolAssumption DEF TypeOK
<1>2. op_tid + 1 \notin Range(cqueue) \cup Held \cup replied \cup refused
  BY <1>1 DEF OneOwner
<1>3. CASE Push
  <2>1. cqueue \in Seq(Nat) /\ op_tid + 1 \in Nat
    BY <1>1, PoolAssumption DEF TypeOK
  <2>2. Range(cqueue') = Range(cqueue) \cup {op_tid + 1}
    BY <1>3, <2>1, RangeOfAppend DEF Push
  <2>3. Distinct(cqueue')
    BY <1>2, <1>3, <2>1, DistinctAppend, SMTT(60) DEF Push, OneOwner, Distinct
  <2>4. /\ op_tid' = op_tid + 1
        /\ UNCHANGED <<op, replied, refused, Held>>
    BY <1>3 DEF Push, Held
  <2> QED BY <1>1, <1>2, <2>2, <2>3, <2>4 DEF OneOwner, Distinct
<1>4. CASE PushRefused
  <2>1. /\ op_tid' = op_tid + 1 /\ refused' = refused \cup {op_tid + 1}
        /\ UNCHANGED <<op, replied, cqueue, Held, Range(cqueue)>>
    BY <1>4 DEF PushRefused, Held
  <2> QED BY <1>1, <1>2, <2>1 DEF OneOwner
<1>5. CASE HasExpiredKeys \/ StopFlag \/ StopWithoutWorkers \/ MainStep
  BY <1>5, OneOwnerUnmoved
  DEF HasExpiredKeys, StopFlag, StopWithoutWorkers, MainStep, Signal,
      PurgeLock, PurgeUnlock, StopBroadcast, StopJoin, StartWorkers,
      ForkFailed, Exit
<1>6. ASSUME NEW w \in Worker,
             Lock(w) \/ TestExit(w) \/ Wait(w) \/ Acquire(w) \/ SpuriousWakeup(w)
      PROVE  OneOwner'
  BY <1>6, OneOwnerUnmoved
  DEF Lock, TestExit, Wait, Acquire, SpuriousWakeup, mainVars
<1>7. ASSUME NEW w \in Worker, Shift(w) PROVE OneOwner'
  <2>1. CASE cqueue = << >>
    BY <1>7, <2>1, OneOwnerUnmoved DEF Shift, mainVars
  <2>2. CASE cqueue # << >>
    <3>1. /\ op' = [op EXCEPT ![w] = Head(cqueue)] /\ cqueue' = Tail(cqueue)
          /\ UNCHANGED <<replied, refused, op_tid>>
      BY <1>7, <2>2 DEF Shift, mainVars
    <3>2. cqueue \in Seq(1 .. MaxOps) /\ Head(cqueue) \in 1 .. MaxOps
      <4>1. cqueue \in Seq(1 .. MaxOps)
        BY DEF TypeOK
      <4> QED BY <2>2, <4>1, PoolAssumption
    <3>3. Range(cqueue) = {Head(cqueue)} \cup Range(cqueue')
      BY <2>2, <3>1, <3>2, RangeOfTail
    <3>4. Distinct(cqueue') /\ Head(cqueue) \notin Range(cqueue')
      BY <2>2, <3>1, <3>2, DistinctTail DEF OneOwner, Distinct
    <3>5. op[w] = NoOp /\ Head(cqueue) # NoOp
      BY <1>7, <3>2, PoolAssumption DEF Shift, ControlInv, InHandInv
    <3>6. \A v \in Worker : op'[v] = IF v = w THEN Head(cqueue) ELSE op[v]
      BY <3>1 DEF TypeOK
    <3>7. Held' = Held \cup {Head(cqueue)}
      BY <3>5, <3>6 DEF Held
    <3>8. Head(cqueue) \notin Held
      BY <3>3 DEF OneOwner
    <3>9. \A v \in Worker : op[v] # Head(cqueue)
      BY <3>5, <3>8 DEF Held
    <3>10. \A u, v \in Worker : op'[u] = op'[v] /\ op'[u] # NoOp => u = v
      BY <3>6, <3>9 DEF OneOwner
    <3> QED BY <3>1, <3>3, <3>4, <3>7, <3>8, <3>10 DEF OneOwner, Distinct
  <2> QED BY <2>1, <2>2
<1>8. ASSUME NEW w \in Worker, Handle(w) PROVE OneOwner'
  <2>1. /\ replied' = replied \cup {op[w]} /\ op' = [op EXCEPT ![w] = NoOp]
        /\ UNCHANGED <<cqueue, refused, op_tid, Range(cqueue)>>
    BY <1>8 DEF Handle, mainVars
  <2>2. op[w] # NoOp
    BY <1>8 DEF Handle, ControlInv, InHandInv
  <2>3. \A v \in Worker : op'[v] = IF v = w THEN NoOp ELSE op[v]
    BY <2>1 DEF TypeOK
  <2>4. \A v \in Worker : v # w => op[v] # op[w]
    BY <2>2 DEF OneOwner
  <2>5. Held = Held' \cup {op[w]} /\ op[w] \notin Held'
    BY <2>2, <2>3, <2>4 DEF Held
  <2>6. \A u, v \in Worker : op'[u] = op'[v] /\ op'[u] # NoOp => u = v
    BY <2>3 DEF OneOwner
  <2> QED BY <2>1, <2>5, <2>6 DEF OneOwner
<1>9. CASE UNCHANGED vars
  BY <1>9, OneOwnerUnmoved DEF vars
<1> QED BY <1>3, <1>4, <1>5, <1>6, <1>7, <1>8, <1>9 DEF Next, WorkerStep

(***************************************************************************)
(* The event-loop thread, the queue, the workers and the replies share no  *)
(* operation and lose none, whatever the workers' interleaving and however *)
(* often stop_workers leaves operations queued for the next start_workers. *)
(***************************************************************************)
THEOREM EveryOperationHasOneOwner == Spec => []OneOwner
<1>1. Init => OneOwner
  <2> SUFFICES ASSUME Init PROVE OneOwner
    OBVIOUS
  <2>1. Range(cqueue) = {} /\ Held = {} /\ replied = {} /\ refused = {}
        /\ 1 .. op_tid = {}
    BY DEF Init, Range, Held
  <2> QED BY <2>1 DEF Init, OneOwner
<1> QED BY <1>1, OneOwnerStep, PoolInvariant, PTL DEF Spec
-----------------------------------------------------------------------------
(***************************************************************************)
(* Which lock a running handler holds follows from its operation's type.   *)
(* The type does not change under it: a Push writes the type of a new tid, *)
(* which OneOwner keeps apart from those in the workers' hands.            *)
(***************************************************************************)
HandlerInv ==
    /\ \A w \in Worker : pc[w] = "handle" =>
         /\ LockOf(type[op[w]]) = "wr" => writer = w
         /\ LockOf(type[op[w]]) = "rd" => w \in readers
    /\ writer # Free => readers = {}

(* Each type of operation asks for one kind of lock. *)
LEMMA LockCases == \A t \in OpType : /\ LockOf(t) \in {"wr", "rd", "none"}
                                     /\ t \in Mutating => LockOf(t) = "wr"
                                     /\ LockOf(t) = "none" => t = "ping"
  BY DEF LockOf, Mutating, OpType

(* Who handles an operation holds the lock it asks for. *)
LEMMA HandlerStep == TypeOK /\ ControlInv /\ OneOwner /\ HandlerInv /\ [Next]_vars
                       => HandlerInv'
<1> SUFFICES ASSUME TypeOK, ControlInv, OneOwner, HandlerInv, [Next]_vars
             PROVE  HandlerInv'
  OBVIOUS
<1> USE PoolAssumption DEF TypeOK, lockVars, mainVars
<1>1. CASE Push
  <2>1. \A w \in Worker : pc[w] = "handle" => op[w] \in 1 .. op_tid
    BY DEF OneOwner, Held, ControlInv, InHandInv
  <2>2. \A o \in 1 .. op_tid : type'[o] = type[o]
    BY <1>1 DEF Push
  <2>3. UNCHANGED <<pc, op, writer, readers>>
    BY <1>1 DEF Push
  <2>4. \A w \in Worker : pc[w] = "handle" => type'[op'[w]] = type[op[w]]
    BY <2>1, <2>2, <2>3
  <2> QED BY <2>3, <2>4 DEF HandlerInv
<1>2. CASE \/ PushRefused \/ HasExpiredKeys \/ StopFlag \/ StopWithoutWorkers
           \/ StopJoin \/ ForkFailed \/ Exit
  BY <1>2 DEF PushRefused, HasExpiredKeys, StopFlag, StopWithoutWorkers,
              StopJoin, ForkFailed, Exit, HandlerInv
<1>3. CASE Signal \/ StopBroadcast \/ StartWorkers
  BY <1>3 DEF Signal, StopBroadcast, StartWorkers, HandlerInv
<1>4. CASE PurgeLock
  BY <1>4 DEF PurgeLock, HandlerInv
<1>5. CASE PurgeUnlock
  BY <1>5 DEF PurgeUnlock, HandlerInv, ControlInv, RwlockInv
<1>6. ASSUME NEW w \in Worker,
             Lock(w) \/ TestExit(w) \/ Wait(w) \/ SpuriousWakeup(w)
      PROVE  HandlerInv'
  BY <1>6 DEF Lock, TestExit, Wait, SpuriousWakeup, HandlerInv
<1>7. ASSUME NEW w \in Worker, Shift(w) PROVE HandlerInv'
  <2>1. /\ pc[w] = "shift" /\ UNCHANGED <<writer, readers, type>>
        /\ \A v \in Worker : v # w => pc'[v] = pc[v] /\ op'[v] = op[v]
        /\ pc'[w] # "handle"
    BY <1>7 DEF Shift
  <2> QED BY <2>1 DEF HandlerInv
<1>8. ASSUME NEW w \in Worker, Acquire(w) PROVE HandlerInv'
  BY <1>8 DEF Acquire, HandlerInv, ControlInv, RwlockInv
<1>9. ASSUME NEW w \in Worker, Handle(w) PROVE HandlerInv'
  BY <1>9 DEF Handle, HandlerInv, ControlInv, RwlockInv
<1>10. CASE UNCHANGED vars
  BY <1>10 DEF vars, HandlerInv
<1> QED
  BY <1>1, <1>2, <1>3, <1>4, <1>5, <1>6, <1>7, <1>8, <1>9, <1>10
  DEF Next, MainStep, WorkerStep

(***************************************************************************)
(* A handler that changes the layers runs alone, for any number of workers *)
(* and any mix of operations: worker_do_work's choice of lock by type, and *)
(* the purge's write lock, keep all other handlers but pings out.          *)
(***************************************************************************)
THEOREM WritersRunAlone == Spec => []WriterAlone
<1>1. Init => HandlerInv
  BY DEF Init, HandlerInv
<1>2. TypeOK /\ ControlInv /\ HandlerInv => WriterAlone
  <2> SUFFICES ASSUME TypeOK, ControlInv, HandlerInv PROVE WriterAlone
    OBVIOUS
  <2>1. \A w \in Worker : pc[w] = "handle" => type[op[w]] \in OpType
    BY PoolAssumption DEF TypeOK, ControlInv, InHandInv
  <2>2. ASSUME NEW v \in Worker, NEW w \in Worker, v # w, pc[v] = "handle",
               pc[w] = "handle", type[op[v]] \in Mutating
        PROVE  type[op[w]] = "ping"
    <3>1. writer = v
      BY <2>1, <2>2, LockCases DEF HandlerInv
    <3>2. readers = {}
      BY <3>1, PoolAssumption DEF HandlerInv
    <3>3. LockOf(type[op[w]]) = "none"
      BY <2>1, <2>2, <3>1, <3>2, LockCases DEF HandlerInv
    <3> QED BY <2>1, <2>2, <3>3, LockCases
  <2>3. ASSUME NEW w \in Worker, main = "purging", pc[w] = "handle"
        PROVE  type[op[w]] = "ping"
    <3>1. writer = Main /\ Main \notin Worker /\ Main # Free
      BY <2>3, PoolAssumption DEF ControlInv, RwlockInv
    <3>2. LockOf(type[op[w]]) = "none"
      BY <2>1, <2>3, <3>1, LockCases DEF HandlerInv
    <3> QED BY <2>1, <2>3, <3>2, LockCases
  <2> QED BY <2>2, <2>3 DEF WriterAlone
<1> QED BY <1>1, <1>2, HandlerStep, EveryOperationHasOneOwner, PoolInvariant, PTL DEF Spec
=============================================================================
