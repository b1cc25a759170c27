----------------------------- MODULE WorkerPool -----------------------------
(***************************************************************************)
(* The threads of http_server.c.  The event-loop thread pushes operations  *)
(* under mtx_cqueue and signals cond_cqueue; the workers shift them under  *)
(* the same mutex, release it, take rwlock_layers as the operation's type  *)
(* asks for, run the handler, and queue the reply.  A journal rewrite, a   *)
(* slave that lost its master and a shutdown all stop the workers first.   *)
(*                                                                         *)
(* A critical section of the event-loop thread under mtx_cqueue is one     *)
(* step (it needs the mutex free); the workers' steps are as fine as the   *)
(* tests they make, because should_exit is written without the mutex.      *)
(***************************************************************************)
EXTENDS Naturals, Sequences, FiniteSets

CONSTANTS Worker,      \* the threads of thr_workers
          OpTypes,     \* the types of operations clients send
          MaxOps,      \* bound: operations clients send
          MaxStops,    \* bound: rewrites and the final shutdown
          Capacity,    \* slots of the cqueue (MaxQueuedReplies)
          NoOp,        \* a worker without an operation
          Main,        \* the event-loop thread, as a lock owner
          Free         \* a lock nobody owns

OpType == {"ping", "layers_create", "layers_delete", "layers_index",
           "records_put", "records_get", "records_delete", "search_nearby",
           "search_in_rect", "search_in_keys"}

ASSUME PoolAssumption == /\ Worker # {} /\ IsFiniteSet(Worker)
                         /\ OpTypes # {} /\ OpTypes \subseteq OpType
                         /\ MaxOps \in Nat /\ MaxStops \in Nat
                         /\ Capacity \in Nat \ {0}
                         /\ NoOp \notin Nat
                         /\ Main \notin Worker
                         /\ Free \notin Worker \cup {Main}

VARIABLES main,          \* where the event-loop thread is
          pc,            \* where each worker is
          op,            \* the copy of the operation each worker runs
          cqueue,        \* tids of the queued operations, oldest first
          mtx_cqueue,    \* its owner
          cond_cqueue,   \* the workers blocked in pthread_cond_wait
          should_exit,
          writer,        \* who holds rwlock_layers for writing
          readers,       \* who holds it for reading
          type,          \* the type of each operation, by tid
          op_tid,        \* tid of the last operation built
          replied,       \* tids whose reply is queued to the client
          refused,       \* tids answered 503: the queue was full
          stops          \* times the workers were stopped

mainVars == <<main, type, op_tid, refused, stops>>
lockVars == <<writer, readers>>
vars == <<main, pc, op, cqueue, mtx_cqueue, cond_cqueue, should_exit,
          writer, readers, type, op_tid, replied, refused, stops>>

(* Mutant: a PUT's handler run under the read lock. *)
LockOf_PutReads(t) ==
    CASE t \in {"layers_create", "layers_delete", "records_delete"} -> "wr"
      [] t = "ping" -> "none"
      [] OTHER -> "rd"

(* How worker_do_work takes rwlock_layers for each type of operation. *)
LockOf(t) ==
    CASE t \in {"layers_create", "layers_delete", "records_put",
                "records_delete"} -> "wr"
      [] t = "ping" -> "none"
      [] OTHER -> "rd"

(* The operations whose handlers change the layers or their records. *)
Mutating == {"layers_create", "layers_delete", "records_put", "records_delete"}

Range(s) == {s[i] : i \in 1 .. Len(s)}

(* Types of the state of the threads; the queue never holds more than its  *)
(* slots (push_cqueue).                                                    *)
TypeOK ==
    /\ main \in {"loop", "signal", "purge", "purging", "broadcast", "join",
                 "joined", "gone"}
    /\ pc \in [Worker -> {"lock", "stab", "shift", "wait", "blocked",
                          "acquire", "handle", "exited"}]
    /\ op \in [Worker -> 1 .. MaxOps \cup {NoOp}]
    /\ cqueue \in Seq(1 .. MaxOps) /\ Len(cqueue) <= Capacity
    /\ mtx_cqueue \in Worker \cup {Free}
    /\ cond_cqueue \subseteq Worker
    /\ should_exit \in BOOLEAN
    /\ writer \in Worker \cup {Main, Free}
    /\ readers \subseteq Worker
    /\ type \in [1 .. MaxOps -> OpTypes]
    /\ op_tid \in 0 .. MaxOps
    /\ replied \subseteq 1 .. MaxOps
    /\ refused \subseteq 1 .. MaxOps
    /\ stops \in 0 .. MaxStops

Init ==
    /\ main = "loop"
    /\ pc = [w \in Worker |-> "lock"]
    /\ op = [w \in Worker |-> NoOp]
    /\ cqueue = << >>
    /\ mtx_cqueue = Free
    /\ cond_cqueue = {}
    /\ should_exit = FALSE
    /\ writer = Free /\ readers = {}
    /\ type = [o \in 1 .. MaxOps |-> CHOOSE t \in OpTypes : TRUE]
    /\ op_tid = 0
    /\ replied = {} /\ refused = {}
    /\ stops = 0
-----------------------------------------------------------------------------
(* The event-loop thread *)

(* Mutant: push_cqueue's refusal ignored. *)
Push_NoFullTest ==
    /\ main = "loop" /\ mtx_cqueue = Free
    /\ op_tid < MaxOps
    /\ op_tid' = op_tid + 1
    /\ \E t \in OpTypes : type' = [type EXCEPT ![op_tid + 1] = t]
    /\ cqueue' = Append(cqueue, op_tid + 1)
    /\ main' = "signal"
    /\ UNCHANGED <<pc, op, mtx_cqueue, cond_cqueue, should_exit, lockVars,
                   replied, refused, stops>>

(* A domain handler built an Op and pushed it; the signal comes later. *)
Push == /\ main = "loop" /\ mtx_cqueue = Free
        /\ op_tid < MaxOps
        /\ Len(cqueue) < Capacity
        /\ op_tid' = op_tid + 1
        /\ \E t \in OpTypes : type' = [type EXCEPT ![op_tid + 1] = t]
        /\ cqueue' = Append(cqueue, op_tid + 1)
        /\ main' = "signal"
        /\ UNCHANGED <<pc, op, mtx_cqueue, cond_cqueue, should_exit, lockVars,
                       replied, refused, stops>>

PushRefused == /\ main = "loop" /\ mtx_cqueue = Free
               /\ op_tid < MaxOps
               /\ Len(cqueue) = Capacity
               /\ op_tid' = op_tid + 1
               /\ refused' = refused \cup {op_tid + 1}
               /\ UNCHANGED <<main, pc, op, cqueue, mtx_cqueue, cond_cqueue,
                              should_exit, lockVars, type, replied, stops>>

(* Mutant: no pthread_cond_signal after the push. *)
Signal_Forgotten ==
    /\ main = "signal"
    /\ main' = "loop"
    /\ UNCHANGED <<pc, cond_cqueue, op, cqueue, mtx_cqueue, should_exit,
                   lockVars, type, op_tid, replied, refused, stops>>

(* pthread_cond_signal unblocks one of the waiting workers, if there are. *)
Signal ==
    /\ main = "signal"
    /\ main' = "loop"
    /\ \/ cond_cqueue = {} /\ UNCHANGED <<pc, cond_cqueue>>
       \/ \E w \in cond_cqueue :
            /\ cond_cqueue' = cond_cqueue \ {w}
            /\ pc' = [pc EXCEPT ![w] = "lock"]
    /\ UNCHANGED <<op, cqueue, mtx_cqueue, should_exit, lockVars, type,
                   op_tid, replied, refused, stops>>

(***************************************************************************)
(* purge_expired_keys, run by the timer: has_expired_keys under the read   *)
(* lock, and when a record has expired, the purge under the write lock.    *)
(***************************************************************************)
HasExpiredKeys == /\ main = "loop" /\ writer = Free
                  /\ main' = "purge"
                  /\ UNCHANGED <<pc, op, cqueue, mtx_cqueue, cond_cqueue,
                                 should_exit, lockVars, type, op_tid, replied,
                                 refused, stops>>

PurgeLock == /\ main = "purge"
             /\ writer = Free /\ readers = {}
             /\ writer' = Main
             /\ main' = "purging"
             /\ UNCHANGED <<pc, op, cqueue, mtx_cqueue, cond_cqueue,
                            should_exit, readers, type, op_tid, replied,
                            refused, stops>>

PurgeUnlock == /\ main = "purging"
               /\ writer' = Free
               /\ main' = "loop"
               /\ UNCHANGED <<pc, op, cqueue, mtx_cqueue, cond_cqueue,
                              should_exit, readers, type, op_tid, replied,
                              refused, stops>>

(* stop_workers: the flag, the broadcast, then a join per worker.  Neither *)
(* the flag nor the broadcast is under mtx_cqueue.                         *)
StopFlag == /\ main = "loop" /\ ~should_exit
            /\ stops < MaxStops
            /\ stops' = stops + 1
            /\ should_exit' = TRUE
            /\ main' = "broadcast"
            /\ UNCHANGED <<pc, op, cqueue, mtx_cqueue, cond_cqueue, lockVars,
                           type, op_tid, replied, refused>>

(***************************************************************************)
(* A fork that failed left the loop without workers, should_exit set and   *)
(* thr_workers NULL.  The next stop_workers reads its threads from there,  *)
(* which ends the process.                                                 *)
(***************************************************************************)
StopWithoutWorkers ==
    /\ main = "loop" /\ should_exit
    /\ stops < MaxStops
    /\ stops' = stops + 1
    /\ main' = "gone"
    /\ UNCHANGED <<pc, op, cqueue, mtx_cqueue, cond_cqueue, should_exit,
                   lockVars, type, op_tid, replied, refused>>

StopBroadcast ==
    /\ main = "broadcast"
    /\ main' = "join"
    /\ pc' = [w \in Worker |-> IF w \in cond_cqueue THEN "lock" ELSE pc[w]]
    /\ cond_cqueue' = {}
    /\ UNCHANGED <<op, cqueue, mtx_cqueue, should_exit, lockVars, type,
                   op_tid, replied, refused, stops>>

(* Mutant: only one of the workers is joined. *)
StopJoin_OneWorker ==
    /\ main = "join"
    /\ \E w \in Worker : pc[w] = "exited"
    /\ main' = "joined"
    /\ UNCHANGED <<pc, op, cqueue, mtx_cqueue, cond_cqueue, should_exit,
                   lockVars, type, op_tid, replied, refused, stops>>

StopJoin == /\ main = "join"
            /\ \A w \in Worker : pc[w] = "exited"
            /\ main' = "joined"
            /\ UNCHANGED <<pc, op, cqueue, mtx_cqueue, cond_cqueue,
                           should_exit, lockVars, type, op_tid, replied,
                           refused, stops>>

(* After a rewrite forked its child: start_workers. *)
StartWorkers == /\ main = "joined"
                /\ should_exit' = FALSE
                /\ pc' = [w \in Worker |-> "lock"]
                /\ main' = "loop"
                /\ UNCHANGED <<op, cqueue, mtx_cqueue, cond_cqueue, lockVars,
                               type, op_tid, replied, refused, stops>>

(* The rewrite's fork failed: its request is answered 503, and the event   *)
(* loop goes on without start_workers.                                     *)
ForkFailed == /\ main = "joined"
              /\ main' = "loop"
              /\ UNCHANGED <<pc, op, cqueue, mtx_cqueue, cond_cqueue,
                             should_exit, lockVars, type, op_tid, replied,
                             refused, stops>>

(* After a shutdown (or the loss of a slave's master): the process ends. *)
Exit == /\ main = "joined"
        /\ main' = "gone"
        /\ UNCHANGED <<pc, op, cqueue, mtx_cqueue, cond_cqueue, should_exit,
                       lockVars, type, op_tid, replied, refused, stops>>

MainStep == Signal \/ PurgeLock \/ PurgeUnlock \/ StopBroadcast \/ StopJoin
            \/ StartWorkers \/ ForkFailed \/ Exit
-----------------------------------------------------------------------------
(* A worker: worker_do_work, over and over *)

Lock(w) == /\ pc[w] = "lock" /\ mtx_cqueue = Free
           /\ mtx_cqueue' = w
           /\ pc' = [pc EXCEPT ![w] = "stab"]
           /\ UNCHANGED <<mainVars, op, cqueue, cond_cqueue, should_exit,
                          lockVars, replied>>

(* stab: a worker leaves, even with operations queued, once it is told to. *)
TestExit(w) == /\ pc[w] = "stab"
               /\ \/ /\ should_exit
                     /\ mtx_cqueue' = Free
                     /\ pc' = [pc EXCEPT ![w] = "exited"]
                  \/ /\ ~should_exit
                     /\ pc' = [pc EXCEPT ![w] = "shift"]
                     /\ UNCHANGED mtx_cqueue
               /\ UNCHANGED <<mainVars, op, cqueue, cond_cqueue, should_exit,
                              lockVars, replied>>

(* Mutant: the operation is copied out but stays in the queue. *)
Shift_Peeks(w) ==
    /\ pc[w] = "shift"
    /\ \/ /\ cqueue # << >>
          /\ op' = [op EXCEPT ![w] = Head(cqueue)]
          /\ mtx_cqueue' = Free
          /\ pc' = [pc EXCEPT ![w] = "acquire"]
          /\ UNCHANGED cqueue
       \/ /\ cqueue = << >>
          /\ pc' = [pc EXCEPT ![w] = "wait"]
          /\ UNCHANGED <<op, cqueue, mtx_cqueue>>
    /\ UNCHANGED <<mainVars, cond_cqueue, should_exit, lockVars, replied>>

Shift(w) == /\ pc[w] = "shift"
            /\ \/ /\ cqueue # << >>
                  /\ op' = [op EXCEPT ![w] = Head(cqueue)]
                  /\ cqueue' = Tail(cqueue)
                  /\ mtx_cqueue' = Free
                  /\ pc' = [pc EXCEPT ![w] = "acquire"]
               \/ /\ cqueue = << >>
                  /\ pc' = [pc EXCEPT ![w] = "wait"]
                  /\ UNCHANGED <<op, cqueue, mtx_cqueue>>
            /\ UNCHANGED <<mainVars, cond_cqueue, should_exit, lockVars,
                           replied>>

(* pthread_cond_wait releases the mutex and blocks in one step. *)
Wait(w) == /\ pc[w] = "wait"
           /\ mtx_cqueue' = Free
           /\ cond_cqueue' = cond_cqueue \cup {w}
           /\ pc' = [pc EXCEPT ![w] = "blocked"]
           /\ UNCHANGED <<mainVars, op, cqueue, should_exit, lockVars,
                          replied>>

(* POSIX lets pthread_cond_wait return without a signal. *)
SpuriousWakeup(w) == /\ pc[w] = "blocked"
                     /\ cond_cqueue' = cond_cqueue \ {w}
                     /\ pc' = [pc EXCEPT ![w] = "lock"]
                     /\ UNCHANGED <<mainVars, op, cqueue, mtx_cqueue,
                                    should_exit, lockVars, replied>>

(* pthread_rwlock_rdlock or wrlock, as worker_do_work picks by op type. *)
Acquire(w) ==
    /\ pc[w] = "acquire"
    /\ \/ /\ LockOf(type[op[w]]) = "wr" /\ writer = Free /\ readers = {}
          /\ writer' = w /\ UNCHANGED readers
       \/ /\ LockOf(type[op[w]]) = "rd" /\ writer = Free
          /\ readers' = readers \cup {w} /\ UNCHANGED writer
       \/ /\ LockOf(type[op[w]]) = "none" /\ UNCHANGED lockVars
    /\ pc' = [pc EXCEPT ![w] = "handle"]
    /\ UNCHANGED <<mainVars, op, cqueue, mtx_cqueue, cond_cqueue,
                   should_exit, replied>>

(* The handler and its reply (an error reply when it fails), then unlock. *)
Handle(w) ==
    /\ pc[w] = "handle"
    /\ replied' = replied \cup {op[w]}
    /\ writer' = IF writer = w THEN Free ELSE writer
    /\ readers' = readers \ {w}
    /\ op' = [op EXCEPT ![w] = NoOp]
    /\ pc' = [pc EXCEPT ![w] = "lock"]
    /\ UNCHANGED <<mainVars, cqueue, mtx_cqueue, cond_cqueue, should_exit>>

WorkerStep(w) == \/ Lock(w) \/ TestExit(w) \/ Shift(w) \/ Wait(w)
                 \/ Acquire(w) \/ Handle(w)

Next == \/ Push \/ PushRefused \/ HasExpiredKeys \/ StopFlag
        \/ StopWithoutWorkers \/ MainStep
        \/ \E w \in Worker : WorkerStep(w) \/ SpuriousWakeup(w)

Spec == Init /\ [][Next]_vars

(***************************************************************************)
(* Each thread keeps running what it started: the scheduler runs every     *)
(* runnable thread.  A worker that waits for a lock gets it when the lock  *)
(* is free again and again: the event-loop thread purges once a second at  *)
(* most and no thread keeps a lock.  New requests, timer ticks, stops and  *)
(* spurious wake-ups are not owed to anyone.                               *)
(***************************************************************************)
FairSpec == /\ Spec
            /\ WF_vars(MainStep)
            /\ \A w \in Worker : /\ WF_vars(WorkerStep(w))
                                 /\ SF_vars(Lock(w))
                                 /\ SF_vars(Acquire(w))
-----------------------------------------------------------------------------
Held == {op[w] : w \in Worker} \ {NoOp}

(***************************************************************************)
(* An operation accepted into the queue is in one place only: queued,      *)
(* copied out by one worker, or replied to, however workers are stopped    *)
(* and restarted in between; no operation is run twice or dropped.         *)
(***************************************************************************)
OneOwner ==
    /\ Range(cqueue) \cup Held \cup replied \cup refused = 1 .. op_tid
    /\ \A i, j \in 1 .. Len(cqueue) : i # j => cqueue[i] # cqueue[j]
    /\ \A v, w \in Worker : op[v] = op[w] /\ op[v] # NoOp => v = w
    /\ Range(cqueue) \cap Held = {}
    /\ (Range(cqueue) \cup Held) \cap replied = {}
    /\ (Range(cqueue) \cup Held \cup replied) \cap refused = {}

(***************************************************************************)
(* Operations are never stranded: with the queue not empty and no exit     *)
(* asked for, a signal is on its way or a worker is awake to find it.      *)
(***************************************************************************)
NotStranded ==
    cqueue # << >> /\ ~should_exit
      => main = "signal" \/ \E w \in Worker : pc[w] \notin {"blocked", "exited"}

(***************************************************************************)
(* When stop_workers returns, the process can be forked or torn down: the  *)
(* workers hold neither lock and no operation is half done, so the child's *)
(* copy of the layers is what some prefix of the operations produced.      *)
(***************************************************************************)
QuiescentWhenJoined ==
    main \in {"joined", "gone"}
      => mtx_cqueue = Free /\ writer = Free /\ readers = {} /\ Held = {}

(***************************************************************************)
(* A handler that changes the layers runs alone: no other handler, and not *)
(* the purge of expired records, overlaps with it.                         *)
(***************************************************************************)
WriterAlone ==
    /\ \A v, w \in Worker :
         /\ v # w /\ pc[v] = "handle" /\ pc[w] = "handle"
         /\ type[op[v]] \in Mutating
         => type[op[w]] = "ping"
    /\ \A w \in Worker :
         main = "purging" /\ pc[w] = "handle" => type[op[w]] = "ping"

(* The workers were stopped for a rewrite whose fork failed: the loop runs *)
(* and nobody serves the queue, from here on.                              *)
Deserted == should_exit /\ main \in {"loop", "signal", "purge", "purging"}

(***************************************************************************)
(* Every accepted operation is replied to, except when the process ends,   *)
(* when the event-loop thread never comes back from stop_workers, and when *)
(* a rewrite failed to fork: the loop then accepts and queues operations   *)
(* (until the queue is full) that no worker will ever take.                *)
(***************************************************************************)
EveryOpReplied ==
    \A o \in 1 .. MaxOps :
      o \in Range(cqueue) ~> \/ o \in replied
                             \/ [](Deserted \/ main \in {"join", "gone"})

(***************************************************************************)
(* stop_workers returns.  system.feature's shutdown scenario expects it:   *)
(* "Then Pincaster is dead".                                               *)
(***************************************************************************)
StopReturns == main = "join" ~> main # "join"
=============================================================================
