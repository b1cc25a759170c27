------------------------------- MODULE Server -------------------------------
(***************************************************************************)
(* A Pincaster process and its journal.  The event-loop thread pushes a    *)
(* request's operation to the queue, then appends it to log_buffer         *)
(* (add_to_db_log), and sends the replies the workers produced; workers    *)
(* shift an operation and then run its handler under rwlock_layers, in     *)
(* whichever order they get the lock.  log_buffer reaches the journal file *)
(* at once (FsyncPeriod 0), on a timer (FsyncPeriod > 0) or only when the  *)
(* process stops or rewrites the journal (FsyncPeriod -1).  A rewrite      *)
(* forks a child that dumps its copy of the layers into a new journal; at  *)
(* SIGCHLD the parent appends what it logged since the fork and renames    *)
(* the new journal over the old one.  The process may be killed at any     *)
(* point, also in the middle of a write, and then replays the journal.     *)
(*                                                                         *)
(* The locks are those of WorkerPool, where stop_workers is detailed; the  *)
(* queue is CQueue's.  A journal is a sequence of operations; Torn stands  *)
(* for a record of which only the beginning was written.                   *)
(***************************************************************************)
EXTENDS Store

CONSTANTS Worker,        \* worker threads
          Request,       \* the operations clients may ask for
          Oversized,     \* the requests among them over DB_LOG_MAX_BODY_LEN
          FsyncPeriod,   \* FsyncPeriod of pincaster.conf
          JournalBufferSize, \* JournalBufferSize of pincaster.conf, in records
          Capacity,      \* slots of the cqueue (MaxQueuedReplies)
          PromptParent,  \* the parent of a fork runs its next two statements
                         \* before the child has dumped the layers
          ForkMayFail,   \* fork() may return -1
          DumpMayFail,   \* the child may fail to write the whole dump
          WriteMayFail,  \* a write to the journal may fail
          NoOp,          \* no operation
          NoProcess,     \* (pid_t) -1: no rewrite going on
          Child,         \* the pid of a rewriting child
          Torn,          \* an incomplete record of the journal
          MaxOps,        \* bound: requests
          MaxCrashes,    \* bound: kills and shutdowns of the process
          MaxRewrites,   \* bound: journal rewrites
          MaxTime        \* bound: clock

ASSUME ServerAssumption == /\ Worker # {} /\ Capacity \in Nat \ {0}
                           /\ FsyncPeriod \in Int /\ FsyncPeriod >= -1
                           /\ JournalBufferSize \in Nat
                           /\ {PromptParent, ForkMayFail, DumpMayFail, WriteMayFail}
                                \subseteq BOOLEAN
                           /\ Oversized \subseteq Request
                           /\ NoProcess # Child
                           /\ {MaxOps, MaxCrashes, MaxRewrites} \subseteq Nat
                           /\ MaxTime \in Nat \ {0}

(* A request is a record whose tid is still to be given. *)
ASSUME RequestAssumption ==
    \A r \in Request :
       /\ {"tid", "type", "layer"} \subseteq DOMAIN r /\ r.layer \in Layer
       /\ r.type \in {"layers_create", "layers_delete", "records_put", "records_delete"}
       /\ r.type \in {"records_put", "records_delete"} => "key" \in DOMAIN r /\ r.key \in Key
       /\ r.type = "records_put" =>
            /\ {"special", "properties", "position", "expires_at"} \subseteq DOMAIN r
            /\ Len(r.special) \in Nat
            /\ \A i \in 1 .. Len(r.special) :
                  r.special[i].do \in {"delete", "delete_all", "add_int"}
       /\ \A t \in 1 .. MaxOps : [r EXCEPT !.tid = t] \notin {NoOp, Torn}

VARIABLES
    \* the process's memory
    db,            \* the layers and their records
    cqueue,        \* queued operations
    op,            \* the operation each worker shifted and has not run yet
    workers,       \* up, or stopped by stop_workers
    main,          \* what the event-loop thread is doing
    pending,       \* the operation it pushed and has not logged yet
    op_tid,        \* tid of the last operation (here it survives restarts)
    replies,       \* replies queued to the event-loop thread
    log_buffer,    \* logged operations not written yet
    rewriter,      \* journal_rewrite_process
    fork_offset,   \* offset_before_fork, in records, -1 before the first fork
    \* files and other processes
    file,          \* the records of the journal
    offset,        \* file offset of db_log_fd, in records
    child,         \* the rewriting child: none, running or its exit
    dump,          \* the new journal it writes
    now,           \* the clock
    \* history
    acked,         \* tids of the operations replied to
    applied,       \* tids whose effect db has
    dumped,        \* tids whose effect the dump has
    queued,        \* tids logged before the fork that the dump has not: they
                   \* were queued, or the dump is damaged
    cut,           \* the dump was cut short
    held,          \* tids whose effect the dump at the head of the file has
    lost,          \* the queued of the forks whose dump replaced the journal,
                   \* what a restart found behind a torn record, and what
                   \* add_to_db_log refused
    unread,        \* the process started with a file of so many records,
                   \* the last of which it did not read (0: it read all)
    damaged,       \* a dump that was cut short replaced the journal that
                   \* this process read, or one with unread records behind it
    crashes, rewrites

memVars == <<db, cqueue, op, workers, main, pending, op_tid, replies, log_buffer,
             rewriter, fork_offset>>
fileVars == <<file, offset>>
childVars == <<child, dump, dumped, queued, cut>>
histVars == <<acked, applied, held, lost, unread, damaged, crashes, rewrites>>
vars == <<memVars, fileVars, childVars, histVars, now>>

Tids(ops) == {ops[i].tid : i \in DOMAIN ops}

(* A record whose URI process_request refuses: only a dump has such ones.  *)
Refused(o) == o # Torn /\ o.type = "records_put" /\ o.key = NoKey

(* replay_log reads records up to the first one it cannot parse, or that   *)
(* fake_request cannot get accepted.                                       *)
Readable(journal) ==
    LET bad == {i \in DOMAIN journal : journal[i] = Torn \/ Refused(journal[i])}
    IN  IF bad = {} THEN journal ELSE SubSeq(journal, 1, Min(bad) - 1)

(* It is the latter: fake_request tries such a record again forever. *)
Stuck(journal) ==
    LET n == Len(Readable(journal)) + 1
    IN  n \in DOMAIN journal /\ Refused(journal[n])

(* The tids of a journal's records, torn ones and those of a dump aside. *)
Complete(journal) ==
    {journal[i].tid : i \in {j \in DOMAIN journal : journal[j] # Torn}} \ {0}

Replay(journal) == ApplyAll(EmptyDB, Readable(journal))

Init ==
    /\ db = EmptyDB /\ cqueue = << >> /\ op = [w \in Worker |-> NoOp]
    /\ workers = "up" /\ main = "loop" /\ pending = NoOp /\ op_tid = 0 /\ replies = {}
    /\ log_buffer = << >> /\ rewriter = NoProcess /\ fork_offset = -1
    /\ file = << >> /\ offset = 0
    /\ child = "none" /\ dump = << >> /\ dumped = {} /\ queued = {} /\ cut = FALSE
    /\ now = 1
    /\ acked = {} /\ applied = {} /\ held = {} /\ lost = {}
    /\ unread = 0 /\ damaged = FALSE
    /\ crashes = 0 /\ rewrites = 0
-----------------------------------------------------------------------------
(* Requests *)

(* process_api_request up to the push; a full queue answers 503. *)
Dispatch(r) ==
    /\ main = "loop" /\ op_tid < MaxOps
    /\ op_tid' = op_tid + 1
    /\ IF Len(cqueue) < Capacity
       THEN /\ pending' = [r EXCEPT !.tid = op_tid + 1]
            /\ cqueue' = Append(cqueue, pending')
            /\ main' = "log"
       ELSE UNCHANGED <<pending, cqueue, main>>
    /\ UNCHANGED <<db, op, workers, replies, log_buffer, rewriter, fork_offset,
                   fileVars, childVars, histVars, now>>

(* evbuffer_write: the first n records of buffer leave it for the file,    *)
(* which is opened with O_APPEND.                                          *)
Write(buffer, n) ==
    /\ file' = file \o SubSeq(buffer, 1, n)
    /\ offset' = IF n = 0 THEN offset ELSE Len(file')
    /\ log_buffer' = SubSeq(buffer, n + 1, Len(buffer))

(***************************************************************************)
(* flush_db_log(sync) with buffer in log_buffer: without sync it decides   *)
(* to write 0 bytes; with sync it writes everything and calls fdatasync,   *)
(* or returns at the first write that fails, which no caller looks at.     *)
(***************************************************************************)
FlushDbLog(sync, buffer) ==
    \/ Write(buffer, IF sync THEN Len(buffer) ELSE 0)
    \/ /\ sync /\ WriteMayFail
       /\ \E n \in 0 .. Len(buffer) - 1 : Write(buffer, n)

(* add_to_db_log refuses an oversized request. *)
Logged(o) == [o EXCEPT !.tid = 0] \notin Oversized

(* Mutant: a record that does not fit the buffer is written on its own. *)
AddToDbLog_WriteThrough ==
    /\ main = "log"
    /\ main' = "loop"
    /\ pending' = NoOp
    /\ IF Len(log_buffer) < JournalBufferSize
       THEN log_buffer' = Append(log_buffer, pending) /\ UNCHANGED fileVars
       ELSE /\ file' = Append(file, pending) /\ offset' = Len(file')
            /\ UNCHANGED log_buffer
    /\ UNCHANGED <<db, cqueue, op, workers, op_tid, replies, rewriter,
                   fork_offset, childVars, histVars, now>>

(***************************************************************************)
(* The rest of process_api_request: add_to_db_log, which refuses an        *)
(* oversized request, flushes with sync when FsyncPeriod is 0, and         *)
(* otherwise without sync once the buffer is over its size.                *)
(***************************************************************************)
AddToDbLog ==
    /\ main = "log"
    /\ main' = "loop"
    /\ pending' = NoOp
    /\ LET buffer == Append(log_buffer, pending)
       IN  IF ~Logged(pending)
           THEN UNCHANGED <<log_buffer, fileVars>>
           ELSE IF FsyncPeriod = 0 THEN FlushDbLog(TRUE, buffer)
           ELSE IF Len(buffer) > JournalBufferSize THEN FlushDbLog(FALSE, buffer)
           ELSE log_buffer' = buffer /\ UNCHANGED fileVars
    /\ lost' = IF Logged(pending) THEN lost ELSE lost \cup {pending.tid}
    /\ UNCHANGED <<db, cqueue, op, workers, op_tid, replies, rewriter,
                   fork_offset, childVars, acked, applied, held, unread, damaged, crashes,
                   rewrites, now>>

(* Mutant: the timer flushes without sync. *)
FlushLogDb_NoSync ==
    /\ main = "loop" /\ FsyncPeriod > 0 /\ log_buffer # << >>
    /\ FlushDbLog(FALSE, log_buffer)
    /\ UNCHANGED <<db, cqueue, op, workers, main, pending, op_tid,
                   replies, rewriter, fork_offset, childVars, histVars, now>>

(* The timer of flush_log_db, there when FsyncPeriod > 0; it is armed      *)
(* again whether the flush succeeded or not.                               *)
FlushLogDb == /\ main = "loop" /\ FsyncPeriod > 0 /\ log_buffer # << >>
              /\ FlushDbLog(TRUE, log_buffer)
              /\ UNCHANGED <<db, cqueue, op, workers, main, pending, op_tid,
                             replies, rewriter, fork_offset, childVars,
                             histVars, now>>

(* A worker copies an operation out of the queue; none does while main     *)
(* waits for them to exit.                                                 *)
Shift(w) == /\ op[w] = NoOp /\ cqueue # << >> /\ workers = "up"
            /\ op' = [op EXCEPT ![w] = Head(cqueue)]
            /\ cqueue' = Tail(cqueue)
            /\ UNCHANGED <<db, workers, main, pending, op_tid, replies, log_buffer,
                           rewriter, fork_offset, fileVars, childVars,
                           histVars, now>>

(* It gets rwlock_layers, runs the handler, and queues the reply. *)
Handle(w) == /\ op[w] # NoOp
             /\ db' = Apply(db, op[w])
             /\ applied' = applied \cup {op[w].tid}
             /\ replies' = replies \cup {op[w].tid}
             /\ op' = [op EXCEPT ![w] = NoOp]
             /\ UNCHANGED <<cqueue, workers, main, pending, op_tid, log_buffer,
                            rewriter, fork_offset, fileVars, childVars, acked,
                            held, lost, unread, damaged, crashes, rewrites, now>>

(* Mutant: the workers send the replies themselves. *)
ConsumerCb_AnyThread ==
    /\ replies # {}
    /\ acked' = acked \cup replies
    /\ replies' = {}
    /\ UNCHANGED <<db, cqueue, op, workers, main, pending, op_tid, log_buffer,
                   rewriter, fork_offset, fileVars, childVars,
                   applied, held, lost, unread, damaged, crashes, rewrites,
                             now>>

(* consumer_cb, in the event loop: the HTTP replies. *)
ConsumerCb == /\ main = "loop" /\ replies # {}
              /\ acked' = acked \cup replies
              /\ replies' = {}
              /\ UNCHANGED <<db, cqueue, op, workers, main, pending, op_tid, log_buffer,
                             rewriter, fork_offset, fileVars, childVars,
                             applied, held, lost, unread, damaged, crashes, rewrites,
                             now>>

(* The clock, and expiration_cron once it has moved past a record's date. *)
Tick == /\ now < MaxTime
        /\ now' = now + 1
        /\ UNCHANGED <<memVars, fileVars, childVars, histVars>>

ExpirationCron == /\ main = "loop" /\ Purge(db, now) # db
                  /\ db' = Purge(db, now)
                  /\ UNCHANGED <<cqueue, op, workers, main, pending, op_tid, replies,
                                 log_buffer, rewriter, fork_offset, fileVars,
                                 childVars, histVars, now>>
-----------------------------------------------------------------------------
(* Rewriting the journal: handle_special_op_system_rewrite *)

(* 304 while a rewrite goes on; otherwise stop_workers begins.  (Without   *)
(* workers, after a failed fork, joining them kills the process: a Crash.) *)
Rewrite == /\ main = "loop" /\ rewrites < MaxRewrites
           /\ rewriter = NoProcess /\ workers = "up"
           /\ rewrites' = rewrites + 1
           /\ main' = "rewrite" /\ workers' = "stopped"
           /\ UNCHANGED <<db, cqueue, op, pending, op_tid, replies, log_buffer,
                          rewriter, fork_offset, fileVars, childVars, acked,
                          applied, held, lost, unread, damaged, crashes, now>>

(* The workers are joined: flush, fork.  The child has a copy of db. *)
Fork == /\ main = "rewrite"
        /\ \A w \in Worker : op[w] = NoOp
        /\ FlushDbLog(TRUE, log_buffer)
        /\ child' = "running" /\ dump' = Dump(db)
        /\ dumped' = applied /\ queued' = Tids(cqueue) \ Tids(log_buffer')
        /\ cut' = FALSE
        /\ main' = "set_pid"
        /\ UNCHANGED <<db, cqueue, op, workers, pending, op_tid, replies,
                       rewriter, fork_offset, histVars, now>>

(* 503 when fork() fails: the workers stay stopped. *)
ForkFailed == /\ ForkMayFail /\ main = "rewrite"
              /\ \A w \in Worker : op[w] = NoOp
              /\ FlushDbLog(TRUE, log_buffer)
              /\ main' = "loop"
              /\ UNCHANGED <<db, cqueue, op, workers, pending, op_tid, replies,
                             rewriter, fork_offset, childVars, histVars, now>>

(* The parent records the child's pid ... *)
SetPid == /\ main = "set_pid"
          /\ rewriter' = Child
          /\ main' = "set_offset"
          /\ UNCHANGED <<db, cqueue, op, workers, pending, op_tid, replies,
                         log_buffer, fork_offset, fileVars, childVars,
                         histVars, now>>

(* Mutant: the offset is not taken again for a second rewrite. *)
SetOffset_OnlyOnce ==
    /\ main = "set_offset"
    /\ fork_offset' = IF fork_offset = -1 THEN offset ELSE fork_offset
    /\ main' = "loop" /\ workers' = "up"
    /\ UNCHANGED <<db, cqueue, op, pending, op_tid, replies,
                   log_buffer, rewriter, fileVars, childVars, histVars, now>>

(* ... and its journal's offset, restarts the workers and replies. *)
SetOffset == /\ main = "set_offset"
             /\ fork_offset' = offset
             /\ main' = "loop" /\ workers' = "up"
             /\ UNCHANGED <<db, cqueue, op, pending, op_tid, replies,
                            log_buffer, rewriter, fileVars, childVars,
                            histVars, now>>

(* rewrite_child ends with _exit(0), or is killed before that. *)
ChildExit == /\ child = "running"
             /\ PromptParent => main \notin {"set_pid", "set_offset"}
             /\ child' \in {"exited", "killed"}
             /\ UNCHANGED <<memVars, fileVars, dump, dumped, queued, cut,
                            histVars, now>>

(* A dump that is cut short, possibly inside a record, because a write     *)
(* failed: rebuild_journal ignores it, and the child exits with 0 too.     *)
DamagedDump ==
    /\ DumpMayFail /\ child = "running"
    /\ PromptParent => main \notin {"set_pid", "set_offset"}
    /\ child' = "exited"
    /\ \E n \in 0 .. Len(dump) - 1 :
         dump' \in {SubSeq(dump, 1, n), Append(SubSeq(dump, 1, n), Torn)}
    /\ dumped' = {} /\ queued' = queued \cup dumped /\ cut' = TRUE
    /\ UNCHANGED <<memVars, fileVars, histVars, now>>

(* sigchld_cb skips a child that did not exit with 0. *)
SigchldKilled == /\ child = "killed"
                 /\ child' = "none"
                 /\ UNCHANGED <<memVars, fileVars, dump, dumped, queued,
                                cut, histVars, now>>

(* What the parent logged since the fork. *)
SinceFork == SubSeq(file, fork_offset + 1, Len(file))

(* Mutant: db_log_fd keeps its offset when it gets the new journal. *)
Sigchld_KeepsOffset ==
    /\ child = "exited" /\ rewriter = Child /\ fork_offset # -1
    /\ file' = dump \o SinceFork
    /\ UNCHANGED offset
    /\ held' = dumped
    /\ lost' = lost \cup queued
    /\ unread' = 0 /\ damaged' = (cut \/ fork_offset < unread)
    /\ rewriter' = NoProcess
    /\ child' = "none" /\ dump' = << >> /\ dumped' = {} /\ queued' = {} /\ cut' = FALSE
    /\ UNCHANGED <<db, cqueue, op, workers, main, pending, op_tid, replies,
                   log_buffer, fork_offset, acked, applied, crashes, rewrites,
                   now>>

(***************************************************************************)
(* system_rewrite_after_fork_cb: what was logged since the fork goes to    *)
(* the end of the new journal, which replaces the old one.  Its file       *)
(* offset only moves when there was something to append.                   *)
(***************************************************************************)
Sigchld ==
    /\ child = "exited" /\ rewriter = Child /\ fork_offset # -1
    /\ file' = dump \o SinceFork
    /\ offset' = IF SinceFork = << >> THEN 0 ELSE Len(file')
    /\ held' = dumped
    /\ lost' = lost \cup queued
    /\ unread' = 0 /\ damaged' = (cut \/ fork_offset < unread)
    /\ rewriter' = NoProcess
    /\ child' = "none" /\ dump' = << >> /\ dumped' = {} /\ queued' = {} /\ cut' = FALSE
    /\ UNCHANGED <<db, cqueue, op, workers, main, pending, op_tid, replies,
                   log_buffer, fork_offset, acked, applied, crashes, rewrites,
                   now>>

(* Mutant: a rewrite that cannot be used leaves journal_rewrite_process. *)
SwapRefused_KeepsPid ==
    /\ child = "exited" /\ rewriter = Child /\ fork_offset # -1
    /\ offset' = Len(file)
    /\ child' = "none" /\ dump' = << >> /\ dumped' = {} /\ queued' = {} /\ cut' = FALSE
    /\ UNCHANGED <<db, cqueue, op, workers, main, pending, op_tid, replies,
                   log_buffer, rewriter, fork_offset, file, histVars, now>>

(* It gives the new journal up when rename() fails, when a slave downloads *)
(* the old one, or when what was logged since the fork cannot be copied    *)
(* (here within one TMP_LOG_BUFFER_SIZE, after which the offset is at the  *)
(* end).  When the new journal cannot be reopened it is unlinked: copying  *)
(* to descriptor -1 fails, or, with nothing to copy, rename() does.        *)
SwapRefused ==
    /\ child = "exited" /\ rewriter = Child /\ fork_offset # -1
    /\ offset' = Len(file)
    /\ rewriter' = NoProcess
    /\ child' = "none" /\ dump' = << >> /\ dumped' = {} /\ queued' = {} /\ cut' = FALSE
    /\ UNCHANGED <<db, cqueue, op, workers, main, pending, op_tid, replies,
                   log_buffer, fork_offset, file, histVars, now>>
-----------------------------------------------------------------------------
(* Stopping and starting the process *)

(***************************************************************************)
(* http_server and replay_log on a journal: the new process's memory.  It  *)
(* reads ahead: when a torn record stops it, the file offset is anywhere   *)
(* behind what it ran.  When only the first byte of a record arrived and   *)
(* others follow, replay_log_record meets a bad cookie and truncates the   *)
(* file at that offset, possibly inside a record; whatever else stops it   *)
(* leaves the file as it is.  A record that is refused is tried again      *)
(* until the process is killed.                                            *)
(***************************************************************************)
Misread(journal) ==
    ~Stuck(journal) /\ \E i \in 1 .. Len(journal) - 1 : journal[i] = Torn

Truncated(journal, n) ==
    {SubSeq(journal, 1, n)} \cup
    IF n < Len(journal) THEN {Append(SubSeq(journal, 1, n), Torn)} ELSE {}

Boot(journal) ==
    /\ db' = Replay(journal)
    /\ applied' = held \cup (Tids(Readable(journal)) \ {0})
    /\ \E n \in Len(Readable(journal)) .. Len(journal) :
         \/ file' = journal /\ offset' = n
         \/ Misread(journal) /\ file' \in Truncated(journal, n) /\ offset' = Len(file')
    /\ cqueue' = << >> /\ op' = [w \in Worker |-> NoOp]
    /\ workers' = "up" /\ pending' = NoOp /\ replies' = {}
    /\ main' = IF Stuck(journal) THEN "replay" ELSE "loop"
    /\ log_buffer' = << >> /\ rewriter' = NoProcess /\ fork_offset' = -1
    /\ child' = "none" /\ dump' = << >> /\ dumped' = {} /\ queued' = {} /\ cut' = FALSE
    /\ lost' = lost \cup (Complete(journal) \ applied') /\ damaged' = FALSE
    /\ unread' = IF file' = Readable(journal) THEN 0 ELSE Len(file')
    /\ UNCHANGED <<op_tid, acked, held, rewrites, now>>

(* The process is killed, or aborts; log_buffer dies with it. *)
Crash == /\ crashes < MaxCrashes
         /\ crashes' = crashes + 1
         /\ Boot(file)

(* The machine stops during a write: a prefix of the records arrived, and  *)
(* possibly a part of the next one.  So does a write that fails when the   *)
(* process stops.                                                          *)
CrashInWrite ==
    /\ crashes < MaxCrashes
    /\ crashes' = crashes + 1
    /\ \/ main = "log" /\ FsyncPeriod = 0 /\ Logged(pending)
       \/ main = "loop" /\ FsyncPeriod > 0
       \/ main = "rewrite" /\ \A w \in Worker : op[w] = NoOp
    /\ LET buffer == IF main = "log" THEN Append(log_buffer, pending) ELSE log_buffer
       IN  \E n \in 0 .. Len(buffer) - 1 :
             Boot(Append(file \o SubSeq(buffer, 1, n), Torn))

(* Mutant: the process ends without close_db_log. *)
Shutdown_NoFlush ==
    /\ main = "loop" /\ workers = "up" /\ child # "exited"
    /\ crashes < MaxCrashes
    /\ \A w \in Worker : op[w] = NoOp
    /\ crashes' = crashes + 1
    /\ Boot(file)

(***************************************************************************)
(* SIGTERM or /system/shutdown: the workers end, close_db_log flushes.     *)
(* sigterm_cb kills a rewriting child first and forgets it.  One that has  *)
(* exited by itself a moment before is reaped by sigchld_cb after that,    *)
(* where the assertion on journal_rewrite_process fails: such a stop is a  *)
(* Crash.                                                                  *)
(***************************************************************************)
Shutdown == /\ main = "loop" /\ workers = "up" /\ child # "exited"
            /\ crashes < MaxCrashes
            /\ \A w \in Worker : op[w] = NoOp
            /\ crashes' = crashes + 1
            /\ Boot(file \o log_buffer)

MainStep == AddToDbLog \/ Fork \/ ForkFailed \/ SetPid \/ SetOffset

Next == \/ \E r \in Request : Dispatch(r)
        \/ FlushLogDb \/ ConsumerCb \/ ExpirationCron \/ Rewrite \/ MainStep
        \/ \E w \in Worker : Shift(w) \/ Handle(w)
        \/ ChildExit \/ DamagedDump \/ SigchldKilled \/ Sigchld \/ SwapRefused
        \/ Tick \/ Crash \/ CrashInWrite \/ Shutdown

Spec == Init /\ [][Next]_vars

(***************************************************************************)
(* The event loop finishes what it started and gets to its timers; the     *)
(* workers and the child run; the kernel delivers SIGCHLD; writes do not   *)
(* fail forever.  Requests, rewrites and crashes are not owed to anyone.   *)
(***************************************************************************)
FairSpec == /\ Spec
            /\ WF_vars(MainStep) /\ WF_vars(FlushLogDb) /\ WF_vars(ConsumerCb)
            /\ \A w \in Worker : WF_vars(Shift(w)) /\ WF_vars(Handle(w))
            /\ WF_vars(ChildExit) /\ WF_vars(SigchldKilled)
            /\ WF_vars(Sigchld \/ SwapRefused)
-----------------------------------------------------------------------------
(* Types of the state: offsets lie within the journal, the queue within    *)
(* its slots.                                                              *)
TypeOK ==
    /\ workers \in {"up", "stopped"}
    /\ main \in {"loop", "log", "rewrite", "set_pid", "set_offset", "replay"}
    /\ Len(cqueue) <= Capacity
    /\ pending = NoOp <=> main # "log"
    /\ op_tid \in 0 .. MaxOps
    /\ rewriter \in {NoProcess, Child}
    /\ fork_offset \in Nat \cup {-1}
    /\ offset \in 0 .. Len(file) /\ unread \in 0 .. Len(file)
    /\ child \in {"none", "running", "exited", "killed"}
    /\ now \in 1 .. MaxTime
    /\ acked \cup applied \cup dumped \cup queued \cup held \cup lost \cup replies
         \subseteq 1 .. op_tid

(* Operations queued or in a worker's hands, oldest first, and their tids. *)
InHand == {op[w] : w \in Worker} \ {NoOp}
Waiting == (CHOOSE s \in [1 .. Cardinality(InHand) -> InHand] :
              \A i, j \in DOMAIN s : i < j => s[i].tid < s[j].tid) \o cqueue
WaitingTids == {o.tid : o \in InHand} \cup Tids(cqueue)

(* What the journal will hold once the buffer is written. *)
Journal == Readable(file) \o log_buffer
           \o IF pending = NoOp THEN << >> ELSE << pending >>

Intact == \A i \in DOMAIN file : file[i] # Torn

(* A database with the positions that a rewrite writes down. *)
AsWritten(base) ==
    [l \in Layer |-> IF base[l] = Absent THEN Absent
        ELSE [k \in Key |-> IF base[l][k] = Absent THEN Absent
                ELSE [base[l][k] EXCEPT !.position = RereadPosition(@)]]]

(***************************************************************************)
(* The journal stands for the memory: replaying it gives the database that *)
(* the workers will have once they are done with what is queued, expired   *)
(* records aside, and up to the decimals of positions.  README: it "logs   *)
(* every transaction that creates or changes data".  Keys and texts come   *)
(* back as they were, for which there must be none that a rewrite changes  *)
(* (ReadsBack).  Exempt: a journal with a torn record, a rewrite that put  *)
(* a dump that was cut short, or records that the start had not read, into *)
(* the journal, and operations known to be lost, which AckedOnDisk names.  *)
(***************************************************************************)
JournalMatchesMemory ==
    Intact /\ ~damaged /\ lost \cap (applied \cup WaitingTids) = {}
      => AsWritten(Purge(Replay(Journal), now))
           = AsWritten(Purge(ApplyAll(db, Waiting), now))

(***************************************************************************)
(* Replaying the journal runs nothing twice (an _add_int would count       *)
(* twice): what the dump at its head already has is not in the tail, and   *)
(* the tail is in the order in which the requests came.                    *)
(***************************************************************************)
LoggedOnce ==
    LET tail == {i \in DOMAIN Journal : Journal[i].tid # 0}
    IN  /\ \A i \in tail : Journal[i].tid \notin held
        /\ \A i, j \in tail : i < j => Journal[i].tid < Journal[j].tid

(***************************************************************************)
(* With FsyncPeriod 0 ("Safe, but slow") a reply means that the operation  *)
(* is on disk, where a restart finds it.                                   *)
(***************************************************************************)
AckedDurable == FsyncPeriod = 0 => acked \subseteq held \cup Tids(Readable(file))

(***************************************************************************)
(* The same up to the known losses: whoever has a reply finds the          *)
(* operation in the file, unless add_to_db_log refused it, a rewrite       *)
(* forked while it was queued, a damaged dump replaced the journal, or a   *)
(* restart left it unread behind a torn record.                            *)
(***************************************************************************)
AckedOnDisk == FsyncPeriod = 0
                 => acked \ lost \subseteq held \cup Complete(file)

(***************************************************************************)
(* A crash loses the latest operations only: what add_to_db_log took       *)
(* earlier than an operation that survives survives too.  Exempt: a        *)
(* restart that a record of the dump keeps from ever ending.               *)
(***************************************************************************)
RecoveryIsPrefix ==
    [][crashes' # crashes /\ Intact /\ main' # "replay" =>
         \A t \in applied', u \in (applied \cup WaitingTids) \ lost :
           u < t => u \in applied']_vars

(***************************************************************************)
(* pincaster.conf: "If you need to kill the process, send a TERM signal".  *)
(* Then nothing that was accepted is lost, whatever FsyncPeriod is, as     *)
(* long as the next start gets through the journal (and the signal does    *)
(* not meet a rewriting child that has just exited: see Shutdown).         *)
(***************************************************************************)
CleanStopKeepsAll ==
    [][Shutdown /\ Intact /\ main' # "replay"
         => (applied \cup WaitingTids) \ lost \subseteq applied']_vars

(* With FsyncPeriod > 0 what is logged gets written. *)
EventuallyOnDisk == FsyncPeriod > 0 => (log_buffer # << >> ~> log_buffer = << >>)

(* A rewrite whose child exited by itself lets the next one start, whether *)
(* its journal could be put in place or not.  (After a child that was      *)
(* killed every later rewrite is answered 304: see SigchldKilled.)         *)
RewriteEnds == child = "exited" ~> rewriter = NoProcess
=============================================================================
