---------------------------- MODULE Replication ----------------------------
(***************************************************************************)
(* replication_master.c and replication_slave.c: a master ships the        *)
(* records of its journal to its slaves.  A slave that connects is sent    *)
(* the journal file, then every record when it is logged.  It appends each *)
(* record to its own journal, pushes the operation on its queue, and a     *)
(* worker applies it.  A slave that loses its master exits; a new process  *)
(* empties its journal and downloads everything again.                     *)
(*                                                                         *)
(* Records are numbered as the master logs them.  A crash of the master    *)
(* falls between two writes here (Server has torn records).  Slaves have   *)
(* one worker (Server has the order of several).  The output buffer of the *)
(* master and the socket are one queue, out.                               *)
(*                                                                         *)
(* Descriptors are modelled because the master closes them twice: closing  *)
(* a connection by hand leaves a libevent finalizer behind that closes the *)
(* same number later, when an accept may have reused it.                   *)
(***************************************************************************)
EXTENDS Integers, Sequences, SequencesExt, FiniteSetsExt

CONSTANTS Slaves,
          FsyncPeriod,    \* 0: the journal is written at each record
          MaxLag,         \* REPLICATION_MAX_LAG, in records
          MaxQueued,      \* slots of a slave's operation queue
          SplitRecords,   \* records whose body has a line feed
          RefusedRecords, \* records that a slave's process_request never takes:
                          \* a rewrite's URI with a raw '%', another ApiBaseURI
          NbFds,          \* descriptors of the master
          MaxRecords, MaxConns, MaxFaults   \* bounds for model checking

ASSUME ReplicationAssumption ==
    /\ FsyncPeriod \in Int
    /\ {MaxLag, MaxQueued, NbFds, MaxRecords, MaxConns, MaxFaults} \subseteq Nat
    /\ SplitRecords \subseteq Nat /\ RefusedRecords \subseteq Nat

VARIABLES
    records,       \* records logged so far
    file,          \* the master's journal
    log_buffer,    \* logged, not yet written
    up,            \* the master runs
    faults,        \* crashes and failed opens so far
    active_slaves, \* the master's counter
    conns,         \* connections in the order in which they were made
    descriptor,    \* the connection each descriptor of the master is for, 0 if none
    finalizers,    \* descriptors that libevent will close
    slaves,        \* the slave processes
    mixed          \* history: connections hit by a close or write for another

vars == <<records, file, log_buffer, up, faults, active_slaves, conns,
          descriptor, finalizers, slaves, mixed>>

masterLog == <<records, file, log_buffer>>
network == <<active_slaves, conns, descriptor, finalizers, mixed>>

Fds == 1 .. NbFds
Conns == 1 .. Len(conns)
None == 0

\* peer: the slave's end is open.  missed: history, what was in log_buffer
\* when the connection was accepted.
Connection ==
    [slave  : Slaves,
     client : {"backlog", "active", "lagging", "freed", "gone"},
     fd     : 0 .. NbFds,
     out    : Seq(1 .. MaxRecords),
     peer   : BOOLEAN,
     missed : SUBSET (1 .. MaxRecords)]

\* A slave's journal is what it has logged, in its file or in its log_buffer.
Stopped == [up |-> FALSE, conn |-> None, journal |-> << >>,
            pending |-> << >>, queue |-> << >>, memory |-> << >>]

Init ==
    /\ records = 0
    /\ file = << >> /\ log_buffer = << >>
    /\ up = TRUE
    /\ faults = 0
    /\ active_slaves = 0
    /\ conns = << >>
    /\ descriptor = [f \in Fds |-> None]
    /\ finalizers = << >>
    /\ slaves = [s \in Slaves |-> Stopped]
    /\ mixed = {}
-----------------------------------------------------------------------------
(* The master *)

\* The clients that send_to_active_slaves_cb does not skip.
Active == {c \in Conns : conns[c].client = "active"}

\* With the record the output buffer would be longer than allowed.
Lags(c) == Len(conns[c].out) + 1 > MaxLag

\* The connections whose descriptors are closed by hand when fds are.
CutBy(fds) == {descriptor[f] : f \in fds} \ {None}

\* A lagging client is not counted out.
send_to_active_slaves_NotCounted(r) ==
    LET lagging == {c \in Active : Lags(c)}
        queue == SetToSeq(lagging)
    IN  /\ conns' = [c \in Conns |->
              CASE c \in lagging -> [conns[c] EXCEPT !.client = "lagging", !.out = << >>]
                [] c \in Active \ lagging -> [conns[c] EXCEPT !.out = Append(@, r)]
                [] OTHER -> conns[c]]
        /\ descriptor' = [f \in Fds |->
              IF \E c \in lagging : conns[c].fd = f THEN None ELSE descriptor[f]]
        /\ finalizers' = finalizers \o [i \in DOMAIN queue |-> conns[queue[i]].fd]
        /\ mixed' = mixed \cup (CutBy({conns[c].fd : c \in lagging}) \ lagging)
        /\ UNCHANGED active_slaves

\* A client is sent records only when its download has ended.
send_to_active_slaves_AfterDownload(r) ==
    /\ conns' = [c \in Conns |->
          IF c \in Active /\ conns[c].out = << >>
          THEN [conns[c] EXCEPT !.out = <<r>>] ELSE conns[c]]
    /\ UNCHANGED <<active_slaves, descriptor, finalizers, mixed>>

\* Records go to the clients; one that lags is disconnected, and its entry
\* stays in the slab without a bufferevent.
send_to_active_slaves(r) ==
    LET lagging == {c \in Active : Lags(c)}
        queue == SetToSeq(lagging)
    IN  /\ conns' = [c \in Conns |->
              CASE c \in lagging -> [conns[c] EXCEPT !.client = "lagging", !.out = << >>]
                [] c \in Active \ lagging -> [conns[c] EXCEPT !.out = Append(@, r)]
                [] OTHER -> conns[c]]
        /\ active_slaves' = active_slaves - Cardinality(lagging)
        /\ descriptor' = [f \in Fds |->
              IF \E c \in lagging : conns[c].fd = f THEN None ELSE descriptor[f]]
        /\ finalizers' = finalizers \o [i \in DOMAIN queue |-> conns[queue[i]].fd]
        /\ mixed' = mixed \cup (CutBy({conns[c].fd : c \in lagging}) \ lagging)

\* add_to_db_log for a request: ship, then buffer, then write if so configured.
add_to_db_log ==
    /\ up
    /\ records < MaxRecords
    /\ records' = records + 1
    /\ IF active_slaves > 0 THEN send_to_active_slaves(records + 1) ELSE UNCHANGED network
    /\ IF FsyncPeriod = 0
       THEN /\ file' = Append(file \o log_buffer, records + 1)
            /\ log_buffer' = << >>
       ELSE /\ log_buffer' = Append(log_buffer, records + 1)
            /\ UNCHANGED file
    /\ UNCHANGED <<up, faults, slaves>>

\* The flush timer.
flush_log_db ==
    /\ up
    /\ FsyncPeriod > 0
    /\ log_buffer # << >>
    /\ file' = file \o log_buffer
    /\ log_buffer' = << >>
    /\ UNCHANGED <<records, up, faults, network, slaves>>

FreeFds == {f \in Fds : descriptor[f] = None}

\* The new client is sent the file, and is active from this callback on.
\* The system gives out the lowest free descriptor.
acceptcb(c) ==
    /\ up
    /\ conns[c].client = "backlog"
    /\ FreeFds # {}
    /\ descriptor' = [descriptor EXCEPT ![Min(FreeFds)] = c]
    /\ conns' = [conns EXCEPT ![c].client = "active",
                              ![c].fd = Min(FreeFds),
                              ![c].out = file,
                              ![c].missed = Range(log_buffer)]
    /\ active_slaves' = active_slaves + 1
    /\ UNCHANGED <<masterLog, up, faults, slaves, finalizers, mixed>>

\* The journal cannot be opened: the client is freed at once.
AcceptFailed(c) ==
    /\ up
    /\ conns[c].client = "backlog"
    /\ FreeFds # {}
    /\ faults < MaxFaults
    /\ faults' = faults + 1
    /\ conns' = [conns EXCEPT ![c].client = "freed"]
    /\ finalizers' = Append(finalizers, Min(FreeFds))
    /\ UNCHANGED <<masterLog, up, slaves, active_slaves, descriptor, mixed>>

\* free_replication_client in sender_eventcb: the counter, the bufferevent,
\* the descriptor, the slab entry.
FreeClient(c) ==
    LET f == conns[c].fd
    IN  /\ conns' = [conns EXCEPT ![c].client = "freed", ![c].out = << >>]
        /\ active_slaves' = active_slaves - 1
        /\ descriptor' = [descriptor EXCEPT ![f] = None]
        /\ finalizers' = Append(finalizers, f)
        /\ mixed' = mixed \cup (CutBy({f}) \ {c})
        /\ UNCHANGED <<masterLog, up, faults, slaves>>

\* The master does not read from its clients (bufferevent_enable of EV_WRITE
\* only): that a peer is gone shows when something is written, at the first
\* write or at a later one.
PeerGone(c) ==
    /\ conns[c].client = "active"
    /\ conns[c].out # << >>
    /\ descriptor[conns[c].fd] # None
    /\ ~conns[descriptor[conns[c].fd]].peer

LostWrite(c) ==
    /\ PeerGone(c)
    /\ conns' = [conns EXCEPT ![c].out = Tail(@)]
    /\ UNCHANGED <<masterLog, up, faults, slaves, active_slaves, descriptor,
                   finalizers, mixed>>

sender_eventcb(c) == PeerGone(c) /\ FreeClient(c)

\* The descriptor was closed under the client.  An event may still be
\* delivered, or never.
StaleEvent(c) ==
    /\ conns[c].client = "active"
    /\ conns[c].out # << >>
    /\ descriptor[conns[c].fd] = None
    /\ FreeClient(c)

\* The finalizer of a freed bufferevent closes its descriptor (again).
Finalize ==
    /\ finalizers # << >>
    /\ descriptor' = [descriptor EXCEPT ![Head(finalizers)] = None]
    /\ finalizers' = Tail(finalizers)
    /\ mixed' = mixed \cup CutBy({Head(finalizers)})
    /\ UNCHANGED <<masterLog, up, faults, slaves, active_slaves, conns>>

MasterCrash ==
    /\ up
    /\ faults < MaxFaults
    /\ faults' = faults + 1
    /\ up' = FALSE
    /\ log_buffer' = << >>
    /\ conns' = [c \in Conns |-> [conns[c] EXCEPT !.client = "gone", !.out = << >>]]
    /\ descriptor' = [f \in Fds |-> None]
    /\ finalizers' = << >>
    /\ active_slaves' = 0
    /\ UNCHANGED <<records, file, slaves, mixed>>

MasterBoot ==
    /\ ~up
    /\ up' = TRUE
    /\ UNCHANGED <<masterLog, faults, network, slaves>>
-----------------------------------------------------------------------------
(* A slave *)

\* The process starts without reset_log.
SlaveStart_NoReset(s) ==
    /\ ~slaves[s].up
    /\ up /\ Len(conns) < MaxConns
    /\ conns' = Append(conns, [slave |-> s, client |-> "backlog", fd |-> 0,
                               out |-> << >>, peer |-> TRUE, missed |-> {}])
    /\ slaves' = [slaves EXCEPT ![s] = [Stopped EXCEPT !.up = TRUE,
                                                       !.conn = Len(conns) + 1,
                                                       !.journal = slaves[s].journal]]
    /\ UNCHANGED <<masterLog, up, faults, active_slaves, descriptor, finalizers, mixed>>

\* The process starts: its journal is emptied, then it connects.
SlaveStart(s) ==
    /\ ~slaves[s].up
    /\ up /\ Len(conns) < MaxConns
    /\ conns' = Append(conns, [slave |-> s, client |-> "backlog", fd |-> 0,
                               out |-> << >>, peer |-> TRUE, missed |-> {}])
    /\ slaves' = [slaves EXCEPT ![s] = [Stopped EXCEPT !.up = TRUE,
                                                       !.conn = Len(conns) + 1]]
    /\ UNCHANGED <<masterLog, up, faults, active_slaves, descriptor, finalizers, mixed>>

\* Nobody listens: the journal is emptied all the same, and the process exits.
SlaveStartAlone(s) ==
    /\ ~slaves[s].up
    /\ ~up
    /\ slaves' = [slaves EXCEPT ![s] = Stopped]
    /\ UNCHANGED <<masterLog, up, faults, network>>

\* The event loop of the slave is in fake_request's retry loop.
Blocked(s) == slaves[s].pending # << >>

\* The next record of client c arrives on the connection that its descriptor
\* is for.  A record with a line feed in it reads as two lines: it is dropped,
\* for neither is a record (a body that holds a whole one is left out).
reader_readcb(c) ==
    LET d == descriptor[conns[c].fd]
        s == conns[d].slave
        r == Head(conns[c].out)
    IN  /\ conns[c].client = "active"
        /\ conns[c].out # << >>
        /\ d # None
        /\ conns[d].peer
        /\ ~Blocked(s)
        /\ conns' = [conns EXCEPT ![c].out = Tail(@)]
        /\ slaves' = IF r \in SplitRecords THEN slaves
                     ELSE [slaves EXCEPT ![s].journal = Append(@, r), ![s].pending = <<r>>]
        /\ mixed' = IF d = c THEN mixed ELSE mixed \cup {c, d}
        /\ UNCHANGED <<masterLog, up, faults, active_slaves, descriptor, finalizers>>

\* The operation is dropped when the queue is full.
fake_request_NoRetry(s) ==
    /\ Blocked(s)
    /\ slaves' = [slaves EXCEPT ![s].queue =
                      IF Len(@) < MaxQueued THEN @ \o slaves[s].pending ELSE @,
                                ![s].pending = << >>]
    /\ UNCHANGED <<masterLog, up, faults, network>>

fake_request_Overfills(s) ==
    /\ Blocked(s)
    /\ slaves' = [slaves EXCEPT ![s].queue = @ \o slaves[s].pending, ![s].pending = << >>]
    /\ UNCHANGED <<masterLog, up, faults, network>>

\* fake_request pushes the operation.  It sleeps and tries again while the
\* queue is full, and forever when process_request fails for another reason.
fake_request(s) ==
    /\ Blocked(s)
    /\ slaves[s].pending[1] \notin RefusedRecords
    /\ Len(slaves[s].queue) < MaxQueued
    /\ slaves' = [slaves EXCEPT ![s].queue = @ \o slaves[s].pending, ![s].pending = << >>]
    /\ UNCHANGED <<masterLog, up, faults, network>>

worker_do_work(s) ==
    /\ slaves[s].queue # << >>
    /\ slaves' = [slaves EXCEPT ![s].queue = Tail(@),
                                ![s].memory = Append(@, Head(slaves[s].queue))]
    /\ UNCHANGED <<masterLog, up, faults, network>>

\* How much of a slave's journal is in its file: all, or what its flush timer
\* has written.
Written(s) ==
    LET all == Len(slaves[s].journal) IN IF FsyncPeriod = 0 THEN {all} ELSE 0 .. all

\* The process ends without writing its buffer.  Its file stays.
Exit(s) ==
    /\ \E n \in Written(s) :
          slaves' = [slaves EXCEPT ![s] =
                        [Stopped EXCEPT !.journal = SubSeq(slaves[s].journal, 1, n)]]
    /\ conns' = [conns EXCEPT ![slaves[s].conn].peer = FALSE]
    /\ UNCHANGED <<masterLog, up, active_slaves, descriptor, finalizers, mixed>>

\* The master's end is closed.
Disconnected(c) == conns[c].client # "backlog" /\ c \notin Range(descriptor)

\* End of file or an error: the slave stops its workers and exits.
reader_eventcb(s) ==
    /\ slaves[s].up /\ ~Blocked(s)
    /\ Disconnected(slaves[s].conn)
    /\ Exit(s)
    /\ UNCHANGED faults

SlaveCrash(s) ==
    /\ slaves[s].up
    /\ faults < MaxFaults
    /\ faults' = faults + 1
    /\ Exit(s)
-----------------------------------------------------------------------------
SlaveNext(s) ==
    \/ SlaveStart(s) \/ SlaveStartAlone(s)
    \/ fake_request(s) \/ worker_do_work(s)
    \/ reader_eventcb(s) \/ SlaveCrash(s)

ConnectionNext(c) ==
    \/ acceptcb(c) \/ AcceptFailed(c)
    \/ LostWrite(c) \/ sender_eventcb(c) \/ StaleEvent(c)
    \/ reader_readcb(c)

Next ==
    \/ add_to_db_log \/ flush_log_db \/ Finalize
    \/ MasterCrash \/ MasterBoot
    \/ \E s \in Slaves : SlaveNext(s)
    \/ \E c \in Conns : ConnectionNext(c)

Spec == Init /\ [][Next]_vars

\* The event loops serve what is ready, and workers run.  Nothing is owed to
\* requests, starts and faults.
Fairness ==
    /\ \A s \in Slaves : /\ WF_vars(fake_request(s))
                         /\ WF_vars(worker_do_work(s))
                         /\ WF_vars(reader_eventcb(s))
    /\ \A c \in 1 .. MaxConns : WF_vars(c \in Conns /\ reader_readcb(c))
    /\ WF_vars(Finalize)

FairSpec == Spec /\ Fairness
-----------------------------------------------------------------------------
(* Properties *)

\* Counters and queues stay within their types: a slave's operation queue
\* (push_cqueue refuses when full) never holds more than its slots, and the
\* connections and descriptors that clients refer to exist.
TypeOK ==
    /\ records \in 0 .. MaxRecords
    /\ file \in Seq(1 .. records) /\ log_buffer \in Seq(1 .. records)
    /\ up \in BOOLEAN
    /\ faults \in 0 .. MaxFaults
    /\ active_slaves \in 0 .. MaxConns
    /\ conns \in Seq(Connection)
    /\ descriptor \in [Fds -> 0 .. Len(conns)]
    /\ finalizers \in Seq(Fds)
    /\ mixed \subseteq Conns
    /\ \A s \in Slaves : /\ slaves[s].conn \in 0 .. Len(conns)
                         /\ Len(slaves[s].queue) <= MaxQueued

\* A sequence without the records in dropped.
Without(seq, dropped) ==
    LET kept[i \in 0 .. Len(seq)] ==
            IF i = 0 THEN << >>
            ELSE IF seq[i] \in dropped THEN kept[i - 1] ELSE Append(kept[i - 1], seq[i])
    IN  kept[Len(seq)]

\* What a slave on connection c can have of a sequence of records.
Readable(c, seq) == Without(seq, SplitRecords \cup conns[c].missed)

MasterJournal == file \o log_buffer

(***************************************************************************)
(* A slave's journal follows its master's while that master runs: record   *)
(* by record, in the order of the master, without any twice.  While the    *)
(* connection is active what the slave has and what is on its way are      *)
(* everything.  Left out are records with a line feed and those that were  *)
(* in log_buffer when the slave connected (replication_master.c:227 sends  *)
(* the file only), and the connections that a descriptor closed twice has  *)
(* cut or mixed up.                                                        *)
(***************************************************************************)
SlaveFollowsMaster ==
    \A s \in Slaves :
        LET c == slaves[s].conn
        IN  (c # None /\ c \notin mixed) =>
              /\ conns[c].client # "gone" =>
                    IsPrefix(slaves[s].journal, Readable(c, MasterJournal))
              /\ conns[c].client = "active" =>
                    slaves[s].journal \o Readable(c, conns[c].out) = Readable(c, MasterJournal)

(***************************************************************************)
(* A slave journals a record before it pushes the operation, and retries   *)
(* the push as long as the queue is full: its memory, its queue and the    *)
(* record at hand are what its journal holds, in that order, whatever      *)
(* stream it has been sent.                                                *)
(***************************************************************************)
MemoryFollowsJournal ==
    \A s \in Slaves :
        slaves[s].up =>
            slaves[s].memory \o slaves[s].queue \o slaves[s].pending = slaves[s].journal

(***************************************************************************)
(* active_slaves counts the clients that records are sent to, over accepts *)
(* (failed ones too), ends of file and disconnections for lag.  It decides *)
(* whether records are shipped at all, and two assertions rely on it.      *)
(***************************************************************************)
SlavesAreCounted == active_slaves = Cardinality(Active)

\* What a slave gets through: it never gets over a refused record.
BeforeRefused(seq) ==
    {seq[i] : i \in {j \in DOMAIN seq : \A k \in 1 .. j : seq[k] \notin RefusedRecords}}

Owed(c) ==
    IF c \in Active \ mixed /\ slaves[conns[c].slave].conn = c
    THEN BeforeRefused(Readable(c, MasterJournal)) ELSE {}

(***************************************************************************)
(* Once requests pause, every slave that is still connected has applied    *)
(* all it is owed: a full queue, a slow worker, a second slave or a        *)
(* finalizer do not stop it.  (MaxRecords makes requests pause.)  A record *)
(* that process_request always refuses does: nothing behind it is owed.    *)
(***************************************************************************)
CatchesUp ==
    []<>(\A c \in Conns : Owed(c) \subseteq Range(slaves[conns[c].slave].memory))
=============================================================================
