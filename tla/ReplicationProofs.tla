-------------------------- MODULE ReplicationProofs -------------------------
(***************************************************************************)
(* For every number of slaves, connections, descriptors and records: the   *)
(* master's counter of slaves is right, a slave's memory, queue and record *)
(* at hand are its journal, and its journal follows the master's, over     *)
(* crashes of either side, descriptors closed twice and full queues.       *)
(***************************************************************************)
EXTENDS Replication, LibraryFacts

(* SetToSeq enumerates a finite set. *)
LEMMA SetToSeqFact ==
  ASSUME NEW S, IsFiniteSet(S)
  PROVE  /\ Cardinality(S) \in Nat
         /\ SetToSeq(S) \in [1 .. Cardinality(S) -> S]
         /\ SetToSeq(S) \in Seq(S)
<1>1. Cardinality(S) \in Nat /\ ExistsBijection(1 .. Cardinality(S), S)
  BY FS_CardinalityType
<1>2. PICK f : f \in Bijection(1 .. Cardinality(S), S)
  BY <1>1 DEF ExistsBijection
<1>3. f \in [1 .. Cardinality(S) -> S] /\ IsInjective(f)
  BY <1>2 DEF Bijection, Injection, IsInjective
<1>4. SetToSeq(S) \in [1 .. Cardinality(S) -> S]
  BY <1>3 DEF SetToSeq
<1> QED BY <1>1, <1>4

Record == 1 .. MaxRecords

(* The connections, and the descriptor of a client that is written to. *)
ConnInv ==
    /\ conns \in Seq(Connection)
    /\ Len(conns) <= MaxConns
    /\ \A c \in Conns : conns[c].client = "active" => conns[c].fd \in Fds

SlaveState == [up : BOOLEAN, conn : 0 .. Len(conns), journal : Seq(Record),
               pending : Seq(Record), queue : Seq(Record), memory : Seq(Record)]

(* A record at hand is one; what the slave has applied, queued and at hand *)
(* is what it has journaled.                                               *)
SlaveOK(n) ==
    /\ n.up => n.conn # None
    /\ Len(n.pending) <= 1
    /\ Len(n.queue) <= MaxQueued
    /\ n.up => n.memory \o n.queue \o n.pending = n.journal

SlaveInv ==
    /\ slaves \in [Slaves -> SlaveState]
    /\ \A s \in Slaves : SlaveOK(slaves[s])

LogInv ==
    /\ records \in 0 .. MaxRecords
    /\ file \in Seq(1 .. records) /\ log_buffer \in Seq(1 .. records)
    /\ up \in BOOLEAN
    /\ faults \in 0 .. MaxFaults

DescriptorInv ==
    /\ descriptor \in [Fds -> 0 .. Len(conns)]
    /\ finalizers \in Seq(Fds)
    /\ mixed \subseteq Conns

Inv == LogInv /\ ConnInv /\ DescriptorInv /\ SlaveInv
-----------------------------------------------------------------------------
(* Lemmas on the pieces of an action *)

(* The lowest free descriptor is a descriptor. *)
LEMMA LowestFd ==
  ASSUME FreeFds # {} PROVE Min(FreeFds) \in Fds
<1>1. FreeFds \in SUBSET Nat
  BY ReplicationAssumption DEF FreeFds, Fds
<1> QED BY <1>1, MinNat DEF FreeFds

(* One connection replaced. *)
LEMMA ReplacedConn ==
  ASSUME ConnInv, NEW c \in Conns, NEW n \in Connection,
         conns' = [conns EXCEPT ![c] = n],
         n.client = "active" => n.fd \in Fds
  PROVE  /\ ConnInv' /\ Len(conns') = Len(conns)
         /\ \A d \in Conns : conns'[d] = IF d = c THEN n ELSE conns[d]
<1>1. conns \in Seq(Connection) /\ c \in 1 .. Len(conns)
  BY DEF ConnInv, Conns
<1>2. /\ conns' \in Seq(Connection) /\ Len(conns') = Len(conns)
      /\ \A d \in 1 .. Len(conns) : conns'[d] = IF d = c THEN n ELSE conns[d]
  BY <1>1, ExceptSeq
<1> QED BY <1>2 DEF ConnInv, Conns

(* All connections replaced. *)
LEMMA ReplacedConns ==
  ASSUME ConnInv, NEW f \in [Conns -> Connection], conns' = f,
         \A c \in Conns : f[c].client = "active" => f[c].fd \in Fds
  PROVE  /\ ConnInv' /\ Len(conns') = Len(conns)
<1>1. Len(conns) \in Nat /\ f \in [1 .. Len(conns) -> Connection]
  BY DEF ConnInv, Conns
<1>2. conns' \in Seq(Connection) /\ Len(conns') = Len(conns)
  BY <1>1, FunctionIsSeq
<1> QED BY <1>2 DEF ConnInv, Conns

(* Connections that stay as many keep what refers to them. *)
LEMMA SameConns ==
  ASSUME Len(conns') = Len(conns)
  PROVE  Conns' = Conns /\ SlaveState' = SlaveState
  BY DEF Conns, SlaveState, Record

(* The connections that a close by hand cuts are connections. *)
LEMMA CutConns ==
  ASSUME DescriptorInv, NEW fds \in SUBSET Fds
  PROVE  CutBy(fds) \subseteq Conns
  BY ReplicationAssumption DEF DescriptorInv, CutBy, Conns, None
-----------------------------------------------------------------------------
(* The master's journal *)

(* The master's records, file and buffer keep their types. *)
LEMMA LogInvStep == LogInv /\ [Next]_vars => LogInv'
<1> SUFFICES ASSUME LogInv, [Next]_vars PROVE LogInv'
  OBVIOUS
<1> USE ReplicationAssumption
<1>1. CASE add_to_db_log
  <2>1. records' = records + 1 /\ records' \in 0 .. MaxRecords
        /\ UNCHANGED <<up, faults>>
    BY <1>1 DEF add_to_db_log, LogInv
  <2>2. file \in Seq(1 .. records') /\ log_buffer \in Seq(1 .. records')
        /\ records' \in 1 .. records'
    BY <2>1, SeqMonotonic DEF LogInv
  <2>3. file' \in Seq(1 .. records') /\ log_buffer' \in Seq(1 .. records')
    <3>1. CASE FsyncPeriod = 0
      <4>1. file' = Append(file \o log_buffer, records') /\ log_buffer' = << >>
        BY <1>1, <2>1, <3>1 DEF add_to_db_log
      <4>2. file \o log_buffer \in Seq(1 .. records')
        BY <2>2, ConcatProperties
      <4> QED BY <2>2, <4>1, <4>2
    <3>2. CASE FsyncPeriod # 0
      <4>1. log_buffer' = Append(log_buffer, records') /\ file' = file
        BY <1>1, <2>1, <3>2 DEF add_to_db_log
      <4> QED BY <2>2, <4>1
    <3> QED BY <3>1, <3>2
  <2> QED BY <2>1, <2>3 DEF LogInv
<1>2. CASE flush_log_db
  <2>1. file \o log_buffer \in Seq(1 .. records) /\ << >> \in Seq(1 .. records)
    BY ConcatProperties DEF LogInv
  <2> QED BY <1>2, <2>1 DEF flush_log_db, LogInv
<1>3. CASE MasterCrash
  <2>1. /\ UNCHANGED <<records, file>> /\ log_buffer' = << >> /\ up' = FALSE
        /\ faults < MaxFaults /\ faults' = faults + 1
    BY <1>3 DEF MasterCrash
  <2>2. up' \in BOOLEAN
    BY <2>1
  <2>3. faults' \in 0 .. MaxFaults
    BY <2>1 DEF LogInv
  <2>4. log_buffer' \in Seq(1 .. records')
    BY <2>1
  <2> QED BY <2>1, <2>2, <2>3, <2>4 DEF LogInv
<1>4. CASE MasterBoot \/ Finalize
  BY <1>4 DEF MasterBoot, Finalize, LogInv, masterLog
<1>5. ASSUME NEW s \in Slaves, SlaveNext(s) PROVE LogInv'
  <2>1. /\ UNCHANGED <<masterLog, up>>
        /\ UNCHANGED faults \/ (faults < MaxFaults /\ faults' = faults + 1)
    BY <1>5 DEF SlaveNext, SlaveStart, SlaveStartAlone, fake_request,
                worker_do_work, reader_eventcb, SlaveCrash, Exit
  <2> QED BY <2>1 DEF LogInv, masterLog
<1>6. ASSUME NEW c \in Conns, ConnectionNext(c) PROVE LogInv'
  <2>1. /\ UNCHANGED <<masterLog, up>>
        /\ UNCHANGED faults \/ (faults < MaxFaults /\ faults' = faults + 1)
    BY <1>6 DEF ConnectionNext, acceptcb, AcceptFailed, LostWrite, sender_eventcb,
                StaleEvent, FreeClient, reader_readcb
  <2> QED BY <2>1 DEF LogInv, masterLog
<1>7. CASE UNCHANGED vars
  BY <1>7 DEF vars, LogInv
<1> QED BY <1>1, <1>2, <1>3, <1>4, <1>5, <1>6, <1>7 DEF Next
-----------------------------------------------------------------------------
(* The connections: what each action that changes them leaves *)

(* Two states of a connection with the same slave at the other end. *)
SameEnds(o, n) == n.slave = o.slave /\ n.peer = o.peer

(* An accepted client is active, and no other connection changes. *)
LEMMA AcceptConns ==
  ASSUME Inv, NEW c \in Conns, acceptcb(c)
  PROVE  /\ ConnInv' /\ Len(conns') = Len(conns)
         /\ \A d \in Conns \ {c} : conns'[d] = conns[d]
         /\ conns'[c].client = "active" /\ conns'[c].fd = Min(FreeFds)
         /\ conns'[c].out = file /\ conns'[c].missed = Range(log_buffer)
         /\ SameEnds(conns[c], conns'[c])
<1> DEFINE n == [conns[c] EXCEPT !.client = "active", !.fd = Min(FreeFds),
                                 !.out = file, !.missed = Range(log_buffer)]
<1>1. conns[c] \in Connection
  BY DEF Inv, ConnInv, Conns
<1>2. Min(FreeFds) \in Fds
  BY LowestFd DEF acceptcb
<1>3. file \in Seq(Record) /\ Range(log_buffer) \subseteq Record
  <2>1. 1 .. records \subseteq Record
    BY ReplicationAssumption DEF Inv, LogInv, Record
  <2>2. file \in Seq(Record) /\ log_buffer \in Seq(Record)
    BY <2>1, SeqMonotonic DEF Inv, LogInv
  <2> QED BY <2>2, RangeOfSeq
<1>4. /\ n \in Connection /\ n.client = "active" /\ n.fd \in Fds
      /\ n.fd = Min(FreeFds) /\ n.out = file /\ n.missed = Range(log_buffer)
      /\ SameEnds(conns[c], n)
  <2>1. Fds \subseteq 0 .. NbFds
    BY ReplicationAssumption DEF Fds
  <2>2. n \in Connection
    BY <1>1, <1>2, <1>3, <2>1 DEF Connection, Record
  <2> QED BY <1>1, <1>2, <2>2 DEF Connection, SameEnds
<1>5. conns' = [conns EXCEPT ![c] = n]
  BY DEF acceptcb, Inv, ConnInv, Conns
<1> HIDE DEF n
<1>6. /\ ConnInv' /\ Len(conns') = Len(conns)
      /\ \A d \in Conns : conns'[d] = IF d = c THEN n ELSE conns[d]
  BY <1>4, <1>5, ReplacedConn DEF Inv
<1> QED BY <1>4, <1>6

(* A client that is refused was not active and does not become so. *)
LEMMA RefusedConns ==
  ASSUME Inv, NEW c \in Conns, AcceptFailed(c)
  PROVE  /\ ConnInv' /\ Len(conns') = Len(conns)
         /\ \A d \in Conns \ {c} : conns'[d] = conns[d]
         /\ conns[c].client # "active" /\ conns'[c].client = "freed"
         /\ conns'[c].out = conns[c].out /\ conns'[c].missed = conns[c].missed
         /\ SameEnds(conns[c], conns'[c])
<1> DEFINE n == [conns[c] EXCEPT !.client = "freed"]
<1>0. conns[c] \in Connection
  BY DEF Inv, ConnInv, Conns
<1>1. /\ n \in Connection /\ n.client = "freed"
      /\ n.out = conns[c].out /\ n.missed = conns[c].missed /\ SameEnds(conns[c], n)
  BY <1>0 DEF Connection, SameEnds
<1>2. conns' = [conns EXCEPT ![c] = n]
  BY DEF AcceptFailed
<1> HIDE DEF n
<1>3. conns[c].client # "active"
  BY DEF AcceptFailed
<1>4. /\ ConnInv' /\ Len(conns') = Len(conns)
      /\ \A d \in Conns : conns'[d] = IF d = c THEN n ELSE conns[d]
  BY <1>1, <1>2, ReplacedConn DEF Inv
<1> QED BY <1>1, <1>3, <1>4

(* A freed client is not active any more. *)
LEMMA FreedConns ==
  ASSUME Inv, NEW c \in Conns, FreeClient(c)
  PROVE  /\ ConnInv' /\ Len(conns') = Len(conns)
         /\ \A d \in Conns \ {c} : conns'[d] = conns[d]
         /\ conns'[c].client = "freed" /\ conns'[c].out = << >>
         /\ conns'[c].missed = conns[c].missed /\ SameEnds(conns[c], conns'[c])
<1> DEFINE n == [conns[c] EXCEPT !.client = "freed", !.out = << >>]
<1>0. conns[c] \in Connection /\ << >> \in Seq(1 .. MaxRecords)
  BY DEF Inv, ConnInv, Conns
<1>1. /\ n \in Connection /\ n.client = "freed"
      /\ n.out = << >> /\ n.missed = conns[c].missed /\ SameEnds(conns[c], n)
  BY <1>0 DEF Connection, SameEnds
<1>2. conns' = [conns EXCEPT ![c] = n]
  BY DEF FreeClient, Inv, ConnInv, Conns
<1> HIDE DEF n
<1>3. /\ ConnInv' /\ Len(conns') = Len(conns)
      /\ \A d \in Conns : conns'[d] = IF d = c THEN n ELSE conns[d]
  BY <1>1, <1>2, ReplacedConn DEF Inv
<1> QED BY <1>1, <1>3

(* A record leaves the output buffer of a client. *)
Sends(c) == /\ conns[c].client = "active" /\ conns[c].out # << >>
            /\ conns' = [conns EXCEPT ![c].out = Tail(@)]

(* Sending a byte changes no client's state. *)
LEMMA ShortenedConns ==
  ASSUME Inv, NEW c \in Conns, Sends(c)
  PROVE  /\ ConnInv' /\ Len(conns') = Len(conns)
         /\ \A d \in Conns : conns'[d].client = conns[d].client
         /\ \A d \in Conns \ {c} : conns'[d] = conns[d]
         /\ conns'[c].out = Tail(conns[c].out) /\ conns'[c].missed = conns[c].missed
         /\ conns'[c].fd = conns[c].fd /\ SameEnds(conns[c], conns'[c])
<1> DEFINE n == [conns[c] EXCEPT !.out = Tail(@)]
<1>1. conns[c] \in Connection /\ conns[c].fd \in Fds
  BY DEF Inv, ConnInv, Conns, Sends
<1>2. Tail(conns[c].out) \in Seq(1 .. MaxRecords)
  BY <1>1, HeadTailProperties DEF Connection, Sends
<1>3. /\ n \in Connection /\ n.client = conns[c].client /\ n.fd = conns[c].fd
      /\ n.out = Tail(conns[c].out) /\ n.missed = conns[c].missed /\ SameEnds(conns[c], n)
  BY <1>1, <1>2 DEF Connection, SameEnds
<1>4. conns' = [conns EXCEPT ![c] = n]
  BY DEF Sends
<1> HIDE DEF n
<1>5. /\ ConnInv' /\ Len(conns') = Len(conns)
      /\ \A d \in Conns : conns'[d] = IF d = c THEN n ELSE conns[d]
  BY <1>1, <1>3, <1>4, ReplacedConn DEF Inv
<1> QED BY <1>3, <1>5

NewConn(s) == conns'[Len(conns) + 1] = [slave |-> s, client |-> "backlog", fd |-> 0,
                                        out |-> << >>, peer |-> TRUE, missed |-> {}]

(* A slave that starts adds one connection to the backlog. *)
LEMMA StartedConns ==
  ASSUME Inv, NEW s \in Slaves, SlaveStart(s)
  PROVE  /\ ConnInv' /\ Len(conns') = Len(conns) + 1
         /\ \A d \in Conns : conns'[d] = conns[d]
         /\ conns'[Len(conns) + 1].client = "backlog" /\ NewConn(s)
<1> DEFINE n == [slave |-> s, client |-> "backlog", fd |-> 0,
                 out |-> << >>, peer |-> TRUE, missed |-> {}]
<1>1. n \in Connection /\ n.client = "backlog"
  BY ReplicationAssumption DEF Connection
<1>2. conns' = Append(conns, n) /\ Len(conns) < MaxConns
  BY DEF SlaveStart
<1>3. conns \in Seq(Connection) /\ MaxConns \in Nat /\ Len(conns) \in Nat
  BY ReplicationAssumption DEF Inv, ConnInv
<1> HIDE DEF n
<1>4. /\ conns' \in Seq(Connection) /\ Len(conns') = Len(conns) + 1
      /\ \A d \in 1 .. Len(conns) : conns'[d] = conns[d]
      /\ conns'[Len(conns) + 1] = n
  BY <1>1, <1>2, <1>3, AppendProperties
<1>5. ConnInv' /\ \A d \in Conns : conns'[d] = conns[d]
  BY <1>1, <1>2, <1>3, <1>4 DEF Inv, ConnInv, Conns
<1>6. conns'[Len(conns) + 1].client = "backlog" /\ NewConn(s)
  BY <1>1, <1>4 DEF n, NewConn
<1> QED BY <1>4, <1>5, <1>6

HungUp(s) ==
    LET c == slaves[s].conn
    IN  /\ c \in Conns
        /\ \A d \in Conns \ {c} : conns'[d] = conns[d]
        /\ conns'[c] = [conns[c] EXCEPT !.peer = FALSE]

(* A slave that exits changes no client's state: the master has not        *)
(* noticed.                                                                *)
LEMMA ExitedConns ==
  ASSUME Inv, NEW s \in Slaves, slaves[s].up, Exit(s)
  PROVE  /\ ConnInv' /\ Len(conns') = Len(conns)
         /\ \A d \in Conns : conns'[d].client = conns[d].client
         /\ HungUp(s)
<1> DEFINE c == slaves[s].conn
           n == [conns[c] EXCEPT !.peer = FALSE]
<1>1. c \in Conns
  <2>1. slaves[s] \in SlaveState /\ SlaveOK(slaves[s])
    BY DEF Inv, SlaveInv
  <2>2. c \in 0 .. Len(conns) /\ c # 0 /\ Len(conns) \in Nat
    BY <2>1 DEF SlaveState, SlaveOK, None, Inv, ConnInv
  <2> QED BY <2>2 DEF Conns
<1>2. conns[c] \in Connection
  BY <1>1 DEF Inv, ConnInv, Conns
<1>3. n \in Connection /\ n.client = conns[c].client /\ n.fd = conns[c].fd
  BY <1>2 DEF Connection
<1>4. n.client = "active" => n.fd \in Fds
  BY <1>1, <1>3 DEF Inv, ConnInv
<1>5. conns' = [conns EXCEPT ![c] = n]
  BY DEF Exit
<1> HIDE DEF n, c
<1>6. /\ ConnInv' /\ Len(conns') = Len(conns)
      /\ \A d \in Conns : conns'[d] = IF d = c THEN n ELSE conns[d]
  BY <1>1, <1>3, <1>4, <1>5, ReplacedConn DEF Inv
<1>7. \A d \in Conns : conns'[d].client = conns[d].client
  BY <1>3, <1>6
<1>8. HungUp(s)
  BY <1>1, <1>6 DEF n, c, HungUp
<1> QED BY <1>6, <1>7, <1>8

(* The clients that a record disconnects. *)
Lagging == {c \in Active : Lags(c)}

SentTo(r) ==
    \A c \in Conns :
       /\ c \in Lagging =>
             conns'[c] = [conns[c] EXCEPT !.client = "lagging", !.out = << >>]
       /\ c \in Active \ Lagging =>
             conns'[c] = [conns[c] EXCEPT !.out = Append(@, r)]
       /\ c \notin Active => conns'[c] = conns[c]

(* A record makes the clients that lag inactive, and nobody else. *)
LEMMA SentConns ==
  ASSUME Inv, NEW r \in Record, send_to_active_slaves(r)
  PROVE  /\ ConnInv' /\ Len(conns') = Len(conns)
         /\ Active' = Active \ Lagging
         /\ SentTo(r)
<1> DEFINE Sent(c) ==
        CASE c \in Lagging -> [conns[c] EXCEPT !.client = "lagging", !.out = << >>]
          [] c \in Active \ Lagging -> [conns[c] EXCEPT !.out = Append(@, r)]
          [] OTHER -> conns[c]
<1>1. conns' = [c \in Conns |-> Sent(c)]
  BY DEF send_to_active_slaves, Lagging
<1>2. ASSUME NEW c \in Conns
      PROVE  /\ Sent(c) \in Connection
             /\ Sent(c).client = IF c \in Lagging THEN "lagging" ELSE conns[c].client
             /\ Sent(c).fd = conns[c].fd
  <2>1. conns[c] \in Connection /\ << >> \in Seq(1 .. MaxRecords)
    BY DEF Inv, ConnInv, Conns
  <2>2. Append(conns[c].out, r) \in Seq(1 .. MaxRecords)
    BY <2>1, AppendProperties DEF Connection, Record
  <2>3. CASE c \in Lagging
    BY <2>1, <2>3 DEF Connection
  <2>4. CASE c \in Active \ Lagging
    BY <2>1, <2>2, <2>4 DEF Connection
  <2>5. CASE c \notin Active
    BY <2>1, <2>5 DEF Lagging
  <2> QED BY <2>3, <2>4, <2>5 DEF Lagging
<1> HIDE DEF Sent
<1>3. conns' \in [Conns -> Connection]
  BY <1>1, <1>2
<1>4. \A c \in Conns : conns'[c].client = "active" => conns'[c].fd \in Fds
  BY <1>1, <1>2 DEF Inv, ConnInv
<1>5. ConnInv' /\ Len(conns') = Len(conns)
  BY <1>3, <1>4, ReplacedConns DEF Inv
<1>6. Conns' = Conns
  BY <1>5 DEF Conns
<1>7. Active' = Active \ Lagging
  BY <1>1, <1>2, <1>6 DEF Active
<1>8. \A c \in Conns : conns'[c] = Sent(c)
  BY <1>1
<1>9. SentTo(r)
  BY <1>8 DEF Sent, SentTo, Lagging
<1> QED BY <1>5, <1>7, <1>9

AllGone == \A c \in Conns :
               conns'[c] = [conns[c] EXCEPT !.client = "gone", !.out = << >>]

(* A crash of the master leaves no active client. *)
LEMMA CrashedConns ==
  ASSUME Inv, MasterCrash
  PROVE  /\ ConnInv' /\ Len(conns') = Len(conns) /\ Active' = {}
         /\ AllGone
<1> DEFINE Gone(c) == [conns[c] EXCEPT !.client = "gone", !.out = << >>]
<1>1. conns' = [c \in Conns |-> Gone(c)]
  BY DEF MasterCrash
<1>2. ASSUME NEW c \in Conns
      PROVE  Gone(c) \in Connection /\ Gone(c).client = "gone"
  <2>1. conns[c] \in Connection /\ << >> \in Seq(1 .. MaxRecords)
    BY DEF Inv, ConnInv, Conns
  <2> QED BY <2>1 DEF Connection
<1> HIDE DEF Gone
<1>3. conns' \in [Conns -> Connection] /\ \A c \in Conns : conns'[c].client = "gone"
  BY <1>1, <1>2
<1>4. ConnInv' /\ Len(conns') = Len(conns)
  BY <1>3, ReplacedConns DEF Inv
<1>5. Conns' = Conns
  BY <1>4 DEF Conns
<1>6. \A c \in Conns : conns'[c] = Gone(c)
  BY <1>1
<1>7. Active' = {}
  BY <1>3, <1>5 DEF Active
<1>8. AllGone
  BY <1>6 DEF Gone, AllGone
<1> QED BY <1>4, <1>7, <1>8

(* A step changes no connection's number, and no slave is counted twice. *)
LEMMA ConnInvStep ==
  ASSUME Inv, [Next]_vars
  PROVE  ConnInv' /\ Len(conns) <= Len(conns')
<1>0. Len(conns) \in Nat
  BY DEF Inv, ConnInv
<1>1. CASE add_to_db_log
  <2>1. records + 1 \in Record
    BY <1>1, ReplicationAssumption DEF add_to_db_log, Inv, LogInv, Record
  <2>2. send_to_active_slaves(records + 1) \/ UNCHANGED conns
    BY <1>1 DEF add_to_db_log, network
  <2>3. CASE UNCHANGED conns
    BY <1>0, <2>3 DEF Inv, ConnInv, Conns
  <2> QED BY <1>0, <2>1, <2>2, <2>3, SentConns
<1>2. CASE flush_log_db \/ MasterBoot \/ Finalize
  BY <1>0, <1>2 DEF flush_log_db, MasterBoot, Finalize, network, Inv, ConnInv, Conns
<1>3. CASE MasterCrash
  BY <1>0, <1>3, CrashedConns
<1>4. ASSUME NEW s \in Slaves, SlaveNext(s) PROVE ConnInv' /\ Len(conns) <= Len(conns')
  <2>1. CASE SlaveStart(s)
    BY <1>0, <2>1, StartedConns
  <2>2. CASE reader_eventcb(s) \/ SlaveCrash(s)
    BY <1>0, <2>2, ExitedConns DEF reader_eventcb, SlaveCrash
  <2>3. CASE SlaveStartAlone(s) \/ fake_request(s) \/ worker_do_work(s)
    <3>1. UNCHANGED conns
      BY <2>3 DEF SlaveStartAlone, fake_request, worker_do_work, network
    <3> QED BY <1>0, <3>1 DEF Inv, ConnInv, Conns
  <2> QED BY <1>4, <2>1, <2>2, <2>3 DEF SlaveNext
<1>5. ASSUME NEW c \in Conns, ConnectionNext(c)
      PROVE  ConnInv' /\ Len(conns) <= Len(conns')
  <2>1. CASE acceptcb(c)
    BY <1>0, <2>1, AcceptConns
  <2>2. CASE AcceptFailed(c)
    BY <1>0, <2>2, RefusedConns
  <2>3. CASE LostWrite(c)
    <3>1. Sends(c)
      BY <2>3 DEF LostWrite, PeerGone, Sends
    <3> QED BY <1>0, <3>1, ShortenedConns
  <2>4. CASE sender_eventcb(c) \/ StaleEvent(c)
    BY <1>0, <2>4, FreedConns DEF sender_eventcb, StaleEvent
  <2>5. CASE reader_readcb(c)
    <3>1. Sends(c)
      BY <2>5 DEF reader_readcb, Sends
    <3> QED BY <1>0, <3>1, ShortenedConns
  <2> QED BY <1>5, <2>1, <2>2, <2>3, <2>4, <2>5 DEF ConnectionNext
<1>6. CASE UNCHANGED vars
  BY <1>0, <1>6 DEF vars, Inv, ConnInv, Conns
<1> QED BY <1>1, <1>2, <1>3, <1>4, <1>5, <1>6 DEF Next
-----------------------------------------------------------------------------
(* The descriptors *)

(* Connections are added and never forgotten: what was in range stays so. *)
LEMMA DescriptorsKept ==
  ASSUME Inv, [Next]_vars, descriptor' \in [Fds -> 0 .. Len(conns)],
         finalizers' \in Seq(Fds), mixed' \subseteq Conns
  PROVE  DescriptorInv'
<1>1. Len(conns) \in Nat /\ Len(conns') \in Nat /\ Len(conns) <= Len(conns')
  BY ConnInvStep DEF Inv, ConnInv
<1>2. 0 .. Len(conns) \subseteq 0 .. Len(conns') /\ Conns \subseteq Conns'
  BY <1>1 DEF Conns
<1>3. Fds' = Fds
  BY DEF Fds
<1> QED BY <1>2, <1>3 DEF DescriptorInv

(* A client is freed: its descriptor is closed, and its finalizer queued. *)
LEMMA FreedDescriptors ==
  ASSUME Inv, [Next]_vars, NEW c \in Conns, conns[c].client = "active", FreeClient(c)
  PROVE  DescriptorInv'
<1>1. conns[c].fd \in Fds
  BY DEF Inv, ConnInv
<1>2. /\ descriptor' = [descriptor EXCEPT ![conns[c].fd] = None]
      /\ finalizers' = Append(finalizers, conns[c].fd)
      /\ mixed' = mixed \cup (CutBy({conns[c].fd}) \ {c})
  BY DEF FreeClient
<1>3. 0 \in 0 .. Len(conns)
  BY DEF Inv, ConnInv
<1>4. descriptor' \in [Fds -> 0 .. Len(conns)]
  BY <1>2, <1>3 DEF Inv, DescriptorInv, None
<1>5. finalizers' \in Seq(Fds)
  BY <1>1, <1>2, AppendProperties DEF Inv, DescriptorInv
<1>6. CutBy({conns[c].fd}) \subseteq Conns
  BY <1>1, CutConns DEF Inv
<1>7. mixed' \subseteq Conns
  BY <1>2, <1>6 DEF Inv, DescriptorInv
<1> QED BY <1>4, <1>5, <1>7, DescriptorsKept

(* Clients that lag are disconnected: the same for all of them. *)
LEMMA SentDescriptors ==
  ASSUME Inv, [Next]_vars, NEW r \in Record, send_to_active_slaves(r)
  PROVE  DescriptorInv'
<1> DEFINE queue == SetToSeq(Lagging)
           closed == [i \in DOMAIN queue |-> conns[queue[i]].fd]
<1>1. \A c \in Lagging : c \in Conns /\ conns[c].fd \in Fds
  BY DEF Lagging, Active, Inv, ConnInv
<1>2. IsFiniteSet(Lagging)
  <2>1. IsFiniteSet(Conns)
    BY FS_Interval DEF Conns, Inv, ConnInv
  <2> QED BY <1>1, <2>1, FS_Subset
<1>3. Cardinality(Lagging) \in Nat /\ queue \in [1 .. Cardinality(Lagging) -> Lagging]
  BY <1>2, SetToSeqFact
<1>4. closed \in [1 .. Cardinality(Lagging) -> Fds]
  BY <1>1, <1>3
<1> HIDE DEF queue
<1>5. closed \in Seq(Fds)
  BY <1>3, <1>4, FunctionIsSeq
<1>6. /\ finalizers' = finalizers \o closed
      /\ mixed' = mixed \cup (CutBy({conns[c].fd : c \in Lagging}) \ Lagging)
      /\ descriptor' = [f \in Fds |-> IF \E c \in Lagging : conns[c].fd = f
                                      THEN None ELSE descriptor[f]]
  BY DEF send_to_active_slaves, Lagging, queue
<1> HIDE DEF closed
<1>7. finalizers' \in Seq(Fds)
  BY <1>5, <1>6, ConcatProperties DEF Inv, DescriptorInv
<1>8. mixed' \subseteq Conns
  <2>1. {conns[c].fd : c \in Lagging} \in SUBSET Fds
    BY <1>1
  <2>2. CutBy({conns[c].fd : c \in Lagging}) \subseteq Conns
    BY <2>1, CutConns DEF Inv
  <2> QED BY <1>6, <2>2 DEF Inv, DescriptorInv
<1>9. descriptor' \in [Fds -> 0 .. Len(conns)]
  <2>1. 0 \in 0 .. Len(conns)
    BY DEF Inv, ConnInv
  <2> QED BY <1>6, <2>1 DEF Inv, DescriptorInv, None
<1> QED BY <1>7, <1>8, <1>9, DescriptorsKept

(* Descriptors lead to connections, and finalizers to descriptors. *)
LEMMA DescriptorInvStep == Inv /\ [Next]_vars => DescriptorInv'
<1> SUFFICES ASSUME Inv, [Next]_vars PROVE DescriptorInv'
  OBVIOUS
<1>0. Len(conns) \in Nat /\ 0 \in 0 .. Len(conns)
  BY DEF Inv, ConnInv
<1>1. CASE UNCHANGED <<descriptor, finalizers, mixed>>
  BY <1>1, DescriptorsKept DEF Inv, DescriptorInv
<1>2. CASE add_to_db_log
  <2>1. records + 1 \in Record
    BY <1>2, ReplicationAssumption DEF add_to_db_log, Inv, LogInv, Record
  <2>2. send_to_active_slaves(records + 1) \/ UNCHANGED <<descriptor, finalizers, mixed>>
    BY <1>2 DEF add_to_db_log, network
  <2> QED BY <1>1, <2>1, <2>2, SentDescriptors
<1>3. CASE Finalize
  <2>1. /\ descriptor' = [descriptor EXCEPT ![Head(finalizers)] = None]
        /\ finalizers' = Tail(finalizers) /\ finalizers # << >>
        /\ mixed' = mixed \cup CutBy({Head(finalizers)})
    BY <1>3 DEF Finalize
  <2>2. Head(finalizers) \in Fds /\ Tail(finalizers) \in Seq(Fds)
    BY <2>1, HeadTailProperties DEF Inv, DescriptorInv
  <2>3. CutBy({Head(finalizers)}) \subseteq Conns
    BY <2>2, CutConns DEF Inv
  <2>4. mixed' \subseteq Conns
    BY <2>1, <2>3 DEF Inv, DescriptorInv
  <2>5. descriptor' \in [Fds -> 0 .. Len(conns)]
    BY <1>0, <2>1 DEF Inv, DescriptorInv, None
  <2> QED BY <2>1, <2>2, <2>4, <2>5, DescriptorsKept
<1>4. CASE MasterCrash
  <2>1. descriptor' = [f \in Fds |-> None] /\ finalizers' = << >> /\ mixed' = mixed
    BY <1>4 DEF MasterCrash
  <2>2. descriptor' \in [Fds -> 0 .. Len(conns)] /\ finalizers' \in Seq(Fds)
    BY <1>0, <2>1 DEF None
  <2>3. mixed' \subseteq Conns
    BY <2>1 DEF Inv, DescriptorInv
  <2> QED BY <2>2, <2>3, DescriptorsKept
<1>5. ASSUME NEW c \in Conns, acceptcb(c) PROVE DescriptorInv'
  <2>1. /\ descriptor' = [descriptor EXCEPT ![Min(FreeFds)] = c]
        /\ UNCHANGED <<finalizers, mixed>>
    BY <1>5 DEF acceptcb
  <2>2. c \in 0 .. Len(conns)
    BY <1>0 DEF Conns
  <2>3. descriptor' \in [Fds -> 0 .. Len(conns)]
    BY <2>1, <2>2 DEF Inv, DescriptorInv
  <2> QED BY <2>1, <2>3, DescriptorsKept DEF Inv, DescriptorInv
<1>6. ASSUME NEW c \in Conns, AcceptFailed(c) PROVE DescriptorInv'
  <2>1. /\ finalizers' = Append(finalizers, Min(FreeFds)) /\ FreeFds # {}
        /\ UNCHANGED <<descriptor, mixed>>
    BY <1>6 DEF AcceptFailed
  <2>2. finalizers' \in Seq(Fds)
    BY <2>1, LowestFd, AppendProperties DEF Inv, DescriptorInv
  <2> QED BY <2>1, <2>2, DescriptorsKept DEF Inv, DescriptorInv
<1>7. ASSUME NEW c \in Conns, sender_eventcb(c) \/ StaleEvent(c) PROVE DescriptorInv'
  BY <1>7, FreedDescriptors DEF sender_eventcb, StaleEvent, PeerGone
<1>8. ASSUME NEW c \in Conns, LostWrite(c) \/ reader_readcb(c) PROVE DescriptorInv'
  <2>1. CASE LostWrite(c)
    BY <1>1, <2>1 DEF LostWrite
  <2>2. CASE reader_readcb(c)
    <3> DEFINE d == descriptor[conns[c].fd]
    <3>1. /\ mixed' = (IF d = c THEN mixed ELSE mixed \cup {c, d}) /\ d # None
          /\ UNCHANGED <<descriptor, finalizers>> /\ conns[c].client = "active"
      BY <2>2 DEF reader_readcb
    <3>2. d \in Conns
      <4>1. conns[c].fd \in Fds
        BY <3>1 DEF Inv, ConnInv
      <4>2. d \in 0 .. Len(conns)
        BY <4>1 DEF Inv, DescriptorInv
      <4> QED BY <1>0, <3>1, <4>2 DEF Conns, None
    <3>3. mixed' \subseteq Conns
      BY <3>1, <3>2 DEF Inv, DescriptorInv
    <3> QED BY <3>1, <3>3, DescriptorsKept DEF Inv, DescriptorInv
  <2> QED BY <1>8, <2>1, <2>2
<1>9. ASSUME NEW s \in Slaves, SlaveNext(s) PROVE DescriptorInv'
  <2>1. UNCHANGED <<descriptor, finalizers, mixed>>
    BY <1>9 DEF SlaveNext, SlaveStart, SlaveStartAlone, fake_request, worker_do_work,
                reader_eventcb, SlaveCrash, Exit, network
  <2> QED BY <1>1, <2>1
<1>10. CASE flush_log_db \/ MasterBoot \/ UNCHANGED vars
  BY <1>1, <1>10 DEF flush_log_db, MasterBoot, vars, network
<1> QED
  BY <1>2, <1>3, <1>4, <1>5, <1>6, <1>7, <1>8, <1>9, <1>10 DEF Next, ConnectionNext
-----------------------------------------------------------------------------
(* The slaves *)

(* What a slave may be, it may still be after a step. *)
LEMMA StateGrows == ASSUME Inv, [Next]_vars PROVE SlaveState \subseteq SlaveState'
<1>1. Len(conns) \in Nat /\ Len(conns') \in Nat /\ Len(conns) <= Len(conns')
  BY ConnInvStep DEF Inv, ConnInv
<1>2. 0 .. Len(conns) \subseteq 0 .. Len(conns')
  BY <1>1
<1> QED BY <1>2 DEF SlaveState

(* A step that touches no slave keeps all of them right. *)
LEMMA SlavesKept == ASSUME Inv, [Next]_vars, UNCHANGED slaves PROVE SlaveInv'
  BY StateGrows DEF Inv, SlaveInv

(* A step that replaces one slave keeps the others right. *)
LEMMA ReplacedSlave ==
  ASSUME Inv, [Next]_vars, NEW s \in Slaves, NEW n,
         slaves' = [slaves EXCEPT ![s] = n], n \in SlaveState', SlaveOK(n)
  PROVE  SlaveInv'
  BY StateGrows DEF Inv, SlaveInv

(* A slave that is down is consistent. *)
LEMMA StoppedOK ==
  ASSUME ConnInv PROVE Stopped \in SlaveState /\ SlaveOK(Stopped)
<1>1. << >> \in Seq(Record) /\ Len(<< >>) = 0 /\ 0 \in 0 .. Len(conns)
  BY DEF ConnInv
<1>2. MaxQueued \in Nat
  BY ReplicationAssumption
<1> QED BY <1>1, <1>2 DEF Stopped, SlaveState, SlaveOK, None

(* A slave that starts has an empty journal and memory. *)
LEMMA StartSlave ==
  ASSUME Inv, [Next]_vars, NEW s \in Slaves, SlaveStart(s) PROVE SlaveInv'
<1> DEFINE n == [Stopped EXCEPT !.up = TRUE, !.conn = Len(conns) + 1]
<1>1. slaves' = [slaves EXCEPT ![s] = n]
  BY DEF SlaveStart
<1>2. Len(conns) \in Nat /\ Len(conns) + 1 \in 0 .. Len(conns')
  BY StartedConns DEF Inv, ConnInv
<1>3. << >> \in Seq(Record) /\ Len(<< >>) = 0 /\ MaxQueued \in Nat
  BY ReplicationAssumption
<1>4. n \in SlaveState'
  BY <1>2, <1>3 DEF Stopped, SlaveState, Record
<1>5. << >> \o << >> \o << >> = << >>
  BY <1>3, ConcatEmptySeq
<1>6. SlaveOK(n)
  BY <1>2, <1>3, <1>5 DEF Stopped, SlaveOK, None
<1> HIDE DEF n
<1> QED BY <1>1, <1>4, <1>6, ReplacedSlave

(* A slave that exits takes its queue with it. *)
LEMMA ExitSlave ==
  ASSUME Inv, [Next]_vars, NEW s \in Slaves, slaves[s].up, Exit(s) PROVE SlaveInv'
<1>1. PICK i \in Written(s) :
        slaves' = [slaves EXCEPT ![s] =
                      [Stopped EXCEPT !.journal = SubSeq(slaves[s].journal, 1, i)]]
  BY DEF Exit
<1> DEFINE n == [Stopped EXCEPT !.journal = SubSeq(slaves[s].journal, 1, i)]
<1>2. slaves[s].journal \in Seq(Record)
  BY DEF Inv, SlaveInv, SlaveState
<1>3. i \in 0 .. Len(slaves[s].journal)
  BY <1>2 DEF Written
<1>4. SubSeq(slaves[s].journal, 1, i) \in Seq(Record)
  BY <1>2, <1>3
<1>5. n \in SlaveState /\ SlaveOK(n)
  BY <1>4, StoppedOK DEF Stopped, SlaveState, SlaveOK, Inv
<1> HIDE DEF n
<1>6. n \in SlaveState'
  BY <1>5, StateGrows
<1>7. slaves' = [slaves EXCEPT ![s] = n]
  BY <1>1 DEF n
<1> QED BY <1>5, <1>6, <1>7, ReplacedSlave

(* A retried push hands the record over once. *)
LEMMA PushSlave ==
  ASSUME Inv, [Next]_vars, NEW s \in Slaves, fake_request(s) PROVE SlaveInv'
<1> DEFINE o == slaves[s]
           n == [o EXCEPT !.queue = @ \o o.pending, !.pending = << >>]
<1>1. o \in SlaveState /\ SlaveOK(o)
  BY DEF Inv, SlaveInv
<1>2. slaves' = [slaves EXCEPT ![s] = n]
  BY DEF fake_request, Inv, SlaveInv
<1>3. Len(o.queue) < MaxQueued /\ MaxQueued \in Nat
  BY ReplicationAssumption DEF fake_request
<1> HIDE DEF o
<1>4. /\ o.memory \in Seq(Record) /\ o.queue \in Seq(Record)
      /\ o.pending \in Seq(Record) /\ << >> \in Seq(Record) /\ Len(<< >>) = 0
  BY <1>1 DEF SlaveState
<1>5. /\ o.queue \o o.pending \in Seq(Record)
      /\ Len(o.queue \o o.pending) = Len(o.queue) + Len(o.pending)
  BY <1>4, ConcatProperties
<1>6. n \in SlaveState
  BY <1>1, <1>4, <1>5 DEF SlaveState
<1>7. Len(o.queue \o o.pending) <= MaxQueued
  <2>1. Len(o.pending) <= 1 /\ Len(o.pending) \in Nat /\ Len(o.queue) \in Nat
    BY <1>1, <1>4 DEF SlaveOK
  <2>2. \A a, b, m \in Nat : a < m /\ b <= 1 => a + b <= m
    OBVIOUS
  <2>3. Len(o.queue) + Len(o.pending) <= MaxQueued
    BY <1>3, <2>1, <2>2
  <2> QED BY <1>5, <2>3
<1>8. o.memory \o (o.queue \o o.pending) \o << >> = o.memory \o o.queue \o o.pending
  <2>1. \A m, q, p \in Seq(Record) : (m \o q) \o p = m \o (q \o p)
    BY ConcatAssociative
  <2>2. o.memory \o (o.queue \o o.pending) \in Seq(Record)
    BY <1>4, <1>5, ConcatProperties
  <2> QED BY <1>4, <2>1, <2>2, ConcatEmptySeq, ZenonT(60)
<1>9. /\ n.up = o.up /\ n.conn = o.conn /\ n.memory = o.memory /\ n.journal = o.journal
      /\ n.queue = o.queue \o o.pending /\ n.pending = << >>
  BY <1>1 DEF SlaveState
<1> HIDE DEF n
<1>10. SlaveOK(n)
  <2>0. Len(n.pending) <= 1
    BY <1>4, <1>9
  <2>1. Len(n.pending) <= 1 /\ Len(n.queue) <= MaxQueued
    BY <1>7, <1>9, <2>0
  <2>2. n.memory \o n.queue \o n.pending = o.memory \o o.queue \o o.pending
    BY <1>8, <1>9
  <2> QED BY <1>1, <1>9, <2>1, <2>2 DEF SlaveOK
<1> QED BY <1>2, <1>6, <1>10, StateGrows, ReplacedSlave

(* A worker moves the head of the queue into memory. *)
LEMMA WorkSlave ==
  ASSUME Inv, [Next]_vars, NEW s \in Slaves, worker_do_work(s) PROVE SlaveInv'
<1> DEFINE o == slaves[s]
           n == [o EXCEPT !.queue = Tail(@), !.memory = Append(@, Head(o.queue))]
<1>1. o \in SlaveState /\ SlaveOK(o) /\ o.queue # << >>
  BY DEF Inv, SlaveInv, worker_do_work
<1>2. slaves' = [slaves EXCEPT ![s] = n]
  BY DEF worker_do_work, Inv, SlaveInv
<1> HIDE DEF o
<1>3. /\ o.memory \in Seq(Record) /\ o.queue \in Seq(Record) /\ o.pending \in Seq(Record)
  BY <1>1 DEF SlaveState
<1>4. /\ Head(o.queue) \in Record /\ Tail(o.queue) \in Seq(Record)
      /\ Len(Tail(o.queue)) = Len(o.queue) - 1
  BY <1>1, <1>3, HeadTailProperties
<1>5. Append(o.memory, Head(o.queue)) \in Seq(Record)
  BY <1>3, <1>4, AppendProperties
<1>6. n \in SlaveState
  BY <1>1, <1>4, <1>5 DEF SlaveState
<1>7. Append(o.memory, Head(o.queue)) \o Tail(o.queue) = o.memory \o o.queue
  BY <1>1, <1>3, MoveHead
<1>8. /\ n.up = o.up /\ n.conn = o.conn /\ n.pending = o.pending /\ n.journal = o.journal
      /\ n.queue = Tail(o.queue) /\ n.memory = Append(o.memory, Head(o.queue))
  BY <1>1 DEF SlaveState
<1> HIDE DEF n
<1>9. Len(n.queue) <= MaxQueued
  BY <1>1, <1>3, <1>4, <1>8, ReplicationAssumption DEF SlaveOK
<1>10. SlaveOK(n)
  BY <1>1, <1>7, <1>8, <1>9 DEF SlaveOK
<1> QED BY <1>2, <1>6, <1>10, StateGrows, ReplacedSlave

(* Whoever reads from a descriptor is the peer of a connection. *)
LEMMA ReadTarget ==
  ASSUME Inv, NEW c \in Conns, conns[c].client = "active",
         descriptor[conns[c].fd] # None
  PROVE  /\ descriptor[conns[c].fd] \in Conns
         /\ conns[descriptor[conns[c].fd]].slave \in Slaves
<1>1. conns[c].fd \in Fds
  BY DEF Inv, ConnInv
<1>2. descriptor[conns[c].fd] \in 0 .. Len(conns) /\ Len(conns) \in Nat
  BY <1>1 DEF Inv, DescriptorInv, ConnInv
<1>3. descriptor[conns[c].fd] \in Conns
  BY <1>2 DEF Conns, None
<1>4. conns[descriptor[conns[c].fd]] \in Connection
  BY <1>3 DEF Conns, Inv, ConnInv
<1> QED BY <1>3, <1>4 DEF Connection

(* A record that is read is logged and pushed, or kept for a retry. *)
LEMMA ReadSlave ==
  ASSUME Inv, [Next]_vars, NEW c \in Conns, reader_readcb(c) PROVE SlaveInv'
<1> DEFINE d == descriptor[conns[c].fd]
           s == conns[d].slave
           r == Head(conns[c].out)
           o == slaves[s]
           n == [o EXCEPT !.journal = Append(@, r), !.pending = <<r>>]
<1>1. /\ conns[c].client = "active" /\ conns[c].out # << >> /\ d # None /\ ~Blocked(s)
      /\ slaves' = IF r \in SplitRecords THEN slaves
                   ELSE [slaves EXCEPT ![s].journal = Append(@, r), ![s].pending = <<r>>]
  BY DEF reader_readcb
<1>2. CASE r \in SplitRecords
  BY <1>1, <1>2, SlavesKept
<1>3. CASE r \notin SplitRecords
  <2>2. s \in Slaves
    BY <1>1, ReadTarget
  <2>3. r \in Record
    <3>1. conns[c].out \in Seq(Record)
      <4>1. conns[c] \in Connection
        BY DEF Inv, ConnInv, Conns
      <4> QED BY <4>1 DEF Connection, Record
    <3> QED BY <1>1, <3>1, HeadTailProperties
  <2>4. slaves' = [slaves EXCEPT ![s] = n]
    BY <1>1, <1>3, <2>2 DEF Inv, SlaveInv
  <2>5. o \in SlaveState /\ SlaveOK(o) /\ o.pending = << >>
    BY <1>1, <2>2 DEF Inv, SlaveInv, Blocked
  <2> HIDE DEF o, r, s, d
  <2>6. o.memory \in Seq(Record) /\ o.queue \in Seq(Record) /\ o.journal \in Seq(Record)
    BY <2>5 DEF SlaveState
  <2>7. <<r>> \in Seq(Record) /\ Len(<<r>>) = 1 /\ Append(o.journal, r) \in Seq(Record)
    BY <2>3, <2>6, AppendProperties
  <2>8. n \in SlaveState
    BY <2>5, <2>7 DEF SlaveState
  <2>9. /\ n.up = o.up /\ n.conn = o.conn /\ n.queue = o.queue /\ n.memory = o.memory
        /\ n.pending = <<r>> /\ n.journal = Append(o.journal, r)
    BY <2>5 DEF SlaveState
  <2> HIDE DEF n
  <2>10. o.up => o.memory \o o.queue \o <<r>> = Append(o.journal, r)
    <3>1. o.memory \o o.queue \in Seq(Record)
      BY <2>6, ConcatProperties
    <3>2. o.up => o.memory \o o.queue = o.journal
      BY <2>5, <3>1, ConcatEmptySeq DEF SlaveOK
    <3>3. Append(o.memory \o o.queue, r) = o.memory \o o.queue \o <<r>>
      BY <2>3, <3>1, AppendIsConcat
    <3> QED BY <3>2, <3>3
  <2>11. SlaveOK(n)
    <3>1. Len(n.pending) <= 1 /\ n.queue = o.queue
      BY <2>7, <2>9
    <3>2. n.up => n.memory \o n.queue \o n.pending = n.journal
      BY <2>9, <2>10
    <3> QED BY <2>5, <2>9, <3>1, <3>2 DEF SlaveOK
  <2> QED BY <2>2, <2>4, <2>8, <2>11, StateGrows, ReplacedSlave
<1> QED BY <1>2, <1>3

(* Memory, queue and record at hand stay the journal. *)
LEMMA SlaveInvStep == Inv /\ [Next]_vars => SlaveInv'
<1> SUFFICES ASSUME Inv, [Next]_vars PROVE SlaveInv'
  OBVIOUS
<1>1. CASE UNCHANGED slaves
  BY <1>1, SlavesKept
<1>2. ASSUME NEW s \in Slaves, SlaveNext(s) PROVE SlaveInv'
  <2>1. CASE SlaveStartAlone(s)
    <3>1. slaves' = [slaves EXCEPT ![s] = Stopped]
      BY <2>1 DEF SlaveStartAlone
    <3> QED BY <3>1, StoppedOK, StateGrows, ReplacedSlave DEF Inv
  <2>2. CASE reader_eventcb(s) \/ SlaveCrash(s)
    BY <2>2, ExitSlave DEF reader_eventcb, SlaveCrash
  <2> QED BY <1>2, <2>1, <2>2, StartSlave, PushSlave, WorkSlave DEF SlaveNext
<1>3. ASSUME NEW c \in Conns, ConnectionNext(c) PROVE SlaveInv'
  <2>1. CASE ~reader_readcb(c)
    <3>1. UNCHANGED slaves
      BY <1>3, <2>1 DEF ConnectionNext, acceptcb, AcceptFailed, LostWrite,
                        sender_eventcb, StaleEvent, FreeClient
    <3> QED BY <1>1, <3>1
  <2> QED BY <2>1, ReadSlave
<1>4. CASE add_to_db_log \/ flush_log_db \/ Finalize \/ MasterCrash \/ MasterBoot
           \/ UNCHANGED vars
  <2>1. UNCHANGED slaves
    BY <1>4 DEF add_to_db_log, flush_log_db, Finalize, MasterCrash, MasterBoot, vars
  <2> QED BY <1>1, <2>1
<1> QED BY <1>2, <1>3, <1>4 DEF Next
-----------------------------------------------------------------------------
(* Nothing is connected at first. *)
LEMMA InitInv == Init => Inv
<1> SUFFICES ASSUME Init PROVE Inv
  OBVIOUS
<1> USE ReplicationAssumption DEF Init
<1>1. Len(conns) = 0 /\ conns = << >> /\ << >> \in Seq(Connection)
      /\ << >> \in Seq(Record) /\ << >> \in Seq(Fds) /\ << >> \in Seq(1 .. records)
  OBVIOUS
<1>2. LogInv
  <2>1. up \in BOOLEAN
    OBVIOUS
  <2> QED BY <1>1, <2>1 DEF LogInv
<1>3. ConnInv
  BY <1>1 DEF ConnInv, Conns
<1>4. DescriptorInv
  <2>1. descriptor \in [Fds -> 0 .. Len(conns)]
    BY <1>1 DEF None
  <2> QED BY <1>1, <2>1 DEF DescriptorInv
<1>5. SlaveInv
  BY <1>3, StoppedOK DEF SlaveInv
<1> QED BY <1>2, <1>3, <1>4, <1>5 DEF Inv

(***************************************************************************)
(* Inv is inductive.                                                       *)
(***************************************************************************)
THEOREM ReplicationInvariant == Spec => []Inv
<1>1. Inv /\ [Next]_vars => Inv'
  <2> SUFFICES ASSUME Inv, [Next]_vars PROVE Inv'
    OBVIOUS
  <2>1. LogInv'
    BY LogInvStep DEF Inv
  <2>2. ConnInv'
    BY ConnInvStep
  <2> QED BY <2>1, <2>2, DescriptorInvStep, SlaveInvStep DEF Inv
<1> QED BY <1>1, InitInv, PTL DEF Spec

(***************************************************************************)
(* A slave's memory, queue and record at hand are its journal              *)
(* (fake_request in replication_slave.c, save_event before push_cqueue),   *)
(* for any number of slaves and any size of the queue.                     *)
(***************************************************************************)
THEOREM MemoryIsJournal == Spec => []MemoryFollowsJournal
<1>1. Inv => MemoryFollowsJournal
  BY DEF Inv, SlaveInv, SlaveOK, MemoryFollowsJournal
<1> QED BY <1>1, ReplicationInvariant, PTL
-----------------------------------------------------------------------------
(* The master's counter *)

(* There are finitely many active clients. *)
LEMMA ActiveFinite ==
  ASSUME ConnInv
  PROVE  /\ IsFiniteSet(Active) /\ Cardinality(Active) \in Nat
         /\ Cardinality(Active) <= MaxConns
<1>1. Len(conns) \in Nat
  BY DEF ConnInv
<1>2. IsFiniteSet(Conns) /\ Cardinality(Conns) = Len(conns)
  <2>1. IsFiniteSet(1 .. Len(conns))
    BY <1>1, FS_Interval
  <2>2. Cardinality(1 .. Len(conns)) = IF 1 > Len(conns) THEN 0 ELSE Len(conns) - 1 + 1
    BY <1>1, FS_Interval
  <2>3. Cardinality(1 .. Len(conns)) = Len(conns)
    BY <1>1, <2>2
  <2> QED BY <2>1, <2>3 DEF Conns
<1>3. Active \subseteq Conns
  BY DEF Active
<1>4. IsFiniteSet(Active) /\ Cardinality(Active) <= Cardinality(Conns)
  BY <1>2, <1>3, FS_Subset
<1>5. Cardinality(Active) \in Nat
  BY <1>4, FS_CardinalityType
<1> QED BY <1>1, <1>2, <1>4, <1>5, ReplicationAssumption DEF ConnInv

(* Clients that stay what they are. *)
LEMMA SameActive ==
  ASSUME Len(conns') = Len(conns), \A d \in Conns : conns'[d].client = conns[d].client
  PROVE  Active' = Active
  BY DEF Active, Conns

(* A step leaves the counter right. *)
LEMMA CountInvStep == Inv /\ SlavesAreCounted /\ [Next]_vars => SlavesAreCounted'
<1> SUFFICES ASSUME Inv, SlavesAreCounted, [Next]_vars PROVE SlavesAreCounted'
  OBVIOUS
<1>0. /\ ConnInv /\ ConnInv' /\ IsFiniteSet(Active) /\ Cardinality(Active) \in Nat
      /\ active_slaves = Cardinality(Active)
  BY ConnInvStep, ActiveFinite DEF Inv, SlavesAreCounted
<1>1. CASE Active' = Active /\ UNCHANGED active_slaves
  BY <1>0, <1>1 DEF SlavesAreCounted
<1>2. CASE UNCHANGED <<conns, active_slaves>>
  <2>1. Active' = Active
    BY <1>2 DEF Active, Conns
  <2> QED BY <1>1, <1>2, <2>1
<1>3. CASE add_to_db_log
  <2>1. records + 1 \in Record
    BY <1>3, ReplicationAssumption DEF add_to_db_log, Inv, LogInv, Record
  <2>2. send_to_active_slaves(records + 1) \/ UNCHANGED <<conns, active_slaves>>
    BY <1>3 DEF add_to_db_log, network
  <2>3. CASE send_to_active_slaves(records + 1)
    <3>1. active_slaves' = active_slaves - Cardinality(Lagging)
      BY <2>3 DEF send_to_active_slaves, Lagging
    <3>2. Active' = Active \ Lagging /\ Lagging \subseteq Active
      BY <2>1, <2>3, SentConns DEF Lagging
    <3>3. Active \cap Lagging = Lagging
      BY <3>2
    <3>4. Cardinality(Active \ Lagging) = Cardinality(Active) - Cardinality(Lagging)
      BY <1>0, <3>3, FS_Difference
    <3> QED BY <1>0, <3>1, <3>2, <3>4 DEF SlavesAreCounted
  <2> QED BY <1>2, <2>2, <2>3
<1>4. CASE MasterCrash
  <2>1. active_slaves' = 0 /\ Active' = {}
    BY <1>4, CrashedConns DEF MasterCrash
  <2> QED BY <2>1, FS_EmptySet DEF SlavesAreCounted
<1>5. CASE flush_log_db \/ MasterBoot \/ Finalize \/ UNCHANGED vars
  BY <1>2, <1>5 DEF flush_log_db, MasterBoot, Finalize, vars, network
<1>6. ASSUME NEW s \in Slaves, SlaveNext(s) PROVE SlavesAreCounted'
  <2>1. CASE SlaveStart(s)
    <3>1. UNCHANGED active_slaves
      BY <2>1 DEF SlaveStart
    <3>2. /\ Len(conns') = Len(conns) + 1 /\ \A d \in Conns : conns'[d] = conns[d]
          /\ conns'[Len(conns) + 1].client = "backlog" /\ Len(conns) \in Nat
      BY <2>1, StartedConns DEF Inv, ConnInv
    <3>3. Conns' = Conns \cup {Len(conns) + 1}
      BY <3>2 DEF Conns
    <3>4. Active' = Active
      BY <3>2, <3>3 DEF Active
    <3> QED BY <1>1, <3>1, <3>4
  <2>2. CASE reader_eventcb(s) \/ SlaveCrash(s)
    <3>1. Exit(s) /\ slaves[s].up /\ UNCHANGED active_slaves
      BY <2>2 DEF reader_eventcb, SlaveCrash, Exit
    <3> QED BY <1>1, <3>1, ExitedConns, SameActive
  <2>3. CASE SlaveStartAlone(s) \/ fake_request(s) \/ worker_do_work(s)
    BY <1>2, <2>3 DEF SlaveStartAlone, fake_request, worker_do_work, network
  <2> QED BY <1>6, <2>1, <2>2, <2>3 DEF SlaveNext
<1>7. ASSUME NEW c \in Conns, ConnectionNext(c) PROVE SlavesAreCounted'
  <2>1. CASE acceptcb(c)
    <3>1. active_slaves' = active_slaves + 1 /\ conns[c].client = "backlog"
      BY <2>1 DEF acceptcb
    <3>2. Active' = Active \cup {c} /\ c \notin Active
      BY <2>1, <3>1, AcceptConns DEF Active, Conns
    <3> QED BY <1>0, <3>1, <3>2, FS_AddElement DEF SlavesAreCounted
  <2>2. CASE AcceptFailed(c)
    <3>1. UNCHANGED active_slaves
      BY <2>2 DEF AcceptFailed
    <3>2. Active' = Active
      BY <2>2, RefusedConns DEF Active, Conns
    <3> QED BY <1>1, <3>1, <3>2
  <2>3. CASE LostWrite(c) \/ reader_readcb(c)
    <3>1. Sends(c) /\ UNCHANGED active_slaves
      BY <2>3 DEF LostWrite, PeerGone, reader_readcb, Sends
    <3> QED BY <1>1, <3>1, ShortenedConns, SameActive
  <2>4. CASE sender_eventcb(c) \/ StaleEvent(c)
    <3>1. FreeClient(c) /\ conns[c].client = "active"
      BY <2>4 DEF sender_eventcb, StaleEvent, PeerGone
    <3>2. active_slaves' = active_slaves - 1
      BY <3>1 DEF FreeClient
    <3>3. Active' = Active \ {c} /\ c \in Active
      BY <3>1, FreedConns DEF Active, Conns
    <3> QED BY <1>0, <3>2, <3>3, FS_RemoveElement DEF SlavesAreCounted
  <2> QED BY <1>7, <2>1, <2>2, <2>3, <2>4 DEF ConnectionNext
<1> QED BY <1>3, <1>4, <1>5, <1>6, <1>7 DEF Next

(***************************************************************************)
(* The counter of the master counts the clients that records are sent to,  *)
(* over accepts, failed accepts, frees and disconnections for lag.         *)
(***************************************************************************)
THEOREM CounterIsRight == Spec => []SlavesAreCounted
<1>1. Init => SlavesAreCounted
  <2> SUFFICES ASSUME Init PROVE SlavesAreCounted
    OBVIOUS
  <2>1. Active = {} /\ active_slaves = 0
    BY DEF Init, Active, Conns
  <2> QED BY <2>1, FS_EmptySet DEF SlavesAreCounted
<1> QED BY <1>1, CountInvStep, ReplicationInvariant, PTL DEF Spec

(***************************************************************************)
(* Counters, journals, connections, descriptors and queues stay within     *)
(* their types.  The counter never goes below zero or above the number of  *)
(* connections, whatever the master closes.                                *)
(***************************************************************************)
THEOREM ReplicationTypes == Spec => []TypeOK
<1>1. Inv /\ SlavesAreCounted => TypeOK
  <2> SUFFICES ASSUME Inv, SlavesAreCounted PROVE TypeOK
    OBVIOUS
  <2>1. active_slaves \in 0 .. MaxConns
    BY ActiveFinite, ReplicationAssumption DEF Inv, SlavesAreCounted
  <2>2. \A s \in Slaves : /\ slaves[s].conn \in 0 .. Len(conns)
                          /\ Len(slaves[s].queue) <= MaxQueued
    BY DEF Inv, SlaveInv, SlaveState, SlaveOK
  <2>3. up \in BOOLEAN
    BY DEF Inv, LogInv
  <2> QED BY <2>1, <2>2, <2>3 DEF Inv, LogInv, ConnInv, DescriptorInv, TypeOK
<1> QED BY <1>1, ReplicationInvariant, CounterIsRight, PTL
-----------------------------------------------------------------------------
(* What a slave can have of the journal *)

(* What is left of each prefix of a sequence. *)
LeftOver(k, seq, dropped) ==
    /\ k = [i \in 0 .. Len(seq) |-> k[i]]
    /\ k[0] = << >>
    /\ \A i \in 1 .. Len(seq) :
          k[i] = IF seq[i] \in dropped THEN k[i - 1] ELSE Append(k[i - 1], seq[i])

(* The recursion has a solution for every sequence. *)
LEMMA LeftOverExists ==
  ASSUME NEW S, NEW dropped, NEW seq \in Seq(S)
  PROVE  \E k : LeftOver(k, seq, dropped)
<1> DEFINE Good(t, j, k) ==
             /\ k = [i \in 0 .. j |-> k[i]]
             /\ k[0] = << >>
             /\ \A i \in 1 .. j : k[i] = IF t[i] \in dropped THEN k[i - 1]
                                         ELSE Append(k[i - 1], t[i])
           Bad == {j \in 0 .. Len(seq) : ~ \E k : Good(seq, j, k)}
<1>0. Len(seq) \in Nat
  OBVIOUS
<1>1. ASSUME Bad # {} PROVE FALSE
  <2>1. PICK m \in Bad : \A j \in Bad : m <= j
    <3>1. Bad \in SUBSET Nat
      BY <1>0
    <3> QED BY <1>1, <3>1, LeastNat
  <2>2. CASE m = 0
    <3> DEFINE k == [i \in 0 .. 0 |-> << >>]
    <3>1. k = [i \in 0 .. 0 |-> k[i]] /\ k[0] = << >>
      OBVIOUS
    <3> HIDE DEF k
    <3>2. Good(seq, 0, k)
      BY <3>1
    <3> QED BY <2>1, <2>2, <3>2
  <2>3. CASE m # 0
    <3>1. m \in 1 .. Len(seq) /\ m - 1 \in 0 .. Len(seq) /\ ~(m <= m - 1)
      BY <1>0, <2>1, <2>3
    <3>2. PICK g : Good(seq, m - 1, g)
      BY <2>1, <3>1
    <3> DEFINE last == IF seq[m] \in dropped THEN g[m - 1] ELSE Append(g[m - 1], seq[m])
               k == [i \in 0 .. m |-> IF i < m THEN g[i] ELSE last]
    <3>3. k = [i \in 0 .. m |-> k[i]] /\ k[0] = << >> /\ k[m] = last
          /\ \A i \in 0 .. m - 1 : k[i] = g[i]
      BY <3>1, <3>2
    <3> HIDE DEF k
    <3>4. ASSUME NEW i \in 1 .. m
          PROVE  k[i] = IF seq[i] \in dropped THEN k[i - 1] ELSE Append(k[i - 1], seq[i])
      <4>1. CASE i = m
        <5>1. m - 1 \in 0 .. m - 1
          BY <3>1
        <5> QED BY <3>3, <4>1, <5>1
      <4>2. CASE i # m
        <5>1. i \in 1 .. m - 1 /\ i \in 0 .. m - 1 /\ i - 1 \in 0 .. m - 1
          BY <3>1, <4>2
        <5> QED BY <3>2, <3>3, <5>1
      <4> QED BY <4>1, <4>2
    <3>5. Good(seq, m, k)
      BY <3>3, <3>4
    <3> QED BY <2>1, <3>5
  <2> QED BY <2>2, <2>3
<1>2. Len(seq) \notin Bad /\ Len(seq) \in 0 .. Len(seq)
  BY <1>0, <1>1
<1>3. PICK k : Good(seq, Len(seq), k)
  BY <1>2
<1> QED BY <1>3 DEF LeftOver

(* The recursion has one solution, and Without is its last value. *)
LEMMA WithoutIs ==
  ASSUME NEW S, NEW dropped, NEW seq \in Seq(S), NEW k, LeftOver(k, seq, dropped)
  PROVE  Without(seq, dropped) = k[Len(seq)]
<1> DEFINE Body(f) == [i \in 0 .. Len(seq) |->
                          IF i = 0 THEN << >>
                          ELSE IF seq[i] \in dropped THEN f[i - 1] ELSE Append(f[i - 1], seq[i])]
           w == CHOOSE f : f = Body(f)
<1>0. Len(seq) \in Nat
  OBVIOUS
<1>1. k = Body(k)
  <2>1. ASSUME NEW i \in 0 .. Len(seq)
        PROVE  k[i] = IF i = 0 THEN << >>
                      ELSE IF seq[i] \in dropped THEN k[i - 1] ELSE Append(k[i - 1], seq[i])
    <3>1. CASE i = 0
      BY <3>1 DEF LeftOver
    <3>2. CASE i # 0
      <4>1. i \in 1 .. Len(seq)
        BY <1>0, <3>2
      <4> QED BY <3>2, <4>1 DEF LeftOver
    <3> QED BY <3>1, <3>2
  <2>2. k = [i \in 0 .. Len(seq) |-> k[i]]
    BY DEF LeftOver
  <2> QED BY <2>1, <2>2
<1>2. w = Body(w)
  BY <1>1
<1>3. Without(seq, dropped) = w[Len(seq)]
  BY DEF Without
<1> HIDE DEF w
<1>4. \A i \in 0 .. Len(seq) : w[i] = IF i = 0 THEN << >>
                      ELSE IF seq[i] \in dropped THEN w[i - 1] ELSE Append(w[i - 1], seq[i])
  BY <1>2
<1> HIDE DEF Body
<1> DEFINE Bad == {i \in 0 .. Len(seq) : w[i] # k[i]}
<1>5. ASSUME Bad # {} PROVE FALSE
  <2>1. PICK m \in Bad : \A i \in Bad : m <= i
    <3>1. Bad \in SUBSET Nat
      BY <1>0
    <3> QED BY <1>5, <3>1, LeastNat
  <2>2. m # 0
    <3>1. 0 \in 0 .. Len(seq)
      BY <1>0
    <3>2. w[0] = << >> /\ k[0] = << >>
      BY <1>4, <3>1 DEF LeftOver
    <3> QED BY <2>1, <3>2
  <2>3. m \in 1 .. Len(seq) /\ m - 1 \in 0 .. Len(seq) /\ ~(m <= m - 1)
    BY <1>0, <2>1, <2>2
  <2>4. w[m - 1] = k[m - 1]
    BY <2>1, <2>3
  <2>5. w[m] = k[m]
    BY <1>4, <2>1, <2>2, <2>3, <2>4 DEF LeftOver
  <2> QED BY <2>1, <2>5
<1> QED BY <1>0, <1>3, <1>5

(* Nothing is left of nothing. *)
LEMMA WithoutEmpty == ASSUME NEW dropped PROVE Without(<< >>, dropped) = << >>
<1>1. << >> \in Seq({}) /\ Len(<< >>) = 0
  OBVIOUS
<1>2. PICK k : LeftOver(k, << >>, dropped)
  BY <1>1, LeftOverExists
<1>3. Without(<< >>, dropped) = k[0]
  BY <1>1, <1>2, WithoutIs
<1> QED BY <1>2, <1>3 DEF LeftOver

(* An element at the end stays unless it is dropped. *)
LEMMA WithoutAppend ==
  ASSUME NEW S, NEW dropped, NEW seq \in Seq(S), NEW x \in S
  PROVE  Without(Append(seq, x), dropped) =
            IF x \in dropped THEN Without(seq, dropped)
            ELSE Append(Without(seq, dropped), x)
<1> DEFINE a == Append(seq, x)
           n == Len(seq)
<1>1. /\ a \in Seq(S) /\ Len(a) = n + 1 /\ n \in Nat
      /\ (\A i \in 1 .. n : a[i] = seq[i]) /\ a[n + 1] = x
  BY AppendProperties
<1>2. PICK g : LeftOver(g, seq, dropped)
  BY LeftOverExists
<1>3. Without(seq, dropped) = g[n]
  BY <1>2, WithoutIs
<1>4. /\ g[0] = << >>
      /\ \A i \in 1 .. n : g[i] = IF seq[i] \in dropped THEN g[i - 1]
                                  ELSE Append(g[i - 1], seq[i])
  BY <1>2 DEF LeftOver
<1> HIDE DEF a, n
<1> DEFINE last == IF x \in dropped THEN g[n] ELSE Append(g[n], x)
           k == [i \in 0 .. n + 1 |-> IF i <= n THEN g[i] ELSE last]
<1>5. /\ k = [i \in 0 .. n + 1 |-> k[i]]
      /\ k[n + 1] = last /\ \A i \in 0 .. n : k[i] = g[i]
  BY <1>1
<1> HIDE DEF k, last
<1>6. k[0] = << >>
  <2>1. 0 \in 0 .. n
    BY <1>1
  <2> QED BY <1>4, <1>5, <2>1
<1>7. ASSUME NEW i \in 1 .. n + 1
      PROVE  k[i] = IF a[i] \in dropped THEN k[i - 1] ELSE Append(k[i - 1], a[i])
  <2>1. CASE i = n + 1
    <3>1. (n + 1) - 1 = n /\ n \in 0 .. n
      BY <1>1
    <3> QED BY <1>1, <1>5, <2>1, <3>1 DEF last
  <2>2. CASE i # n + 1
    <3>1. i \in 1 .. n /\ i \in 0 .. n /\ i - 1 \in 0 .. n
      BY <1>1, <2>2
    <3> QED BY <1>1, <1>4, <1>5, <3>1
  <2> QED BY <2>1, <2>2
<1>8. LeftOver(k, a, dropped)
  BY <1>1, <1>5, <1>6, <1>7 DEF LeftOver
<1>9. Without(a, dropped) = k[n + 1]
  BY <1>1, <1>8, WithoutIs
<1> QED BY <1>3, <1>5, <1>9 DEF a, last

(* What is left of a sequence is a sequence of the same elements. *)
LEMMA WithoutType ==
  ASSUME NEW S, NEW dropped, NEW seq \in Seq(S)
  PROVE  Without(seq, dropped) \in Seq(S)
<1> DEFINE G == {t \in Seq(S) : Without(t, dropped) \in Seq(S)}
<1>1. << >> \in G
  <2>1. Without(<< >>, dropped) = << >> /\ << >> \in Seq(S)
    BY WithoutEmpty
  <2> QED BY <2>1
<1>2. ASSUME NEW t \in Seq(S), NEW x \in S, t \in G PROVE Append(t, x) \in G
  <2>1. Append(t, x) \in Seq(S) /\ Append(Without(t, dropped), x) \in Seq(S)
    BY <1>2, AppendProperties
  <2>2. Without(Append(t, x), dropped) = IF x \in dropped THEN Without(t, dropped)
                                         ELSE Append(Without(t, dropped), x)
    BY WithoutAppend
  <2> QED BY <1>2, <2>1, <2>2
<1>3. Seq(S) \subseteq G
  <2> HIDE DEF G
  <2> QED BY <1>1, <1>2, GrownSeq
<1> QED BY <1>3

(* What is left of two sequences. *)
LEMMA WithoutConcat ==
  ASSUME NEW S, NEW dropped, NEW s \in Seq(S), NEW seq \in Seq(S)
  PROVE  Without(s \o seq, dropped) = Without(s, dropped) \o Without(seq, dropped)
<1> DEFINE G == {t \in Seq(S) : Without(s \o t, dropped)
                                   = Without(s, dropped) \o Without(t, dropped)}
<1>1. << >> \in G
  <2>1. s \o << >> = s /\ Without(s, dropped) \o << >> = Without(s, dropped)
    BY WithoutType, ConcatEmptySeq
  <2>2. Without(<< >>, dropped) = << >> /\ << >> \in Seq(S)
    BY WithoutEmpty
  <2> QED BY <2>1, <2>2
<1>2. ASSUME NEW t \in Seq(S), NEW x \in S, t \in G PROVE Append(t, x) \in G
  <2> DEFINE ws == Without(s, dropped)
             wt == Without(t, dropped)
             wst == Without(s \o t, dropped)
  <2>1. /\ s \o t \in Seq(S) /\ Append(t, x) \in Seq(S)
        /\ s \o Append(t, x) = Append(s \o t, x)
    BY ConcatProperties, AppendProperties, AppendToConcat
  <2>2. ws \in Seq(S) /\ wt \in Seq(S) /\ wst = ws \o wt
    BY <1>2, WithoutType
  <2>3. Without(Append(s \o t, x), dropped) = IF x \in dropped THEN wst ELSE Append(wst, x)
    <3>1. \A u \in Seq(S) : Without(Append(u, x), dropped) =
             IF x \in dropped THEN Without(u, dropped) ELSE Append(Without(u, dropped), x)
      BY WithoutAppend
    <3> QED BY <2>1, <3>1
  <2>4. Without(Append(t, x), dropped) = IF x \in dropped THEN wt ELSE Append(wt, x)
    BY WithoutAppend
  <2> HIDE DEF ws, wt, wst
  <2>5. ws \o Append(wt, x) = Append(wst, x)
    BY <2>2, AppendToConcat
  <2>6. Without(s \o Append(t, x), dropped) = ws \o Without(Append(t, x), dropped)
    BY <2>1, <2>2, <2>3, <2>4, <2>5
  <2> QED BY <2>1, <2>6 DEF ws
<1>3. Seq(S) \subseteq G
  <2> HIDE DEF G
  <2> QED BY <1>1, <1>2, GrownSeq
<1> QED BY <1>3

(* Nothing is left of a sequence of dropped elements. *)
LEMMA WithoutAll ==
  ASSUME NEW dropped, NEW seq \in Seq(dropped)
  PROVE  Without(seq, dropped) = << >>
<1> DEFINE G == {t \in Seq(dropped) : Without(t, dropped) = << >>}
<1>1. << >> \in G
  BY WithoutEmpty
<1>2. ASSUME NEW t \in Seq(dropped), NEW x \in dropped, t \in G PROVE Append(t, x) \in G
  <2>1. Append(t, x) \in Seq(dropped)
    BY AppendProperties
  <2>2. Without(Append(t, x), dropped) = Without(t, dropped)
    BY WithoutAppend
  <2> QED BY <1>2, <2>1, <2>2
<1>3. Seq(dropped) \subseteq G
  <2> HIDE DEF G
  <2> QED BY <1>1, <1>2, GrownSeq
<1> QED BY <1>3

(* The head of a sequence is the first that is left, or dropped. *)
LEMMA WithoutHead ==
  ASSUME NEW S, NEW dropped, NEW seq \in Seq(S), seq # << >>
  PROVE  /\ Head(seq) \in dropped => Without(Tail(seq), dropped) = Without(seq, dropped)
         /\ Head(seq) \notin dropped =>
               Without(seq, dropped) = <<Head(seq)>> \o Without(Tail(seq), dropped)
<1> DEFINE h == Head(seq)
           t == Tail(seq)
<1>1. h \in S /\ t \in Seq(S)
  BY HeadTailProperties
<1>2. seq = <<h>> \o t
  <2>1. << >> \in Seq(S) /\ Append(<< >>, h) = <<h>> /\ << >> \o seq = seq
    BY ConcatEmptySeq
  <2> QED BY <2>1, MoveHead
<1> HIDE DEF h, t
<1> DEFINE e == << >>
<1>3. e \in Seq(S) /\ <<h>> \in Seq(S) /\ Append(e, h) = <<h>>
  BY <1>1
<1>4. Without(<<h>>, dropped) = IF h \in dropped THEN << >> ELSE <<h>>
  <2>1. Without(e, dropped) = << >>
    BY WithoutEmpty
  <2> HIDE DEF e
  <2>2. Without(Append(e, h), dropped) =
           IF h \in dropped THEN Without(e, dropped)
           ELSE Append(Without(e, dropped), h)
    <3>1. \A u \in Seq(S), x \in S : Without(Append(u, x), dropped) =
             IF x \in dropped THEN Without(u, dropped) ELSE Append(Without(u, dropped), x)
      BY WithoutAppend
    <3> QED BY <1>1, <1>3, <3>1
  <2>3. Append(<< >>, h) = <<h>>
    OBVIOUS
  <2> QED BY <1>3, <2>1, <2>2, <2>3
<1>5. Without(seq, dropped) = Without(<<h>>, dropped) \o Without(t, dropped)
  BY <1>1, <1>2, <1>3, WithoutConcat
<1>6. << >> \o Without(t, dropped) = Without(t, dropped)
  BY <1>1, WithoutType, ConcatEmptySeq
<1> QED BY <1>4, <1>5, <1>6 DEF h, t

(* A sequence is a prefix of what it begins. *)
LEMMA PrefixOfConcat ==
  ASSUME NEW S, NEW s \in Seq(S), NEW t \in Seq(S)
  PROVE  IsPrefix(s, s \o t)
<1>1. Len(s) \in Nat /\ Len(t) \in Nat /\ Len(s \o t) = Len(s) + Len(t)
  BY ConcatProperties
<1>2. SubSeq(s \o t, 1, Len(s)) = SubSeq(s, 1, Len(s))
  <2>1. SubSeq(s, 1, Len(s)) = s
    BY SubSeqFull
  <2>2. SubSeq(s \o t, 1, Len(s)) = s
    BY SubSeqOfConcat1, <2>1
  <2> QED BY <2>1, <2>2
<1> QED BY <1>1, <1>2 DEF IsPrefix

-----------------------------------------------------------------------------
(* One slave and its connection *)

(* What a slave on a connection can have of q. *)
Left(n, q) == Without(q, SplitRecords \cup n.missed)

(* What the slave has journaled, j, when its connection is n and its       *)
(* master has logged log: a beginning, and with what is on its way all.    *)
Stream(n, j, log) ==
    /\ n.client = "backlog" => j = << >>
    /\ n.client # "gone" => \E t \in Seq(Record) : Left(n, log) = j \o t
    /\ n.client = "active" => j \o Left(n, n.out) = Left(n, log)

(* A connection that does not become active. *)
LEMMA StreamKept ==
  ASSUME NEW n, NEW m, NEW j, NEW log, Stream(n, j, log), m.missed = n.missed,
         m.client = "backlog" => n.client = "backlog",
         n.client = "gone" => m.client = "gone",
         m.client = "active" => n.client = "active" /\ m.out = n.out
  PROVE  Stream(m, j, log)
<1>1. \A q : Left(m, q) = Left(n, q)
  BY DEF Left
<1> QED BY <1>1 DEF Stream

(* A record is logged, and shipped if the client is still active. *)
LEMMA StreamLogged ==
  ASSUME NEW n \in Connection, NEW m, NEW j \in Seq(Record), NEW log \in Seq(Record),
         NEW r \in Record, Stream(n, j, log), m.missed = n.missed,
         m.client = "backlog" => n.client = "backlog",
         n.client = "gone" => m.client = "gone",
         m.client = "active" => n.client = "active" /\ m.out = Append(n.out, r)
  PROVE  Stream(m, j, Append(log, r))
<1> DEFINE D == SplitRecords \cup n.missed
           l == Left(n, log)
           o == Left(n, n.out)
<1>1. n.out \in Seq(Record)
  BY DEF Connection, Record
<1>2. \A q : Left(m, q) = Left(n, q)
  BY DEF Left
<1>3. \A q \in Seq(Record) : /\ Left(n, q) \in Seq(Record)
                             /\ r \in D => Left(n, Append(q, r)) = Left(n, q)
                             /\ r \notin D => Left(n, Append(q, r)) = Append(Left(n, q), r)
  <2> HIDE DEF D
  <2>1. \A q \in Seq(Record) : Without(q, D) \in Seq(Record)
    BY WithoutType
  <2>2. \A q \in Seq(Record) : Without(Append(q, r), D) =
           IF r \in D THEN Without(q, D) ELSE Append(Without(q, D), r)
    BY WithoutAppend
  <2>3. \A q : Left(n, q) = Without(q, D)
    BY DEF Left, D
  <2> QED BY <2>1, <2>2, <2>3
<1>4. l \in Seq(Record) /\ o \in Seq(Record)
  BY <1>1, <1>3
<1>5. /\ r \in D => Left(m, Append(log, r)) = l
      /\ r \notin D => Left(m, Append(log, r)) = Append(l, r)
      /\ m.client = "active" => /\ r \in D => Left(m, m.out) = o
                                /\ r \notin D => Left(m, m.out) = Append(o, r)
  BY <1>1, <1>2, <1>3
<1>6. m.client = "backlog" => j = << >>
  BY DEF Stream
<1>7. /\ n.client # "gone" => \E t \in Seq(Record) : l = j \o t
      /\ n.client = "active" => j \o o = l
  BY DEF Stream
<1> HIDE DEF l, o, D
<1>8. ASSUME m.client # "gone"
      PROVE  \E t \in Seq(Record) : Left(m, Append(log, r)) = j \o t
  <2>1. PICK t \in Seq(Record) : l = j \o t
    BY <1>7, <1>8
  <2>2. CASE r \in D
    BY <1>5, <2>1, <2>2
  <2>3. CASE r \notin D
    <3>1. Append(t, r) \in Seq(Record) /\ j \o Append(t, r) = Append(j \o t, r)
      BY AppendProperties, AppendToConcat
    <3>2. Left(m, Append(log, r)) = j \o Append(t, r)
      BY <1>5, <2>1, <2>3, <3>1
    <3> QED BY <3>1, <3>2
  <2> QED BY <2>2, <2>3
<1>9. ASSUME m.client = "active" PROVE j \o Left(m, m.out) = Left(m, Append(log, r))
  <2>1. j \o o = l
    BY <1>7, <1>9
  <2>2. j \o Append(o, r) = Append(j \o o, r)
    BY <1>4, AppendToConcat
  <2> QED BY <1>5, <1>9, <2>1, <2>2
<1> QED BY <1>6, <1>8, <1>9 DEF Stream

(* A record is read: the slave journals it, or drops it as two lines. *)
LEMMA StreamRead ==
  ASSUME NEW n \in Connection, NEW m, NEW j \in Seq(Record), NEW log \in Seq(Record),
         Stream(n, j, log), n.client = "active", n.out # << >>,
         Head(n.out) \notin n.missed,
         m.missed = n.missed, m.client = "active", m.out = Tail(n.out)
  PROVE  Stream(m, IF Head(n.out) \in SplitRecords THEN j ELSE Append(j, Head(n.out)), log)
<1> DEFINE h == Head(n.out)
           D == SplitRecords \cup n.missed
           k == IF h \in SplitRecords THEN j ELSE Append(j, h)
           l == Left(n, log)
           o == Left(n, n.out)
           t == Left(n, Tail(n.out))
<1>1. n.out \in Seq(Record) /\ h \in Record /\ Tail(n.out) \in Seq(Record)
  <2>1. n.out \in Seq(Record)
    BY DEF Connection, Record
  <2> QED BY <2>1, HeadTailProperties
<1>2. \A q : Left(m, q) = Left(n, q)
  BY DEF Left
<1>3. l \in Seq(Record) /\ o \in Seq(Record) /\ t \in Seq(Record)
  BY <1>1, WithoutType DEF Left
<1>4. (h \in D => t = o) /\ (h \notin D => o = <<h>> \o t)
  BY <1>1, WithoutHead DEF Left
<1>5. h \in D <=> h \in SplitRecords
  OBVIOUS
<1>6. j \o o = l
  BY DEF Stream
<1>7. Left(m, log) = l /\ Left(m, m.out) = t
  BY <1>2
<1> HIDE DEF l, o, t, h, D
<1>8. k \o t = l
  <2>1. CASE h \in SplitRecords
    BY <1>4, <1>5, <1>6, <2>1
  <2>2. CASE h \notin SplitRecords
    <3>1. <<h>> \in Seq(Record) /\ Append(j, h) = j \o <<h>>
      BY <1>1, AppendIsConcat
    <3>2. (j \o <<h>>) \o t = j \o (<<h>> \o t)
      <4>1. \A a, b, c \in Seq(Record) : (a \o b) \o c = a \o (b \o c)
        BY ConcatAssociative, SMTT(60)
      <4> QED BY <1>3, <3>1, <4>1, SMTT(60)
    <3>3. o = <<h>> \o t
      BY <1>4, <1>5, <2>2
    <3> QED BY <1>6, <2>2, <3>1, <3>2, <3>3
  <2> QED BY <2>1, <2>2
<1> HIDE DEF k
<1>9. Stream(m, k, log)
  BY <1>3, <1>7, <1>8 DEF Stream
<1> QED BY <1>9 DEF k, h

(* A client is accepted: the file is on its way, the buffer is missed. *)
LEMMA StreamAccepted ==
  ASSUME NEW m, NEW f \in Seq(Record), NEW b \in Seq(Record),
         m.client = "active", m.out = f, m.missed = Range(b)
  PROVE  Stream(m, << >>, f \o b)
<1> DEFINE D == SplitRecords \cup m.missed
           l == Left(m, f)
<1>1. b \in Seq(D)
  <2>1. b \in Seq(Range(b))
    BY SeqOfRange
  <2> QED BY <2>1, SeqMonotonic
<1> HIDE DEF D
<1>2. Without(b, D) = << >>
  BY <1>1, WithoutAll
<1>3. Without(f \o b, D) = Without(f, D) \o Without(b, D) /\ Without(f, D) \in Seq(Record)
  BY WithoutConcat, WithoutType
<1>4. Left(m, f \o b) = l /\ l \in Seq(Record)
  BY <1>2, <1>3, ConcatEmptySeq DEF Left, D
<1> HIDE DEF l
<1>5. << >> \o l = l
  BY <1>4, ConcatEmptySeq
<1>6. Left(m, m.out) = l
  BY DEF l
<1> QED BY <1>4, <1>5, <1>6 DEF Stream

-----------------------------------------------------------------------------
(* The slaves follow their master *)

(* A slave that is up has a connection whose other end is open, and no     *)
(* other connection leads to it.                                           *)
PeerInv ==
    /\ \A s \in Slaves : slaves[s].up <=> slaves[s].conn # None
    /\ \A s \in Slaves :
          slaves[s].conn # None => /\ conns[slaves[s].conn].slave = s
                                   /\ conns[slaves[s].conn].peer
    /\ \A c \in Conns : conns[c].peer => slaves[conns[c].slave].conn = c

(* What a client has missed is not sent to it. *)
MissedInv ==
    /\ Range(file) \cap Range(log_buffer) = {}
    /\ \A c \in Conns : /\ conns[c].missed \subseteq 1 .. records
                        /\ Range(conns[c].out) \cap conns[c].missed = {}

(* A descriptor is for its client, unless it was closed under it. *)
OwnInv == \A c \in Conns \ mixed :
             conns[c].client = "active" => descriptor[conns[c].fd] = c

StreamAt(s) ==
    LET c == slaves[s].conn
    IN  c # None /\ c \notin mixed => Stream(conns[c], slaves[s].journal, MasterJournal)

StreamInv == \A s \in Slaves : StreamAt(s)

FollowInv == PeerInv /\ MissedInv /\ OwnInv /\ StreamInv

(* The connection of a slave is one, and its journal a sequence. *)
LEMMA SlaveConn ==
  ASSUME Inv, NEW s \in Slaves
  PROVE  /\ slaves[s].conn # None => slaves[s].conn \in Conns
         /\ slaves[s].journal \in Seq(Record)
<1>1. slaves[s] \in SlaveState /\ Len(conns) \in Nat
  BY DEF Inv, SlaveInv, ConnInv
<1> QED BY <1>1 DEF SlaveState, Conns, None

(* A connection is one of a slave's. *)
LEMMA ConnType ==
  ASSUME Inv, NEW c \in Conns
  PROVE  conns[c] \in Connection /\ conns[c].slave \in Slaves /\ c # None
<1>1. conns[c] \in Connection /\ c # 0
  BY DEF Inv, ConnInv, Conns
<1> QED BY <1>1 DEF Connection, None

(* Steps that neither start nor end a slave. *)
LEMMA EndsKept ==
  ASSUME Inv, PeerInv, [Next]_vars,
         \A s \in Slaves : ~SlaveStart(s) /\ ~(slaves[s].up /\ Exit(s))
  PROVE  /\ Len(conns') = Len(conns)
         /\ \A c \in Conns : SameEnds(conns[c], conns'[c])
         /\ \A s \in Slaves : slaves'[s].up = slaves[s].up /\ slaves'[s].conn = slaves[s].conn
<1>0. /\ \A c \in Conns : conns[c] \in Connection
      /\ \A s \in Slaves : slaves[s] \in SlaveState
      /\ slaves \in [Slaves -> SlaveState]
  BY ConnType DEF Inv, SlaveInv
<1> DEFINE CKept == /\ Len(conns') = Len(conns)
                    /\ \A c \in Conns : SameEnds(conns[c], conns'[c])
           SKept == \A s \in Slaves : /\ slaves'[s].up = slaves[s].up
                                      /\ slaves'[s].conn = slaves[s].conn
<1>1. ASSUME UNCHANGED conns PROVE CKept
  BY <1>1 DEF SameEnds
<1>2. ASSUME UNCHANGED slaves PROVE SKept
  BY <1>2
<1>3. ASSUME NEW c \in Conns, \A d \in Conns \ {c} : conns'[d] = conns[d],
             Len(conns') = Len(conns), SameEnds(conns[c], conns'[c])
      PROVE  CKept
  BY <1>3 DEF SameEnds
<1>4. CASE add_to_db_log
  <2>1. records + 1 \in Record
    BY <1>4, ReplicationAssumption DEF add_to_db_log, Inv, LogInv, Record
  <2>2. send_to_active_slaves(records + 1) \/ UNCHANGED conns
    BY <1>4 DEF add_to_db_log, network
  <2>3. UNCHANGED slaves
    BY <1>4 DEF add_to_db_log
  <2>4. CASE send_to_active_slaves(records + 1)
    <3>1. Len(conns') = Len(conns) /\ SentTo(records + 1)
      BY <2>1, <2>4, SentConns
    <3>2. \A c \in Conns : SameEnds(conns[c], conns'[c])
      BY <1>0, <3>1 DEF SentTo, SameEnds, Connection, Lagging
    <3> QED BY <1>2, <2>3, <3>1, <3>2
  <2> QED BY <1>1, <1>2, <2>2, <2>3, <2>4
<1>5. CASE flush_log_db \/ MasterBoot \/ Finalize \/ UNCHANGED vars
  <2>1. UNCHANGED conns /\ UNCHANGED slaves
    BY <1>5 DEF flush_log_db, MasterBoot, Finalize, vars, network
  <2> QED BY <1>1, <1>2, <2>1
<1>6. CASE MasterCrash
  <2>1. Len(conns') = Len(conns) /\ AllGone
    BY <1>6, CrashedConns
  <2>2. \A c \in Conns : SameEnds(conns[c], conns'[c])
    BY <1>0, <2>1 DEF AllGone, SameEnds, Connection
  <2>3. UNCHANGED slaves
    BY <1>6 DEF MasterCrash
  <2> QED BY <1>2, <2>1, <2>2, <2>3
<1>7. ASSUME NEW s \in Slaves, SlaveNext(s) PROVE CKept /\ SKept
  <2>1. SlaveStartAlone(s) \/ fake_request(s) \/ worker_do_work(s)
    BY <1>7 DEF SlaveNext, reader_eventcb, SlaveCrash
  <2>2. UNCHANGED conns
    BY <2>1 DEF SlaveStartAlone, fake_request, worker_do_work, network
  <2>3. CASE SlaveStartAlone(s)
    <3>1. slaves' = [slaves EXCEPT ![s] = Stopped] /\ ~slaves[s].up
      BY <2>3 DEF SlaveStartAlone
    <3>2. slaves[s].conn = None /\ slaves[s].up = FALSE
      BY <1>0, <3>1 DEF PeerInv, SlaveState
    <3> QED BY <1>0, <1>1, <2>2, <3>1, <3>2 DEF Stopped
  <2>4. CASE fake_request(s)
    <3>1. slaves' = [slaves EXCEPT ![s].queue = @ \o slaves[s].pending, ![s].pending = << >>]
      BY <2>4 DEF fake_request
    <3> QED BY <1>0, <1>1, <2>2, <3>1 DEF SlaveState
  <2>5. CASE worker_do_work(s)
    <3>1. slaves' = [slaves EXCEPT ![s].queue = Tail(@),
                                   ![s].memory = Append(@, Head(slaves[s].queue))]
      BY <2>5 DEF worker_do_work
    <3> QED BY <1>0, <1>1, <2>2, <3>1 DEF SlaveState
  <2> QED BY <2>1, <2>3, <2>4, <2>5
<1>8. ASSUME NEW c \in Conns, ConnectionNext(c) PROVE CKept /\ SKept
  <2>1. CASE acceptcb(c)
    <3>1. UNCHANGED slaves
      BY <2>1 DEF acceptcb
    <3> QED BY <1>2, <1>3, <2>1, <3>1, AcceptConns
  <2>2. CASE AcceptFailed(c)
    <3>1. UNCHANGED slaves
      BY <2>2 DEF AcceptFailed
    <3> QED BY <1>2, <1>3, <2>2, <3>1, RefusedConns
  <2>3. CASE LostWrite(c)
    <3>1. Sends(c) /\ UNCHANGED slaves
      BY <2>3 DEF LostWrite, PeerGone, Sends
    <3> QED BY <1>2, <1>3, <3>1, ShortenedConns
  <2>4. CASE sender_eventcb(c) \/ StaleEvent(c)
    <3>1. FreeClient(c) /\ UNCHANGED slaves
      BY <2>4 DEF sender_eventcb, StaleEvent, FreeClient
    <3> QED BY <1>2, <1>3, <3>1, FreedConns
  <2>5. CASE reader_readcb(c)
    <3> DEFINE r == Head(conns[c].out)
               u == conns[descriptor[conns[c].fd]].slave
    <3>1. Sends(c)
      BY <2>5 DEF reader_readcb, Sends
    <3>2. slaves' = IF r \in SplitRecords THEN slaves
                    ELSE [slaves EXCEPT ![u].journal = Append(@, r), ![u].pending = <<r>>]
      BY <2>5 DEF reader_readcb
    <3> HIDE DEF r, u
    <3>3. SKept
      BY <1>0, <3>2 DEF SlaveState
    <3> QED BY <1>3, <3>1, <3>3, ShortenedConns
  <2> QED BY <1>8, <2>1, <2>2, <2>3, <2>4, <2>5 DEF ConnectionNext
<1> QED BY <1>4, <1>5, <1>6, <1>7, <1>8 DEF Next

(* A slave that starts: its connection is the last one. *)
LEMMA StartedEnds ==
  ASSUME Inv, NEW s \in Slaves, SlaveStart(s)
  PROVE  /\ Len(conns') = Len(conns) + 1 /\ Len(conns) \in Nat
         /\ Conns' = Conns \cup {Len(conns) + 1} /\ Len(conns) + 1 \notin Conns
         /\ Len(conns) + 1 # None
         /\ \A c \in Conns : conns'[c] = conns[c]
         /\ NewConn(s)
         /\ \A u \in Slaves \ {s} : slaves'[u] = slaves[u]
         /\ slaves'[s].up = TRUE /\ slaves'[s].conn = Len(conns) + 1
         /\ slaves'[s].journal = << >>
         /\ UNCHANGED <<masterLog, up, descriptor, mixed>>
<1>1. Len(conns) \in Nat /\ slaves \in [Slaves -> SlaveState]
  BY DEF Inv, ConnInv, SlaveInv
<1>2. Len(conns') = Len(conns) + 1 /\ NewConn(s) /\ \A c \in Conns : conns'[c] = conns[c]
  BY StartedConns
<1>3. Conns' = Conns \cup {Len(conns) + 1} /\ Len(conns) + 1 \notin Conns /\ Len(conns) + 1 # None
  BY <1>1, <1>2 DEF Conns, None
<1>4. /\ slaves' = [slaves EXCEPT ![s] = [Stopped EXCEPT !.up = TRUE, !.conn = Len(conns) + 1]]
      /\ UNCHANGED <<masterLog, up, descriptor, mixed>>
  BY DEF SlaveStart
<1>5. /\ \A u \in Slaves \ {s} : slaves'[u] = slaves[u]
      /\ slaves'[s].up = TRUE /\ slaves'[s].conn = Len(conns) + 1
      /\ slaves'[s].journal = << >>
  BY <1>1, <1>4 DEF Stopped
<1> QED BY <1>1, <1>2, <1>3, <1>4, <1>5

(* A slave that exits: it has no connection, and the other end is closed. *)
LEMMA ExitedEnds ==
  ASSUME Inv, NEW s \in Slaves, slaves[s].up, Exit(s)
  PROVE  /\ Len(conns') = Len(conns) /\ Conns' = Conns
         /\ HungUp(s)
         /\ \A u \in Slaves \ {s} : slaves'[u] = slaves[u]
         /\ slaves'[s].up = FALSE /\ slaves'[s].conn = None
         /\ UNCHANGED <<masterLog, up, descriptor, mixed>>
<1>1. slaves \in [Slaves -> SlaveState]
  BY DEF Inv, SlaveInv
<1>2. Len(conns') = Len(conns) /\ HungUp(s)
  BY ExitedConns
<1>3. PICK n : slaves' = [slaves EXCEPT ![s] =
                             [Stopped EXCEPT !.journal = SubSeq(slaves[s].journal, 1, n)]]
  BY DEF Exit
<1>4. UNCHANGED <<masterLog, up, descriptor, mixed>>
  BY DEF Exit
<1>5. /\ \A u \in Slaves \ {s} : slaves'[u] = slaves[u]
      /\ slaves'[s].up = FALSE /\ slaves'[s].conn = None
  BY <1>1, <1>3 DEF Stopped
<1>6. Conns' = Conns
  BY <1>2 DEF Conns
<1> QED BY <1>2, <1>4, <1>5, <1>6

(* Starts and ends of slaves, and the rest. *)
StartsOrEnds == \E s \in Slaves : SlaveStart(s) \/ (slaves[s].up /\ Exit(s))

(* A slave has one connection, and the open end of a connection one slave. *)
LEMMA PeerInvStep ==
  ASSUME Inv, PeerInv, [Next]_vars PROVE PeerInv'
<1>1. CASE ~StartsOrEnds
  <2>1. /\ Len(conns') = Len(conns)
        /\ \A c \in Conns : SameEnds(conns[c], conns'[c])
        /\ \A s \in Slaves : slaves'[s].up = slaves[s].up /\ slaves'[s].conn = slaves[s].conn
    BY <1>1, EndsKept DEF StartsOrEnds
  <2>2. Conns' = Conns
    BY <2>1 DEF Conns
  <2>3. \A s \in Slaves : slaves'[s].up <=> slaves'[s].conn # None
    BY <2>1 DEF PeerInv
  <2>4. ASSUME NEW s \in Slaves, slaves'[s].conn # None
        PROVE  conns'[slaves'[s].conn].slave = s /\ conns'[slaves'[s].conn].peer
    <3>1. slaves'[s].conn = slaves[s].conn /\ slaves[s].conn \in Conns
      BY <2>1, <2>4, SlaveConn
    <3> QED BY <2>1, <2>4, <3>1 DEF PeerInv, SameEnds
  <2>5. ASSUME NEW c \in Conns, conns'[c].peer
        PROVE  slaves'[conns'[c].slave].conn = c
    BY <2>1, <2>5, ConnType DEF PeerInv, SameEnds
  <2> QED BY <2>2, <2>3, <2>4, <2>5 DEF PeerInv
<1>2. ASSUME NEW s \in Slaves, SlaveStart(s) PROVE PeerInv'
  <2> DEFINE l == Len(conns) + 1
  <2>1. /\ Conns' = Conns \cup {l} /\ l \notin Conns /\ l # None
        /\ \A c \in Conns : conns'[c] = conns[c]
        /\ \A u \in Slaves \ {s} : slaves'[u] = slaves[u]
        /\ slaves'[s].up = TRUE /\ slaves'[s].conn = l
        /\ conns'[l].slave = s /\ conns'[l].peer = TRUE
    <3>1. NewConn(s)
      BY <1>2, StartedEnds
    <3>2. conns'[l].slave = s /\ conns'[l].peer = TRUE
      BY <3>1 DEF NewConn
    <3>3. /\ Conns' = Conns \cup {l} /\ l \notin Conns /\ l # None
          /\ \A c \in Conns : conns'[c] = conns[c]
      BY <1>2, StartedEnds
    <3>4. /\ \A u \in Slaves \ {s} : slaves'[u] = slaves[u]
          /\ slaves'[s].up = TRUE /\ slaves'[s].conn = l
      BY <1>2, StartedEnds
    <3> QED BY <3>2, <3>3, <3>4
  <2>2. slaves[s].conn = None
    BY <1>2 DEF SlaveStart, PeerInv
  <2> HIDE DEF l
  <2>3. \A u \in Slaves : slaves'[u].up <=> slaves'[u].conn # None
    BY <2>1 DEF PeerInv
  <2>4. ASSUME NEW u \in Slaves, slaves'[u].conn # None
        PROVE  conns'[slaves'[u].conn].slave = u /\ conns'[slaves'[u].conn].peer
    <3>1. CASE u = s
      BY <2>1, <3>1
    <3>2. CASE u # s
      <4>1. slaves'[u].conn = slaves[u].conn /\ slaves[u].conn \in Conns
        BY <2>1, <2>4, <3>2, SlaveConn
      <4> QED BY <2>1, <2>4, <4>1 DEF PeerInv
    <3> QED BY <3>1, <3>2
  <2>5. ASSUME NEW c \in Conns', conns'[c].peer
        PROVE  slaves'[conns'[c].slave].conn = c
    <3>1. CASE c = l
      BY <2>1, <3>1
    <3>2. CASE c \in Conns
      <4>1. conns'[c] = conns[c] /\ conns[c].slave \in Slaves /\ c # None
        BY <2>1, <3>2, ConnType
      <4>2. slaves[conns[c].slave].conn = c
        BY <2>5, <3>2, <4>1 DEF PeerInv
      <4>3. conns[c].slave # s
        BY <2>2, <4>1, <4>2
      <4> QED BY <2>1, <4>1, <4>2, <4>3
    <3> QED BY <2>1, <3>1, <3>2
  <2> QED BY <2>3, <2>4, <2>5 DEF PeerInv
<1>3. ASSUME NEW s \in Slaves, slaves[s].up, Exit(s) PROVE PeerInv'
  <2> DEFINE l == slaves[s].conn
  <2>1. /\ Conns' = Conns /\ l \in Conns
        /\ \A c \in Conns \ {l} : conns'[c] = conns[c]
        /\ conns'[l] = [conns[l] EXCEPT !.peer = FALSE]
        /\ \A u \in Slaves \ {s} : slaves'[u] = slaves[u]
        /\ slaves'[s].up = FALSE /\ slaves'[s].conn = None
    BY <1>3, ExitedEnds DEF HungUp
  <2>2. conns[l].slave = s /\ l # None
    BY <2>1, ConnType DEF PeerInv
  <2>3. conns'[l].peer = FALSE
    BY <2>1, ConnType DEF Connection
  <2> HIDE DEF l
  <2>4. \A u \in Slaves : slaves'[u].up <=> slaves'[u].conn # None
    BY <2>1 DEF PeerInv
  <2>5. ASSUME NEW u \in Slaves, slaves'[u].conn # None
        PROVE  conns'[slaves'[u].conn].slave = u /\ conns'[slaves'[u].conn].peer
    <3>1. u # s
      BY <2>1, <2>5
    <3>2. slaves'[u].conn = slaves[u].conn /\ slaves[u].conn \in Conns
      BY <2>1, <2>5, <3>1, SlaveConn
    <3>3. conns[slaves[u].conn].slave = u /\ conns[slaves[u].conn].peer
      BY <2>5, <3>2 DEF PeerInv
    <3>4. slaves[u].conn # l
      BY <2>2, <3>1, <3>3
    <3> QED BY <2>1, <3>2, <3>3, <3>4
  <2>6. ASSUME NEW c \in Conns', conns'[c].peer
        PROVE  slaves'[conns'[c].slave].conn = c
    <3>1. c \in Conns /\ c # l
      BY <2>1, <2>3, <2>6
    <3>2. conns'[c] = conns[c] /\ conns[c].slave \in Slaves
      BY <2>1, <3>1, ConnType
    <3>3. slaves[conns[c].slave].conn = c
      BY <2>6, <3>1, <3>2 DEF PeerInv
    <3>4. conns[c].slave # s
      BY <3>1, <3>3 DEF l
    <3> QED BY <2>1, <3>2, <3>3, <3>4
  <2> QED BY <2>4, <2>5, <2>6 DEF PeerInv
<1> QED BY <1>1, <1>2, <1>3 DEF StartsOrEnds

(* What the master has written it does not have in its buffer. *)
LEMMA BufferStep ==
  ASSUME Inv, MissedInv, [Next]_vars
  PROVE  /\ records \in Nat /\ records' \in Nat /\ records <= records'
         /\ Range(file') \cap Range(log_buffer') = {}
<1>0. /\ records \in Nat /\ file \in Seq(1 .. records) /\ log_buffer \in Seq(1 .. records)
      /\ Range(file) \cap Range(log_buffer) = {}
  BY ReplicationAssumption DEF Inv, LogInv, MissedInv
<1>1. Range(<< >>) = {}
  BY DEF Range
<1>2. CASE UNCHANGED <<records, file, log_buffer>>
  BY <1>0, <1>2
<1>3. CASE add_to_db_log
  <2>1. records' = records + 1
    BY <1>3 DEF add_to_db_log
  <2>2. CASE FsyncPeriod = 0
    <3>1. log_buffer' = << >>
      BY <1>3, <2>2 DEF add_to_db_log
    <3> QED BY <1>0, <1>1, <2>1, <3>1
  <2>3. CASE FsyncPeriod # 0
    <3>1. file' = file /\ log_buffer' = Append(log_buffer, records + 1)
      BY <1>3, <2>3 DEF add_to_db_log
    <3>2. log_buffer \in Seq(Nat) /\ records + 1 \in Nat
      <4>1. 1 .. records \subseteq Nat
        OBVIOUS
      <4> QED BY <1>0, <4>1, SeqMonotonic
    <3>3. Range(log_buffer') = Range(log_buffer) \cup {records + 1}
      BY <3>1, <3>2, RangeAppended
    <3>4. Range(file) \subseteq 1 .. records
      BY <1>0, RangeOfSeq
    <3> QED BY <1>0, <2>1, <3>1, <3>3, <3>4
  <2> QED BY <2>2, <2>3
<1>4. CASE flush_log_db
  <2>1. records' = records /\ log_buffer' = << >>
    BY <1>4 DEF flush_log_db
  <2> QED BY <1>0, <1>1, <2>1
<1>5. CASE MasterCrash
  <2>1. records' = records /\ log_buffer' = << >>
    BY <1>5 DEF MasterCrash
  <2> QED BY <1>0, <1>1, <2>1
<1>6. CASE MasterBoot \/ Finalize \/ UNCHANGED vars
  BY <1>2, <1>6 DEF MasterBoot, Finalize, vars, masterLog
<1>7. ASSUME NEW s \in Slaves, SlaveNext(s) PROVE UNCHANGED <<records, file, log_buffer>>
  BY <1>7 DEF SlaveNext, SlaveStart, SlaveStartAlone, fake_request, worker_do_work,
              reader_eventcb, SlaveCrash, Exit, masterLog
<1>8. ASSUME NEW c \in Conns, ConnectionNext(c) PROVE UNCHANGED <<records, file, log_buffer>>
  BY <1>8 DEF ConnectionNext, acceptcb, AcceptFailed, LostWrite, sender_eventcb,
              StaleEvent, FreeClient, reader_readcb, masterLog
<1> QED BY <1>2, <1>3, <1>4, <1>5, <1>6, <1>7, <1>8 DEF Next

(* What may become of a connection's buffer without its being accepted. *)
SameMissed(n, m) ==
    /\ m.missed = n.missed
    /\ Range(m.out) \subseteq Range(n.out) \cup {records + 1}

(* What a client has missed does not reach it later. *)
LEMMA MissedInvStep ==
  ASSUME Inv, MissedInv, [Next]_vars PROVE MissedInv'
<1> DEFINE OK(c) == /\ conns'[c].missed \subseteq 1 .. records'
                    /\ Range(conns'[c].out) \cap conns'[c].missed = {}
           Fine == \A c \in Conns' : OK(c)
           Kept == \A c \in Conns : SameMissed(conns[c], conns'[c])
<1>0. /\ records \in Nat /\ records' \in Nat /\ records <= records'
      /\ Range(file') \cap Range(log_buffer') = {}
  BY BufferStep
<1>1. Range(<< >>) = {}
  BY DEF Range
<1>2. ASSUME NEW c \in Conns, SameMissed(conns[c], conns'[c]) PROVE OK(c)
  <2>1. /\ conns[c].missed \subseteq 1 .. records
        /\ Range(conns[c].out) \cap conns[c].missed = {}
    BY DEF MissedInv
  <2>2. 1 .. records \subseteq 1 .. records' /\ records + 1 \notin 1 .. records
    BY <1>0
  <2> QED BY <1>2, <2>1, <2>2 DEF SameMissed
<1>3. \A c \in Conns : SameMissed(conns[c], conns[c])
  BY DEF SameMissed
<1>4. \A c \in Conns : conns[c] \in Connection /\ conns[c].out \in Seq(Nat)
  <2>1. \A c \in Conns : conns[c] \in Connection
    BY ConnType
  <2>2. \A c \in Conns : conns[c].out \in Seq(1 .. MaxRecords)
    BY <2>1 DEF Connection
  <2>3. 1 .. MaxRecords \subseteq Nat
    BY ReplicationAssumption
  <2>4. \A c \in Conns : conns[c].out \in Seq(Nat)
    BY <2>2, <2>3, SeqMonotonic
  <2> QED BY <2>1, <2>4
<1>5. ASSUME Kept, Len(conns') = Len(conns) PROVE Fine
  <2>1. Conns' = Conns
    BY <1>5 DEF Conns
  <2> QED BY <1>2, <1>5, <2>1
<1>6. ASSUME UNCHANGED conns PROVE Fine
  BY <1>3, <1>5, <1>6
<1>7. ASSUME NEW c \in Conns, \A d \in Conns \ {c} : conns'[d] = conns[d],
             Len(conns') = Len(conns), OK(c)
      PROVE  Fine
  <2>1. Conns' = Conns
    BY <1>7 DEF Conns
  <2>2. \A d \in Conns \ {c} : OK(d)
    BY <1>2, <1>3, <1>7
  <2> QED BY <1>7, <2>1, <2>2
<1>8. ASSUME add_to_db_log PROVE Fine
  <2>1. records + 1 \in Record
    BY <1>8, ReplicationAssumption DEF add_to_db_log, Inv, LogInv, Record
  <2>2. send_to_active_slaves(records + 1) \/ UNCHANGED conns
    BY <1>8 DEF add_to_db_log, network
  <2>3. CASE send_to_active_slaves(records + 1)
    <3>1. Len(conns') = Len(conns) /\ SentTo(records + 1)
      BY <2>1, <2>3, SentConns
    <3>2. ASSUME NEW c \in Conns PROVE SameMissed(conns[c], conns'[c])
      <4>1. CASE c \in Lagging
        <5>1. conns'[c] = [conns[c] EXCEPT !.client = "lagging", !.out = << >>]
          BY <3>1, <4>1 DEF SentTo
        <5>2. conns'[c].missed = conns[c].missed /\ conns'[c].out = << >>
          BY <1>4, <5>1 DEF Connection
        <5> QED BY <1>1, <5>2 DEF SameMissed
      <4>2. CASE c \in Active \ Lagging
        <5>1. conns'[c] = [conns[c] EXCEPT !.out = Append(@, records + 1)]
          BY <3>1, <4>2 DEF SentTo
        <5>2. /\ conns'[c].missed = conns[c].missed
              /\ conns'[c].out = Append(conns[c].out, records + 1)
          BY <1>4, <5>1 DEF Connection
        <5>3. Range(conns'[c].out) = Range(conns[c].out) \cup {records + 1}
          BY <1>0, <1>4, <5>2, RangeAppended
        <5> QED BY <5>2, <5>3 DEF SameMissed
      <4>3. CASE c \notin Active
        BY <1>3, <3>1, <4>3 DEF SentTo
      <4> QED BY <4>1, <4>2, <4>3 DEF Lagging
    <3> QED BY <1>5, <3>1, <3>2
  <2> QED BY <1>6, <2>2, <2>3
<1>9. ASSUME flush_log_db \/ MasterBoot \/ Finalize \/ UNCHANGED vars PROVE Fine
  <2>1. UNCHANGED conns
    BY <1>9 DEF flush_log_db, MasterBoot, Finalize, vars, network
  <2> QED BY <1>6, <2>1
<1>10. ASSUME MasterCrash PROVE Fine
  <2>1. Len(conns') = Len(conns) /\ AllGone
    BY <1>10, CrashedConns
  <2>2. ASSUME NEW c \in Conns PROVE SameMissed(conns[c], conns'[c])
    <3>1. conns'[c] = [conns[c] EXCEPT !.client = "gone", !.out = << >>]
      BY <2>1 DEF AllGone
    <3>2. conns'[c].missed = conns[c].missed /\ conns'[c].out = << >>
      BY <1>4, <3>1 DEF Connection
    <3> QED BY <1>1, <3>2 DEF SameMissed
  <2> QED BY <1>5, <2>1, <2>2
<1>11. ASSUME NEW s \in Slaves, SlaveNext(s) PROVE Fine
  <2>1. CASE SlaveStart(s)
    <3>1. /\ Conns' = Conns \cup {Len(conns) + 1} /\ NewConn(s)
          /\ \A c \in Conns : conns'[c] = conns[c]
      BY <2>1, StartedEnds
    <3>2. conns'[Len(conns) + 1].out = << >> /\ conns'[Len(conns) + 1].missed = {}
      BY <3>1 DEF NewConn
    <3>3. OK(Len(conns) + 1)
      BY <3>2
    <3>4. \A c \in Conns : OK(c)
      BY <1>2, <1>3, <3>1
    <3> QED BY <3>1, <3>3, <3>4
  <2>2. CASE slaves[s].up /\ Exit(s)
    <3>1. Len(conns') = Len(conns) /\ HungUp(s)
      BY <2>2, ExitedEnds
    <3>2. ASSUME NEW c \in Conns PROVE SameMissed(conns[c], conns'[c])
      <4>1. conns'[c] = conns[c] \/ conns'[c] = [conns[c] EXCEPT !.peer = FALSE]
        BY <3>1 DEF HungUp
      <4>2. conns'[c].missed = conns[c].missed /\ conns'[c].out = conns[c].out
        BY <1>4, <4>1 DEF Connection
      <4> QED BY <4>2 DEF SameMissed
    <3> QED BY <1>5, <3>1, <3>2
  <2>3. CASE SlaveStartAlone(s) \/ fake_request(s) \/ worker_do_work(s)
    <3>1. UNCHANGED conns
      BY <2>3 DEF SlaveStartAlone, fake_request, worker_do_work, network
    <3> QED BY <1>6, <3>1
  <2> QED BY <1>11, <2>1, <2>2, <2>3 DEF SlaveNext, reader_eventcb, SlaveCrash
<1>12. ASSUME NEW c \in Conns, ConnectionNext(c) PROVE Fine
  <2>1. CASE acceptcb(c)
    <3>1. /\ Len(conns') = Len(conns) /\ \A d \in Conns \ {c} : conns'[d] = conns[d]
          /\ conns'[c].out = file /\ conns'[c].missed = Range(log_buffer)
      BY <2>1, AcceptConns
    <3>2. UNCHANGED <<records, file, log_buffer>>
      BY <2>1 DEF acceptcb, masterLog
    <3>3. Range(log_buffer) \subseteq 1 .. records
      BY RangeOfSeq DEF Inv, LogInv
    <3>4. OK(c)
      BY <1>0, <3>1, <3>2, <3>3
    <3> HIDE DEF OK
    <3> QED BY <1>7, <3>1, <3>4
  <2>2. CASE AcceptFailed(c)
    <3>1. /\ Len(conns') = Len(conns) /\ \A d \in Conns \ {c} : conns'[d] = conns[d]
          /\ conns'[c].out = conns[c].out /\ conns'[c].missed = conns[c].missed
      BY <2>2, RefusedConns
    <3>2. OK(c)
      BY <1>2, <3>1 DEF SameMissed
    <3> HIDE DEF OK
    <3> QED BY <1>7, <3>1, <3>2
  <2>3. CASE LostWrite(c) \/ reader_readcb(c)
    <3>1. Sends(c)
      BY <2>3 DEF LostWrite, PeerGone, reader_readcb, Sends
    <3>2. /\ Len(conns') = Len(conns) /\ \A d \in Conns \ {c} : conns'[d] = conns[d]
          /\ conns'[c].out = Tail(conns[c].out) /\ conns'[c].missed = conns[c].missed
      BY <3>1, ShortenedConns
    <3>3. Range(Tail(conns[c].out)) \subseteq Range(conns[c].out)
      BY <1>4, <3>1, RangeOfTail DEF Sends
    <3>4. SameMissed(conns[c], conns'[c])
      BY <3>2, <3>3 DEF SameMissed
    <3>5. OK(c)
      BY <1>2, <3>4
    <3> HIDE DEF OK
    <3> QED BY <1>7, <3>2, <3>5
  <2>4. CASE sender_eventcb(c) \/ StaleEvent(c)
    <3>1. FreeClient(c)
      BY <2>4 DEF sender_eventcb, StaleEvent
    <3>2. /\ Len(conns') = Len(conns) /\ \A d \in Conns \ {c} : conns'[d] = conns[d]
          /\ conns'[c].out = << >> /\ conns'[c].missed = conns[c].missed
      BY <3>1, FreedConns
    <3>3. OK(c)
      BY <1>1, <1>2, <3>2 DEF SameMissed
    <3> HIDE DEF OK
    <3> QED BY <1>7, <3>2, <3>3
  <2> QED BY <1>12, <2>1, <2>2, <2>3, <2>4 DEF ConnectionNext
<1>13. Fine
  BY <1>8, <1>9, <1>10, <1>11, <1>12 DEF Next
<1> QED BY <1>0, <1>13 DEF MissedInv

(* A client that stays active stays the owner of its descriptor, or what   *)
(* was done to the descriptor puts it among the mixed ones.                *)
LEMMA OwnInvStep ==
  ASSUME Inv, OwnInv, [Next]_vars PROVE OwnInv'
<1> DEFINE OK(c) == c \notin mixed' /\ conns'[c].client = "active" =>
                       descriptor'[conns'[c].fd] = c
           Stays(c) == conns'[c].client = "active" =>
                          conns[c].client = "active" /\ conns'[c].fd = conns[c].fd
           Fine == \A c \in Conns' : OK(c)
<1>0. /\ \A c \in Conns : conns[c] \in Connection /\ c # None
      /\ \A c \in Conns : conns[c].client = "active" => conns[c].fd \in Fds
      /\ descriptor \in [Fds -> 0 .. Len(conns)]
  BY ConnType DEF Inv, ConnInv, DescriptorInv
<1>1. ASSUME NEW c \in Conns, c \notin mixed, conns[c].client = "active"
      PROVE  descriptor[conns[c].fd] = c /\ conns[c].fd \in Fds
  BY <1>0, <1>1 DEF OwnInv
<1>2. ASSUME NEW c \in Conns, Stays(c), mixed \subseteq mixed', descriptor' = descriptor
      PROVE  OK(c)
  BY <1>1, <1>2
<1>3. \A c \in Conns : conns'[c] = conns[c] => Stays(c)
  OBVIOUS
<1>4. ASSUME Len(conns') = Len(conns), \A c \in Conns : OK(c) PROVE Fine
  BY <1>4 DEF Conns
<1>5. ASSUME UNCHANGED <<conns, descriptor, mixed>> PROVE Fine
  BY <1>2, <1>3, <1>4, <1>5
<1>6. ASSUME NEW c \in Conns, \A d \in Conns \ {c} : conns'[d] = conns[d],
             Len(conns') = Len(conns), Stays(c), mixed \subseteq mixed',
             descriptor' = descriptor
      PROVE  Fine
  <2>1. \A d \in Conns : Stays(d)
    BY <1>3, <1>6
  <2> QED BY <1>2, <1>4, <1>6, <2>1
<1>7. ASSUME add_to_db_log PROVE Fine
  <2> DEFINE fds == {conns[c].fd : c \in Lagging}
  <2>1. records + 1 \in Record
    BY <1>7, ReplicationAssumption DEF add_to_db_log, Inv, LogInv, Record
  <2>2. send_to_active_slaves(records + 1) \/ UNCHANGED <<conns, descriptor, mixed>>
    BY <1>7 DEF add_to_db_log, network
  <2>3. CASE send_to_active_slaves(records + 1)
    <3>1. Len(conns') = Len(conns) /\ SentTo(records + 1) /\ Active' = Active \ Lagging
      BY <2>1, <2>3, SentConns
    <3>2. /\ mixed' = mixed \cup (CutBy(fds) \ Lagging)
          /\ descriptor' = [f \in Fds |-> IF \E c \in Lagging : conns[c].fd = f
                                          THEN None ELSE descriptor[f]]
      BY <2>3 DEF send_to_active_slaves, Lagging
    <3>3. ASSUME NEW c \in Conns, c \notin mixed', conns'[c].client = "active"
          PROVE  descriptor'[conns'[c].fd] = c
      <4>1. c \in Active \ Lagging
        BY <3>1, <3>3 DEF Active, Conns
      <4>2. conns'[c].fd = conns[c].fd /\ conns[c].client = "active"
        <5>1. conns'[c] = [conns[c] EXCEPT !.out = Append(@, records + 1)]
          BY <3>1, <4>1 DEF SentTo
        <5> QED BY <1>0, <4>1, <5>1 DEF Connection, Active
      <4>3. descriptor[conns[c].fd] = c /\ conns[c].fd \in Fds
        BY <1>1, <3>2, <3>3, <4>2
      <4>4. ~ \E d \in Lagging : conns[d].fd = conns[c].fd
        <5>1. ASSUME NEW d \in Lagging, conns[d].fd = conns[c].fd PROVE FALSE
          <6>1. conns[c].fd \in fds
            BY <5>1
          <6>2. c \in CutBy(fds)
            BY <1>0, <4>3, <6>1 DEF CutBy
          <6> QED BY <3>2, <3>3, <4>1, <6>2
        <5> QED BY <5>1
      <4> QED BY <3>2, <4>2, <4>3, <4>4
    <3> QED BY <1>4, <3>1, <3>3
  <2> QED BY <1>5, <2>2, <2>3
<1>8. ASSUME flush_log_db \/ MasterBoot \/ UNCHANGED vars PROVE Fine
  <2>1. UNCHANGED <<conns, descriptor, mixed>>
    BY <1>8 DEF flush_log_db, MasterBoot, vars, network
  <2> QED BY <1>5, <2>1
<1>9. ASSUME Finalize PROVE Fine
  <2> DEFINE h == Head(finalizers)
  <2>1. /\ descriptor' = [descriptor EXCEPT ![h] = None]
        /\ mixed' = mixed \cup CutBy({h}) /\ conns' = conns
    BY <1>9 DEF Finalize
  <2> HIDE DEF h
  <2>2. ASSUME NEW c \in Conns, c \notin mixed', conns'[c].client = "active"
        PROVE  descriptor'[conns'[c].fd] = c
    <3>1. descriptor[conns[c].fd] = c /\ conns[c].fd \in Fds
      BY <1>1, <2>1, <2>2
    <3>2. conns[c].fd # h
      BY <1>0, <2>1, <2>2, <3>1 DEF CutBy
    <3> QED BY <1>0, <2>1, <3>1, <3>2
  <2> QED BY <1>4, <2>1, <2>2
<1>10. ASSUME MasterCrash PROVE Fine
  <2>1. Len(conns') = Len(conns) /\ Active' = {}
    BY <1>10, CrashedConns
  <2>2. \A c \in Conns : conns'[c].client # "active"
    BY <2>1 DEF Active, Conns
  <2> QED BY <1>4, <2>1, <2>2
<1>11. ASSUME NEW s \in Slaves, SlaveNext(s) PROVE Fine
  <2>1. CASE SlaveStart(s)
    <3>1. /\ Conns' = Conns \cup {Len(conns) + 1} /\ NewConn(s)
          /\ \A c \in Conns : conns'[c] = conns[c]
          /\ UNCHANGED <<descriptor, mixed>>
      BY <2>1, StartedEnds
    <3>2. conns'[Len(conns) + 1].client = "backlog"
      BY <3>1 DEF NewConn
    <3>3. \A c \in Conns : OK(c)
      BY <1>2, <1>3, <3>1
    <3> QED BY <3>1, <3>2, <3>3
  <2>2. CASE slaves[s].up /\ Exit(s)
    <3>1. Len(conns') = Len(conns) /\ HungUp(s) /\ UNCHANGED <<descriptor, mixed>>
      BY <2>2, ExitedEnds
    <3>2. ASSUME NEW c \in Conns PROVE Stays(c)
      <4>1. conns'[c] = conns[c] \/ conns'[c] = [conns[c] EXCEPT !.peer = FALSE]
        BY <3>1 DEF HungUp
      <4> QED BY <1>0, <4>1 DEF Connection
    <3>3. \A c \in Conns : OK(c)
      BY <1>2, <3>1, <3>2
    <3> QED BY <1>4, <3>1, <3>3
  <2>3. CASE SlaveStartAlone(s) \/ fake_request(s) \/ worker_do_work(s)
    <3>1. UNCHANGED <<conns, descriptor, mixed>>
      BY <2>3 DEF SlaveStartAlone, fake_request, worker_do_work, network
    <3> QED BY <1>5, <3>1
  <2> QED BY <1>11, <2>1, <2>2, <2>3 DEF SlaveNext, reader_eventcb, SlaveCrash
<1>12. ASSUME NEW c \in Conns, ConnectionNext(c) PROVE Fine
  <2>1. CASE acceptcb(c)
    <3> DEFINE f == Min(FreeFds)
    <3>1. /\ Len(conns') = Len(conns) /\ \A d \in Conns \ {c} : conns'[d] = conns[d]
          /\ conns'[c].fd = f
      BY <2>1, AcceptConns
    <3>2. descriptor' = [descriptor EXCEPT ![f] = c] /\ mixed' = mixed /\ FreeFds # {}
      BY <2>1 DEF acceptcb
    <3>3. f \in Fds /\ descriptor[f] = None
      <4>1. FreeFds \in SUBSET Nat
        BY ReplicationAssumption DEF FreeFds, Fds
      <4>2. f \in FreeFds
        BY <3>2, <4>1, MinNat
      <4> QED BY <4>2 DEF FreeFds
    <3> HIDE DEF f
    <3>4. ASSUME NEW d \in Conns, d \notin mixed', conns'[d].client = "active"
          PROVE  descriptor'[conns'[d].fd] = d
      <4>1. CASE d = c
        BY <1>0, <3>1, <3>2, <3>3, <4>1
      <4>2. CASE d # c
        <5>1. conns'[d] = conns[d]
          BY <3>1, <4>2
        <5>2. descriptor[conns[d].fd] = d /\ conns[d].fd \in Fds /\ d # None
          BY <1>0, <1>1, <3>2, <3>4, <5>1
        <5> QED BY <1>0, <3>2, <3>3, <5>1, <5>2
      <4> QED BY <4>1, <4>2
    <3> QED BY <1>4, <3>1, <3>4
  <2>2. CASE AcceptFailed(c)
    <3>1. /\ Len(conns') = Len(conns) /\ \A d \in Conns \ {c} : conns'[d] = conns[d]
          /\ conns'[c].client = "freed"
      BY <2>2, RefusedConns
    <3>2. UNCHANGED <<descriptor, mixed>>
      BY <2>2 DEF AcceptFailed
    <3>3. Stays(c)
      BY <3>1
    <3> HIDE DEF Stays, Fine
    <3> QED BY <1>6, <3>1, <3>2, <3>3
  <2>3. CASE LostWrite(c) \/ reader_readcb(c)
    <3>1. Sends(c)
      BY <2>3 DEF LostWrite, PeerGone, reader_readcb, Sends
    <3>2. /\ Len(conns') = Len(conns) /\ \A d \in Conns \ {c} : conns'[d] = conns[d]
          /\ conns'[c].client = conns[c].client /\ conns'[c].fd = conns[c].fd
      BY <3>1, ShortenedConns
    <3>3. descriptor' = descriptor /\ mixed \subseteq mixed'
      BY <2>3 DEF LostWrite, reader_readcb
    <3>4. Stays(c)
      BY <3>2
    <3> HIDE DEF Stays, Fine
    <3> QED BY <1>6, <3>2, <3>3, <3>4
  <2>4. CASE sender_eventcb(c) \/ StaleEvent(c)
    <3> DEFINE f == conns[c].fd
    <3>1. FreeClient(c)
      BY <2>4 DEF sender_eventcb, StaleEvent
    <3>2. /\ Len(conns') = Len(conns) /\ \A d \in Conns \ {c} : conns'[d] = conns[d]
          /\ conns'[c].client = "freed"
      BY <3>1, FreedConns
    <3>3. /\ descriptor' = [descriptor EXCEPT ![f] = None]
          /\ mixed' = mixed \cup (CutBy({f}) \ {c})
      BY <3>1 DEF FreeClient
    <3> HIDE DEF f
    <3>4. ASSUME NEW d \in Conns, d \notin mixed', conns'[d].client = "active"
          PROVE  descriptor'[conns'[d].fd] = d
      <4>1. d # c /\ conns'[d] = conns[d]
        BY <3>2, <3>4
      <4>2. descriptor[conns[d].fd] = d /\ conns[d].fd \in Fds /\ d # None
        BY <1>0, <1>1, <3>3, <3>4, <4>1
      <4>3. conns[d].fd # f
        BY <3>3, <3>4, <4>1, <4>2 DEF CutBy
      <4> QED BY <1>0, <3>3, <4>1, <4>2, <4>3
    <3> QED BY <1>4, <3>2, <3>4
  <2> QED BY <1>12, <2>1, <2>2, <2>3, <2>4 DEF ConnectionNext
<1>13. Fine
  BY <1>7, <1>8, <1>9, <1>10, <1>11, <1>12 DEF Next
<1> QED BY <1>13 DEF OwnInv

(* What the master logs is what it has logged, and at most one record more. *)
LEMMA LogStep ==
  ASSUME Inv, [Next]_vars
  PROVE  /\ MasterJournal \in Seq(Record)
         /\ add_to_db_log => /\ MasterJournal' = Append(MasterJournal, records + 1)
                             /\ records + 1 \in Record
         /\ ~add_to_db_log /\ ~MasterCrash => MasterJournal' = MasterJournal
         /\ flush_log_db \/ MasterBoot \/ Finalize \/ UNCHANGED vars =>
               MasterJournal' = MasterJournal
<1>1. file \in Seq(Record) /\ log_buffer \in Seq(Record)
  <2>1. 1 .. records \subseteq Record
    BY ReplicationAssumption DEF Inv, LogInv, Record
  <2> QED BY <2>1, SeqMonotonic DEF Inv, LogInv
<1>2. MasterJournal \in Seq(Record) /\ MasterJournal \o << >> = MasterJournal
  BY <1>1, ConcatProperties, ConcatEmptySeq DEF MasterJournal
<1>3. ASSUME add_to_db_log
      PROVE  MasterJournal' = Append(MasterJournal, records + 1) /\ records + 1 \in Record
  <2>1. records + 1 \in Record
    BY <1>3, ReplicationAssumption DEF add_to_db_log, Inv, LogInv, Record
  <2>2. CASE FsyncPeriod = 0
    <3>1. file' = Append(MasterJournal, records + 1) /\ log_buffer' = << >>
      BY <1>3, <2>2 DEF add_to_db_log, MasterJournal
    <3>2. Append(MasterJournal, records + 1) \in Seq(Record)
      BY <1>2, <2>1, AppendProperties
    <3>3. file' \o log_buffer' = file'
      BY <3>1, <3>2, ConcatEmptySeq
    <3> QED BY <2>1, <3>1, <3>3 DEF MasterJournal
  <2>3. CASE FsyncPeriod # 0
    <3>1. file' = file /\ log_buffer' = Append(log_buffer, records + 1)
      BY <1>3, <2>3 DEF add_to_db_log
    <3>2. file \o Append(log_buffer, records + 1) = Append(file \o log_buffer, records + 1)
      BY <1>1, <2>1, AppendToConcat
    <3> QED BY <2>1, <3>1, <3>2 DEF MasterJournal
  <2> QED BY <2>2, <2>3
<1>4. ASSUME flush_log_db PROVE MasterJournal' = MasterJournal
  <2>1. file' = MasterJournal /\ log_buffer' = << >>
    BY <1>4 DEF flush_log_db, MasterJournal
  <2> QED BY <1>2, <2>1 DEF MasterJournal
<1>5. ASSUME MasterBoot \/ Finalize \/ UNCHANGED vars PROVE MasterJournal' = MasterJournal
  BY <1>5 DEF MasterBoot, Finalize, vars, masterLog, MasterJournal
<1>6. ASSUME NEW s \in Slaves, SlaveNext(s) PROVE MasterJournal' = MasterJournal
  BY <1>6 DEF SlaveNext, SlaveStart, SlaveStartAlone, fake_request, worker_do_work,
              reader_eventcb, SlaveCrash, Exit, masterLog, MasterJournal
<1>7. ASSUME NEW c \in Conns, ConnectionNext(c) PROVE MasterJournal' = MasterJournal
  BY <1>7 DEF ConnectionNext, acceptcb, AcceptFailed, LostWrite, sender_eventcb,
              StaleEvent, FreeClient, reader_readcb, masterLog, MasterJournal
<1> QED BY <1>2, <1>3, <1>4, <1>5, <1>6, <1>7 DEF Next

(* What a connection may become while its slave gets nothing. *)
StreamSafe(n, m) ==
    /\ m.missed = n.missed
    /\ m.client = "backlog" => n.client = "backlog"
    /\ n.client = "gone" => m.client = "gone"
    /\ m.client = "active" => n.client = "active" /\ m.out = n.out

(* A slave that gets nothing, on a master that logs nothing. *)
LEMMA StreamUnmoved ==
  ASSUME NEW s \in Slaves, StreamAt(s), MasterJournal' = MasterJournal,
         slaves'[s].conn = slaves[s].conn, slaves'[s].journal = slaves[s].journal,
         mixed \subseteq mixed',
         slaves[s].conn # None /\ slaves[s].conn \notin mixed' =>
            StreamSafe(conns[slaves[s].conn], conns'[slaves[s].conn])
  PROVE  StreamAt(s)'
<1> DEFINE c == slaves[s].conn
<1>1. SUFFICES ASSUME c # None, c \notin mixed'
               PROVE  Stream(conns'[c], slaves[s].journal, MasterJournal)
  BY DEF StreamAt
<1>2. Stream(conns[c], slaves[s].journal, MasterJournal)
  BY <1>1 DEF StreamAt
<1>3. StreamSafe(conns[c], conns'[c])
  BY <1>1
<1> HIDE DEF c
<1> QED BY <1>2, <1>3, StreamKept DEF StreamSafe

(* A record is logged, and sent to the clients that do not lag. *)
LEMMA StreamAdd ==
  ASSUME Inv, StreamInv, SlavesAreCounted, [Next]_vars, add_to_db_log,
         NEW s \in Slaves
  PROVE  StreamAt(s)'
<1> DEFINE c == slaves[s].conn
           r == records + 1
<1>0. slaves' = slaves /\ mixed \subseteq mixed'
  BY DEF add_to_db_log, send_to_active_slaves, network
<1>1. SUFFICES ASSUME c # None, c \notin mixed'
               PROVE  Stream(conns'[c], slaves[s].journal, MasterJournal')
  BY <1>0 DEF StreamAt
<1>2. /\ c \in Conns /\ conns[c] \in Connection /\ slaves[s].journal \in Seq(Record)
      /\ Stream(conns[c], slaves[s].journal, MasterJournal)
  BY <1>0, <1>1, SlaveConn, ConnType DEF StreamInv, StreamAt
<1>3. /\ MasterJournal' = Append(MasterJournal, r) /\ r \in Record
      /\ MasterJournal \in Seq(Record)
  BY LogStep
<1>4. /\ conns'[c].missed = conns[c].missed
      /\ conns'[c].client = "backlog" => conns[c].client = "backlog"
      /\ conns[c].client = "gone" => conns'[c].client = "gone"
      /\ conns'[c].client = "active" => /\ conns[c].client = "active"
                                        /\ conns'[c].out = Append(conns[c].out, r)
  <2>1. CASE active_slaves > 0
    <3>1. send_to_active_slaves(r)
      BY <2>1 DEF add_to_db_log
    <3>2. SentTo(r)
      BY <1>3, <3>1, SentConns
    <3>3. CASE c \in Lagging
      <4>1. conns'[c] = [conns[c] EXCEPT !.client = "lagging", !.out = << >>]
        BY <1>2, <3>2, <3>3 DEF SentTo
      <4>2. conns'[c].client = "lagging" /\ conns'[c].missed = conns[c].missed
        BY <1>2, <4>1 DEF Connection
      <4>3. conns[c].client = "active"
        BY <3>3 DEF Lagging, Active
      <4> QED BY <4>2, <4>3
    <3>4. CASE c \in Active \ Lagging
      <4>1. conns'[c] = [conns[c] EXCEPT !.out = Append(@, r)]
        BY <1>2, <3>2, <3>4 DEF SentTo
      <4>2. /\ conns'[c].client = conns[c].client /\ conns'[c].missed = conns[c].missed
            /\ conns'[c].out = Append(conns[c].out, r)
        BY <1>2, <4>1 DEF Connection
      <4>3. conns[c].client = "active"
        BY <3>4 DEF Active
      <4> QED BY <4>2, <4>3
    <3>5. CASE c \notin Active
      <4>1. conns'[c] = conns[c]
        BY <1>2, <3>2, <3>5 DEF SentTo
      <4>2. conns[c].client # "active"
        BY <1>2, <3>5 DEF Active
      <4> QED BY <4>1, <4>2
    <3> QED BY <3>3, <3>4, <3>5
  <2>2. CASE ~(active_slaves > 0)
    <3>1. conns' = conns
      BY <2>2 DEF add_to_db_log, network
    <3>2. IsFiniteSet(Active) /\ Cardinality(Active) = 0
      BY <2>2, ActiveFinite DEF Inv, SlavesAreCounted
    <3>3. c \notin Active
      BY <3>2, FS_EmptySet
    <3>4. conns[c].client # "active"
      BY <1>2, <3>3 DEF Active
    <3> QED BY <3>1, <3>4
  <2> QED BY <2>1, <2>2
<1> HIDE DEF c, r
<1>5. Stream(conns'[c], slaves[s].journal, Append(MasterJournal, r))
  BY <1>2, <1>3, <1>4, StreamLogged
<1> QED BY <1>3, <1>5

(* A client is accepted. *)
LEMMA StreamAccept ==
  ASSUME Inv, StreamInv, [Next]_vars, NEW c \in Conns, acceptcb(c), NEW s \in Slaves
  PROVE  StreamAt(s)'
<1>1. slaves' = slaves /\ mixed' = mixed /\ conns[c].client = "backlog"
      /\ UNCHANGED <<file, log_buffer>>
  BY DEF acceptcb, masterLog
<1>2. /\ \A d \in Conns \ {c} : conns'[d] = conns[d]
      /\ conns'[c].client = "active"
      /\ conns'[c].out = file /\ conns'[c].missed = Range(log_buffer)
  BY AcceptConns
<1>3. MasterJournal' = MasterJournal /\ MasterJournal = file \o log_buffer
  BY <1>1 DEF MasterJournal
<1>4. CASE slaves[s].conn # c
  <2>1. slaves[s].conn # None => StreamSafe(conns[slaves[s].conn], conns'[slaves[s].conn])
    BY <1>2, <1>4, SlaveConn DEF StreamSafe
  <2> QED BY <1>1, <1>3, <2>1, StreamUnmoved DEF StreamInv
<1>5. CASE slaves[s].conn = c
  <2>1. SUFFICES ASSUME c # None, c \notin mixed
                 PROVE  Stream(conns'[c], slaves[s].journal, MasterJournal')
    BY <1>1, <1>5 DEF StreamAt
  <2>2. Stream(conns[c], slaves[s].journal, MasterJournal)
    BY <1>5, <2>1 DEF StreamInv, StreamAt
  <2>3. slaves[s].journal = << >>
    BY <1>1, <2>2 DEF Stream
  <2>4. file \in Seq(Record) /\ log_buffer \in Seq(Record)
    <3>1. 1 .. records \subseteq Record
      BY ReplicationAssumption DEF Inv, LogInv, Record
    <3> QED BY <3>1, SeqMonotonic DEF Inv, LogInv
  <2>5. Stream(conns'[c], << >>, file \o log_buffer)
    BY <1>2, <2>4, StreamAccepted
  <2> QED BY <1>3, <2>3, <2>5
<1> QED BY <1>4, <1>5

(* A slave reads a record that was meant for it, or the two connections    *)
(* are mixed.                                                              *)
LEMMA StreamReceive ==
  ASSUME Inv, PeerInv, MissedInv, StreamInv, [Next]_vars,
         NEW c \in Conns, reader_readcb(c), NEW s \in Slaves
  PROVE  StreamAt(s)'
<1> DEFINE d == descriptor[conns[c].fd]
           u == conns[d].slave
           h == Head(conns[c].out)
<1>1. /\ conns[c].client = "active" /\ conns[c].out # << >> /\ d # None /\ conns[d].peer
      /\ slaves' = IF h \in SplitRecords THEN slaves
                   ELSE [slaves EXCEPT ![u].journal = Append(@, h), ![u].pending = <<h>>]
      /\ mixed' = IF d = c THEN mixed ELSE mixed \cup {c, d}
  BY DEF reader_readcb
<1>2. d \in Conns /\ u \in Slaves
  BY <1>1, ReadTarget
<1>3. slaves[u].conn = d
  BY <1>1, <1>2 DEF PeerInv
<1>4. /\ \A e \in Conns \ {c} : conns'[e] = conns[e]
      /\ conns'[c].client = conns[c].client /\ conns'[c].missed = conns[c].missed
      /\ conns'[c].out = Tail(conns[c].out)
  <2>1. Sends(c)
    BY DEF reader_readcb, Sends
  <2> QED BY <2>1, ShortenedConns
<1>5. MasterJournal' = MasterJournal
  BY DEF reader_readcb, masterLog, MasterJournal
<1>6. /\ slaves \in [Slaves -> SlaveState] /\ conns[c] \in Connection /\ c # None
      /\ slaves[s].journal \in Seq(Record) /\ MasterJournal \in Seq(Record)
  BY SlaveConn, ConnType, LogStep DEF Inv, SlaveInv
<1>7. \A t \in Slaves : slaves'[t].conn = slaves[t].conn
  BY <1>1, <1>6 DEF SlaveState
<1>8. \A t \in Slaves \ {u} : slaves'[t].journal = slaves[t].journal
  BY <1>1, <1>6
<1>9. slaves'[u].journal = IF h \in SplitRecords THEN slaves[u].journal
                           ELSE Append(slaves[u].journal, h)
  <2> HIDE DEF u, h
  <2> QED BY <1>1, <1>2, <1>6 DEF SlaveState
<1> HIDE DEF d, u, h
<1>10. CASE slaves[s].conn \in mixed'
  BY <1>7, <1>10 DEF StreamAt
<1>11. CASE slaves[s].conn \notin mixed' /\ s # u
  <2>1. slaves[s].conn # c
    <3>1. CASE d = c
      <4>1. conns[c].slave = u
        BY <3>1 DEF u
      <4> QED BY <1>6, <1>11, <4>1 DEF PeerInv
    <3>2. CASE d # c
      BY <1>1, <1>11, <3>2
    <3> QED BY <3>1, <3>2
  <2>2. slaves[s].conn # None => StreamSafe(conns[slaves[s].conn], conns'[slaves[s].conn])
    BY <1>4, <2>1, SlaveConn DEF StreamSafe
  <2>3. mixed \subseteq mixed'
    BY <1>1
  <2> QED BY <1>5, <1>7, <1>8, <1>11, <2>2, <2>3, StreamUnmoved DEF StreamInv
<1>12. CASE slaves[s].conn \notin mixed' /\ s = u
  <2>1. d = c /\ slaves[s].conn = c /\ mixed' = mixed
    BY <1>1, <1>3, <1>12
  <2>2. Stream(conns[c], slaves[s].journal, MasterJournal)
    BY <1>6, <1>12, <2>1 DEF StreamInv, StreamAt
  <2>3. h \notin conns[c].missed
    <3>1. conns[c].out \in Seq(1 .. MaxRecords)
      BY <1>6 DEF Connection
    <3>2. h \in Range(conns[c].out)
      BY <1>1, <3>1, RangeOfTail DEF h
    <3> QED BY <3>2 DEF MissedInv
  <2>4. Stream(conns'[c], IF h \in SplitRecords THEN slaves[s].journal
                          ELSE Append(slaves[s].journal, h), MasterJournal)
    <3>1. conns'[c].client = "active"
      BY <1>1, <1>4
    <3> QED BY <1>1, <1>4, <1>6, <2>2, <2>3, <3>1, StreamRead DEF h
  <2>5. Stream(conns'[c], slaves'[s].journal, MasterJournal')
    BY <1>5, <1>9, <1>12, <2>4
  <2> QED BY <1>7, <2>1, <2>5 DEF StreamAt
<1> QED BY <1>10, <1>11, <1>12

(* Steps of the master that send no record. *)
LEMMA StreamMaster ==
  ASSUME Inv, StreamInv, [Next]_vars, NEW s \in Slaves,
         flush_log_db \/ MasterBoot \/ Finalize \/ MasterCrash \/ UNCHANGED vars
  PROVE  StreamAt(s)'
<1>1. CASE MasterCrash
  <2>1. UNCHANGED slaves /\ mixed' = mixed
    BY <1>1 DEF MasterCrash
  <2>2. SUFFICES ASSUME slaves[s].conn # None
                 PROVE  Stream(conns'[slaves[s].conn], slaves[s].journal, MasterJournal')
    BY <2>1 DEF StreamAt
  <2>3. slaves[s].conn \in Conns
    BY <2>2, SlaveConn
  <2>4. conns'[slaves[s].conn].client = "gone"
    <3>1. AllGone
      BY <1>1, CrashedConns
    <3>2. ASSUME NEW c \in Conns PROVE conns'[c].client = "gone"
      <4>1. conns[c] \in Connection
        BY ConnType
      <4>2. conns'[c] = [conns[c] EXCEPT !.client = "gone", !.out = << >>]
        BY <3>1 DEF AllGone
      <4> QED BY <4>1, <4>2 DEF Connection
    <3> QED BY <2>3, <3>2
  <2> QED BY <2>4 DEF Stream
<1>2. CASE flush_log_db \/ MasterBoot \/ Finalize \/ UNCHANGED vars
  <2>1. UNCHANGED slaves /\ UNCHANGED conns /\ mixed \subseteq mixed'
    BY <1>2 DEF flush_log_db, MasterBoot, Finalize, vars, network
  <2>2. MasterJournal' = MasterJournal
    BY <1>2, LogStep
  <2>3. StreamSafe(conns[slaves[s].conn], conns'[slaves[s].conn])
    BY <2>1 DEF StreamSafe
  <2> QED BY <2>1, <2>2, <2>3, StreamUnmoved DEF StreamInv
<1> QED BY <1>1, <1>2

(* Steps of slaves, of the same or of another. *)
LEMMA StreamSlave ==
  ASSUME Inv, PeerInv, StreamInv, [Next]_vars, NEW u \in Slaves, SlaveNext(u),
         NEW s \in Slaves
  PROVE  StreamAt(s)'
<1>0. /\ slaves \in [Slaves -> SlaveState] /\ << >> \in Seq(Record)
      /\ \A c \in Conns : StreamSafe(conns[c], conns[c])
      /\ slaves[s].conn # None => slaves[s].conn \in Conns
  BY SlaveConn DEF Inv, SlaveInv, StreamSafe
<1>1. UNCHANGED masterLog /\ mixed' = mixed
  BY DEF SlaveNext, SlaveStart, SlaveStartAlone, fake_request, worker_do_work,
         reader_eventcb, SlaveCrash, Exit, network
<1>2. MasterJournal' = MasterJournal /\ MasterJournal \in Seq(Record)
  BY <1>1, LogStep DEF masterLog, MasterJournal
<1>3. CASE SlaveStart(u)
  <2> DEFINE l == Len(conns) + 1
  <2>1. /\ \A c \in Conns : conns'[c] = conns[c]
        /\ NewConn(u)
        /\ \A t \in Slaves \ {u} : slaves'[t] = slaves[t]
        /\ slaves'[u].conn = l /\ slaves'[u].journal = << >>
    BY <1>3, StartedEnds
  <2>2. conns'[l].client = "backlog"
    BY <2>1 DEF NewConn
  <2> HIDE DEF l
  <2>3. CASE s = u
    <3>1. Left(conns'[l], MasterJournal) \in Seq(Record)
      BY <1>2, WithoutType DEF Left
    <3>2. << >> \o Left(conns'[l], MasterJournal) = Left(conns'[l], MasterJournal)
      BY <3>1, ConcatEmptySeq
    <3>3. Stream(conns'[l], << >>, MasterJournal)
      BY <2>2, <3>1, <3>2 DEF Stream
    <3> QED BY <1>2, <2>1, <2>3, <3>3 DEF StreamAt
  <2>4. CASE s # u
    <3>1. slaves[s].conn # None => StreamSafe(conns[slaves[s].conn], conns'[slaves[s].conn])
      BY <1>0, <2>1
    <3>2. slaves'[s].conn = slaves[s].conn /\ slaves'[s].journal = slaves[s].journal
      BY <2>1, <2>4
    <3> QED BY <1>1, <1>2, <3>1, <3>2, StreamUnmoved DEF StreamInv
  <2> QED BY <2>3, <2>4
<1>4. CASE slaves[u].up /\ Exit(u)
  <2>1. /\ HungUp(u)
        /\ \A t \in Slaves \ {u} : slaves'[t] = slaves[t]
        /\ slaves'[u].conn = None
    BY <1>4, ExitedEnds
  <2>2. CASE s = u
    BY <2>1, <2>2 DEF StreamAt
  <2>3. CASE s # u
    <3>1. ASSUME NEW c \in Conns PROVE StreamSafe(conns[c], conns'[c])
      <4>1. conns'[c] = conns[c] \/ conns'[c] = [conns[c] EXCEPT !.peer = FALSE]
        BY <2>1 DEF HungUp
      <4> QED BY <1>0, <4>1, ConnType DEF Connection, StreamSafe
    <3>2. slaves'[s].conn = slaves[s].conn /\ slaves'[s].journal = slaves[s].journal
      BY <2>1, <2>3
    <3> QED BY <1>0, <1>1, <1>2, <3>1, <3>2, StreamUnmoved DEF StreamInv
  <2> QED BY <2>2, <2>3
<1>5. CASE SlaveStartAlone(u)
  <2>1. slaves' = [slaves EXCEPT ![u] = Stopped] /\ UNCHANGED conns
    BY <1>5 DEF SlaveStartAlone, network
  <2>2. CASE s = u
    <3>1. slaves'[s].conn = None
      BY <1>0, <2>1, <2>2 DEF Stopped
    <3> QED BY <3>1 DEF StreamAt
  <2>3. CASE s # u
    <3>1. slaves'[s] = slaves[s]
      BY <1>0, <2>1, <2>3
    <3> QED BY <1>0, <1>1, <1>2, <2>1, <3>1, StreamUnmoved DEF StreamInv
  <2> QED BY <2>2, <2>3
<1>6. CASE fake_request(u) \/ worker_do_work(u)
  <2>1. UNCHANGED conns
    BY <1>6 DEF fake_request, worker_do_work, network
  <2>2. slaves'[s].conn = slaves[s].conn /\ slaves'[s].journal = slaves[s].journal
    <3>1. CASE fake_request(u)
      <4>1. slaves' = [slaves EXCEPT ![u].queue = @ \o slaves[u].pending, ![u].pending = << >>]
        BY <3>1 DEF fake_request
      <4> QED BY <1>0, <4>1 DEF SlaveState
    <3>2. CASE worker_do_work(u)
      <4>1. slaves' = [slaves EXCEPT ![u].queue = Tail(@),
                                     ![u].memory = Append(@, Head(slaves[u].queue))]
        BY <3>2 DEF worker_do_work
      <4> QED BY <1>0, <4>1 DEF SlaveState
    <3> QED BY <1>6, <3>1, <3>2
  <2> QED BY <1>0, <1>1, <1>2, <2>1, <2>2, StreamUnmoved DEF StreamInv
<1> QED BY <1>3, <1>4, <1>5, <1>6 DEF SlaveNext, reader_eventcb, SlaveCrash

(* Steps of a connection by which no slave reads. *)
LEMMA StreamConn ==
  ASSUME Inv, PeerInv, OwnInv, StreamInv, [Next]_vars, NEW c \in Conns,
         AcceptFailed(c) \/ LostWrite(c) \/ sender_eventcb(c) \/ StaleEvent(c),
         NEW s \in Slaves
  PROVE  StreamAt(s)'
<1>1. /\ UNCHANGED slaves /\ MasterJournal' = MasterJournal /\ mixed \subseteq mixed'
  BY DEF AcceptFailed, LostWrite, sender_eventcb, StaleEvent, FreeClient, masterLog,
         MasterJournal
<1>2. SUFFICES ASSUME slaves[s].conn # None, slaves[s].conn \notin mixed'
               PROVE  StreamSafe(conns[slaves[s].conn], conns'[slaves[s].conn])
  BY <1>1, StreamUnmoved DEF StreamInv
<1>3. slaves[s].conn \in Conns
  BY <1>2, SlaveConn
<1>4. CASE AcceptFailed(c)
  <2>1. /\ \A d \in Conns \ {c} : conns'[d] = conns[d]
        /\ conns'[c].client = "freed" /\ conns'[c].missed = conns[c].missed
    BY <1>4, RefusedConns
  <2>2. conns[c].client = "backlog"
    BY <1>4 DEF AcceptFailed
  <2> QED BY <1>3, <2>1, <2>2 DEF StreamSafe
<1>5. CASE LostWrite(c)
  <2>1. Sends(c) /\ PeerGone(c) /\ mixed' = mixed
    BY <1>5 DEF LostWrite, PeerGone, Sends
  <2>2. \A d \in Conns \ {c} : conns'[d] = conns[d]
    BY <2>1, ShortenedConns
  <2>3. slaves[s].conn # c
    <3>1. ASSUME slaves[s].conn = c PROVE FALSE
      <4>1. conns[c].peer
        BY <1>2, <3>1 DEF PeerInv
      <4>2. descriptor[conns[c].fd] = c
        BY <1>2, <2>1, <3>1 DEF OwnInv, PeerGone
      <4> QED BY <2>1, <4>1, <4>2 DEF PeerGone
    <3> QED BY <3>1
  <2> QED BY <1>3, <2>2, <2>3 DEF StreamSafe
<1>6. CASE sender_eventcb(c) \/ StaleEvent(c)
  <2>1. FreeClient(c) /\ conns[c].client = "active"
    BY <1>6 DEF sender_eventcb, StaleEvent, PeerGone
  <2>2. /\ \A d \in Conns \ {c} : conns'[d] = conns[d]
        /\ conns'[c].client = "freed" /\ conns'[c].missed = conns[c].missed
    BY <2>1, FreedConns
  <2> QED BY <1>3, <2>1, <2>2 DEF StreamSafe
<1> QED BY <1>4, <1>5, <1>6

(* The streams stay right. *)
LEMMA StreamInvStep ==
  ASSUME Inv, SlavesAreCounted, FollowInv, [Next]_vars PROVE StreamInv'
<1> SUFFICES ASSUME NEW s \in Slaves PROVE StreamAt(s)'
  BY DEF StreamInv
<1>1. CASE add_to_db_log
  BY <1>1, StreamAdd DEF FollowInv
<1>2. CASE flush_log_db \/ MasterBoot \/ Finalize \/ MasterCrash \/ UNCHANGED vars
  BY <1>2, StreamMaster DEF FollowInv
<1>3. ASSUME NEW u \in Slaves, SlaveNext(u) PROVE StreamAt(s)'
  BY <1>3, StreamSlave DEF FollowInv
<1>4. ASSUME NEW c \in Conns, ConnectionNext(c) PROVE StreamAt(s)'
  BY <1>4, StreamAccept, StreamReceive, StreamConn DEF FollowInv, ConnectionNext
<1> QED BY <1>1, <1>2, <1>3, <1>4 DEF Next

(***************************************************************************)
(* A slave's journal follows its master's (save_event before push_cqueue,  *)
(* replication_slave.c; acceptcb and send_to_active_slaves,                *)
(* replication_master.c), for any number of slaves, connections, records   *)
(* and descriptors, and whatever is closed twice.                          *)
(***************************************************************************)
THEOREM SlavesFollow == Spec => []SlaveFollowsMaster
<1>1. Init => FollowInv
  <2> SUFFICES ASSUME Init PROVE FollowInv
    OBVIOUS
  <2>1. Conns = {} /\ file = << >> /\ log_buffer = << >>
    BY DEF Init, Conns
  <2>2. \A s \in Slaves : slaves[s].conn = None /\ slaves[s].up = FALSE
    BY DEF Init, Stopped
  <2>3. Range(file) = {}
    BY <2>1 DEF Range
  <2>4. PeerInv
    BY <2>1, <2>2 DEF PeerInv
  <2>5. MissedInv /\ OwnInv
    BY <2>1, <2>3 DEF MissedInv, OwnInv
  <2>6. StreamInv
    BY <2>2 DEF StreamInv, StreamAt
  <2> QED BY <2>4, <2>5, <2>6 DEF FollowInv
<1>2. Inv /\ SlavesAreCounted /\ FollowInv /\ [Next]_vars => FollowInv'
  BY PeerInvStep, MissedInvStep, OwnInvStep, StreamInvStep DEF FollowInv
<1>3. Inv /\ FollowInv => SlaveFollowsMaster
  <2> SUFFICES ASSUME Inv, FollowInv, NEW s \in Slaves,
                      slaves[s].conn # None, slaves[s].conn \notin mixed
               PROVE  LET c == slaves[s].conn
                      IN  /\ conns[c].client # "gone" =>
                                IsPrefix(slaves[s].journal, Readable(c, MasterJournal))
                          /\ conns[c].client = "active" =>
                                slaves[s].journal \o Readable(c, conns[c].out)
                                   = Readable(c, MasterJournal)
    BY DEF SlaveFollowsMaster
  <2> DEFINE c == slaves[s].conn
             j == slaves[s].journal
  <2>1. Stream(conns[c], j, MasterJournal) /\ j \in Seq(Record)
    BY SlaveConn DEF FollowInv, StreamInv, StreamAt
  <2>2. \A q : Readable(c, q) = Left(conns[c], q)
    BY DEF Readable, Left
  <2> HIDE DEF c, j
  <2>3. ASSUME conns[c].client # "gone" PROVE IsPrefix(j, Readable(c, MasterJournal))
    <3>1. PICK t \in Seq(Record) : Left(conns[c], MasterJournal) = j \o t
      BY <2>1, <2>3 DEF Stream
    <3>2. IsPrefix(j, j \o t)
      BY <2>1, PrefixOfConcat
    <3> QED BY <2>2, <3>1, <3>2
  <2>4. conns[c].client = "active" =>
           j \o Readable(c, conns[c].out) = Readable(c, MasterJournal)
    BY <2>1, <2>2 DEF Stream
  <2> QED BY <2>3, <2>4 DEF c, j
<1> QED BY <1>1, <1>2, <1>3, ReplicationInvariant, CounterIsRight, PTL DEF Spec
=============================================================================
