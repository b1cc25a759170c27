---------------------------- MODULE ServerProofs ----------------------------
(***************************************************************************)
(* For every number of workers, requests, crashes and rewrites: what the   *)
(* journal keeps of the operations that were accepted.                     *)
(*                                                                         *)
(* Everything is about Log, what the journal will be once the event loop   *)
(* has logged and written what it has at hand.  Most theorems only need    *)
(* the tids of its records; the last one, that the journal stands for the  *)
(* memory, is about what the records do to a database.                     *)
(***************************************************************************)
EXTENDS Server, LibraryFacts

(* A sequence, whatever its elements are. *)
IsSeq(s) == s \in Seq({s[i] : i \in DOMAIN s})

(* The records behind the n-th. *)
From(s, n) == SubSeq(s, n + 1, Len(s))

(* Tids that are there are in the order in which they were given. *)
Numbered(s, i) == s[i] # Torn /\ s[i].tid # 0
Rising(s) == \A i, j \in DOMAIN s :
                i < j /\ Numbered(s, i) /\ Numbered(s, j) => s[i].tid < s[j].tid

Op == {[r EXCEPT !.tid = t] : r \in Request, t \in 1 .. MaxOps}

(* What is not written yet. *)
Rest(buffer, p) == buffer \o IF p = NoOp THEN << >> ELSE << p >>
Unwritten == Rest(log_buffer, pending)
Log == file \o Unwritten

(* What this process has run, or will run. *)
Accepted == applied \cup WaitingTids

(* Where the part of the journal that a rewrite keeps begins. *)
Mark == IF main \in {"set_pid", "set_offset"} THEN offset ELSE fork_offset

TidSets == acked \cup applied \cup dumped \cup queued \cup held \cup lost \cup replies

TypeInv ==
    /\ workers \in {"up", "stopped"}
    /\ main \in {"loop", "log", "rewrite", "set_pid", "set_offset", "replay"}
    /\ cqueue \in Seq(Op) /\ Len(cqueue) <= Capacity
    /\ op \in [Worker -> Op \cup {NoOp}]
    /\ pending \in Op \cup {NoOp} /\ (pending = NoOp <=> main # "log")
    /\ op_tid \in 0 .. MaxOps
    /\ log_buffer \in Seq(Op)
    /\ rewriter \in {NoProcess, Child}
    /\ fork_offset \in Nat \cup {-1}
    /\ IsSeq(file) /\ offset \in 0 .. Len(file) /\ unread \in 0 .. Len(file)
    /\ child \in {"none", "running", "exited", "killed"}
    /\ IsSeq(dump) /\ Complete(dump) = {}
    /\ now \in 1 .. MaxTime

TidInv == TidSets \cup Accepted \cup Complete(Log) \subseteq 1 .. op_tid

OrderInv == Rising(Log)

(* Nothing that was accepted is missing, now or after the rewrite. *)
KeptInv == Accepted \ lost \subseteq held \cup Complete(Log)

RewriteInv ==
    child # "none" =>
        /\ main \in {"set_pid", "set_offset"} => child = "running"
        /\ Mark \in 0 .. Len(file)
        /\ Accepted \ (lost \cup queued) \subseteq dumped \cup Complete(From(Log, Mark))

(* The queue is first-in first-out. *)
QueueInv ==
    /\ \A i, j \in DOMAIN cqueue : i < j => cqueue[i].tid < cqueue[j].tid
    /\ \A i \in DOMAIN cqueue :
          /\ \A t \in applied : t < cqueue[i].tid
          /\ \A o \in InHand : o.tid < cqueue[i].tid

(* What is not written yet was accepted by this process, and is in a dump  *)
(* that has something newer.                                               *)
UnwrittenInv ==
    /\ Tids(Unwritten) \subseteq Accepted
    /\ \A t \in held, u \in Tids(Unwritten) : u < t => u \in held
    /\ child # "none" => \A t \in dumped, u \in Tids(Unwritten) : u < t => u \in dumped

(* What the dump has is not in the rest of the journal. *)
OnceInv ==
    /\ Complete(Log) \cap held = {}
    /\ Complete(From(file, offset)) \cap Accepted = {}
    /\ child # "none" => Complete(From(Log, Mark)) \cap dumped = {}

(* With FsyncPeriod 0. *)
SyncInv ==
    /\ log_buffer = << >>
    /\ replies \subseteq applied
    /\ acked \ lost \subseteq applied
    /\ pending # NoOp => pending.tid \notin acked
-----------------------------------------------------------------------------
(* Sequences *)

(* A sequence is the function of its elements. *)
LEMMA SeqFacts ==
  ASSUME NEW s, IsSeq(s)
  PROVE  Len(s) \in Nat /\ DOMAIN s = 1 .. Len(s) /\ s = [i \in 1 .. Len(s) |-> s[i]]
  BY DEF IsSeq

(* A function on 1 .. n is a sequence. *)
LEMMA FunctionSeq ==
  ASSUME NEW n \in Nat, NEW s, s = [i \in 1 .. n |-> s[i]]
  PROVE  IsSeq(s) /\ Len(s) = n
<1> DEFINE R == {s[i] : i \in DOMAIN s}
<1>1. DOMAIN s = 1 .. n
  OBVIOUS
<1>2. \A i \in 1 .. n : s[i] \in R
  BY <1>1
<1> HIDE DEF R
<1>3. s \in [1 .. n -> R]
  BY <1>2
<1>4. s \in Seq(R) /\ Len(s) = n
  BY <1>3, FunctionIsSeq
<1> QED BY <1>4 DEF IsSeq, R

(* A typed sequence is a sequence. *)
LEMMA TypedSeq ==
  ASSUME NEW S, NEW s \in Seq(S)
  PROVE  IsSeq(s) /\ \A i \in 1 .. Len(s) : s[i] \in S
<1>1. Len(s) \in Nat /\ s = [i \in 1 .. Len(s) |-> s[i]] /\ \A i \in 1 .. Len(s) : s[i] \in S
  OBVIOUS
<1> QED BY <1>1, FunctionSeq

(* Sequences with the same elements are the same. *)
LEMMA SameSeq ==
  ASSUME NEW s, NEW t, IsSeq(s), IsSeq(t), Len(s) = Len(t),
         \A i \in 1 .. Len(s) : s[i] = t[i]
  PROVE  s = t
<1>1. s = [i \in 1 .. Len(s) |-> s[i]] /\ t = [i \in 1 .. Len(s) |-> t[i]]
  BY SeqFacts
<1> QED BY <1>1

(* The elements of a concatenation. *)
LEMMA Join ==
  ASSUME NEW s, NEW t, IsSeq(s), IsSeq(t)
  PROVE  /\ IsSeq(s \o t) /\ Len(s \o t) = Len(s) + Len(t)
         /\ \A i \in 1 .. Len(s) : (s \o t)[i] = s[i]
         /\ \A i \in 1 .. Len(t) : (s \o t)[Len(s) + i] = t[i]
         /\ \A i \in 1 .. Len(s) + Len(t) :
               (s \o t)[i] = IF i <= Len(s) THEN s[i] ELSE t[i - Len(s)]
<1> DEFINE S == {s[i] : i \in DOMAIN s}
           T == {t[i] : i \in DOMAIN t}
           U == S \cup T
<1>1. /\ Len(s) \in Nat /\ DOMAIN s = 1 .. Len(s) /\ s = [i \in 1 .. Len(s) |-> s[i]]
      /\ Len(t) \in Nat /\ DOMAIN t = 1 .. Len(t) /\ t = [i \in 1 .. Len(t) |-> t[i]]
  BY SeqFacts
<1>2. (\A i \in 1 .. Len(s) : s[i] \in U) /\ (\A i \in 1 .. Len(t) : t[i] \in U)
  BY <1>1
<1> HIDE DEF U
<1>3. s \in [1 .. Len(s) -> U] /\ t \in [1 .. Len(t) -> U]
  BY <1>1, <1>2
<1>4. s \in Seq(U) /\ t \in Seq(U)
  BY <1>1, <1>3, FunctionIsSeq
<1>5. /\ s \o t \in Seq(U) /\ Len(s \o t) = Len(s) + Len(t)
      /\ \A i \in 1 .. Len(s) + Len(t) :
            (s \o t)[i] = IF i <= Len(s) THEN s[i] ELSE t[i - Len(s)]
  BY <1>4, ConcatProperties
<1>6. \A i \in 1 .. Len(s) : (s \o t)[i] = s[i]
  BY <1>1, <1>5
<1>7. \A i \in 1 .. Len(t) : (s \o t)[Len(s) + i] = t[i]
  <2> TAKE i \in 1 .. Len(t)
  <2>1. Len(s) + i \in 1 .. Len(s) + Len(t) /\ ~(Len(s) + i <= Len(s))
        /\ (Len(s) + i) - Len(s) = i
    BY <1>1
  <2> QED BY <1>5, <2>1
<1>8. IsSeq(s \o t)
  BY <1>5, TypedSeq
<1> QED BY <1>5, <1>6, <1>7, <1>8

(* Concatenation is associative. *)
LEMMA JoinAssoc ==
  ASSUME NEW s, NEW t, NEW u, IsSeq(s), IsSeq(t), IsSeq(u)
  PROVE  (s \o t) \o u = s \o (t \o u)
<1> DEFINE a == s \o t
           b == t \o u
<1>1. Len(s) \in Nat /\ Len(t) \in Nat /\ Len(u) \in Nat
  BY SeqFacts
<1>2. /\ IsSeq(a) /\ Len(a) = Len(s) + Len(t)
      /\ \A i \in 1 .. Len(s) + Len(t) : a[i] = IF i <= Len(s) THEN s[i] ELSE t[i - Len(s)]
  BY Join
<1>3. /\ IsSeq(b) /\ Len(b) = Len(t) + Len(u)
      /\ \A i \in 1 .. Len(t) + Len(u) : b[i] = IF i <= Len(t) THEN t[i] ELSE u[i - Len(t)]
  BY Join
<1> HIDE DEF a, b
<1>4. /\ IsSeq(a \o u) /\ Len(a \o u) = Len(a) + Len(u)
      /\ \A i \in 1 .. Len(a) + Len(u) : (a \o u)[i] = IF i <= Len(a) THEN a[i] ELSE u[i - Len(a)]
  BY <1>2, Join
<1>5. /\ IsSeq(s \o b) /\ Len(s \o b) = Len(s) + Len(b)
      /\ \A i \in 1 .. Len(s) + Len(b) : (s \o b)[i] = IF i <= Len(s) THEN s[i] ELSE b[i - Len(s)]
  BY <1>3, Join
<1> DEFINE p == a \o u
           q == s \o b
<1>6. IsSeq(p) /\ IsSeq(q) /\ Len(p) = Len(q) /\ Len(p) = (Len(s) + Len(t)) + Len(u)
  BY <1>1, <1>2, <1>3, <1>4, <1>5
<1>7. ASSUME NEW i \in 1 .. Len(p) PROVE p[i] = q[i]
  <2>0. i \in Nat /\ 1 <= i /\ i <= (Len(s) + Len(t)) + Len(u)
    BY <1>1, <1>6
  <2>1. CASE i <= Len(s)
    BY <1>1, <1>2, <1>3, <1>4, <1>5, <2>0, <2>1
  <2>2. CASE i > Len(s) /\ i <= Len(s) + Len(t)
    <3>1. i - Len(s) \in 1 .. Len(t) + Len(u) /\ i - Len(s) <= Len(t)
      BY <1>1, <2>0, <2>2
    <3>2. q[i] = b[i - Len(s)] /\ b[i - Len(s)] = t[i - Len(s)]
      BY <1>1, <1>3, <1>5, <2>0, <2>2, <3>1, SMTT(60)
    <3>3. p[i] = a[i] /\ a[i] = t[i - Len(s)]
      BY <1>1, <1>2, <1>4, <2>0, <2>2
    <3> QED BY <3>2, <3>3
  <2>3. CASE i > Len(s) + Len(t)
    <3>1. i - Len(s) \in 1 .. Len(t) + Len(u) /\ ~(i - Len(s) <= Len(t))
          /\ (i - Len(s)) - Len(t) = i - (Len(s) + Len(t))
      BY <1>1, <2>0, <2>3
    <3>2. q[i] = b[i - Len(s)] /\ b[i - Len(s)] = u[i - (Len(s) + Len(t))]
      BY <1>1, <1>3, <1>5, <2>0, <2>3, <3>1, SMTT(60)
    <3>3. p[i] = u[i - (Len(s) + Len(t))]
      BY <1>1, <1>2, <1>4, <2>0, <2>3
    <3> QED BY <3>2, <3>3
  <2>4. i <= Len(s) \/ (i > Len(s) /\ i <= Len(s) + Len(t)) \/ i > Len(s) + Len(t)
    BY <1>1, <2>0
  <2> QED BY <2>1, <2>2, <2>3, <2>4
<1> HIDE DEF p, q
<1>8. p = q
  BY <1>6, <1>7, SameSeq
<1> QED BY <1>8 DEF p, q, a, b

(* The elements of a part of a sequence. *)
LEMMA Cut ==
  ASSUME NEW s, IsSeq(s), NEW n \in 0 .. Len(s), NEW m \in 1 .. n + 1
  PROVE  /\ IsSeq(SubSeq(s, m, n)) /\ Len(SubSeq(s, m, n)) = (n + 1) - m
         /\ \A i \in 1 .. (n + 1) - m : SubSeq(s, m, n)[i] = s[(m - 1) + i]
<1>1. Len(s) \in Nat
  BY SeqFacts
<1>2. SubSeq(s, m, n) = [i \in 1 .. (n + 1) - m |-> s[(m - 1) + i]]
  <2> DEFINE t == SubSeq(s, m, n)
             R == {s[i] : i \in DOMAIN s}
  <2>1. s \in Seq(R) /\ n \in Int /\ m \in Int /\ m \in 1 .. Len(s) + 1
        /\ n \in m - 1 .. Len(s)
    BY <1>1 DEF IsSeq
  <2> HIDE DEF R
  <2>2. /\ t \in Seq(R) /\ Len(t) = n - m + 1
        /\ \A i \in 1 .. n - m + 1 : t[i] = s[m + i - 1]
    BY <2>1, SubSeqProperties
  <2>3. Len(t) = (n + 1) - m
    BY <2>1, <2>2
  <2> QED BY <2>1, <2>2, <2>3
<1>3. (n + 1) - m \in Nat
  BY <1>1
<1>4. SubSeq(s, m, n) = [i \in 1 .. (n + 1) - m |-> SubSeq(s, m, n)[i]]
  BY <1>2
<1> QED BY <1>2, <1>3, <1>4, FunctionSeq

(* The elements behind an offset. *)
LEMMA FromFacts ==
  ASSUME NEW s, IsSeq(s), NEW n \in 0 .. Len(s)
  PROVE  /\ IsSeq(From(s, n)) /\ Len(From(s, n)) = Len(s) - n
         /\ \A i \in 1 .. Len(s) - n : From(s, n)[i] = s[n + i]
<1>1. Len(s) \in Nat
  BY SeqFacts
<1> DEFINE m == n + 1
           l == Len(s)
<1>2. m \in 1 .. l + 1 /\ l \in 0 .. Len(s) /\ (l + 1) - m = Len(s) - n /\ m - 1 = n
  BY <1>1
<1>3. From(s, n) = SubSeq(s, m, l)
  BY DEF From
<1> HIDE DEF m, l
<1>4. /\ IsSeq(SubSeq(s, m, l)) /\ Len(SubSeq(s, m, l)) = (l + 1) - m
      /\ \A i \in 1 .. (l + 1) - m : SubSeq(s, m, l)[i] = s[(m - 1) + i]
  BY <1>2, Cut
<1> QED BY <1>2, <1>3, <1>4

(* The elements before an offset. *)
LEMMA CutFacts ==
  ASSUME NEW s, IsSeq(s), NEW n \in 0 .. Len(s)
  PROVE  /\ IsSeq(SubSeq(s, 1, n)) /\ Len(SubSeq(s, 1, n)) = n
         /\ \A i \in 1 .. n : SubSeq(s, 1, n)[i] = s[i]
<1>1. Len(s) \in Nat
  BY SeqFacts
<1>2. 1 \in 1 .. n + 1 /\ (n + 1) - 1 = n /\ \A i \in 1 .. n : (1 - 1) + i = i
  BY <1>1
<1>3. /\ IsSeq(SubSeq(s, 1, n)) /\ Len(SubSeq(s, 1, n)) = (n + 1) - 1
      /\ \A i \in 1 .. (n + 1) - 1 : SubSeq(s, 1, n)[i] = s[(1 - 1) + i]
  BY <1>2, Cut
<1> QED BY <1>2, <1>3

(* A sequence cut in two. *)
LEMMA CutJoin ==
  ASSUME NEW s, IsSeq(s), NEW n \in 0 .. Len(s)
  PROVE  SubSeq(s, 1, n) \o From(s, n) = s
<1> DEFINE a == SubSeq(s, 1, n)
           b == From(s, n)
<1>1. Len(s) \in Nat
  BY SeqFacts
<1>2. IsSeq(a) /\ Len(a) = n /\ \A i \in 1 .. n : a[i] = s[i]
  BY CutFacts
<1>3. IsSeq(b) /\ Len(b) = Len(s) - n /\ \A i \in 1 .. Len(s) - n : b[i] = s[n + i]
  BY FromFacts
<1> HIDE DEF a, b
<1>4. /\ IsSeq(a \o b) /\ Len(a \o b) = Len(a) + Len(b)
      /\ \A i \in 1 .. Len(a) + Len(b) : (a \o b)[i] = IF i <= Len(a) THEN a[i] ELSE b[i - Len(a)]
  BY <1>2, <1>3, Join
<1>5. Len(a \o b) = Len(s)
  BY <1>1, <1>2, <1>3, <1>4
<1>6. ASSUME NEW i \in 1 .. Len(s) PROVE (a \o b)[i] = s[i]
  <2>1. CASE i <= n
    BY <1>1, <1>2, <1>3, <1>4, <2>1
  <2>2. CASE ~(i <= n)
    <3>1. i - n \in 1 .. Len(s) - n /\ n + (i - n) = i
      BY <1>1, <2>2
    <3> QED BY <1>1, <1>2, <1>3, <1>4, <2>2, <3>1
  <2> QED BY <2>1, <2>2
<1>7. a \o b = s
  BY <1>4, <1>5, <1>6, SameSeq
<1> QED BY <1>7 DEF a, b

(* Appending commutes with cutting off the front. *)
LEMMA FromJoin ==
  ASSUME NEW s, NEW t, IsSeq(s), IsSeq(t), NEW n \in 0 .. Len(s)
  PROVE  From(s \o t, n) = From(s, n) \o t
<1> DEFINE j == s \o t
           a == From(s, n)
           b == From(j, n)
<1>1. Len(s) \in Nat /\ Len(t) \in Nat
  BY SeqFacts
<1>2. /\ IsSeq(j) /\ Len(j) = Len(s) + Len(t)
      /\ \A i \in 1 .. Len(s) + Len(t) : j[i] = IF i <= Len(s) THEN s[i] ELSE t[i - Len(s)]
  BY Join
<1> HIDE DEF j
<1>3. IsSeq(a) /\ Len(a) = Len(s) - n /\ \A i \in 1 .. Len(s) - n : a[i] = s[n + i]
  BY FromFacts
<1>4. n \in 0 .. Len(j)
  BY <1>1, <1>2
<1>5. IsSeq(b) /\ Len(b) = Len(j) - n /\ \A i \in 1 .. Len(j) - n : b[i] = j[n + i]
  BY <1>2, <1>4, FromFacts, ZenonT(60)
<1> HIDE DEF a, b
<1>6. /\ IsSeq(a \o t) /\ Len(a \o t) = Len(a) + Len(t)
      /\ \A i \in 1 .. Len(a) + Len(t) : (a \o t)[i] = IF i <= Len(a) THEN a[i] ELSE t[i - Len(a)]
  BY <1>3, Join
<1>7. Len(a \o t) = Len(b)
  BY <1>1, <1>2, <1>3, <1>5, <1>6
<1>8. ASSUME NEW i \in 1 .. Len(b) PROVE b[i] = (a \o t)[i]
  <2>0. i \in Nat /\ i \in 1 .. Len(j) - n /\ n + i \in 1 .. Len(s) + Len(t)
        /\ i \in 1 .. Len(a) + Len(t) /\ (n + i) - Len(s) = i - Len(a)
    BY <1>1, <1>2, <1>3, <1>5
  <2>1. b[i] = IF n + i <= Len(s) THEN s[n + i] ELSE t[(n + i) - Len(s)]
    BY <1>2, <1>5, <2>0
  <2>2. CASE n + i <= Len(s)
    <3>1. i <= Len(a) /\ i \in 1 .. Len(s) - n
      BY <1>1, <1>3, <2>0, <2>2
    <3> QED BY <1>3, <1>6, <2>0, <2>1, <2>2, <3>1
  <2>3. CASE ~(n + i <= Len(s))
    <3>1. ~(i <= Len(a))
      BY <1>1, <1>3, <2>0, <2>3
    <3> QED BY <1>6, <2>0, <2>1, <2>3, <3>1
  <2> QED BY <2>2, <2>3
<1>9. b = a \o t
  BY <1>5, <1>6, <1>7, <1>8, SameSeq
<1> QED BY <1>9 DEF a, b, j

(* Nothing is behind the end. *)
LEMMA NoneBehind ==
  ASSUME NEW s, IsSeq(s) PROVE From(s, Len(s)) = << >>
<1>1. Len(s) \in Nat /\ Len(s) \in 0 .. Len(s)
  BY SeqFacts
<1>2. IsSeq(From(s, Len(s))) /\ Len(From(s, Len(s))) = 0
  BY <1>1, FromFacts
<1>3. IsSeq(<< >>) /\ Len(<< >>) = 0
  BY DEF IsSeq
<1> QED BY <1>2, <1>3, SameSeq

(* Everything is behind the beginning. *)
LEMMA AllBehind == ASSUME NEW s, IsSeq(s) PROVE From(s, 0) = s
<1>1. Len(s) \in Nat /\ 0 \in 0 .. Len(s)
  BY SeqFacts
<1>2. /\ IsSeq(From(s, 0)) /\ Len(From(s, 0)) = Len(s) - 0
      /\ \A i \in 1 .. Len(s) - 0 : From(s, 0)[i] = s[0 + i]
  BY <1>1, FromFacts
<1>3. Len(From(s, 0)) = Len(s) /\ \A i \in 1 .. Len(s) : From(s, 0)[i] = s[i]
  BY <1>1, <1>2
<1> QED BY <1>2, <1>3, SameSeq
-----------------------------------------------------------------------------
(* Tids of journals *)

(* A record is complete that carries its tid. *)
LEMMA CompleteMember ==
  ASSUME NEW s, IsSeq(s), NEW t
  PROVE  t \in Complete(s) <=> \E i \in 1 .. Len(s) : Numbered(s, i) /\ s[i].tid = t
  BY SeqFacts DEF Complete, Numbered

(* The complete records of a concatenation. *)
LEMMA CompleteJoin ==
  ASSUME NEW s, NEW t, IsSeq(s), IsSeq(t)
  PROVE  Complete(s \o t) = Complete(s) \cup Complete(t)
<1> DEFINE j == s \o t
<1>0. Len(s) \in Nat /\ Len(t) \in Nat
  BY SeqFacts
<1>1. /\ IsSeq(j) /\ Len(j) = Len(s) + Len(t)
      /\ \A i \in 1 .. Len(s) : j[i] = s[i]
      /\ \A i \in 1 .. Len(t) : j[Len(s) + i] = t[i]
  BY Join
<1>2. \A i \in 1 .. Len(j) : i \in 1 .. Len(s) \/ \E k \in 1 .. Len(t) : i = Len(s) + k
  <2> TAKE i \in 1 .. Len(j)
  <2>1. CASE i <= Len(s)
    BY <1>0, <1>1, <2>1
  <2>2. CASE ~(i <= Len(s))
    <3>1. i - Len(s) \in 1 .. Len(t) /\ i = Len(s) + (i - Len(s))
      BY <1>0, <1>1, <2>2
    <3> QED BY <3>1
  <2> QED BY <2>1, <2>2
<1>3. (\A i \in 1 .. Len(s) : i \in 1 .. Len(j))
      /\ \A i \in 1 .. Len(t) : Len(s) + i \in 1 .. Len(j)
  BY <1>0, <1>1
<1> HIDE DEF j
<1>4. ASSUME NEW x \in Complete(j) PROVE x \in Complete(s) \cup Complete(t)
  <2>1. PICK i \in 1 .. Len(j) : Numbered(j, i) /\ j[i].tid = x
    BY <1>1, CompleteMember
  <2>2. CASE i \in 1 .. Len(s)
    <3>1. Numbered(s, i) /\ s[i].tid = x
      BY <1>1, <2>1, <2>2 DEF Numbered
    <3> QED BY <2>2, <3>1, CompleteMember
  <2>3. ASSUME NEW k \in 1 .. Len(t), i = Len(s) + k PROVE x \in Complete(t)
    <3>1. Numbered(t, k) /\ t[k].tid = x
      BY <1>1, <2>1, <2>3 DEF Numbered
    <3> QED BY <3>1, CompleteMember
  <2> QED BY <1>2, <2>2, <2>3
<1>5. ASSUME NEW x \in Complete(s) PROVE x \in Complete(j)
  <2>1. PICK i \in 1 .. Len(s) : Numbered(s, i) /\ s[i].tid = x
    BY CompleteMember
  <2>2. Numbered(j, i) /\ j[i].tid = x /\ i \in 1 .. Len(j)
    BY <1>1, <1>3, <2>1 DEF Numbered
  <2> QED BY <1>1, <2>2, CompleteMember
<1>6. ASSUME NEW x \in Complete(t) PROVE x \in Complete(j)
  <2>1. PICK i \in 1 .. Len(t) : Numbered(t, i) /\ t[i].tid = x
    BY CompleteMember
  <2>2. Numbered(j, Len(s) + i) /\ j[Len(s) + i].tid = x /\ Len(s) + i \in 1 .. Len(j)
    BY <1>1, <1>3, <2>1 DEF Numbered
  <2> QED BY <1>1, <2>2, CompleteMember
<1>7. Complete(j) = Complete(s) \cup Complete(t)
  BY <1>4, <1>5, <1>6
<1> QED BY <1>7 DEF j

(* Cutting off the front loses records and makes none. *)
LEMMA FromComplete ==
  ASSUME NEW s, IsSeq(s), NEW n \in 0 .. Len(s)
  PROVE  Complete(From(s, n)) \subseteq Complete(s)
<1> DEFINE a == SubSeq(s, 1, n)
           b == From(s, n)
<1>1. IsSeq(a) /\ IsSeq(b) /\ s = a \o b
  BY CutFacts, FromFacts, CutJoin
<1> HIDE DEF a, b
<1>2. Complete(a \o b) = Complete(a) \cup Complete(b)
  BY <1>1, CompleteJoin
<1> QED BY <1>1, <1>2 DEF b

Before(S, T) == \A a \in S, b \in T : a < b

(* Tids rise over a concatenation when they rise in both parts and from    *)
(* one to the other.                                                       *)
LEMMA RisingJoin ==
  ASSUME NEW s, NEW t, IsSeq(s), IsSeq(t)
  PROVE  Rising(s \o t) <=> Rising(s) /\ Rising(t) /\ Before(Complete(s), Complete(t))
<1> DEFINE j == s \o t
<1>0. Len(s) \in Nat /\ Len(t) \in Nat /\ DOMAIN s = 1 .. Len(s) /\ DOMAIN t = 1 .. Len(t)
  BY SeqFacts
<1>1. /\ IsSeq(j) /\ Len(j) = Len(s) + Len(t)
      /\ \A i \in 1 .. Len(s) : j[i] = s[i]
      /\ \A i \in 1 .. Len(t) : j[Len(s) + i] = t[i]
  BY Join
<1> HIDE DEF j
<1>2. DOMAIN j = 1 .. Len(s) + Len(t)
  BY <1>1, SeqFacts
<1>3. ASSUME Rising(j) PROVE Rising(s) /\ Rising(t) /\ Before(Complete(s), Complete(t))
  <2>1. Rising(s)
    BY <1>0, <1>1, <1>2, <1>3 DEF Rising, Numbered
  <2>2. ASSUME NEW i \in 1 .. Len(t), NEW k \in 1 .. Len(t), i < k,
               Numbered(t, i), Numbered(t, k)
        PROVE  t[i].tid < t[k].tid
    <3>1. Len(s) + i \in DOMAIN j /\ Len(s) + k \in DOMAIN j /\ Len(s) + i < Len(s) + k
      BY <1>0, <1>2, <2>2
    <3>2. Numbered(j, Len(s) + i) /\ Numbered(j, Len(s) + k)
      BY <1>1, <2>2 DEF Numbered
    <3>3. j[Len(s) + i].tid < j[Len(s) + k].tid
      BY <1>3, <3>1, <3>2 DEF Rising
    <3> QED BY <1>1, <3>3
  <2>3. ASSUME NEW a \in Complete(s), NEW b \in Complete(t) PROVE a < b
    <3>1. PICK i \in 1 .. Len(s) : Numbered(s, i) /\ s[i].tid = a
      BY CompleteMember
    <3>2. PICK k \in 1 .. Len(t) : Numbered(t, k) /\ t[k].tid = b
      BY CompleteMember
    <3>3. i \in DOMAIN j /\ Len(s) + k \in DOMAIN j /\ i < Len(s) + k
      BY <1>0, <1>2
    <3>4. Numbered(j, i) /\ Numbered(j, Len(s) + k)
      BY <1>1, <3>1, <3>2 DEF Numbered
    <3>5. j[i].tid < j[Len(s) + k].tid
      BY <1>3, <3>3, <3>4 DEF Rising
    <3> QED BY <1>1, <3>1, <3>2, <3>5
  <2>4. Rising(t)
    BY <1>0, <2>2 DEF Rising
  <2> QED BY <2>1, <2>3, <2>4 DEF Before
<1>4. ASSUME Rising(s), Rising(t), Before(Complete(s), Complete(t)) PROVE Rising(j)
  <2> SUFFICES ASSUME NEW i \in DOMAIN j, NEW k \in DOMAIN j, i < k,
                      Numbered(j, i), Numbered(j, k)
               PROVE  j[i].tid < j[k].tid
    BY DEF Rising
  <2>1. i \in Nat /\ k \in Nat /\ 1 <= i /\ k <= Len(s) + Len(t)
    BY <1>0, <1>2
  <2>2. CASE k <= Len(s)
    <3>1. i \in 1 .. Len(s) /\ k \in 1 .. Len(s)
      BY <1>0, <2>1, <2>2
    <3>2. Numbered(s, i) /\ Numbered(s, k)
      BY <1>1, <3>1 DEF Numbered
    <3> QED BY <1>0, <1>1, <1>4, <3>1, <3>2 DEF Rising
  <2>3. CASE i <= Len(s) /\ k > Len(s)
    <3> DEFINE l == k - Len(s)
    <3>1. i \in 1 .. Len(s) /\ l \in 1 .. Len(t) /\ k = Len(s) + l
      BY <1>0, <2>1, <2>3
    <3> HIDE DEF l
    <3>2. Numbered(s, i) /\ Numbered(t, l)
      BY <1>1, <3>1 DEF Numbered
    <3>3. s[i].tid \in Complete(s) /\ t[l].tid \in Complete(t)
      BY <3>1, <3>2, CompleteMember
    <3> QED BY <1>1, <1>4, <3>1, <3>3 DEF Before
  <2>4. CASE i > Len(s)
    <3> DEFINE h == i - Len(s)
               l == k - Len(s)
    <3>1. /\ h \in 1 .. Len(t) /\ l \in 1 .. Len(t) /\ h < l
          /\ i = Len(s) + h /\ k = Len(s) + l
      BY <1>0, <2>1, <2>4
    <3> HIDE DEF h, l
    <3>2. Numbered(t, h) /\ Numbered(t, l)
      BY <1>1, <3>1 DEF Numbered
    <3>3. t[h].tid < t[l].tid
      BY <1>0, <1>4, <3>1, <3>2 DEF Rising
    <3> QED BY <1>1, <3>1, <3>3
  <2> QED BY <1>0, <2>1, <2>2, <2>3, <2>4
<1> QED BY <1>3, <1>4 DEF j

(* Nothing is in the empty journal. *)
LEMMA Empty == /\ IsSeq(<< >>) /\ Len(<< >>) = 0 /\ Complete(<< >>) = {} /\ Tids(<< >>) = {}
               /\ Rising(<< >>)
<1>1. IsSeq(<< >>) /\ Len(<< >>) = 0 /\ DOMAIN << >> = {}
  BY DEF IsSeq
<1> QED BY <1>1 DEF Complete, Tids, Rising

(* Appending nothing changes nothing. *)
LEMMA EmptyJoin ==
  ASSUME NEW s, IsSeq(s) PROVE s \o << >> = s /\ << >> \o s = s
<1>1. s \in Seq({s[i] : i \in DOMAIN s})
  BY DEF IsSeq
<1> QED BY <1>1, ConcatEmptySeq

(* One element. *)
LEMMA Single ==
  ASSUME NEW o
  PROVE  /\ IsSeq(<< o >>) /\ Len(<< o >>) = 1 /\ << o >>[1] = o
         /\ Tids(<< o >>) = {o.tid} /\ Rising(<< o >>)
         /\ o = Torn => Complete(<< o >>) = {}
<1>1. << o >> \in Seq({o}) /\ Len(<< o >>) = 1 /\ DOMAIN << o >> = {1} /\ << o >>[1] = o
  OBVIOUS
<1>2. IsSeq(<< o >>)
  BY <1>1, TypedSeq
<1>3. Tids(<< o >>) = {o.tid}
  BY <1>1 DEF Tids
<1>4. Rising(<< o >>)
  BY <1>1 DEF Rising
<1>5. o = Torn => Complete(<< o >>) = {}
  BY <1>1 DEF Complete
<1> QED BY <1>1, <1>2, <1>3, <1>4, <1>5

(* Appending one record is a concatenation. *)
LEMMA AppendJoin ==
  ASSUME NEW s, IsSeq(s), NEW o PROVE Append(s, o) = s \o << o >>
<1> DEFINE U == {s[i] : i \in DOMAIN s} \cup {o}
<1>1. /\ Len(s) \in Nat /\ DOMAIN s = 1 .. Len(s) /\ s = [i \in 1 .. Len(s) |-> s[i]]
  BY SeqFacts
<1>2. s \in [1 .. Len(s) -> U]
  BY <1>1
<1>3. o \in U
  OBVIOUS
<1> HIDE DEF U
<1>4. s \in Seq(U)
  BY <1>1, <1>2, FunctionIsSeq
<1> QED BY <1>3, <1>4, AppendIsConcat

(* An operation is neither the missing nor the torn one. *)
LEMMA OpFacts ==
  ASSUME NEW o \in Op PROVE o # NoOp /\ o # Torn /\ o.tid \in 1 .. MaxOps
<1>1. PICK r \in Request, t \in 1 .. MaxOps : o = [r EXCEPT !.tid = t]
  BY DEF Op
<1>2. "tid" \in DOMAIN r /\ [r EXCEPT !.tid = t] \notin {NoOp, Torn}
  BY RequestAssumption
<1>3. o.tid = t
  BY <1>1, <1>2
<1> QED BY <1>1, <1>2, <1>3

(* All records of a buffer are complete. *)
LEMMA OpSeq ==
  ASSUME NEW s \in Seq(Op)
  PROVE  /\ IsSeq(s) /\ Complete(s) = Tids(s)
         /\ \A i \in 1 .. Len(s) : Numbered(s, i) /\ s[i].tid \in Nat
         /\ \A i \in DOMAIN s : s[i] \in Op
<1>1. IsSeq(s) /\ \A i \in 1 .. Len(s) : s[i] \in Op
  BY TypedSeq
<1>2. DOMAIN s = 1 .. Len(s)
  BY <1>1, SeqFacts
<1>3. \A i \in 1 .. Len(s) : s[i] # Torn /\ s[i].tid \in Nat /\ s[i].tid # 0
  BY <1>1, OpFacts
<1>4. Complete(s) = Tids(s)
  BY <1>2, <1>3 DEF Complete, Tids
<1> QED BY <1>1, <1>2, <1>3, <1>4 DEF Numbered

(* The tids of a concatenation of buffers. *)
LEMMA TidsJoin ==
  ASSUME NEW s \in Seq(Op), NEW t \in Seq(Op)
  PROVE  s \o t \in Seq(Op) /\ Tids(s \o t) = Tids(s) \cup Tids(t)
<1>1. s \o t \in Seq(Op)
  OBVIOUS
<1>2. Complete(s \o t) = Complete(s) \cup Complete(t)
  BY OpSeq, CompleteJoin
<1> QED BY <1>1, <1>2, OpSeq

(* replay_log reads up to the first record that is torn or refused. *)
LEMMA ReadableFacts ==
  ASSUME NEW j, IsSeq(j)
  PROVE  \E n \in 0 .. Len(j) : /\ Readable(j) = SubSeq(j, 1, n)
                                /\ \A i \in 1 .. n : j[i] # Torn
                                /\ \/ n = Len(j)
                                   \/ j[n + 1] = Torn \/ Refused(j[n + 1])
<1> DEFINE bad == {i \in DOMAIN j : j[i] = Torn \/ Refused(j[i])}
<1>1. Len(j) \in Nat /\ DOMAIN j = 1 .. Len(j)
  BY SeqFacts
<1>2. CASE bad = {}
  <2>1. Readable(j) = j
    BY <1>2 DEF Readable
  <2>2. SubSeq(j, 1, Len(j)) = j
    <3>1. Len(j) \in 0 .. Len(j)
      BY <1>1
    <3>2. /\ IsSeq(SubSeq(j, 1, Len(j))) /\ Len(SubSeq(j, 1, Len(j))) = Len(j)
          /\ \A i \in 1 .. Len(j) : SubSeq(j, 1, Len(j))[i] = j[i]
      BY <3>1, CutFacts
    <3> QED BY <3>2, SameSeq
  <2>3. \A i \in 1 .. Len(j) : j[i] # Torn
    BY <1>1, <1>2
  <2>4. Len(j) \in 0 .. Len(j)
    BY <1>1
  <2> QED BY <2>1, <2>2, <2>3, <2>4
<1>3. CASE bad # {}
  <2>0. bad \in SUBSET Nat
    BY <1>1
  <2>1. Min(bad) \in bad /\ \A i \in bad : Min(bad) <= i
    BY <1>3, <2>0, MinNat
  <2> DEFINE m == Min(bad)
             n == m - 1
  <2>2. Readable(j) = SubSeq(j, 1, n)
    BY <1>3 DEF Readable
  <2>3. m \in 1 .. Len(j) /\ (j[m] = Torn \/ Refused(j[m]))
    BY <1>1, <2>1
  <2>4. ASSUME NEW i \in 1 .. Len(j), j[i] = Torn \/ Refused(j[i]) PROVE m <= i
    BY <1>1, <2>1, <2>4
  <2> HIDE DEF m
  <2>5. n \in 0 .. Len(j) /\ n + 1 = m
    BY <1>1, <2>3
  <2>6. \A i \in 1 .. n : i \in 1 .. Len(j) /\ ~(m <= i)
    BY <1>1, <2>3
  <2>7. \A i \in 1 .. n : j[i] # Torn
    BY <2>4, <2>6
  <2> QED BY <2>2, <2>3, <2>5, <2>7
<1> QED BY <1>2, <1>3

(* The concatenations of the first sequences. *)
LEMMA FlattenSteps ==
  ASSUME NEW T, NEW seqs \in Seq(Seq(T))
  PROVE  \E f : /\ f[0] = << >> /\ \A i \in 1 .. Len(seqs) : f[i] = f[i - 1] \o seqs[i]
                /\ \A i \in 0 .. Len(seqs) : f[i] \in Seq(T)
                /\ FlattenSeq(seqs) = f[Len(seqs)]
<1> DEFINE n == Len(seqs)
           none == << >>
<1>1. n \in Nat /\ \A i \in 1 .. n : seqs[i] \in Seq(T)
  OBVIOUS
<1>0. none \in Seq(T)
  BY EmptySeq
<1> HIDE DEF n
<1> DEFINE Step(m, f) == [i \in 1 .. m |-> IF i = 1 THEN seqs[i] ELSE f[i - 1] \o seqs[i]]
           Bad == {m \in 0 .. n : ~ \E f : f = Step(m, f)}
<1>2. ASSUME Bad # {} PROVE FALSE
  <2>0. 0 .. n \subseteq Nat
    BY <1>1
  <2>1. Bad \in SUBSET Nat
    BY <2>0, Zenon
  <2>2. PICK m \in Bad : \A k \in Bad : m <= k
    BY <1>2, <2>1, LeastNat
  <2>3. CASE m = 0
    <3> DEFINE f == [i \in 1 .. 0 |-> none]
    <3>1. f = Step(0, f)
      OBVIOUS
    <3> QED BY <2>2, <2>3, <3>1
  <2>4. CASE m # 0
    <3>1. m \in 1 .. n /\ m - 1 \in 0 .. n /\ ~(m <= m - 1)
      BY <1>1, <2>4
    <3>2. PICK f : f = Step(m - 1, f)
      BY <2>2, <3>1
    <3> DEFINE h == [i \in 1 .. m |-> IF i < m THEN f[i]
                                      ELSE IF m = 1 THEN seqs[1] ELSE f[m - 1] \o seqs[m]]
    <3>3. ASSUME NEW i \in 1 .. m PROVE h[i] = IF i = 1 THEN seqs[i] ELSE h[i - 1] \o seqs[i]
      <4>1. CASE i < m
        <5>1. i \in 1 .. m - 1 /\ h[i] = f[i]
          BY <1>1, <3>1, <4>1
        <5>2. f[i] = IF i = 1 THEN seqs[i] ELSE f[i - 1] \o seqs[i]
          BY <3>2, <5>1
        <5>3. i # 1 => h[i - 1] = f[i - 1]
          BY <1>1, <3>1, <4>1, SMTT(60)
        <5> QED BY <5>1, <5>2, <5>3
      <4>2. CASE i = m
        <5>1. h[m] = IF m = 1 THEN seqs[1] ELSE f[m - 1] \o seqs[m]
          BY <1>1, <3>1
        <5>2. m # 1 => h[m - 1] = f[m - 1]
          BY <1>1, <3>1
        <5> QED BY <4>2, <5>1, <5>2
      <4> QED BY <1>1, <3>1, <4>1, <4>2
    <3>4. h = [i \in 1 .. m |-> h[i]]
      OBVIOUS
    <3> HIDE DEF h
    <3>5. h = Step(m, h)
      BY <3>3, <3>4
    <3> QED BY <2>2, <3>5
  <2> QED BY <2>3, <2>4
<1>3. n \in 0 .. n
  BY <1>1
<1>4. \E f : f = Step(n, f)
  BY <1>2, <1>3
<1> DEFINE g == CHOOSE f : f = Step(n, f)
<1>5. g = Step(n, g)
  BY <1>4
<1>6. n # 0 => FlattenSeq(seqs) = g[n]
  BY DEF FlattenSeq, n
<1> HIDE DEF g
<1> DEFINE f == [i \in 0 .. n |-> IF i = 0 THEN none ELSE g[i]]
<1>7. /\ f[0] = none /\ \A i \in 0 .. n : i # 0 => f[i] = g[i]
  BY <1>1
<1> HIDE DEF f
<1>8. ASSUME NEW i \in 1 .. n PROVE f[i] = f[i - 1] \o seqs[i]
  <2>1. i - 1 \in 0 .. n /\ i \in 0 .. n /\ i # 0
    BY <1>1
  <2>2. g[i] = IF i = 1 THEN seqs[i] ELSE g[i - 1] \o seqs[i]
    BY <1>5
  <2>3. CASE i = 1
    <3>1. seqs[1] \in Seq(T) /\ f[1] = seqs[1] /\ f[1 - 1] = none
      BY <1>1, <1>7, <2>1, <2>2, <2>3
    <3>2. none \o seqs[1] = seqs[1]
      BY <3>1, ConcatEmptySeq DEF none
    <3> QED BY <2>3, <3>1, <3>2
  <2>4. CASE i # 1
    <3>1. i - 1 # 0
      BY <1>1, <2>4
    <3>2. f[i] = g[i] /\ f[i - 1] = g[i - 1]
      BY <1>7, <2>1, <3>1
    <3> QED BY <2>2, <2>4, <3>2
  <2> QED BY <2>3, <2>4
<1>9. \A i \in 0 .. n : f[i] \in Seq(T)
  <2> DEFINE Worse == {i \in 0 .. n : f[i] \notin Seq(T)}
  <2>1. SUFFICES ASSUME Worse # {} PROVE FALSE
    OBVIOUS
  <2>2. Worse \in SUBSET Nat
    BY <1>1
  <2>3. PICK m \in Worse : \A i \in Worse : m <= i
    BY <2>1, <2>2, LeastNat
  <2>4. m # 0
    BY <1>0, <1>7, <2>3
  <2>5. m \in 1 .. n /\ m - 1 \in 0 .. n /\ ~(m <= m - 1)
    BY <1>1, <2>4
  <2>6. f[m - 1] \in Seq(T) /\ seqs[m] \in Seq(T)
    BY <1>1, <2>3, <2>5
  <2>7. f[m] = f[m - 1] \o seqs[m]
    BY <1>8, <2>5
  <2>8. f[m - 1] \o seqs[m] \in Seq(T)
    BY <2>6
  <2>9. f[m] \notin Seq(T)
    BY <2>3
  <2> QED BY <2>7, <2>8, <2>9
<1>10. FlattenSeq(seqs) = f[n]
  <2>1. CASE n = 0
    <3>1. seqs = none
      BY <2>1 DEF n
    <3>2. FlattenSeq(seqs) = seqs
      BY <2>1 DEF FlattenSeq, n
    <3> QED BY <1>7, <2>1, <3>1, <3>2
  <2>2. CASE n # 0
    BY <1>3, <1>6, <1>7, <2>2
  <2> QED BY <2>1, <2>2
<1> QED BY <1>7, <1>8, <1>9, <1>10 DEF none, n

(* A concatenation of sequences keeps the type of their elements. *)
LEMMA FlattenTyped ==
  ASSUME NEW T, NEW seqs \in Seq(Seq(T)) PROVE FlattenSeq(seqs) \in Seq(T)
<1>1. Len(seqs) \in Nat /\ Len(seqs) \in 0 .. Len(seqs)
  OBVIOUS
<1>2. PICK f : /\ \A i \in 0 .. Len(seqs) : f[i] \in Seq(T)
               /\ FlattenSeq(seqs) = f[Len(seqs)]
  BY FlattenSteps
<1> QED BY <1>1, <1>2

(* SetToSeq lists every element of a finite set once. *)
LEMMA Enumeration ==
  ASSUME NEW S, IsFiniteSet(S)
  PROVE  /\ SetToSeq(S) \in Seq(S) /\ IsInjective(SetToSeq(S))
         /\ \A x \in S : \E i \in 1 .. Len(SetToSeq(S)) : SetToSeq(S)[i] = x
<1> DEFINE n == Cardinality(S)
           s == SetToSeq(S)
<1>1. n \in Nat /\ ExistsBijection(1 .. n, S)
  BY FS_CardinalityType
<1>2. PICK f : f \in Bijection(1 .. n, S)
  BY <1>1 DEF ExistsBijection
<1>3. f \in [1 .. n -> S] /\ IsInjective(f)
  BY <1>2 DEF Bijection, Injection, IsInjective
<1>4. s \in [1 .. n -> S] /\ IsInjective(s)
  BY <1>3 DEF SetToSeq
<1> HIDE DEF s
<1>5. s \in Injection(1 .. n, S)
  BY <1>4 DEF Injection, IsInjective
<1>6. Cardinality(1 .. n) = n
  <2>1. 1 \in Int /\ n \in Int
    BY <1>1
  <2>2. Cardinality(1 .. n) = IF 1 > n THEN 0 ELSE n - 1 + 1
    BY <2>1, FS_Interval
  <2> QED BY <1>1, <2>2
<1>7. s \in Surjection(1 .. n, S)
  BY <1>5, <1>6, FS_Injection
<1>8. \A x \in S : \E i \in 1 .. n : s[i] = x
  BY <1>7 DEF Surjection
<1>9. s \in Seq(S) /\ Len(s) = n
  BY <1>1, <1>4, FunctionIsSeq
<1> QED BY <1>4, <1>8, <1>9 DEF s

(* The records of a dump have no tid. *)
LEMMA DumpHasNoTids == ASSUME NEW d PROVE IsSeq(Dump(d)) /\ Complete(Dump(d)) = {}
<1> DEFINE T == {[tid |-> 0, type |-> "layers_create", layer |-> l] : l \in Layer}
                  \cup {DumpRecord(l, k, d[l][k]) : l \in Layer, k \in Key}
<1>1. \A o \in T : o.tid = 0
  BY DEF DumpRecord
<1>2. ASSUME NEW l \in Layer PROVE DumpLayer(d, l) \in Seq(T)
  <2> DEFINE K == {k \in Key : d[l][k] # Absent}
             keys == SetToSeq(K)
             head == [tid |-> 0, type |-> "layers_create", layer |-> l]
             rest == [i \in DOMAIN keys |-> DumpRecord(l, keys[i], d[l][keys[i]])]
  <2>1. IsFiniteSet(K)
    BY StoreAssumption, FS_Subset
  <2>2. keys \in Seq(K)
    BY <2>1, Enumeration
  <2> HIDE DEF keys
  <2>3. Len(keys) \in Nat /\ DOMAIN keys = 1 .. Len(keys)
        /\ \A i \in 1 .. Len(keys) : keys[i] \in Key
    BY <2>2
  <2>4. \A i \in 1 .. Len(keys) : DumpRecord(l, keys[i], d[l][keys[i]]) \in T
    BY <2>3
  <2>5. head \in T
    OBVIOUS
  <2>6. DumpLayer(d, l) = << head >> \o rest
    BY DEF DumpLayer, keys
  <2> HIDE DEF T, head
  <2>7. rest \in [1 .. Len(keys) -> T]
    BY <2>3, <2>4
  <2>8. rest \in Seq(T)
    BY <2>3, <2>7, FunctionIsSeq
  <2> HIDE DEF rest
  <2> QED BY <2>5, <2>6, <2>8
<1> HIDE DEF T
<1> DEFINE L == {l \in Layer : d[l] # Absent}
           layers == SetToSeq(L)
           seqs == [i \in DOMAIN layers |-> DumpLayer(d, layers[i])]
<1>3. IsFiniteSet(L)
  BY StoreAssumption, FS_Subset
<1>4. layers \in Seq(L)
  BY <1>3, Enumeration
<1> HIDE DEF layers
<1>5. Len(layers) \in Nat /\ DOMAIN layers = 1 .. Len(layers)
      /\ \A i \in 1 .. Len(layers) : layers[i] \in Layer
  BY <1>4
<1>6. seqs \in [1 .. Len(layers) -> Seq(T)]
  BY <1>2, <1>5
<1>7. seqs \in Seq(Seq(T))
  BY <1>5, <1>6, FunctionIsSeq
<1>8. Dump(d) = FlattenSeq(seqs)
  BY DEF Dump, layers
<1> HIDE DEF seqs
<1>9. Dump(d) \in Seq(T)
  BY <1>7, <1>8, FlattenTyped
<1>10. IsSeq(Dump(d)) /\ \A i \in 1 .. Len(Dump(d)) : Dump(d)[i] \in T
  BY <1>9, TypedSeq
<1>11. DOMAIN Dump(d) = 1 .. Len(Dump(d))
  BY <1>10, SeqFacts
<1> QED BY <1>1, <1>10, <1>11 DEF Complete
-----------------------------------------------------------------------------
(* What the actions do to the journal and to the operations at hand *)

(* What is left of a buffer with a record that is being logged. *)
LEMMA RestTyped ==
  ASSUME NEW b \in Seq(Op), NEW p \in Op \cup {NoOp}
  PROVE  /\ Rest(b, p) \in Seq(Op)
         /\ p = NoOp => Rest(b, p) = b
         /\ p # NoOp => Rest(b, p) = Append(b, p)
<1>1. CASE p = NoOp
  <2>1. IsSeq(b)
    BY TypedSeq
  <2>2. Rest(b, p) = b \o << >>
    BY <1>1 DEF Rest
  <2> QED BY <1>1, <2>1, <2>2, EmptyJoin
<1>2. CASE p # NoOp
  <2>1. Rest(b, p) = b \o << p >>
    BY <1>2 DEF Rest
  <2>2. Append(b, p) = b \o << p >> /\ Append(b, p) \in Seq(Op)
    BY <1>2, TypedSeq, AppendJoin
  <2> QED BY <1>2, <2>1, <2>2
<1> QED BY <1>1, <1>2

(* The first records that are not written yet go to the file. *)
Moves ==
    \E w \in Seq(Op) :
       /\ Unwritten = w \o Unwritten' /\ file' = file \o w
       /\ offset' = Len(file') \/ (w = << >> /\ offset' = offset)

(* A flush moves records from the buffer to the file, all of them if it    *)
(* has to and writes succeed.                                              *)
LEMMA FlushMoves ==
  ASSUME TypeInv, NEW buffer \in Seq(Op), Unwritten = buffer, pending' = NoOp,
         NEW sync \in BOOLEAN, FlushDbLog(sync, buffer)
  PROVE  /\ Moves /\ log_buffer' \in Seq(Op)
         /\ sync /\ ~WriteMayFail => log_buffer' = << >>
<1>1. IsSeq(buffer) /\ Len(buffer) \in Nat /\ IsSeq(file)
  BY TypedSeq, SeqFacts DEF TypeInv
<1>2. PICK n \in 0 .. Len(buffer) : /\ Write(buffer, n)
                                    /\ sync /\ ~WriteMayFail => n = Len(buffer)
  <2>1. 0 \in 0 .. Len(buffer) /\ Len(buffer) \in 0 .. Len(buffer)
        /\ 0 .. Len(buffer) - 1 \subseteq 0 .. Len(buffer)
    BY <1>1
  <2> QED BY <2>1 DEF FlushDbLog
<1> DEFINE w == SubSeq(buffer, 1, n)
           v == From(buffer, n)
<1>3. /\ file' = file \o w /\ log_buffer' = v
      /\ offset' = IF n = 0 THEN offset ELSE Len(file')
  BY <1>2 DEF Write, From
<1>4. w \o v = buffer
  BY <1>1, CutJoin
<1>5. w \in Seq(Op) /\ v \in Seq(Op)
  <2>1. \A i \in 1 .. Len(buffer) : buffer[i] \in Op
    BY TypedSeq
  <2>2. \A i \in 1 .. n : buffer[i] \in Op
    BY <1>1, <2>1
  <2>3. \A i \in n + 1 .. Len(buffer) : buffer[i] \in Op
    BY <1>1, <2>1
  <2>4. w \in Seq(Op)
    BY <1>1, <2>2, SubSeqProperties
  <2>5. v \in Seq(Op)
    BY <1>1, <2>3, SubSeqProperties DEF From
  <2> QED BY <2>4, <2>5
<1>6. n = 0 => w = << >>
  <2>1. IsSeq(w) /\ Len(w) = n
    BY <1>1, CutFacts
  <2> HIDE DEF w
  <2> QED BY <2>1, Empty, SameSeq, SeqFacts
<1>7. Unwritten' = v
  BY <1>3, <1>5, RestTyped DEF Unwritten
<1>8. n = Len(buffer) => v = << >>
  BY <1>1, NoneBehind
<1> HIDE DEF w, v
<1>9. Moves
  BY <1>3, <1>4, <1>5, <1>6, <1>7 DEF Moves
<1> QED BY <1>2, <1>3, <1>5, <1>8, <1>9

(* Changing neither file nor buffer moves nothing. *)
LEMMA NothingMoves ==
  ASSUME TypeInv, UNCHANGED <<file, offset>>, Unwritten' = Unwritten
  PROVE  Moves
<1>1. << >> \in Seq(Op) /\ Unwritten \in Seq(Op) /\ IsSeq(file)
  BY RestTyped, EmptySeq DEF TypeInv, Unwritten
<1>2. << >> \o Unwritten' = Unwritten /\ file' = file \o << >>
  BY <1>1, TypedSeq, EmptyJoin
<1> QED BY <1>1, <1>2 DEF Moves

(* The effect of the actions that write. *)
LEMMA AddMoves ==
  ASSUME TypeInv, AddToDbLog
  PROVE  /\ pending # NoOp /\ pending' = NoOp /\ log_buffer' \in Seq(Op)
         /\ Logged(pending) => Moves /\ lost' = lost
         /\ ~Logged(pending) => /\ UNCHANGED <<file, offset, log_buffer>>
                                /\ lost' = lost \cup {pending.tid}
         /\ Logged(pending) /\ FsyncPeriod = 0 /\ ~WriteMayFail => log_buffer' = << >>
<1> DEFINE buffer == Append(log_buffer, pending)
<1>0. pending # NoOp /\ pending \in Op /\ log_buffer \in Seq(Op) /\ pending' = NoOp
  BY DEF AddToDbLog, TypeInv
<1>1. Unwritten = buffer /\ buffer \in Seq(Op)
  BY <1>0, RestTyped DEF Unwritten
<1>2. CASE ~Logged(pending)
  BY <1>0, <1>2 DEF AddToDbLog, fileVars
<1>3. CASE Logged(pending) /\ FsyncPeriod = 0
  <2>1. FlushDbLog(TRUE, buffer) /\ lost' = lost
    BY <1>3 DEF AddToDbLog
  <2> HIDE DEF buffer
  <2>2. Moves /\ log_buffer' \in Seq(Op) /\ (~WriteMayFail => log_buffer' = << >>)
    BY <1>0, <1>1, <2>1, FlushMoves
  <2> QED BY <1>0, <1>3, <2>1, <2>2
<1>4. CASE Logged(pending) /\ FsyncPeriod # 0 /\ Len(buffer) > JournalBufferSize
  <2>1. FlushDbLog(FALSE, buffer) /\ lost' = lost
    BY <1>4 DEF AddToDbLog
  <2> HIDE DEF buffer
  <2>2. Moves /\ log_buffer' \in Seq(Op)
    BY <1>0, <1>1, <2>1, FlushMoves
  <2> QED BY <1>0, <1>4, <2>1, <2>2
<1>5. CASE Logged(pending) /\ FsyncPeriod # 0 /\ ~(Len(buffer) > JournalBufferSize)
  <2>1. log_buffer' = buffer /\ UNCHANGED <<file, offset>> /\ lost' = lost
    BY <1>5 DEF AddToDbLog, fileVars
  <2>2. Unwritten' = Unwritten
    BY <1>0, <1>1, <2>1, RestTyped DEF Unwritten
  <2>3. Moves
    BY <2>1, <2>2, NothingMoves
  <2> QED BY <1>0, <1>1, <1>5, <2>1, <2>3
<1> QED BY <1>2, <1>3, <1>4, <1>5

(* The flush timer and a fork move records and log none. *)
LEMMA LoopMoves ==
  ASSUME TypeInv, FlushLogDb \/ Fork \/ ForkFailed
  PROVE  /\ pending = NoOp /\ pending' = NoOp /\ log_buffer' \in Seq(Op) /\ Moves
         /\ ~WriteMayFail => log_buffer' = << >>
<1>1. /\ pending = NoOp /\ pending' = NoOp /\ log_buffer \in Seq(Op)
      /\ FlushDbLog(TRUE, log_buffer)
  BY DEF FlushLogDb, Fork, ForkFailed, TypeInv
<1>2. Unwritten = log_buffer
  BY <1>1, RestTyped DEF Unwritten
<1> QED BY <1>1, <1>2, FlushMoves

(* The journal and what is not written of it are sequences of operations. *)
LEMMA UnwrittenTyped ==
  ASSUME TypeInv
  PROVE  Unwritten \in Seq(Op) /\ IsSeq(Unwritten) /\ IsSeq(file) /\ IsSeq(Log)
         /\ Complete(Log) = Complete(file) \cup Tids(Unwritten)
         /\ Complete(Unwritten) = Tids(Unwritten) /\ Len(file) <= Len(Log)
         /\ Len(file) \in Nat /\ Len(Log) \in Nat
<1>1. Unwritten \in Seq(Op) /\ IsSeq(file)
  BY RestTyped DEF TypeInv, Unwritten
<1>2. IsSeq(Unwritten) /\ Complete(Unwritten) = Tids(Unwritten)
  BY <1>1, OpSeq
<1>3. /\ IsSeq(Log) /\ Complete(Log) = Complete(file) \cup Tids(Unwritten)
      /\ Len(Log) = Len(file) + Len(Unwritten)
  BY <1>1, <1>2, Join, CompleteJoin DEF Log
<1>4. Len(file) \in Nat /\ Len(Unwritten) \in Nat
  BY <1>1, <1>2, SeqFacts
<1> QED BY <1>1, <1>2, <1>3, <1>4

(* Moving records keeps the journal as a whole. *)
LEMMA MovesKeep ==
  ASSUME TypeInv, Moves, log_buffer' \in Seq(Op), pending' \in Op \cup {NoOp}
  PROVE  /\ Log' = Log /\ IsSeq(file') /\ offset' \in 0 .. Len(file')
         /\ Len(file) <= Len(file') /\ Len(file') \in Nat
         /\ Complete(From(file', offset')) \subseteq Complete(From(file, offset))
         /\ Tids(Unwritten') \subseteq Tids(Unwritten)
         /\ Complete(file) \subseteq Complete(file')
         /\ Unwritten' = << >> => Complete(file') = Complete(Log)
<1>1. PICK w \in Seq(Op) :
         /\ Unwritten = w \o Unwritten' /\ file' = file \o w
         /\ offset' = Len(file') \/ (w = << >> /\ offset' = offset)
  BY DEF Moves
<1>2. /\ IsSeq(file) /\ IsSeq(w) /\ Unwritten' \in Seq(Op) /\ IsSeq(Unwritten')
      /\ offset \in 0 .. Len(file) /\ Len(file) \in Nat /\ Len(w) \in Nat
  <2>1. Unwritten' \in Seq(Op)
    BY RestTyped DEF Unwritten
  <2> QED BY <2>1, TypedSeq, SeqFacts DEF TypeInv
<1>3. Log' = Log
  <2> DEFINE u == Unwritten'
  <2>1. Log' = (file \o w) \o u /\ Log = file \o (w \o u) /\ IsSeq(u)
    BY <1>1, <1>2 DEF Log
  <2> HIDE DEF u
  <2>2. IsSeq(file) /\ IsSeq(w) /\ IsSeq(u)
    BY <1>2, <2>1
  <2>3. (file \o w) \o u = file \o (w \o u)
    BY <2>2, JoinAssoc
  <2> QED BY <2>1, <2>3
<1>4. /\ IsSeq(file') /\ Len(file') = Len(file) + Len(w)
      /\ Complete(file') = Complete(file) \cup Complete(w)
  BY <1>1, <1>2, Join, CompleteJoin
<1>5. offset' \in 0 .. Len(file') /\ Len(file) <= Len(file') /\ Len(file') \in Nat
  BY <1>1, <1>2, <1>4
<1>6. Complete(From(file', offset')) \subseteq Complete(From(file, offset))
  <2>1. CASE offset' = Len(file')
    BY <1>4, <2>1, NoneBehind, Empty
  <2>2. CASE w = << >> /\ offset' = offset
    BY <1>1, <1>2, <2>2, EmptyJoin
  <2> QED BY <1>1, <2>1, <2>2
<1>7. Tids(Unwritten') \subseteq Tids(Unwritten)
  BY <1>1, <1>2, TidsJoin
<1>8. ASSUME Unwritten' = << >> PROVE Complete(file') = Complete(Log)
  <2>1. Log' = file'
    BY <1>4, <1>8, EmptyJoin DEF Log
  <2> QED BY <1>3, <2>1
<1> QED BY <1>3, <1>4, <1>5, <1>6, <1>7, <1>8

(* A new operation is queued and at hand. *)
LEMMA DispatchEffect ==
  ASSUME TypeInv, NEW r \in Request, Dispatch(r), Len(cqueue) < Capacity,
         NEW o, o = [r EXCEPT !.tid = op_tid + 1]
  PROVE  /\ o \in Op /\ o.tid = op_tid + 1 /\ op_tid' = op_tid + 1 /\ op_tid' \in 0 .. MaxOps
         /\ pending' = o /\ pending = NoOp /\ cqueue' = Append(cqueue, o)
         /\ cqueue' \in Seq(Op) /\ Len(cqueue') = Len(cqueue) + 1
         /\ Tids(cqueue') = Tids(cqueue) \cup {op_tid + 1}
         /\ Unwritten' = Unwritten \o << o >> /\ Log' = Log \o << o >>
         /\ Complete(<< o >>) = {op_tid + 1} /\ Tids(Unwritten') = Tids(Unwritten) \cup {op_tid + 1}
         /\ Accepted' = Accepted \cup {op_tid + 1}
<1>1. /\ pending' = o /\ cqueue' = Append(cqueue, o) /\ op_tid' = op_tid + 1
      /\ main = "loop" /\ op_tid < MaxOps
      /\ UNCHANGED <<log_buffer, file, op, applied>>
  BY DEF Dispatch, fileVars, histVars
<1>2. /\ pending = NoOp /\ log_buffer \in Seq(Op) /\ cqueue \in Seq(Op)
      /\ op_tid \in 0 .. MaxOps /\ MaxOps \in Nat
  BY <1>1, ServerAssumption DEF TypeInv
<1>3. op_tid + 1 \in 1 .. MaxOps /\ op_tid + 1 \in 0 .. MaxOps
  BY <1>1, <1>2
<1>4. o \in Op
  BY <1>3 DEF Op
<1>5. o.tid = op_tid + 1
  BY RequestAssumption
<1>6. << o >> \in Seq(Op) /\ Tids(<< o >>) = {op_tid + 1} /\ Complete(<< o >>) = {op_tid + 1}
  <2>1. << o >> \in Seq(Op)
    BY <1>4
  <2> QED BY <1>5, <2>1, Single, OpSeq
<1>7. cqueue' = cqueue \o << o >>
  BY <1>1, <1>2, TypedSeq, AppendJoin
<1> DEFINE z == << o >>
<1>14. \A s \in Seq(Op) : s \o z \in Seq(Op) /\ Tids(s \o z) = Tids(s) \cup {op_tid + 1}
  <2> HIDE DEF z
  <2> QED BY <1>6, TidsJoin, ZenonT(60) DEF z
<1>8. Tids(cqueue') = Tids(cqueue) \cup {op_tid + 1} /\ cqueue' \in Seq(Op)
  <2> HIDE DEF z
  <2> QED BY <1>2, <1>7, <1>14 DEF z
<1>9. Unwritten' = Unwritten \o << o >>
  <2>1. Unwritten = log_buffer
    BY <1>2, RestTyped DEF Unwritten
  <2>2. Unwritten' = log_buffer \o << o >>
    BY <1>1, <1>4, OpFacts DEF Unwritten, Rest
  <2> QED BY <2>1, <2>2
<1>10. Log' = Log \o << o >>
  <2>1. IsSeq(file) /\ IsSeq(Unwritten) /\ IsSeq(<< o >>)
    BY UnwrittenTyped, Single
  <2>2. Log' = file \o (Unwritten \o << o >>)
    BY <1>1, <1>9 DEF Log
  <2> QED BY <2>1, <2>2, JoinAssoc DEF Log
<1>11. Accepted' = Accepted \cup {op_tid + 1}
  <2>1. InHand' = InHand /\ applied' = applied
    BY <1>1 DEF InHand
  <2> QED BY <1>8, <2>1 DEF Accepted, WaitingTids
<1>12. Tids(Unwritten') = Tids(Unwritten) \cup {op_tid + 1}
  <2> HIDE DEF z
  <2> QED BY <1>9, <1>14, UnwrittenTyped DEF z
<1>13. Len(cqueue') = Len(cqueue) + 1
  BY <1>1, <1>2
<1> QED BY <1>1, <1>2, <1>3, <1>4, <1>5, <1>6, <1>8, <1>9, <1>10, <1>11, <1>12, <1>13

(* A worker takes the head of the queue. *)
LEMMA ShiftEffect ==
  ASSUME TypeInv, NEW w \in Worker, Shift(w)
  PROVE  /\ cqueue' \in Seq(Op) /\ Len(cqueue') <= Capacity /\ op' \in [Worker -> Op \cup {NoOp}]
         /\ cqueue # << >> /\ cqueue' = Tail(cqueue)
         /\ InHand' = InHand \cup {cqueue[1]}
         /\ Accepted' = Accepted /\ applied' = applied
         /\ Len(cqueue') \in Nat /\ Len(cqueue) = Len(cqueue') + 1
         /\ \A i \in 1 .. Len(cqueue') : cqueue'[i] = cqueue[i + 1]
<1>1. /\ op[w] = NoOp /\ cqueue # << >> /\ op' = [op EXCEPT ![w] = Head(cqueue)]
      /\ cqueue' = Tail(cqueue) /\ applied' = applied
  BY DEF Shift, histVars
<1>2. cqueue \in Seq(Op) /\ op \in [Worker -> Op \cup {NoOp}] /\ Len(cqueue) <= Capacity
      /\ Capacity \in Nat
  BY ServerAssumption DEF TypeInv
<1> DEFINE h == cqueue[1]
<1>3. /\ Head(cqueue) = h /\ Tail(cqueue) \in Seq(Op) /\ Len(cqueue) \in Nat
      /\ Len(Tail(cqueue)) \in Nat /\ Len(cqueue) = Len(Tail(cqueue)) + 1
      /\ \A i \in 1 .. Len(Tail(cqueue)) : Tail(cqueue)[i] = cqueue[i + 1]
      /\ h \in Op
  BY <1>1, <1>2, HeadTailProperties
<1>4. /\ op' \in [Worker -> Op \cup {NoOp}] /\ op'[w] = h
      /\ \A v \in Worker \ {w} : op'[v] = op[v]
  BY <1>1, <1>2, <1>3
<1>5. h # NoOp
  BY <1>3, OpFacts
<1>6. InHand' = InHand \cup {h}
  BY <1>1, <1>4, <1>5 DEF InHand
<1>7. Tids(cqueue) = {h.tid} \cup Tids(cqueue')
  <2> DEFINE q == Tail(cqueue)
  <2>1. DOMAIN cqueue = 1 .. Len(q) + 1 /\ DOMAIN q = 1 .. Len(q)
    BY <1>2, <1>3
  <2> HIDE DEF q
  <2>2. \A i \in 1 .. Len(q) + 1 : i = 1 \/ (i - 1 \in 1 .. Len(q) /\ (i - 1) + 1 = i)
    BY <1>3 DEF q
  <2>3. \A i \in 1 .. Len(q) : i + 1 \in 1 .. Len(q) + 1 /\ q[i] = cqueue[i + 1]
    BY <1>3 DEF q
  <2>4. 1 \in 1 .. Len(q) + 1
    BY <1>3 DEF q
  <2>5. Tids(cqueue) = {h.tid} \cup Tids(q)
    <3>1. ASSUME NEW t \in Tids(cqueue) PROVE t \in {h.tid} \cup Tids(q)
      <4>1. PICK i \in 1 .. Len(q) + 1 : t = cqueue[i].tid
        BY <2>1 DEF Tids
      <4>2. i = 1 \/ (i - 1 \in 1 .. Len(q) /\ q[i - 1] = cqueue[i])
        BY <2>2, <2>3
      <4> QED BY <2>1, <4>1, <4>2 DEF Tids
    <3>2. h.tid \in Tids(cqueue)
      BY <2>1, <2>4 DEF Tids
    <3>3. Tids(q) \subseteq Tids(cqueue)
      BY <2>1, <2>3 DEF Tids
    <3> QED BY <3>1, <3>2, <3>3
  <2> QED BY <1>1, <2>5 DEF q
<1>8. Accepted' = Accepted
  BY <1>1, <1>6, <1>7 DEF Accepted, WaitingTids
<1>9. Len(cqueue') <= Capacity
  BY <1>1, <1>2, <1>3
<1> QED BY <1>1, <1>3, <1>4, <1>6, <1>8, <1>9

(* A worker applies and answers the operation it holds. *)
LEMMA HandleEffect ==
  ASSUME TypeInv, NEW w \in Worker, Handle(w)
  PROVE  /\ op' \in [Worker -> Op \cup {NoOp}] /\ op[w] \in InHand
         /\ InHand' \subseteq InHand /\ Accepted' = Accepted
         /\ applied' = applied \cup {op[w].tid} /\ replies' = replies \cup {op[w].tid}
         /\ op[w].tid \in Accepted
<1>1. /\ op[w] # NoOp /\ op' = [op EXCEPT ![w] = NoOp] /\ cqueue' = cqueue
      /\ applied' = applied \cup {op[w].tid} /\ replies' = replies \cup {op[w].tid}
  BY DEF Handle
<1>2. op \in [Worker -> Op \cup {NoOp}]
  BY DEF TypeInv
<1>3. op[w] \in InHand
  BY <1>1 DEF InHand
<1>4. /\ op' \in [Worker -> Op \cup {NoOp}] /\ op'[w] = NoOp
      /\ \A v \in Worker \ {w} : op'[v] = op[v]
  BY <1>1, <1>2
<1>5. InHand' \subseteq InHand /\ InHand \subseteq InHand' \cup {op[w]}
  BY <1>4 DEF InHand
<1>6. Accepted' = Accepted
  BY <1>1, <1>3, <1>5 DEF Accepted, WaitingTids
<1> QED BY <1>1, <1>3, <1>4, <1>5, <1>6 DEF Accepted, WaitingTids

(* The process stops with v not written, and possibly a torn record. *)
Stops(j, v) ==
    \E w, torn : /\ w \in Seq(Op) /\ v \in Seq(Op) /\ torn \in {<< >>, << Torn >>}
                 /\ Unwritten = w \o v /\ j = (file \o w) \o torn

(* Each end of the process leaves a journal that the next start reads. *)
LEMMA Restarts ==
  ASSUME TypeInv, Crash \/ CrashInWrite \/ Shutdown
  PROVE  \E j, v : Stops(j, v) /\ Boot(j) /\ (Shutdown => v = << >> /\ j = file \o log_buffer)
<1>0. /\ IsSeq(file) /\ Unwritten \in Seq(Op) /\ log_buffer \in Seq(Op)
      /\ pending \in Op \cup {NoOp} /\ << >> \in Seq(Op)
  BY UnwrittenTyped, EmptySeq DEF TypeInv
<1>1. CASE Shutdown
  <2>1. main = "loop" /\ Boot(file \o log_buffer)
    BY <1>1 DEF Shutdown
  <2>2. Unwritten = log_buffer
    BY <1>0, <2>1, RestTyped DEF TypeInv, Unwritten
  <2>3. log_buffer = log_buffer \o << >> /\ IsSeq(file \o log_buffer)
    BY <1>0, TypedSeq, EmptyJoin, Join
  <2>4. file \o log_buffer = (file \o log_buffer) \o << >>
    BY <2>3, EmptyJoin
  <2>5. Stops(file \o log_buffer, << >>)
    BY <1>0, <2>2, <2>3, <2>4 DEF Stops
  <2> QED BY <2>1, <2>5
<1>2. CASE Crash /\ ~Shutdown
  <2>1. Boot(file)
    BY <1>2 DEF Crash
  <2>2. << >> \o Unwritten = Unwritten /\ file \o << >> = file
    BY <1>0, TypedSeq, EmptyJoin
  <2>3. file = (file \o << >>) \o << >>
    BY <2>2
  <2>4. Stops(file, Unwritten)
    BY <1>0, <2>2, <2>3 DEF Stops
  <2> QED BY <1>2, <2>1, <2>4
<1>3. CASE CrashInWrite /\ ~Shutdown
  <2> DEFINE buffer == IF main = "log" THEN Append(log_buffer, pending) ELSE log_buffer
  <2>1. PICK n \in 0 .. Len(buffer) - 1 : Boot(Append(file \o SubSeq(buffer, 1, n), Torn))
    BY <1>3 DEF CrashInWrite
  <2>2. Unwritten = buffer
    BY <1>0, RestTyped DEF Unwritten, TypeInv
  <2>3. buffer \in Seq(Op) /\ IsSeq(buffer) /\ Len(buffer) \in Nat
    <3> HIDE DEF buffer
    <3> QED BY <1>0, <2>2, TypedSeq, SeqFacts
  <2> HIDE DEF buffer
  <2> DEFINE w == SubSeq(buffer, 1, n)
             v == From(buffer, n)
  <2>4. n \in 0 .. Len(buffer)
    BY <2>3
  <2>5. w \o v = buffer
    BY <2>3, <2>4, CutJoin
  <2>6. w \in Seq(Op) /\ v \in Seq(Op)
    <3>1. \A i \in 1 .. Len(buffer) : buffer[i] \in Op
      BY <2>3, TypedSeq
    <3>2. (\A i \in 1 .. n : buffer[i] \in Op) /\ \A i \in n + 1 .. Len(buffer) : buffer[i] \in Op
      BY <2>3, <2>4, <3>1
    <3>3. w \in Seq(Op)
      BY <2>4, <3>2, SubSeqProperties
    <3>4. v \in Seq(Op)
      BY <2>3, <2>4, <3>2, SubSeqProperties DEF From
    <3> QED BY <3>3, <3>4
  <2> HIDE DEF w, v
  <2>7. IsSeq(file \o w)
    BY <1>0, <2>6, TypedSeq, Join
  <2>8. Append(file \o w, Torn) = (file \o w) \o << Torn >>
    BY <2>7, AppendJoin
  <2>9. Stops((file \o w) \o << Torn >>, v)
    BY <2>2, <2>5, <2>6 DEF Stops
  <2> QED BY <1>3, <2>1, <2>8, <2>9 DEF w
<1> QED BY <1>1, <1>2, <1>3

(* What is in the file, and in what order, when the process stops. *)
LEMMA StopKeeps ==
  ASSUME TypeInv, NEW j, NEW v, Stops(j, v)
  PROVE  /\ IsSeq(j) /\ Complete(file) \subseteq Complete(j)
         /\ Complete(Log) = Complete(j) \cup Tids(v)
         /\ Rising(Log) => Rising(j) /\ Before(Complete(j), Tids(v))
<1>1. PICK w, torn : /\ w \in Seq(Op) /\ v \in Seq(Op) /\ torn \in {<< >>, << Torn >>}
                     /\ Unwritten = w \o v /\ j = (file \o w) \o torn
  BY DEF Stops
<1> DEFINE f == file \o w
<1>2. /\ IsSeq(file) /\ IsSeq(w) /\ IsSeq(v) /\ Complete(v) = Tids(v)
      /\ IsSeq(torn) /\ Complete(torn) = {} /\ Rising(torn)
  <2>1. IsSeq(torn) /\ Complete(torn) = {} /\ Rising(torn)
    BY <1>1, Empty, Single
  <2> QED BY <1>1, <2>1, OpSeq DEF TypeInv
<1>3. IsSeq(f) /\ Complete(f) = Complete(file) \cup Complete(w)
  BY <1>2, Join, CompleteJoin
<1>4. Log = f \o v
  <2>1. Log = file \o (w \o v)
    BY <1>1 DEF Log
  <2>2. (file \o w) \o v = file \o (w \o v)
    BY <1>2, JoinAssoc
  <2> QED BY <2>1, <2>2
<1>5. j = f \o torn
  BY <1>1
<1> HIDE DEF f
<1>6. IsSeq(j) /\ Complete(j) = Complete(f)
  <2>1. IsSeq(f \o torn) /\ Complete(f \o torn) = Complete(f) \cup Complete(torn)
    BY <1>2, <1>3, Join, CompleteJoin
  <2> QED BY <1>2, <1>5, <2>1
<1>7. Complete(Log) = Complete(f) \cup Tids(v)
  BY <1>2, <1>3, <1>4, CompleteJoin
<1>8. ASSUME Rising(Log) PROVE Rising(j) /\ Before(Complete(j), Tids(v))
  <2>1. Rising(f) /\ Before(Complete(f), Complete(v))
    BY <1>2, <1>3, <1>4, <1>8, RisingJoin
  <2>2. Before(Complete(f), Complete(torn))
    BY <1>2 DEF Before
  <2>3. Rising(j)
    BY <1>2, <1>3, <1>5, <2>1, <2>2, RisingJoin
  <2> QED BY <1>2, <1>6, <2>1, <2>3
<1> QED BY <1>3, <1>6, <1>7, <1>8

(* The new process reads the records r of the journal, and not x. *)
Boots(j, r, x) ==
    /\ IsSeq(r) /\ IsSeq(x) /\ j = r \o x
    /\ \A i \in 1 .. Len(r) : r[i] # Torn
    /\ \/ x = << >> \/ main' = "replay"
       \/ Len(r) + 1 \in 1 .. Len(j) /\ j[Len(r) + 1] = Torn
    /\ Accepted' = held \cup Complete(r) /\ applied' = Accepted'
    /\ lost' = lost \cup (Complete(j) \ applied')
    /\ IsSeq(file') /\ offset' \in 0 .. Len(file') /\ unread' \in 0 .. Len(file')
    /\ Complete(r) \subseteq Complete(file') /\ Complete(file') \subseteq Complete(j)
    /\ Rising(j) => Rising(file')
    /\ Log' = file' /\ Unwritten' = << >>
    /\ Complete(From(file', offset')) \subseteq Complete(x)

(* The tids of what a start reads. *)
LEMMA ReadTids ==
  ASSUME NEW r, IsSeq(r), \A i \in 1 .. Len(r) : r[i] # Torn
  PROVE  Tids(r) \ {0} = Complete(r)
  BY SeqFacts DEF Tids, Complete

(* Places in a sequence of length l, behind its n-th element. *)
LEMMA Bounds ==
  ASSUME NEW l \in Nat, NEW n \in 0 .. l
  PROVE  /\ l \in n .. l /\ (n # l => n + 1 \in 1 .. l)
         /\ \A m \in n .. l : m \in 0 .. l /\ (m # n => n # l /\ n + 1 \in 1 .. m)
  OBVIOUS

(* Of two ends of a journal the later one has fewer records. *)
LEMMA LaterTail ==
  ASSUME NEW j, IsSeq(j), NEW n \in 0 .. Len(j), NEW m \in n .. Len(j)
  PROVE  Complete(From(j, m)) \subseteq Complete(From(j, n))
<1>1. Len(j) \in Nat /\ m \in 0 .. Len(j) /\ m - n \in Nat
  BY SeqFacts
<1>2. /\ IsSeq(From(j, n)) /\ Len(From(j, n)) = Len(j) - n
      /\ \A i \in 1 .. Len(j) - n : From(j, n)[i] = j[n + i]
  BY <1>1, FromFacts
<1>3. /\ IsSeq(From(j, m)) /\ Len(From(j, m)) = Len(j) - m
      /\ \A i \in 1 .. Len(j) - m : From(j, m)[i] = j[m + i]
  BY <1>1, FromFacts
<1> DEFINE a == From(j, n)
           b == From(j, m)
<1>4. ASSUME NEW i \in 1 .. Len(b) PROVE (m - n) + i \in 1 .. Len(a) /\ a[(m - n) + i] = b[i]
  <2>1. i \in 1 .. Len(j) - m /\ (m - n) + i \in 1 .. Len(j) - n
        /\ n + ((m - n) + i) = m + i
    BY <1>1, <1>3, <1>4
  <2>2. b[i] = j[m + i] /\ a[(m - n) + i] = j[n + ((m - n) + i)]
    BY <1>2, <1>3, <2>1
  <2> QED BY <1>2, <2>1, <2>2
<1>5. IsSeq(a) /\ IsSeq(b)
  BY <1>2, <1>3
<1> HIDE DEF a, b
<1>6. ASSUME NEW t \in Complete(b) PROVE t \in Complete(a)
  <2>1. PICK i \in 1 .. Len(b) : Numbered(b, i) /\ b[i].tid = t
    BY <1>5, <1>6, CompleteMember
  <2>2. Numbered(a, (m - n) + i) /\ a[(m - n) + i].tid = t
    BY <1>4, <2>1 DEF Numbered
  <2> QED BY <1>4, <1>5, <2>1, <2>2, CompleteMember
<1> QED BY <1>6 DEF a, b

(* A journal that is truncated behind its first n records keeps those. *)
LEMMA CutShort ==
  ASSUME NEW j, IsSeq(j), NEW n \in 0 .. Len(j), NEW m \in n .. Len(j),
         NEW f \in Truncated(j, m)
  PROVE  /\ IsSeq(f)
         /\ Complete(SubSeq(j, 1, n)) \subseteq Complete(f) /\ Complete(f) \subseteq Complete(j)
         /\ Rising(j) => Rising(f)
<1> DEFINE s == SubSeq(j, 1, m)
           e == From(j, m)
           r == SubSeq(j, 1, n)
<1>1. Len(j) \in Nat /\ m \in 0 .. Len(j)
  BY SeqFacts
<1>2. IsSeq(s) /\ Len(s) = m /\ (\A i \in 1 .. m : s[i] = j[i]) /\ IsSeq(e) /\ j = s \o e
  BY <1>1, CutFacts, FromFacts, CutJoin
<1>3. IsSeq(r) /\ Len(r) = n /\ \A i \in 1 .. n : r[i] = j[i]
  BY CutFacts
<1>4. f = s \/ f = Append(s, Torn)
  BY DEF Truncated
<1> HIDE DEF s, e, r
<1>5. Complete(s) \subseteq Complete(j) /\ (Rising(j) => Rising(s))
  <2>1. Complete(s \o e) = Complete(s) \cup Complete(e)
    BY <1>2, CompleteJoin
  <2>2. Rising(s \o e) => Rising(s)
    BY <1>2, RisingJoin
  <2> QED BY <1>2, <2>1, <2>2
<1>6. ASSUME NEW t \in Complete(r) PROVE t \in Complete(s)
  <2>1. PICK i \in 1 .. n : Numbered(r, i) /\ r[i].tid = t
    BY <1>3, <1>6, CompleteMember
  <2>2. i \in 1 .. m
    BY <1>1
  <2>3. Numbered(s, i) /\ s[i].tid = t
    BY <1>2, <1>3, <2>1, <2>2 DEF Numbered
  <2> QED BY <1>2, <2>2, <2>3, CompleteMember
<1> DEFINE z == << Torn >>
<1>7. IsSeq(z) /\ Complete(z) = {} /\ Rising(z)
  BY Single
<1> HIDE DEF z
<1>8. IsSeq(s \o z) /\ Complete(s \o z) = Complete(s) /\ (Rising(s) => Rising(s \o z))
  <2>1. IsSeq(s \o z) /\ Complete(s \o z) = Complete(s) \cup Complete(z)
    BY <1>2, <1>7, Join, CompleteJoin
  <2>2. Before(Complete(s), Complete(z))
    BY <1>7 DEF Before
  <2>3. Rising(s) => Rising(s \o z)
    BY <1>2, <1>7, <2>2, RisingJoin
  <2> QED BY <1>7, <2>1, <2>3
<1>9. Append(s, Torn) = s \o z
  BY <1>2, AppendJoin DEF z
<1>10. IsSeq(f) /\ Complete(f) = Complete(s) /\ (Rising(s) => Rising(f))
  BY <1>2, <1>4, <1>8, <1>9
<1> QED BY <1>5, <1>6, <1>10 DEF r

(* The file that a start leaves, and where its offset is. *)
LEMMA BootFile ==
  ASSUME NEW j, IsSeq(j), NEW n \in 0 .. Len(j), Readable(j) = SubSeq(j, 1, n), Boot(j)
  PROVE  \E m \in n .. Len(j) : \/ file' = j /\ offset' = m
                                \/ file' \in Truncated(j, m) /\ offset' = Len(file')
<1>1. Len(SubSeq(j, 1, n)) = n
  BY CutFacts
<1> QED BY <1>1 DEF Boot

(* A start reads the journal up to the record that stops it. *)
LEMMA BootEffect ==
  ASSUME TypeInv, NEW j, IsSeq(j), Boot(j)
  PROVE  \E r, x : Boots(j, r, x)
<1>1. PICK n \in 0 .. Len(j) : /\ Readable(j) = SubSeq(j, 1, n)
                               /\ \A i \in 1 .. n : j[i] # Torn
                               /\ \/ n = Len(j)
                                  \/ j[n + 1] = Torn \/ Refused(j[n + 1])
  BY ReadableFacts
<1> DEFINE r == SubSeq(j, 1, n)
           x == From(j, n)
<1>2. Len(j) \in Nat /\ DOMAIN j = 1 .. Len(j)
  BY SeqFacts
<1>3. /\ IsSeq(r) /\ Len(r) = n /\ \A i \in 1 .. n : r[i] = j[i]
  BY CutFacts
<1>4. IsSeq(x) /\ j = r \o x
  BY FromFacts, CutJoin
<1>5. \A i \in 1 .. Len(r) : r[i] # Torn
  BY <1>1, <1>3
<1>6. PICK m \in n .. Len(j) : \/ file' = j /\ offset' = m
                               \/ file' \in Truncated(j, m) /\ offset' = Len(file')
  BY <1>1, BootFile
<1>7. /\ applied' = held \cup (Tids(r) \ {0})
      /\ lost' = lost \cup (Complete(j) \ applied')
      /\ unread' = IF file' = r THEN 0 ELSE Len(file')
      /\ main' = IF Stuck(j) THEN "replay" ELSE "loop"
      /\ cqueue' = << >> /\ op' = [w \in Worker |-> NoOp] /\ pending' = NoOp
      /\ log_buffer' = << >>
  <2> HIDE DEF r
  <2>1. Readable(j) = r
    BY <1>1 DEF r
  <2> QED BY <2>1 DEF Boot
<1>8. Stuck(j) <=> n + 1 \in 1 .. Len(j) /\ Refused(j[n + 1])
  BY <1>1, <1>2, <1>3 DEF Stuck
<1>9. \/ x = << >> \/ main' = "replay"
      \/ Len(r) + 1 \in 1 .. Len(j) /\ j[Len(r) + 1] = Torn
  <2>1. CASE n = Len(j)
    BY <2>1, NoneBehind
  <2>2. CASE n # Len(j)
    <3>1. n + 1 \in 1 .. Len(j)
      BY <1>2, <2>2, Bounds
    <3> QED BY <1>1, <1>3, <1>7, <1>8, <2>2, <3>1
  <2> QED BY <2>1, <2>2
<1>10. /\ IsSeq(file') /\ offset' \in 0 .. Len(file') /\ unread' \in 0 .. Len(file')
       /\ Complete(r) \subseteq Complete(file') /\ Complete(file') \subseteq Complete(j)
       /\ Rising(j) => Rising(file')
  <2>1. /\ IsSeq(file') /\ Complete(r) \subseteq Complete(file')
        /\ Complete(file') \subseteq Complete(j) /\ (Rising(j) => Rising(file'))
    <3>1. CASE file' = j
      <4> HIDE DEF r, x
      <4>1. Complete(r \o x) = Complete(r) \cup Complete(x)
        BY <1>3, <1>4, CompleteJoin
      <4> QED BY <1>4, <3>1, <4>1
    <3>2. CASE file' \in Truncated(j, m)
      BY <3>2, CutShort
    <3> QED BY <1>6, <3>1, <3>2
  <2>2. Len(file') \in Nat
    BY <2>1, SeqFacts
  <2>3. offset' \in 0 .. Len(file')
    BY <1>2, <1>6, <2>2
  <2> QED BY <1>7, <2>1, <2>2, <2>3
<1>11. Complete(From(file', offset')) \subseteq Complete(x)
  <2>1. CASE offset' = Len(file')
    BY <1>10, <2>1, NoneBehind, Empty
  <2>2. CASE file' = j /\ offset' = m
    BY <2>2, LaterTail
  <2> QED BY <1>6, <2>1, <2>2
<1> HIDE DEF r, x
<1>12. applied' = held \cup Complete(r)
  BY <1>3, <1>5, <1>7, ReadTids
<1>13. Accepted' = applied'
  <2>1. InHand' = {}
    BY <1>7 DEF InHand
  <2>2. Tids(cqueue') = {}
    BY <1>7, Empty
  <2> QED BY <2>1, <2>2 DEF Accepted, WaitingTids
<1>14. Unwritten' = << >>
  BY <1>7, RestTyped, EmptySeq DEF Unwritten
<1>15. Log' = file'
  BY <1>10, <1>14, EmptyJoin DEF Log
<1>16. Boots(j, r, x)
  BY <1>3, <1>4, <1>5, <1>7, <1>9, <1>10, <1>11, <1>12, <1>13, <1>14, <1>15 DEF Boots
<1> QED BY <1>16
-----------------------------------------------------------------------------
(* Types *)

(* The server starts with the types it keeps. *)
LEMMA TypeInit == ASSUME Init PROVE TypeInv
<1>1. << >> \in Seq(Op) /\ IsSeq(<< >>) /\ Len(<< >>) = 0 /\ Complete(<< >>) = {}
  BY Empty, EmptySeq
<1>2. op \in [Worker -> Op \cup {NoOp}]
  BY DEF Init
<1> QED BY <1>1, <1>2, ServerAssumption DEF Init, TypeInv

(* A dump that is cut short. *)
LEMMA DamagedTyped ==
  ASSUME NEW d, IsSeq(d), Complete(d) = {}, NEW n \in 0 .. Len(d) - 1,
         NEW e \in {SubSeq(d, 1, n), Append(SubSeq(d, 1, n), Torn)}
  PROVE  IsSeq(e) /\ Complete(e) = {}
<1> DEFINE s == SubSeq(d, 1, n)
<1>1. n \in 0 .. Len(d)
  BY SeqFacts
<1>2. IsSeq(s) /\ IsSeq(From(d, n)) /\ d = s \o From(d, n)
  BY <1>1, CutFacts, FromFacts, CutJoin
<1> HIDE DEF s
<1>3. Complete(s) = {}
  <2> DEFINE t == From(d, n)
  <2>1. IsSeq(t) /\ d = s \o t
    BY <1>2
  <2> HIDE DEF t
  <2>2. Complete(s \o t) = Complete(s) \cup Complete(t)
    BY <1>2, <2>1, CompleteJoin
  <2> QED BY <2>1, <2>2
<1>4. IsSeq(<< Torn >>) /\ Complete(<< Torn >>) = {}
  BY Single
<1>5. IsSeq(s \o << Torn >>) /\ Complete(s \o << Torn >>) = {}
  BY <1>2, <1>3, <1>4, Join, CompleteJoin, SMTT(60)
<1> QED BY <1>2, <1>3, <1>5, AppendJoin DEF s

(* The variables that TypeInv is about. *)
typedVars == <<cqueue, op, workers, main, pending, op_tid, log_buffer, rewriter,
               fork_offset, file, offset, child, dump, unread, now>>

(* What the start found in the file stays there. *)
LEMMA Longer ==
  ASSUME TypeInv, IsSeq(file'), Len(file) <= Len(file'), unread' = unread
  PROVE  unread' \in 0 .. Len(file')
<1>1. Len(file) \in Nat /\ Len(file') \in Nat /\ unread \in 0 .. Len(file)
  BY SeqFacts DEF TypeInv
<1> QED BY <1>1

(* Each action keeps the types. *)
LEMMA TypeStep == ASSUME TypeInv, [Next]_vars PROVE TypeInv'
<1>0. IsSeq(<< >>) /\ << >> \in Seq(Op) /\ Len(<< >>) = 0 /\ Complete(<< >>) = {}
      /\ Capacity \in Nat \ {0} /\ MaxTime \in Nat \ {0} /\ MaxOps \in Nat
  BY Empty, EmptySeq, ServerAssumption
<1>1. ASSUME UNCHANGED typedVars PROVE TypeInv'
  BY <1>1 DEF TypeInv, typedVars
<1>2. ASSUME NEW r \in Request, Dispatch(r) PROVE TypeInv'
  <2>1. CASE Len(cqueue) < Capacity
    <3> DEFINE o == [r EXCEPT !.tid = op_tid + 1]
    <3>1. /\ o \in Op /\ op_tid' \in 0 .. MaxOps /\ pending' = o
          /\ cqueue' \in Seq(Op) /\ Len(cqueue') = Len(cqueue) + 1
      BY <1>2, <2>1, DispatchEffect
    <3> HIDE DEF o
    <3>2. o # NoOp
      BY <3>1, OpFacts
    <3>3. Len(cqueue') <= Capacity
      <4>1. Len(cqueue) \in Nat
        BY TypedSeq, SeqFacts DEF TypeInv
      <4> QED BY <1>0, <2>1, <3>1, <4>1
    <3>4. main' = "log" /\ UNCHANGED <<op, workers, log_buffer, rewriter, fork_offset,
                                       file, offset, child, dump, unread, now>>
      BY <1>2, <2>1 DEF Dispatch, fileVars, childVars, histVars
    <3> QED BY <3>1, <3>2, <3>3, <3>4 DEF TypeInv
  <2>2. CASE ~(Len(cqueue) < Capacity)
    <3>1. /\ op_tid' = op_tid + 1 /\ op_tid < MaxOps
          /\ UNCHANGED <<cqueue, pending, main, op, workers, log_buffer, rewriter,
                         fork_offset, file, offset, child, dump, unread, now>>
      BY <1>2, <2>2 DEF Dispatch, fileVars, childVars, histVars
    <3>2. op_tid' \in 0 .. MaxOps
      BY <1>0, <3>1 DEF TypeInv
    <3> QED BY <3>1, <3>2 DEF TypeInv
  <2> QED BY <2>1, <2>2
<1>3. ASSUME AddToDbLog PROVE TypeInv'
  <2>1. /\ pending' = NoOp /\ log_buffer' \in Seq(Op) /\ main' = "loop"
        /\ UNCHANGED <<cqueue, op, workers, op_tid, rewriter, fork_offset, child, dump, unread,
                       now>>
    BY <1>3, AddMoves DEF AddToDbLog, childVars
  <2>2. IsSeq(file') /\ offset' \in 0 .. Len(file') /\ unread' \in 0 .. Len(file')
    <3>1. CASE Logged(pending)
      <4>1. IsSeq(file') /\ offset' \in 0 .. Len(file') /\ Len(file) <= Len(file')
        BY <1>3, <2>1, <3>1, AddMoves, MovesKeep
      <4> QED BY <2>1, <4>1, Longer
    <3>2. CASE ~Logged(pending)
      BY <1>3, <2>1, <3>2, AddMoves DEF TypeInv
    <3> QED BY <3>1, <3>2
  <2> QED BY <2>1, <2>2 DEF TypeInv
<1>4. ASSUME FlushLogDb \/ Fork \/ ForkFailed PROVE TypeInv'
  <2>1. /\ pending' = NoOp /\ log_buffer' \in Seq(Op)
        /\ IsSeq(file') /\ offset' \in 0 .. Len(file') /\ Len(file) <= Len(file')
    BY <1>4, LoopMoves, MovesKeep
  <2>2. /\ main' \in {"loop", "set_pid"}
        /\ UNCHANGED <<cqueue, op, workers, op_tid, rewriter, fork_offset, unread, now>>
    BY <1>4 DEF FlushLogDb, Fork, ForkFailed, histVars
  <2>3. /\ child' \in {"none", "running", "exited", "killed"}
        /\ IsSeq(dump') /\ Complete(dump') = {}
    <3>1. CASE Fork
      BY <3>1, DumpHasNoTids DEF Fork
    <3>2. CASE FlushLogDb \/ ForkFailed
      BY <3>2 DEF FlushLogDb, ForkFailed, childVars, TypeInv
    <3> QED BY <1>4, <3>1, <3>2
  <2>4. unread' \in 0 .. Len(file')
    BY <2>1, <2>2, Longer
  <2> QED BY <2>1, <2>2, <2>3, <2>4 DEF TypeInv
<1>5. ASSUME ConsumerCb \/ ExpirationCron PROVE TypeInv'
  BY <1>1, <1>5 DEF ConsumerCb, ExpirationCron, typedVars, fileVars, childVars, histVars
<1>6. ASSUME Rewrite PROVE TypeInv'
  BY <1>6 DEF Rewrite, TypeInv, fileVars, childVars, histVars
<1>7. ASSUME SetPid PROVE TypeInv'
  BY <1>7 DEF SetPid, TypeInv, fileVars, childVars, histVars
<1>8. ASSUME SetOffset PROVE TypeInv'
  <2>1. IsSeq(file) /\ offset \in Nat
    BY SeqFacts DEF TypeInv
  <2> QED BY <1>8, <2>1 DEF SetOffset, TypeInv, fileVars, childVars, histVars
<1>9. ASSUME NEW w \in Worker, Shift(w) PROVE TypeInv'
  <2>1. UNCHANGED <<workers, main, pending, op_tid, log_buffer, rewriter, fork_offset,
                    file, offset, child, dump, unread, now>>
    BY <1>9 DEF Shift, fileVars, childVars, histVars
  <2>2. cqueue' \in Seq(Op) /\ Len(cqueue') <= Capacity /\ op' \in [Worker -> Op \cup {NoOp}]
    BY <1>9, ShiftEffect
  <2> QED BY <2>1, <2>2 DEF TypeInv
<1>10. ASSUME NEW w \in Worker, Handle(w) PROVE TypeInv'
  <2>1. UNCHANGED <<cqueue, workers, main, pending, op_tid, log_buffer, rewriter,
                    fork_offset, file, offset, child, dump, unread, now>>
    BY <1>10 DEF Handle, fileVars, childVars, histVars
  <2>2. op' \in [Worker -> Op \cup {NoOp}]
    BY <1>10, HandleEffect
  <2> QED BY <2>1, <2>2 DEF TypeInv
<1>11. ASSUME ChildExit \/ SigchldKilled PROVE TypeInv'
  <2>1. UNCHANGED <<cqueue, op, workers, main, pending, op_tid, log_buffer, rewriter,
                    fork_offset, file, offset, dump, unread, now>>
    BY <1>11 DEF ChildExit, SigchldKilled, memVars, fileVars, histVars
  <2>2. child' \in {"none", "running", "exited", "killed"}
    BY <1>11 DEF ChildExit, SigchldKilled
  <2> QED BY <2>1, <2>2 DEF TypeInv
<1>12. ASSUME DamagedDump PROVE TypeInv'
  <2>1. /\ child' = "exited"
        /\ UNCHANGED <<cqueue, op, workers, main, pending, op_tid, log_buffer, rewriter,
                       fork_offset, file, offset, unread, now>>
    BY <1>12 DEF DamagedDump, memVars, fileVars, histVars
  <2>2. PICK n \in 0 .. Len(dump) - 1 :
           dump' \in {SubSeq(dump, 1, n), Append(SubSeq(dump, 1, n), Torn)}
    BY <1>12 DEF DamagedDump
  <2>3. IsSeq(dump) /\ Complete(dump) = {}
    BY DEF TypeInv
  <2>4. IsSeq(dump') /\ Complete(dump') = {}
    BY <2>2, <2>3, DamagedTyped
  <2> QED BY <2>1, <2>4 DEF TypeInv
<1>13. ASSUME Sigchld PROVE TypeInv'
  <2>1. /\ child' = "none" /\ dump' = << >> /\ rewriter' = NoProcess /\ unread' = 0
        /\ file' = dump \o SinceFork
        /\ offset' = IF SinceFork = << >> THEN 0 ELSE Len(file')
        /\ UNCHANGED <<cqueue, op, workers, main, pending, op_tid, log_buffer, fork_offset, now>>
    BY <1>13 DEF Sigchld
  <2>2. IsSeq(SinceFork)
    <3>1. SinceFork = From(file, fork_offset) /\ IsSeq(file) /\ fork_offset \in Nat
          /\ Len(file) \in Nat
      BY <1>13, SeqFacts DEF SinceFork, From, TypeInv, Sigchld
    <3>2. CASE fork_offset \in 0 .. Len(file)
      BY <3>1, <3>2, FromFacts
    <3>3. CASE fork_offset \notin 0 .. Len(file)
      <4> DEFINE R == {file[i] : i \in DOMAIN file}
      <4>1. file \in Seq(R)
        BY <3>1 DEF IsSeq
      <4> HIDE DEF R
      <4>2. SinceFork = << >>
        BY <3>1, <3>3, <4>1, SubSeqProperties DEF SinceFork
      <4> QED BY <1>0, <4>2
    <3> QED BY <3>2, <3>3
  <2>3. IsSeq(file') /\ Len(file') \in Nat
    BY <2>1, <2>2, Join, SeqFacts DEF TypeInv
  <2> QED BY <1>0, <2>1, <2>3 DEF TypeInv
<1>14. ASSUME SwapRefused PROVE TypeInv'
  <2>1. /\ child' = "none" /\ dump' = << >> /\ rewriter' = NoProcess /\ offset' = Len(file)
        /\ UNCHANGED <<cqueue, op, workers, main, pending, op_tid, log_buffer, fork_offset,
                       file, unread, now>>
    BY <1>14 DEF SwapRefused, histVars
  <2>2. Len(file) \in Nat
    BY SeqFacts DEF TypeInv
  <2> QED BY <1>0, <2>1, <2>2 DEF TypeInv
<1>15. ASSUME Tick PROVE TypeInv'
  <2>1. /\ now' = now + 1 /\ now < MaxTime
        /\ UNCHANGED <<cqueue, op, workers, main, pending, op_tid, log_buffer, rewriter,
                       fork_offset, file, offset, child, dump, unread>>
    BY <1>15 DEF Tick, memVars, fileVars, childVars, histVars
  <2>2. now' \in 1 .. MaxTime
    BY <1>0, <2>1 DEF TypeInv
  <2> QED BY <2>1, <2>2 DEF TypeInv
<1>16. ASSUME Crash \/ CrashInWrite \/ Shutdown PROVE TypeInv'
  <2>1. PICK j, v : Stops(j, v) /\ Boot(j)
    BY <1>16, Restarts
  <2>2. IsSeq(j)
    BY <2>1, StopKeeps
  <2>3. PICK r, x : Boots(j, r, x)
    BY <2>1, <2>2, BootEffect
  <2>4. IsSeq(file') /\ offset' \in 0 .. Len(file') /\ unread' \in 0 .. Len(file')
    BY <2>3 DEF Boots
  <2>5. /\ cqueue' = << >> /\ op' = [w \in Worker |-> NoOp]
        /\ workers' = "up" /\ main' \in {"loop", "replay"} /\ pending' = NoOp
        /\ log_buffer' = << >> /\ rewriter' = NoProcess /\ fork_offset' = -1
        /\ child' = "none" /\ dump' = << >> /\ UNCHANGED <<op_tid, now>>
    BY <2>1 DEF Boot
  <2>6. op' \in [Worker -> Op \cup {NoOp}]
    BY <2>5
  <2> QED BY <1>0, <2>4, <2>5, <2>6 DEF TypeInv
<1>17. ASSUME UNCHANGED vars PROVE TypeInv'
  BY <1>1, <1>17 DEF vars, memVars, fileVars, childVars, histVars, typedVars
<1> QED BY <1>2, <1>3, <1>4, <1>5, <1>6, <1>7, <1>8, <1>9, <1>10, <1>11, <1>12, <1>13,
           <1>14, <1>15, <1>16, <1>17 DEF Next, MainStep
-----------------------------------------------------------------------------
(* What the steps do, as far as the invariants tell them apart *)

Forking == main \in {"set_pid", "set_offset"}

(* Nothing is accepted or given up, and the journal only gets written. *)
Steady ==
    /\ Log' = Log /\ Accepted' = Accepted /\ UNCHANGED <<held, lost>>
    /\ op_tid' \in Nat /\ op_tid <= op_tid'
    /\ Len(file) <= Len(file')
    /\ Tids(Unwritten') \subseteq Tids(Unwritten)
    /\ Complete(From(file', offset')) \subseteq Complete(From(file, offset))
    /\ TidSets' \subseteq TidSets \cup Accepted

(* A rewrite goes on as it was. *)
ChildKept ==
    child' # "none" => /\ child # "none" /\ Mark' = Mark /\ UNCHANGED <<dumped, queued>>
                       /\ PromptParent /\ Forking' => Forking /\ child' = child

(* add_to_db_log refuses the operation at hand. *)
Refuses ==
    /\ Log = Log' \o << pending >> /\ Unwritten = Unwritten' \o << pending >>
    /\ pending \in Op /\ Unwritten' \in Seq(Op) /\ pending.tid \in Tids(Unwritten)
    /\ lost' = lost \cup {pending.tid}
    /\ Accepted' = Accepted /\ UNCHANGED <<file, offset, held, op_tid>>
    /\ TidSets' = TidSets \cup {pending.tid}
    /\ child' = child /\ Mark' = Mark /\ UNCHANGED <<dumped, queued>>
    /\ ~Forking /\ ~Forking'

(* A step that touches neither journal nor marks is steady. *)
LEMMA QuietStep ==
  ASSUME TypeInv, UNCHANGED <<file, offset, log_buffer, pending, held, lost>>,
         Accepted' = Accepted, op_tid' \in Nat, op_tid <= op_tid',
         TidSets' \subseteq TidSets \cup Accepted
  PROVE  Steady
<1>1. Unwritten' = Unwritten
  BY DEF Unwritten
<1>2. Log' = Log
  BY <1>1 DEF Log
<1>3. Len(file) \in Nat
  BY SeqFacts DEF TypeInv
<1> QED BY <1>1, <1>2, <1>3 DEF Steady

(* So is one that only moves records to the file. *)
LEMMA WritingStep ==
  ASSUME TypeInv, Moves, log_buffer' \in Seq(Op), pending' \in Op \cup {NoOp},
         UNCHANGED <<held, lost, op_tid>>, Accepted' = Accepted,
         TidSets' \subseteq TidSets \cup Accepted
  PROVE  Steady
<1>1. op_tid \in Nat
  BY ServerAssumption DEF TypeInv
<1> QED BY <1>1, MovesKeep DEF Steady

(* A request that is too large to be logged is refused. *)
LEMMA RefusedStep ==
  ASSUME TypeInv, AddToDbLog, ~Logged(pending) PROVE Refuses
<1>1. /\ pending # NoOp /\ pending' = NoOp /\ UNCHANGED <<file, offset, log_buffer>>
      /\ lost' = lost \cup {pending.tid}
  BY AddMoves
<1>2. /\ main = "log" /\ main' = "loop"
      /\ UNCHANGED <<cqueue, op, op_tid, fork_offset, child, dumped, queued, acked,
                     applied, held, replies>>
  BY DEF AddToDbLog, childVars
<1>3. pending \in Op /\ log_buffer \in Seq(Op)
  BY <1>1 DEF TypeInv
<1>4. Unwritten' = log_buffer /\ Unwritten = log_buffer \o << pending >>
  <2>1. Unwritten' = log_buffer
    BY <1>1, <1>3, RestTyped DEF Unwritten
  <2>2. Unwritten = Append(log_buffer, pending)
    BY <1>1, <1>3, RestTyped DEF Unwritten
  <2> QED BY <1>3, <2>1, <2>2, TypedSeq, AppendJoin
<1>5. Log = Log' \o << pending >>
  <2> DEFINE z == << pending >>
  <2>1. IsSeq(file) /\ IsSeq(log_buffer) /\ IsSeq(z)
    BY <1>3, TypedSeq, Single DEF TypeInv
  <2>2. Log = file \o (log_buffer \o z) /\ Log' = file \o log_buffer
    BY <1>1, <1>4 DEF Log
  <2> HIDE DEF z
  <2>3. (file \o log_buffer) \o z = file \o (log_buffer \o z)
    BY <2>1, JoinAssoc, SMTT(60)
  <2>4. Log = Log' \o z
    BY <2>2, <2>3
  <2> QED BY <2>4 DEF z
<1>6. pending.tid \in Tids(Unwritten)
  <2> DEFINE z == << pending >>
  <2>1. z \in Seq(Op) /\ Tids(z) = {pending.tid}
    BY <1>3, Single
  <2> HIDE DEF z
  <2>2. Tids(log_buffer \o z) = Tids(log_buffer) \cup Tids(z)
    BY <1>3, <2>1, TidsJoin
  <2> QED BY <1>4, <2>1, <2>2 DEF z
<1>7. Accepted' = Accepted
  BY <1>2 DEF Accepted, WaitingTids, InHand, Tids
<1>8. TidSets' = TidSets \cup {pending.tid}
  BY <1>1, <1>2 DEF TidSets
<1>9. Mark' = Mark /\ ~Forking /\ ~Forking'
  BY <1>2 DEF Mark, Forking
<1> QED BY <1>1, <1>2, <1>3, <1>4, <1>5, <1>6, <1>7, <1>8, <1>9 DEF Refuses

(* The journal is still one. *)
LEMMA RefusesTyped ==
  ASSUME TypeInv, Refuses
  PROVE  IsSeq(Log') /\ Len(file) <= Len(Log') /\ Len(Log') \in Nat
<1> DEFINE u == Unwritten'
<1>1. Log' = file \o u /\ u \in Seq(Op)
  BY DEF Refuses, Log
<1>2. IsSeq(u) /\ IsSeq(file)
  BY <1>1, TypedSeq DEF TypeInv
<1> HIDE DEF u
<1>3. IsSeq(file \o u) /\ Len(file \o u) = Len(file) + Len(u)
  BY <1>2, Join
<1>4. Len(file) \in Nat /\ Len(u) \in Nat
  BY <1>2, SeqFacts
<1> QED BY <1>1, <1>3, <1>4

(* The part of the journal behind a fork. *)
LEMMA SinceForkIsTail ==
  ASSUME TypeInv, fork_offset # -1
  PROVE  \E k \in 0 .. Len(file) : /\ SinceFork = From(file, k)
                                   /\ fork_offset <= Len(file) => k = fork_offset
<1>1. /\ SinceFork = From(file, fork_offset) /\ IsSeq(file) /\ fork_offset \in Nat
      /\ Len(file) \in Nat /\ Len(file) \in 0 .. Len(file)
  BY SeqFacts DEF SinceFork, From, TypeInv
<1>2. CASE fork_offset \in 0 .. Len(file)
  BY <1>1, <1>2
<1>3. CASE fork_offset \notin 0 .. Len(file)
  <2> DEFINE R == {file[i] : i \in DOMAIN file}
  <2>1. file \in Seq(R)
    BY <1>1 DEF IsSeq
  <2> HIDE DEF R
  <2>2. SinceFork = << >>
    BY <1>1, <1>3, <2>1, SubSeqProperties DEF SinceFork
  <2>3. ~(fork_offset <= Len(file))
    BY <1>1, <1>3
  <2> QED BY <1>1, <2>2, <2>3, NoneBehind
<1> QED BY <1>2, <1>3

(* The dump takes the place of the beginning of the journal. *)
Swaps(a, b) ==
    /\ IsSeq(a) /\ IsSeq(b) /\ Log = a \o b /\ Log' = dump \o b
    /\ fork_offset <= Len(file) => b = From(Log, fork_offset)
    /\ Unwritten' = Unwritten /\ Accepted' = Accepted
    /\ Complete(From(file', offset')) = {}
    /\ child = "exited" /\ child' = "none" /\ held' = dumped /\ lost' = lost \cup queued
    /\ fork_offset # -1 /\ op_tid' = op_tid /\ TidSets' \subseteq TidSets

(* The SIGCHLD handler swaps the files or gives the rewrite up. *)
LEMMA SwapStep ==
  ASSUME TypeInv, Sigchld PROVE \E a, b : Swaps(a, b)
<1>1. /\ child' = "none" /\ file' = dump \o SinceFork
      /\ offset' = IF SinceFork = << >> THEN 0 ELSE Len(file')
      /\ held' = dumped /\ lost' = lost \cup queued
      /\ child = "exited" /\ fork_offset # -1 /\ dumped' = {} /\ queued' = {}
      /\ UNCHANGED <<cqueue, op, main, pending, op_tid, log_buffer, fork_offset, applied,
                     acked, replies>>
  BY DEF Sigchld
<1>2. PICK k \in 0 .. Len(file) : /\ SinceFork = From(file, k)
                                  /\ fork_offset <= Len(file) => k = fork_offset
  BY <1>1, SinceForkIsTail
<1> DEFINE a == SubSeq(file, 1, k)
           c == From(file, k)
           u == Unwritten
           b == c \o u
<1>3. IsSeq(file) /\ IsSeq(u) /\ IsSeq(dump) /\ Complete(dump) = {}
  BY UnwrittenTyped DEF TypeInv
<1>4. IsSeq(a) /\ IsSeq(c) /\ a \o c = file
  BY <1>3, CutFacts, FromFacts, CutJoin
<1>5. From(Log, k) = b
  <2> HIDE DEF u
  <2>1. From(file \o u, k) = From(file, k) \o u
    BY <1>3, FromJoin
  <2> QED BY <2>1 DEF Log, u
<1>6. Unwritten' = u
  BY <1>1 DEF Unwritten
<1> HIDE DEF a, c, u
<1>7. IsSeq(b)
  BY <1>3, <1>4, Join
<1>8. Log = a \o b
  <2>0. IsSeq(a) /\ IsSeq(c) /\ IsSeq(u)
    BY <1>3, <1>4
  <2>1. (a \o c) \o u = a \o (c \o u)
    BY <2>0, JoinAssoc, SMTT(30)
  <2> QED BY <1>4, <2>1 DEF Log, u
<1>9. Log' = dump \o b
  <2>0. IsSeq(dump) /\ IsSeq(c) /\ IsSeq(u)
    BY <1>3, <1>4
  <2>1. (dump \o c) \o u = dump \o (c \o u)
    BY <2>0, JoinAssoc
  <2>2. file' = dump \o c
    BY <1>1, <1>2 DEF c
  <2> QED BY <1>6, <2>1, <2>2 DEF Log
<1>10. Complete(From(file', offset')) = {}
  <2>1. file' = dump \o c /\ IsSeq(file')
    BY <1>1, <1>2, <1>3, <1>4, Join DEF c
  <2>2. CASE SinceFork # << >>
    BY <1>1, <2>1, <2>2, NoneBehind, Empty
  <2>3. CASE SinceFork = << >>
    <3>1. file' = dump /\ offset' = 0
      BY <1>1, <1>3, <2>3, EmptyJoin
    <3>2. From(dump, 0) = dump
      BY <1>3, AllBehind
    <3> QED BY <1>3, <3>1, <3>2
  <2> QED BY <2>2, <2>3
<1>11. Accepted' = Accepted
  BY <1>1 DEF Accepted, WaitingTids, InHand, Tids
<1>12. fork_offset <= Len(file) => b = From(Log, fork_offset)
  BY <1>2, <1>5
<1>13. TidSets' \subseteq TidSets
  BY <1>1 DEF TidSets
<1>14. Swaps(a, b)
  BY <1>1, <1>3, <1>4, <1>6, <1>7, <1>8, <1>9, <1>10, <1>11, <1>12, <1>13 DEF Swaps, u
<1> QED BY <1>14

(* The child's copy: what was applied is in the dump, what was queued is   *)
(* not.                                                                    *)
Forks ==
    /\ child' = "running" /\ Forking' /\ Mark' = offset' /\ dumped' = applied
    /\ Accepted = applied \cup Tids(cqueue) /\ queued' = Tids(cqueue) \ Tids(Unwritten')
    /\ Unwritten' \in Seq(Op) /\ IsSeq(file') /\ offset' \in 0 .. Len(file')
    /\ ~WriteMayFail => Unwritten' = << >>

(* A fork takes the records of the file for dumped. *)
LEMMA ForkStep ==
  ASSUME TypeInv, Fork PROVE Steady /\ Forks
<1>1. /\ pending' = NoOp /\ log_buffer' \in Seq(Op) /\ Moves
      /\ ~WriteMayFail => log_buffer' = << >>
  BY LoopMoves
<1>2. /\ child' = "running" /\ main' = "set_pid" /\ dumped' = applied
      /\ queued' = Tids(cqueue) \ Tids(log_buffer')
      /\ \A w \in Worker : op[w] = NoOp
      /\ UNCHANGED <<cqueue, op, op_tid, replies, held, lost, acked, applied>>
  BY DEF Fork, histVars
<1>3. Accepted' = Accepted
  BY <1>2 DEF Accepted, WaitingTids, InHand, Tids
<1>4. Accepted = applied \cup Tids(cqueue)
  <2>1. InHand = {}
    BY <1>2 DEF InHand
  <2> QED BY <2>1 DEF Accepted, WaitingTids
<1>5. TidSets' \subseteq TidSets \cup Accepted
  BY <1>2, <1>4 DEF TidSets
<1>6. Steady
  BY <1>1, <1>2, <1>3, <1>5, WritingStep
<1>7. Unwritten' = log_buffer'
  BY <1>1, RestTyped DEF Unwritten
<1>8. IsSeq(file') /\ offset' \in 0 .. Len(file')
  BY <1>1, MovesKeep
<1>9. Forking' /\ Mark' = offset'
  BY <1>2 DEF Forking, Mark
<1> QED BY <1>1, <1>2, <1>4, <1>6, <1>7, <1>8, <1>9 DEF Forks

(* A dump that was not written in full. *)
Damages ==
    /\ child = "running" /\ child' = "exited" /\ dumped' = {} /\ queued' = queued \cup dumped
    /\ Mark' = Mark /\ (PromptParent => ~Forking') /\ (Forking' <=> Forking)

(* A dump that is cut short loses what it should hold. *)
LEMMA DamageStep ==
  ASSUME TypeInv, DamagedDump PROVE Steady /\ Damages
<1>1. /\ child = "running" /\ child' = "exited" /\ dumped' = {} /\ queued' = queued \cup dumped
      /\ PromptParent => main \notin {"set_pid", "set_offset"}
      /\ UNCHANGED <<cqueue, op, main, pending, op_tid, replies, log_buffer, fork_offset,
                     file, offset, acked, applied, held, lost>>
  BY DEF DamagedDump, memVars, fileVars, histVars
<1>2. Accepted' = Accepted
  BY <1>1 DEF Accepted, WaitingTids, InHand, Tids
<1>3. TidSets' \subseteq TidSets \cup Accepted
  BY <1>1 DEF TidSets
<1>4. op_tid' \in Nat /\ op_tid <= op_tid'
  BY <1>1, ServerAssumption DEF TypeInv
<1>5. Steady
  BY <1>1, <1>2, <1>3, <1>4, QuietStep
<1> QED BY <1>1, <1>5 DEF Damages, Forking, Mark

Restart == Crash \/ CrashInWrite \/ Shutdown

(* A request that finds room in the queue. *)
Accepts(r) == Dispatch(r) /\ Len(cqueue) < Capacity

(* What any action does to the journal, by kind. *)
LEMMA Steps ==
  ASSUME TypeInv, [Next]_vars
  PROVE  \/ Steady /\ (ChildKept \/ Forks \/ Damages)
         \/ \E r \in Request : Accepts(r)
         \/ Refuses \/ Sigchld \/ Restart
<1>0. op_tid \in Nat
  BY ServerAssumption DEF TypeInv
<1>1. ASSUME NEW r \in Request, Dispatch(r), ~(Len(cqueue) < Capacity)
      PROVE  Steady /\ ChildKept
  <2>1. /\ op_tid' = op_tid + 1
        /\ UNCHANGED <<cqueue, op, main, pending, replies, log_buffer, fork_offset, file,
                       offset, child, dumped, queued, acked, applied, held, lost>>
    BY <1>1 DEF Dispatch, fileVars, childVars, histVars
  <2>2. Accepted' = Accepted
    BY <2>1 DEF Accepted, WaitingTids, InHand, Tids
  <2>3. TidSets' = TidSets
    BY <2>1 DEF TidSets
  <2>4. op_tid' \in Nat /\ op_tid <= op_tid'
    BY <1>0, <2>1
  <2>5. Steady
    BY <2>1, <2>2, <2>3, <2>4, QuietStep
  <2> QED BY <2>1, <2>5 DEF ChildKept, Mark, Forking
<1>2. ASSUME AddToDbLog, Logged(pending) PROVE Steady /\ ChildKept
  <2>1. /\ main = "log" /\ main' = "loop"
        /\ UNCHANGED <<cqueue, op, op_tid, fork_offset, child, dumped, queued, acked,
                       applied, held, replies>>
    BY <1>2 DEF AddToDbLog, childVars
  <2>2. pending' = NoOp /\ log_buffer' \in Seq(Op) /\ Moves /\ lost' = lost
    BY <1>2, AddMoves
  <2>3. Accepted' = Accepted
    BY <2>1 DEF Accepted, WaitingTids, InHand, Tids
  <2>4. TidSets' = TidSets
    BY <2>1, <2>2 DEF TidSets
  <2>5. Steady
    BY <2>1, <2>2, <2>3, <2>4, WritingStep
  <2> QED BY <2>1, <2>5 DEF ChildKept, Mark, Forking
<1>3. ASSUME FlushLogDb \/ ForkFailed PROVE Steady /\ ChildKept
  <2>1. /\ main \in {"loop", "rewrite"} /\ main' = "loop"
        /\ UNCHANGED <<cqueue, op, op_tid, fork_offset, child, dumped, queued, acked,
                       applied, held, lost, replies>>
    BY <1>3 DEF FlushLogDb, ForkFailed, childVars, histVars
  <2>2. pending' = NoOp /\ log_buffer' \in Seq(Op) /\ Moves
    BY <1>3, LoopMoves
  <2>3. Accepted' = Accepted
    BY <2>1 DEF Accepted, WaitingTids, InHand, Tids
  <2>4. TidSets' = TidSets
    BY <2>1 DEF TidSets
  <2>5. Steady
    BY <2>1, <2>2, <2>3, <2>4, WritingStep
  <2> QED BY <2>1, <2>5 DEF ChildKept, Mark, Forking
<1>4. ASSUME NEW w \in Worker, Shift(w) \/ Handle(w) PROVE Steady /\ ChildKept
  <2>1. /\ UNCHANGED <<main, op_tid, fork_offset, file, offset, log_buffer, pending, child,
                       dumped, queued, acked, held, lost>>
    BY <1>4 DEF Shift, Handle, fileVars, childVars, histVars
  <2>2. Accepted' = Accepted /\ TidSets' \subseteq TidSets \cup Accepted
    <3>1. CASE Shift(w)
      <4>1. replies' = replies
        BY <3>1 DEF Shift
      <4> QED BY <2>1, <3>1, <4>1, ShiftEffect DEF TidSets
    <3>2. CASE Handle(w)
      BY <2>1, <3>2, HandleEffect DEF TidSets
    <3> QED BY <1>4, <3>1, <3>2
  <2>3. Steady
    BY <1>0, <2>1, <2>2, QuietStep
  <2> QED BY <2>1, <2>3 DEF ChildKept, Mark, Forking
<1>5. ASSUME ConsumerCb \/ ExpirationCron \/ Rewrite \/ Tick \/ UNCHANGED vars
      PROVE  Steady /\ ChildKept
  <2>1. /\ (main' = main \/ (main = "loop" /\ main' = "rewrite"))
        /\ UNCHANGED <<cqueue, op, op_tid, fork_offset, file, offset, log_buffer, pending,
                       child, dumped, queued, applied, held, lost>>
        /\ acked' \cup replies' \subseteq acked \cup replies
    BY <1>5 DEF ConsumerCb, ExpirationCron, Rewrite, Tick, vars, memVars, fileVars,
                childVars, histVars
  <2>2. Accepted' = Accepted
    BY <2>1 DEF Accepted, WaitingTids, InHand, Tids
  <2>3. TidSets' \subseteq TidSets
    BY <2>1 DEF TidSets
  <2>4. Steady
    BY <1>0, <2>1, <2>2, <2>3, QuietStep
  <2> QED BY <2>1, <2>4 DEF ChildKept, Mark, Forking
<1>6. ASSUME SetPid \/ SetOffset PROVE Steady /\ ChildKept
  <2>1. /\ UNCHANGED <<cqueue, op, op_tid, file, offset, log_buffer, pending,
                       child, dumped, queued, applied, held, lost, acked, replies>>
        /\ \/ main = "set_pid" /\ main' = "set_offset" /\ fork_offset' = fork_offset
           \/ main = "set_offset" /\ main' = "loop" /\ fork_offset' = offset
    BY <1>6 DEF SetPid, SetOffset, fileVars, childVars, histVars
  <2>2. Accepted' = Accepted
    BY <2>1 DEF Accepted, WaitingTids, InHand, Tids
  <2>3. TidSets' \subseteq TidSets
    BY <2>1 DEF TidSets
  <2>4. Steady
    BY <1>0, <2>1, <2>2, <2>3, QuietStep
  <2> QED BY <2>1, <2>4 DEF ChildKept, Mark, Forking
<1>7. ASSUME ChildExit \/ SigchldKilled PROVE Steady /\ ChildKept
  <2>1. /\ UNCHANGED <<cqueue, op, op_tid, main, fork_offset, file, offset, log_buffer, pending,
                       dumped, queued, applied, held, lost, acked, replies>>
        /\ child' # "none" => child # "none"
    BY <1>7 DEF ChildExit, SigchldKilled, memVars, fileVars, histVars
  <2>2. Accepted' = Accepted
    BY <2>1 DEF Accepted, WaitingTids, InHand, Tids
  <2>3. TidSets' \subseteq TidSets
    BY <2>1 DEF TidSets
  <2>4. Steady
    BY <1>0, <2>1, <2>2, <2>3, QuietStep
  <2>5. Mark' = Mark /\ (Forking' <=> Forking)
    BY <2>1 DEF Mark, Forking
  <2>6. ChildKept
    <3>1. CASE ChildExit
      <4>1. PromptParent => ~Forking
        BY <3>1 DEF ChildExit, Forking
      <4> QED BY <2>1, <2>5, <4>1 DEF ChildKept
    <3>2. CASE SigchldKilled
      BY <3>2 DEF SigchldKilled, ChildKept
    <3> QED BY <1>7, <3>1, <3>2
  <2> QED BY <2>4, <2>6
<1>8. ASSUME SwapRefused PROVE Steady /\ ChildKept
  <2>1. /\ UNCHANGED <<cqueue, op, op_tid, file, log_buffer, pending, applied, held, lost,
                       acked, replies>>
        /\ child' = "none" /\ offset' = Len(file) /\ dumped' = {} /\ queued' = {}
    BY <1>8 DEF SwapRefused, histVars
  <2>2. Accepted' = Accepted
    BY <2>1 DEF Accepted, WaitingTids, InHand, Tids
  <2>3. TidSets' \subseteq TidSets
    BY <2>1 DEF TidSets
  <2>4. Unwritten' = Unwritten
    BY <2>1 DEF Unwritten
  <2>5. Log' = Log
    BY <2>1, <2>4 DEF Log
  <2>6. Len(file) \in Nat /\ Complete(From(file', offset')) = {}
    BY <2>1, SeqFacts, NoneBehind, Empty DEF TypeInv
  <2>7. Steady
    BY <1>0, <2>1, <2>2, <2>3, <2>4, <2>5, <2>6 DEF Steady
  <2> QED BY <2>1, <2>7 DEF ChildKept
<1>9. ASSUME AddToDbLog, ~Logged(pending) PROVE Refuses
  BY <1>9, RefusedStep
<1>10. ASSUME Fork PROVE Steady /\ Forks
  BY <1>10, ForkStep
<1>11. ASSUME DamagedDump PROVE Steady /\ Damages
  BY <1>11, DamageStep
<1>12. ASSUME NEW r \in Request, Dispatch(r)
       PROVE  (Steady /\ ChildKept) \/ Accepts(r)
  BY <1>1, <1>12 DEF Accepts
<1>13. Restart <=> Crash \/ CrashInWrite \/ Shutdown
  BY DEF Restart
<1> QED BY <1>2, <1>3, <1>4, <1>5, <1>6, <1>7, <1>8, <1>9, <1>10, <1>11, <1>12, <1>13
        DEF Next, MainStep

(* A new process on the journal of the old one. *)
Reboots(j, v, r, x) ==
    /\ Stops(j, v) /\ Boots(j, r, x) /\ IsSeq(j)
    /\ Shutdown => v = << >> /\ j = file \o log_buffer
    /\ child' = "none" /\ cqueue' = << >> /\ log_buffer' = << >> /\ pending' = NoOp
    /\ replies' = {} /\ dumped' = {} /\ queued' = {} /\ UNCHANGED <<op_tid, acked, held>>

(* An end of the process and the next start, as one. *)
LEMMA RestartStep ==
  ASSUME TypeInv, Restart PROVE \E j, v, r, x : Reboots(j, v, r, x)
<1>1. PICK j, v : Stops(j, v) /\ Boot(j) /\ (Shutdown => v = << >> /\ j = file \o log_buffer)
  BY Restarts DEF Restart
<1>2. IsSeq(j)
  BY <1>1, StopKeeps
<1>3. PICK r, x : Boots(j, r, x)
  BY <1>1, <1>2, BootEffect
<1>4. /\ child' = "none" /\ cqueue' = << >> /\ log_buffer' = << >> /\ pending' = NoOp
      /\ replies' = {} /\ dumped' = {} /\ queued' = {} /\ UNCHANGED <<op_tid, acked, held>>
  BY <1>1 DEF Boot
<1> QED BY <1>1, <1>2, <1>3, <1>4 DEF Reboots
-----------------------------------------------------------------------------
(* Tids are given in order *)

(* No tid is used at first. *)
LEMMA TidInit == ASSUME Init PROVE TidInv /\ OrderInv
<1>1. log_buffer = << >> /\ pending = NoOp /\ file = << >> /\ cqueue = << >>
      /\ \A w \in Worker : op[w] = NoOp
  BY DEF Init
<1>2. Unwritten = << >>
  BY <1>1, RestTyped, EmptySeq DEF Unwritten
<1>3. Log = << >>
  BY <1>1, <1>2, Empty, EmptyJoin DEF Log
<1>4. InHand = {}
  BY <1>1 DEF InHand
<1>5. Accepted = {}
  BY <1>1, <1>4, Empty DEF Accepted, WaitingTids, Init
<1>6. TidSets = {}
  BY DEF TidSets, Init
<1> QED BY <1>3, <1>5, <1>6, Empty DEF TidInv, OrderInv

(* Tids are given once and rise along the journal. *)
LEMMA TidStep ==
  ASSUME TypeInv, TidInv, OrderInv, [Next]_vars PROVE TidInv' /\ OrderInv'
<1>0. /\ op_tid \in Nat /\ TidSets \cup Accepted \cup Complete(Log) \subseteq 1 .. op_tid
      /\ Rising(Log) /\ IsSeq(Log) /\ IsSeq(dump) /\ Complete(dump) = {}
  BY ServerAssumption, UnwrittenTyped DEF TypeInv, TidInv, OrderInv
<1>1. ASSUME Steady PROVE TidInv' /\ OrderInv'
  <2>1. 1 .. op_tid \subseteq 1 .. op_tid'
    BY <1>0, <1>1 DEF Steady
  <2>2. /\ Log' = Log /\ Accepted' = Accepted /\ TidSets' \subseteq TidSets \cup Accepted
    BY <1>1 DEF Steady
  <2> QED BY <1>0, <2>1, <2>2 DEF TidInv, OrderInv
<1>2. ASSUME NEW r \in Request, Accepts(r) PROVE TidInv' /\ OrderInv'
  <2> DEFINE o == [r EXCEPT !.tid = op_tid + 1]
             z == << o >>
  <2>1. Dispatch(r) /\ Len(cqueue) < Capacity
    BY <1>2 DEF Accepts
  <2>2. /\ op_tid' = op_tid + 1 /\ Log' = Log \o z /\ Complete(z) = {op_tid + 1}
        /\ Accepted' = Accepted \cup {op_tid + 1}
    BY <2>1, DispatchEffect
  <2>3. IsSeq(z) /\ Rising(z)
    BY Single
  <2>4. TidSets' = TidSets
    BY <2>1 DEF Dispatch, childVars, histVars, TidSets
  <2> HIDE DEF z
  <2>5. Complete(Log') = Complete(Log) \cup {op_tid + 1}
    BY <1>0, <2>2, <2>3, CompleteJoin
  <2>6. 1 .. op_tid' = 1 .. op_tid \cup {op_tid + 1} /\ \A a \in 1 .. op_tid : a < op_tid + 1
    BY <1>0, <2>2
  <2>7. Before(Complete(Log), Complete(z))
    BY <1>0, <2>2, <2>6 DEF Before
  <2>8. Rising(Log')
    BY <1>0, <2>2, <2>3, <2>7, RisingJoin
  <2> QED BY <1>0, <2>2, <2>4, <2>5, <2>6, <2>8 DEF TidInv, OrderInv
<1>3. ASSUME Refuses PROVE TidInv' /\ OrderInv'
  <2> DEFINE z == << pending >>
             l == Log'
  <2>1. /\ Log = l \o z /\ Accepted' = Accepted /\ op_tid' = op_tid
        /\ TidSets' = TidSets \cup {pending.tid} /\ pending.tid \in Tids(Unwritten)
    BY <1>3 DEF Refuses
  <2>2. IsSeq(z)
    BY Single
  <2>3. IsSeq(l)
    BY <1>3, RefusesTyped
  <2> HIDE DEF z, l
  <2>4. Complete(l) \subseteq Complete(Log)
    BY <2>1, <2>2, <2>3, CompleteJoin
  <2>5. Rising(l)
    BY <1>0, <2>1, <2>2, <2>3, RisingJoin
  <2>6. pending.tid \in Complete(Log)
    BY <2>1, UnwrittenTyped
  <2>7. TidSets' \cup Accepted' \cup Complete(l) \subseteq 1 .. op_tid'
    BY <1>0, <2>1, <2>4, <2>6
  <2> QED BY <2>5, <2>7 DEF TidInv, OrderInv, l
<1>4. ASSUME Sigchld PROVE TidInv' /\ OrderInv'
  <2>1. PICK a, b : Swaps(a, b)
    BY <1>4, SwapStep
  <2>2. /\ IsSeq(a) /\ IsSeq(b) /\ Log = a \o b /\ Log' = dump \o b
        /\ Accepted' = Accepted /\ op_tid' = op_tid /\ TidSets' \subseteq TidSets
    BY <2>1 DEF Swaps
  <2>3. Rising(b) /\ Complete(Log') = Complete(b) /\ Complete(b) \subseteq Complete(Log)
    BY <1>0, <2>2, RisingJoin, CompleteJoin, ZenonT(60)
  <2>4. Rising(dump)
    BY <1>0, SeqFacts, CompleteMember DEF Rising
  <2>5. Before(Complete(dump), Complete(b))
    BY <1>0 DEF Before
  <2>6. Rising(Log')
    BY <1>0, <2>2, <2>3, <2>4, <2>5, RisingJoin
  <2> QED BY <1>0, <2>2, <2>3, <2>6 DEF TidInv, OrderInv
<1>5. ASSUME Restart PROVE TidInv' /\ OrderInv'
  <2>1. PICK j, v, r, x : Reboots(j, v, r, x)
    BY <1>5, RestartStep
  <2>2. Complete(j) \subseteq Complete(Log) /\ Rising(j) /\ IsSeq(j)
    <3>1. Stops(j, v)
      BY <2>1 DEF Reboots
    <3> QED BY <1>0, <3>1, StopKeeps
  <2>3. /\ Accepted' = held \cup Complete(r) /\ applied' = Accepted'
        /\ lost' = lost \cup (Complete(j) \ applied') /\ Log' = file'
        /\ Complete(file') \subseteq Complete(j) /\ (Rising(j) => Rising(file'))
        /\ IsSeq(r) /\ IsSeq(x) /\ j = r \o x
        /\ replies' = {} /\ dumped' = {} /\ queued' = {} /\ UNCHANGED <<op_tid, acked, held>>
    BY <2>1 DEF Reboots, Boots
  <2>4. Complete(r) \subseteq Complete(j) /\ Rising(r)
    BY <2>2, <2>3, RisingJoin, CompleteJoin
  <2>5. Complete(Log') \subseteq Complete(j) /\ Rising(Log')
    BY <2>2, <2>3, <2>4
  <2>6. TidSets' \subseteq TidSets \cup Complete(j)
    BY <2>3, <2>4 DEF TidSets
  <2>7. Accepted' \subseteq TidSets \cup Complete(j)
    BY <2>3, <2>4 DEF TidSets
  <2> QED BY <1>0, <2>2, <2>3, <2>5, <2>6, <2>7 DEF TidInv, OrderInv
<1> QED BY <1>1, <1>2, <1>3, <1>4, <1>5, Steps

(* Types of the state, for every value of the constants. *)
THEOREM ServerTypes == Spec => []TypeOK
<1>1. Init => TypeInv /\ TidInv /\ OrderInv
  BY TypeInit, TidInit
<1>2. TypeInv /\ TidInv /\ OrderInv /\ [Next]_vars => (TypeInv /\ TidInv /\ OrderInv)'
  BY TypeStep, TidStep
<1>3. TypeInv /\ TidInv /\ OrderInv => TypeOK
  <2> SUFFICES ASSUME TypeInv, TidInv PROVE TypeOK
    OBVIOUS
  <2>1. TidSets \subseteq 1 .. op_tid
    BY DEF TidInv
  <2> QED BY <2>1 DEF TypeInv, TypeOK, TidSets
<1> QED BY <1>1, <1>2, <1>3, PTL DEF Spec
-----------------------------------------------------------------------------
(* What was accepted is kept *)

(* An accepted request puts a new tid at the end of the journal. *)
LEMMA NewTid ==
  ASSUME TypeInv, NEW r \in Request, Accepts(r)
  PROVE  \E z : /\ IsSeq(z) /\ Log' = Log \o z /\ Complete(z) = {op_tid + 1}
                /\ Accepted' = Accepted \cup {op_tid + 1}
                /\ Unwritten' = Unwritten \o z
                /\ Tids(Unwritten') = Tids(Unwritten) \cup {op_tid + 1}
                /\ Mark' = Mark /\ ~Forking /\ ~Forking' /\ op_tid \in Nat
                /\ UNCHANGED <<held, lost, child, dumped, queued, file, offset, applied>>
<1> DEFINE o == [r EXCEPT !.tid = op_tid + 1]
           z == << o >>
<1>1. Dispatch(r) /\ Len(cqueue) < Capacity
  BY DEF Accepts
<1>2. /\ Log' = Log \o z /\ Complete(z) = {op_tid + 1}
      /\ Accepted' = Accepted \cup {op_tid + 1} /\ Unwritten' = Unwritten \o z
      /\ Tids(Unwritten') = Tids(Unwritten) \cup {op_tid + 1}
  BY <1>1, DispatchEffect
<1>3. IsSeq(z)
  BY Single
<1>4. /\ main = "loop" /\ main' = "log" /\ fork_offset' = fork_offset
      /\ UNCHANGED <<held, lost, child, dumped, queued, file, offset, applied>>
  BY <1>1 DEF Dispatch, fileVars, childVars, histVars
<1>5. Mark' = Mark /\ ~Forking /\ ~Forking'
  BY <1>4 DEF Mark, Forking
<1>6. op_tid \in Nat
  BY ServerAssumption DEF TypeInv
<1> HIDE DEF z
<1> QED BY <1>2, <1>3, <1>4, <1>5, <1>6

(* What was accepted is in the journal, held by the dump at its head, or   *)
(* lost.                                                                   *)
LEMMA KeptStep ==
  ASSUME TypeInv, KeptInv, RewriteInv, [Next]_vars PROVE KeptInv'
<1>0. Accepted \ lost \subseteq held \cup Complete(Log) /\ IsSeq(Log)
  BY UnwrittenTyped DEF KeptInv
<1>1. ASSUME Steady PROVE KeptInv'
  BY <1>0, <1>1 DEF Steady, KeptInv
<1>2. ASSUME NEW r \in Request, Accepts(r) PROVE KeptInv'
  <2>1. PICK z : /\ IsSeq(z) /\ Log' = Log \o z /\ Complete(z) = {op_tid + 1}
                 /\ Accepted' = Accepted \cup {op_tid + 1} /\ UNCHANGED <<held, lost>>
    BY <1>2, NewTid
  <2>2. Complete(Log') = Complete(Log) \cup {op_tid + 1}
    BY <1>0, <2>1, CompleteJoin
  <2> QED BY <1>0, <2>1, <2>2 DEF KeptInv
<1>3. ASSUME Refuses PROVE KeptInv'
  <2> DEFINE z == << pending >>
             l == Log'
  <2>1. /\ Log = l \o z /\ Accepted' = Accepted /\ held' = held
        /\ lost' = lost \cup {pending.tid}
    BY <1>3 DEF Refuses
  <2>2. IsSeq(z) /\ Complete(z) \subseteq {pending.tid}
    <3>1. z \in Seq(Op)
      BY <1>3 DEF Refuses
    <3> QED BY <3>1, Single, OpSeq
  <2>3. IsSeq(l)
    BY <1>3, RefusesTyped
  <2> HIDE DEF z, l
  <2>4. Complete(Log) = Complete(l) \cup Complete(z)
    BY <2>1, <2>2, <2>3, CompleteJoin
  <2> QED BY <1>0, <2>1, <2>2, <2>4 DEF KeptInv, l
<1>4. ASSUME Sigchld PROVE KeptInv'
  <2>1. PICK a, b : Swaps(a, b)
    BY <1>4, SwapStep
  <2>2. /\ IsSeq(b) /\ Log' = dump \o b /\ Accepted' = Accepted /\ held' = dumped
        /\ lost' = lost \cup queued /\ child = "exited"
        /\ fork_offset <= Len(file) => b = From(Log, fork_offset)
    BY <2>1 DEF Swaps
  <2>3. /\ Mark = fork_offset /\ Mark \in 0 .. Len(file)
        /\ Accepted \ (lost \cup queued) \subseteq dumped \cup Complete(From(Log, Mark))
    BY <2>2 DEF RewriteInv, Mark
  <2>4. b = From(Log, Mark)
    <3>1. fork_offset <= Len(file)
      BY <2>3, UnwrittenTyped
    <3> QED BY <2>2, <2>3, <3>1
  <2>5. Complete(Log') = Complete(b)
    <3>1. IsSeq(dump) /\ Complete(dump) = {}
      BY DEF TypeInv
    <3>2. Complete(dump \o b) = Complete(dump) \cup Complete(b)
      BY <2>2, <3>1, CompleteJoin
    <3> QED BY <2>2, <3>1, <3>2
  <2> QED BY <2>2, <2>3, <2>4, <2>5 DEF KeptInv
<1>5. ASSUME Restart PROVE KeptInv'
  <2>1. PICK j, v, r, x : Reboots(j, v, r, x)
    BY <1>5, RestartStep
  <2>2. /\ Accepted' = held \cup Complete(r) /\ Log' = file' /\ held' = held
        /\ Complete(r) \subseteq Complete(file')
    BY <2>1 DEF Reboots, Boots
  <2> QED BY <2>2 DEF KeptInv
<1> QED BY <1>1, <1>2, <1>3, <1>4, <1>5, Steps

(* While a child runs: what was accepted is in its dump, behind its mark,  *)
(* queued at the fork, or lost, as long as the parent of the fork is       *)
(* prompt.                                                                 *)
LEMMA RewriteStep ==
  ASSUME PromptParent, TypeInv, TypeInv', RewriteInv, [Next]_vars PROVE RewriteInv'
<1>0. Len(file) \in Nat /\ Len(file') \in Nat /\ IsSeq(Log) /\ Len(Log) \in Nat
      /\ Len(file) <= Len(Log)
  BY UnwrittenTyped, SeqFacts DEF TypeInv
<1> SUFFICES ASSUME child' # "none"
             PROVE  /\ Forking' => child' = "running"
                    /\ Mark' \in 0 .. Len(file')
                    /\ Accepted' \ (lost' \cup queued')
                         \subseteq dumped' \cup Complete(From(Log', Mark'))
  BY DEF RewriteInv, Forking
<1>1. child # "none" => /\ Forking => child = "running"
                        /\ Mark \in 0 .. Len(file)
                        /\ Accepted \ (lost \cup queued)
                             \subseteq dumped \cup Complete(From(Log, Mark))
  BY DEF RewriteInv, Forking
<1>2. CASE Steady /\ ChildKept
  <2>1. /\ Log' = Log /\ Accepted' = Accepted /\ lost' = lost /\ Len(file) <= Len(file')
        /\ child # "none" /\ Mark' = Mark /\ UNCHANGED <<dumped, queued>>
        /\ Forking' => Forking /\ child' = child
    BY <1>2 DEF Steady, ChildKept
  <2>2. Mark' \in 0 .. Len(file')
    BY <1>0, <1>1, <2>1
  <2> QED BY <1>1, <2>1, <2>2
<1>3. CASE Steady /\ Forks
  <2> DEFINE f == file'
             u == Unwritten'
             k == offset'
  <2>1. /\ child' = "running" /\ Mark' = k /\ dumped' = applied
        /\ Accepted = applied \cup Tids(cqueue) /\ queued' = Tids(cqueue) \ Tids(u)
        /\ u \in Seq(Op) /\ IsSeq(f) /\ k \in 0 .. Len(f)
        /\ Accepted' = Accepted /\ Log' = f \o u
    BY <1>3 DEF Steady, Forks, Log
  <2> HIDE DEF f, u, k
  <2>2. IsSeq(u) /\ Complete(u) = Tids(u)
    BY <2>1, OpSeq
  <2>3. From(f \o u, k) = From(f, k) \o u
    BY <2>1, <2>2, FromJoin
  <2>4. IsSeq(From(f, k))
    BY <2>1, FromFacts
  <2> DEFINE g == From(f, k)
  <2> HIDE DEF g
  <2>5. Complete(g \o u) = Complete(g) \cup Tids(u)
    BY <2>2, <2>4, CompleteJoin DEF g
  <2>6. Complete(From(Log', Mark')) = Complete(g) \cup Tids(u)
    BY <2>1, <2>3, <2>5 DEF g
  <2>7. Mark' \in 0 .. Len(file')
    BY <2>1 DEF f
  <2> QED BY <2>1, <2>6, <2>7
<1>4. CASE Steady /\ Damages
  <2>1. /\ Log' = Log /\ Accepted' = Accepted /\ lost' = lost /\ Len(file) <= Len(file')
        /\ child # "none" /\ Mark' = Mark /\ dumped' = {} /\ queued' = queued \cup dumped
        /\ ~Forking'
    BY <1>4 DEF Steady, Damages
  <2>2. Mark' \in 0 .. Len(file')
    BY <1>0, <1>1, <2>1
  <2> QED BY <1>1, <2>1, <2>2
<1>5. ASSUME NEW r \in Request, Accepts(r)
      PROVE  /\ Forking' => child' = "running"
             /\ Mark' \in 0 .. Len(file')
             /\ Accepted' \ (lost' \cup queued') \subseteq dumped' \cup Complete(From(Log', Mark'))
  <2>1. PICK z : /\ IsSeq(z) /\ Log' = Log \o z /\ Complete(z) = {op_tid + 1}
                 /\ Accepted' = Accepted \cup {op_tid + 1}
                 /\ Mark' = Mark /\ ~Forking'
                 /\ UNCHANGED <<lost, child, dumped, queued, file>>
    BY <1>5, NewTid
  <2>2. Mark \in 0 .. Len(Log)
    BY <1>0, <1>1, <2>1
  <2> DEFINE g == From(Log, Mark)
  <2>3. From(Log \o z, Mark) = g \o z /\ IsSeq(g)
    BY <1>0, <2>1, <2>2, FromJoin, FromFacts
  <2> HIDE DEF g
  <2>4. Complete(g \o z) = Complete(g) \cup {op_tid + 1}
    BY <2>1, <2>3, CompleteJoin
  <2> QED BY <1>1, <2>1, <2>3, <2>4 DEF g
<1>6. CASE Refuses
  <2> DEFINE z == << pending >>
             l == Log'
  <2>1. /\ Log = l \o z /\ Accepted' = Accepted /\ lost' = lost \cup {pending.tid}
        /\ child' = child /\ Mark' = Mark /\ UNCHANGED <<dumped, queued, file>> /\ ~Forking'
    BY <1>6 DEF Refuses
  <2>2. IsSeq(z) /\ Complete(z) \subseteq {pending.tid}
    <3>1. z \in Seq(Op)
      BY <1>6 DEF Refuses
    <3> QED BY <3>1, Single, OpSeq
  <2>3. IsSeq(l) /\ Len(file) <= Len(l) /\ Len(l) \in Nat
    BY <1>6, RefusesTyped
  <2>4. Mark \in 0 .. Len(l)
    BY <1>0, <1>1, <2>1, <2>3
  <2> HIDE DEF z, l
  <2> DEFINE g == From(l, Mark)
  <2>5. From(l \o z, Mark) = g \o z /\ IsSeq(g)
    BY <2>2, <2>3, <2>4, FromJoin, FromFacts
  <2> HIDE DEF g
  <2>6. Complete(g \o z) = Complete(g) \cup Complete(z)
    BY <2>2, <2>5, CompleteJoin
  <2>7. Complete(From(Log', Mark')) = Complete(g)
    BY <2>1 DEF l, g
  <2> QED BY <1>1, <2>1, <2>2, <2>5, <2>6, <2>7
<1>7. CASE Sigchld
  BY <1>7 DEF Sigchld
<1>8. CASE Restart
  BY <1>8, RestartStep DEF Reboots
<1> QED BY <1>2, <1>3, <1>4, <1>5, <1>6, <1>7, <1>8, Steps

(* Of an intact file all complete records are read again, unless one that  *)
(* is refused comes before.                                                *)
LEMMA NothingUnread ==
  ASSUME TypeInv, Intact, main' # "replay", NEW j, NEW v, NEW r, NEW x, Reboots(j, v, r, x)
  PROVE  Complete(x) = {}
<1>1. PICK w, torn : /\ w \in Seq(Op) /\ torn \in {<< >>, << Torn >>} /\ j = (file \o w) \o torn
  BY DEF Reboots, Stops
<1>2. /\ IsSeq(r) /\ IsSeq(x) /\ j = r \o x /\ IsSeq(j)
      /\ x = << >> \/ (Len(r) + 1 \in 1 .. Len(j) /\ j[Len(r) + 1] = Torn)
  BY DEF Reboots, Boots
<1> DEFINE f == file \o w
<1>3. IsSeq(file) /\ IsSeq(w) /\ IsSeq(torn)
  BY <1>1, TypedSeq, Empty, Single DEF TypeInv
<1>4. /\ IsSeq(f) /\ Len(f) = Len(file) + Len(w)
      /\ \A i \in 1 .. Len(file) + Len(w) : f[i] = IF i <= Len(file) THEN file[i] ELSE w[i - Len(file)]
  BY <1>3, Join
<1>5. Len(file) \in Nat /\ Len(w) \in Nat /\ Len(f) \in Nat /\ Len(j) \in Nat
      /\ Len(r) \in Nat /\ Len(x) \in Nat
  BY <1>2, <1>3, <1>4, SeqFacts
<1> HIDE DEF f
<1>6. \A i \in 1 .. Len(f) : f[i] # Torn
  <2> TAKE i \in 1 .. Len(f)
  <2>1. CASE i <= Len(file)
    <3>1. i \in 1 .. Len(file) /\ f[i] = file[i]
      BY <1>4, <1>5, <2>1
    <3>2. DOMAIN file = 1 .. Len(file)
      BY <1>3, SeqFacts
    <3> QED BY <3>1, <3>2 DEF Intact
  <2>2. CASE ~(i <= Len(file))
    <3>1. i - Len(file) \in 1 .. Len(w) /\ f[i] = w[i - Len(file)]
      BY <1>4, <1>5, <2>2
    <3>2. \A k \in 1 .. Len(w) : w[k] \in Op
      BY <1>1, TypedSeq
    <3> QED BY <3>1, <3>2, OpFacts
  <2> QED BY <2>1, <2>2
<1>7. /\ Len(j) = Len(f) + Len(torn) /\ \A i \in 1 .. Len(f) : j[i] = f[i]
  <2>1. j = f \o torn
    BY <1>1 DEF f
  <2> QED BY <1>3, <1>4, <2>1, Join
<1>8. /\ Len(j) = Len(r) + Len(x) /\ \A i \in 1 .. Len(x) : j[Len(r) + i] = x[i]
  BY <1>2, Join
<1>9. Len(torn) \in {0, 1}
  BY <1>1, Empty, Single
<1>10. CASE x = << >>
  BY <1>10, Empty
<1>11. CASE Len(r) + 1 \in 1 .. Len(j) /\ j[Len(r) + 1] = Torn
  <2>1. ~(Len(r) + 1 \in 1 .. Len(f))
    BY <1>6, <1>7, <1>11
  <2>2. Len(x) = 1
    <3> DEFINE lf == Len(f)
               lt == Len(torn)
               lr == Len(r)
               lx == Len(x)
    <3>1. lf \in Nat /\ lt \in {0, 1} /\ lr \in Nat /\ lx \in Nat
      BY <1>5, <1>9
    <3>2. lf + lt = lr + lx
      BY <1>7, <1>8
    <3>3. lr + 1 \in 1 .. lf + lt /\ ~(lr + 1 \in 1 .. lf)
      BY <1>7, <1>11, <2>1
    <3> HIDE DEF lf, lt, lr, lx
    <3>4. lx = 1
      BY <3>1, <3>2, <3>3
    <3> QED BY <3>4 DEF lx
  <2>3. x[1] = Torn
    BY <1>8, <1>11, <2>2
  <2>4. \A i \in 1 .. Len(x) : x[i] = Torn
    BY <2>2, <2>3
  <2> QED BY <1>2, <2>4, CompleteMember DEF Numbered
<1> QED BY <1>2, <1>10, <1>11

(* The process that Shutdown stops has everything in its journal. *)
LEMMA CleanStop ==
  ASSUME TypeInv, KeptInv, Shutdown, Intact, main' # "replay"
  PROVE  (applied \cup WaitingTids) \ lost \subseteq applied'
<1>1. PICK j, v, r, x : Reboots(j, v, r, x)
  BY RestartStep DEF Restart
<1>2. /\ Stops(j, v) /\ v = << >> /\ IsSeq(r) /\ IsSeq(x) /\ j = r \o x
      /\ applied' = held \cup Complete(r)
  BY <1>1 DEF Reboots, Boots
<1>3. Complete(x) = {}
  BY <1>1, NothingUnread
<1>4. Complete(Log) = Complete(j)
  BY <1>2, StopKeeps, Empty
<1>5. Complete(j) = Complete(r)
  <2>1. Complete(r \o x) = Complete(r) \cup Complete(x)
    BY <1>2, CompleteJoin
  <2> QED BY <1>2, <1>3, <2>1
<1>6. Accepted \ lost \subseteq held \cup Complete(Log)
  BY DEF KeptInv
<1> QED BY <1>2, <1>4, <1>5, <1>6 DEF Accepted

(* Nothing was accepted at first. *)
LEMMA KeptInit == ASSUME Init PROVE KeptInv /\ RewriteInv
<1>1. cqueue = << >> /\ (\A w \in Worker : op[w] = NoOp) /\ applied = {} /\ child = "none"
  BY DEF Init
<1>2. InHand = {}
  BY <1>1 DEF InHand
<1>3. Accepted = {}
  BY <1>1, <1>2, Empty DEF Accepted, WaitingTids
<1> QED BY <1>1, <1>3 DEF KeptInv, RewriteInv

(***************************************************************************)
(* A SIGTERM loses nothing that was accepted, however many requests,       *)
(* rewrites and crashes came before: what is not in the dump at the head   *)
(* of the file is behind it or in log_buffer, which close_db_log writes.   *)
(***************************************************************************)
THEOREM CleanStops == ASSUME PromptParent PROVE Spec => CleanStopKeepsAll
<1>1. Init => TypeInv /\ KeptInv /\ RewriteInv
  BY TypeInit, KeptInit
<1>2. TypeInv /\ KeptInv /\ RewriteInv /\ [Next]_vars
        => (TypeInv /\ KeptInv /\ RewriteInv)'
  BY TypeStep, KeptStep, RewriteStep
<1>3. TypeInv /\ KeptInv /\ [Next]_vars
        => [Shutdown /\ Intact /\ main' # "replay" => (applied \cup WaitingTids) \ lost \subseteq applied']_vars
  BY CleanStop
<1> QED BY <1>1, <1>2, <1>3, PTL DEF Spec, CleanStopKeepsAll
-----------------------------------------------------------------------------
(* A crash loses the latest operations *)

(* The queue keeps its order, and is later than what is in hand or         *)
(* applied.                                                                *)
LEMMA QueueStep ==
  ASSUME TypeInv, TidInv, QueueInv, [Next]_vars PROVE QueueInv'
<1>0. /\ cqueue \in Seq(Op) /\ Len(cqueue) \in Nat /\ DOMAIN cqueue = 1 .. Len(cqueue)
      /\ Accepted \subseteq 1 .. op_tid /\ op_tid \in Nat
  BY ServerAssumption DEF TypeInv, TidInv
<1>1. /\ \A i, k \in 1 .. Len(cqueue) : i < k => cqueue[i].tid < cqueue[k].tid
      /\ \A i \in 1 .. Len(cqueue) : /\ \A t \in applied : t < cqueue[i].tid
                                     /\ \A o \in InHand : o.tid < cqueue[i].tid
  BY <1>0 DEF QueueInv
<1>2. ASSUME UNCHANGED <<cqueue, op, applied>> PROVE QueueInv'
  BY <1>2 DEF QueueInv, InHand
<1>3. ASSUME cqueue' = << >> PROVE QueueInv'
  BY <1>3 DEF QueueInv
<1>4. ASSUME NEW r \in Request, Accepts(r) PROVE QueueInv'
  <2> DEFINE o == [r EXCEPT !.tid = op_tid + 1]
  <2>1. /\ cqueue' = Append(cqueue, o) /\ o.tid = op_tid + 1
    BY <1>4, DispatchEffect DEF Accepts
  <2>2. UNCHANGED <<op, applied>>
    BY <1>4 DEF Accepts, Dispatch, histVars
  <2>3. InHand' = InHand
    BY <2>2 DEF InHand
  <2> HIDE DEF o
  <2>4. /\ DOMAIN cqueue' = 1 .. Len(cqueue) + 1
        /\ \A i \in 1 .. Len(cqueue) : cqueue'[i] = cqueue[i]
        /\ cqueue'[Len(cqueue) + 1] = o
    BY <1>0, <2>1, AppendProperties
  <2>5. /\ \A i \in 1 .. Len(cqueue) : cqueue[i].tid \in Accepted
        /\ \A t \in applied : t \in Accepted
        /\ \A u \in InHand : u.tid \in Accepted
    BY <1>0 DEF Accepted, WaitingTids, Tids
  <2>6. \A t \in Accepted : t < op_tid + 1
    BY <1>0
  <2>7. \A i \in 1 .. Len(cqueue) + 1 : i \in 1 .. Len(cqueue) \/ i = Len(cqueue) + 1
    BY <1>0
  <2>8. ASSUME NEW i \in 1 .. Len(cqueue) + 1, NEW k \in 1 .. Len(cqueue) + 1, i < k
        PROVE  cqueue'[i].tid < cqueue'[k].tid
    <3>1. i \in 1 .. Len(cqueue)
      BY <1>0, <2>8
    <3>2. CASE k \in 1 .. Len(cqueue)
      BY <1>1, <2>4, <2>8, <3>1, <3>2
    <3>3. CASE k = Len(cqueue) + 1
      BY <2>1, <2>4, <2>5, <2>6, <3>1, <3>3
    <3> QED BY <2>7, <3>2, <3>3
  <2>9. ASSUME NEW i \in 1 .. Len(cqueue) + 1
        PROVE  /\ \A t \in applied : t < cqueue'[i].tid
               /\ \A u \in InHand : u.tid < cqueue'[i].tid
    <3>1. CASE i \in 1 .. Len(cqueue)
      BY <1>1, <2>4, <3>1
    <3>2. CASE i = Len(cqueue) + 1
      BY <2>1, <2>4, <2>5, <2>6, <3>2
    <3> QED BY <2>7, <3>1, <3>2
  <2> QED BY <2>2, <2>3, <2>4, <2>8, <2>9 DEF QueueInv
<1>5. ASSUME NEW w \in Worker, Shift(w) PROVE QueueInv'
  <2>1. /\ cqueue' \in Seq(Op) /\ InHand' = InHand \cup {cqueue[1]} /\ applied' = applied
        /\ Len(cqueue') \in Nat /\ Len(cqueue) = Len(cqueue') + 1
        /\ \A i \in 1 .. Len(cqueue') : cqueue'[i] = cqueue[i + 1]
    BY <1>5, ShiftEffect
  <2>2. DOMAIN cqueue' = 1 .. Len(cqueue')
    BY <2>1
  <2>3. \A i \in 1 .. Len(cqueue') : i + 1 \in 1 .. Len(cqueue) /\ 1 < i + 1 /\ i \in Nat
    BY <2>1
  <2>4. 1 \in 1 .. Len(cqueue)
    BY <2>1
  <2>5. ASSUME NEW i \in 1 .. Len(cqueue'), NEW k \in 1 .. Len(cqueue'), i < k
        PROVE  cqueue'[i].tid < cqueue'[k].tid
    <3>1. i + 1 < k + 1
      BY <2>3, <2>5
    <3> QED BY <1>1, <2>1, <2>3, <3>1
  <2>6. ASSUME NEW i \in 1 .. Len(cqueue')
        PROVE  /\ \A t \in applied : t < cqueue'[i].tid
               /\ \A u \in InHand' : u.tid < cqueue'[i].tid
    <3>1. cqueue[1].tid < cqueue[i + 1].tid
      BY <1>1, <2>3, <2>4
    <3> QED BY <1>1, <2>1, <2>3, <3>1
  <2> QED BY <2>1, <2>2, <2>5, <2>6 DEF QueueInv
<1>6. ASSUME NEW w \in Worker, Handle(w) PROVE QueueInv'
  <2>1. cqueue' = cqueue
    BY <1>6 DEF Handle
  <2>2. op[w] \in InHand /\ InHand' \subseteq InHand /\ applied' = applied \cup {op[w].tid}
    BY <1>6, HandleEffect
  <2> QED BY <1>0, <1>1, <2>1, <2>2 DEF QueueInv
<1>7. ASSUME Restart PROVE QueueInv'
  BY <1>3, <1>7, RestartStep DEF Reboots
<1>8. ASSUME NEW r \in Request, Dispatch(r), ~Accepts(r) PROVE QueueInv'
  BY <1>2, <1>8 DEF Dispatch, Accepts, histVars
<1>9. ASSUME AddToDbLog \/ FlushLogDb \/ Fork \/ ForkFailed PROVE QueueInv'
  BY <1>2, <1>9 DEF AddToDbLog, FlushLogDb, Fork, ForkFailed, histVars
<1>10. ASSUME ConsumerCb \/ ExpirationCron \/ Rewrite \/ Tick \/ SetPid \/ SetOffset
       PROVE  QueueInv'
  BY <1>2, <1>10 DEF ConsumerCb, ExpirationCron, Rewrite, Tick, SetPid, SetOffset,
                     memVars, histVars
<1>11. ASSUME ChildExit \/ DamagedDump \/ SigchldKilled \/ Sigchld \/ SwapRefused
       PROVE  QueueInv'
  BY <1>2, <1>11 DEF ChildExit, DamagedDump, SigchldKilled, Sigchld, SwapRefused,
                     memVars, histVars
<1>12. ASSUME UNCHANGED vars PROVE QueueInv'
  BY <1>2, <1>12 DEF vars, memVars, histVars
<1> QED BY <1>4, <1>5, <1>6, <1>7, <1>8, <1>9, <1>10, <1>11, <1>12
        DEF Next, MainStep, Restart

(* What has something newer than u has u. *)
Downward(S, U) == \A t \in S, u \in U : u < t => u \in S

(* What is not written is later than what a dump has, or in it. *)
LEMMA UnwrittenStep ==
  ASSUME TypeInv, TidInv, QueueInv, UnwrittenInv, [Next]_vars PROVE UnwrittenInv'
<1> DEFINE U == Tids(Unwritten)
<1>0. /\ U \subseteq Accepted /\ Downward(held, U)
      /\ child # "none" => Downward(dumped, U)
      /\ held \cup dumped \subseteq 1 .. op_tid
  BY DEF UnwrittenInv, Downward, TidInv, TidSets
<1> SUFFICES /\ Tids(Unwritten') \subseteq Accepted' /\ Downward(held', Tids(Unwritten'))
             /\ child' # "none" => Downward(dumped', Tids(Unwritten'))
  BY DEF UnwrittenInv, Downward
<1> HIDE DEF U
<1>1. CASE Steady /\ (ChildKept \/ Forks \/ Damages)
  <2>1. Tids(Unwritten') \subseteq U /\ Accepted' = Accepted /\ held' = held
    BY <1>1 DEF Steady, U
  <2>2. CASE ChildKept
    BY <1>0, <2>1, <2>2 DEF ChildKept, Downward
  <2>3. CASE Forks
    <3>1. dumped' = applied /\ Accepted = applied \cup Tids(cqueue)
      BY <2>3 DEF Forks
    <3>2. ASSUME NEW t \in applied, NEW u \in Tids(cqueue) PROVE t < u
      BY DEF QueueInv, Tids
    <3>3. ASSUME NEW t \in applied, NEW u \in Tids(Unwritten'), u < t PROVE u \in applied
      <4>1. CASE u \in Tids(cqueue)
        <5>1. t < u
          BY <3>2, <4>1
        <5>2. t \in Int /\ u \in Int
          <6>1. Accepted \subseteq 1 .. op_tid
            BY DEF TidInv
          <6>2. t \in 1 .. op_tid /\ u \in 1 .. op_tid
            BY <3>1, <4>1, <6>1
          <6> QED BY <6>2
        <5> QED BY <3>3, <5>1, <5>2
      <4> QED BY <1>0, <2>1, <3>1, <3>3, <4>1
    <3>4. Downward(dumped', Tids(Unwritten'))
      BY <3>1, <3>3 DEF Downward
    <3> QED BY <1>0, <2>1, <3>4 DEF Downward
  <2>4. CASE Damages
    BY <1>0, <2>1, <2>4 DEF Damages, Downward
  <2> QED BY <1>1, <2>2, <2>3, <2>4
<1>2. ASSUME NEW r \in Request, Accepts(r)
      PROVE  /\ Tids(Unwritten') \subseteq Accepted' /\ Downward(held', Tids(Unwritten'))
             /\ child' # "none" => Downward(dumped', Tids(Unwritten'))
  <2>1. /\ Accepted' = Accepted \cup {op_tid + 1} /\ op_tid \in Nat
        /\ Tids(Unwritten') = U \cup {op_tid + 1} /\ UNCHANGED <<held, child, dumped>>
    BY <1>2, NewTid DEF U
  <2>2. \A t \in held \cup dumped : ~(op_tid + 1 < t)
    BY <1>0, <2>1
  <2> QED BY <1>0, <2>1, <2>2 DEF Downward
<1>3. CASE Refuses
  <2> DEFINE u == Unwritten'
             z == << pending >>
  <2>1. /\ Unwritten = u \o z /\ u \in Seq(Op) /\ z \in Seq(Op)
        /\ Accepted' = Accepted /\ UNCHANGED <<held, child, dumped>>
    BY <1>3 DEF Refuses
  <2> HIDE DEF u, z
  <2>2. Tids(u) \subseteq U
    BY <2>1, TidsJoin DEF U
  <2> QED BY <1>0, <2>1, <2>2 DEF Downward, u
<1>4. CASE Sigchld
  <2>1. PICK a, b : Swaps(a, b)
    BY <1>4, SwapStep
  <2>2. /\ Tids(Unwritten') = U /\ Accepted' = Accepted /\ child # "none" /\ child' = "none"
        /\ held' = dumped
    BY <2>1 DEF Swaps, U
  <2> QED BY <1>0, <2>2
<1>5. CASE Restart
  <2>1. Unwritten' = << >> /\ child' = "none"
    BY <1>5, RestartStep DEF Reboots, Boots
  <2>2. Tids(Unwritten') = {}
    BY <2>1, Empty
  <2> QED BY <2>1, <2>2 DEF Downward
<1> QED BY <1>1, <1>2, <1>3, <1>4, <1>5, Steps

(* A restart loses no operation that is earlier than one it keeps. *)
LEMMA Survivors ==
  ASSUME TypeInv, TidInv, OrderInv, KeptInv, UnwrittenInv, Restart, Intact, main' # "replay",
         NEW t \in applied', NEW u \in (applied \cup WaitingTids) \ lost, u < t
  PROVE  u \in applied'
<1>1. PICK j, v, r, x : Reboots(j, v, r, x)
  BY RestartStep
<1>2. /\ Stops(j, v) /\ IsSeq(r) /\ IsSeq(x) /\ j = r \o x
      /\ applied' = held \cup Complete(r)
  BY <1>1 DEF Reboots, Boots
<1>3. Complete(j) = Complete(r)
  <2>1. Complete(x) = {}
    BY <1>1, NothingUnread
  <2>2. Complete(r \o x) = Complete(r) \cup Complete(x)
    BY <1>2, CompleteJoin
  <2> QED BY <1>2, <2>1, <2>2
<1>4. Complete(Log) = Complete(j) \cup Tids(v) /\ Before(Complete(j), Tids(v))
  BY <1>2, StopKeeps DEF OrderInv
<1>5. Tids(v) \subseteq Tids(Unwritten)
  <2>1. PICK w \in Seq(Op) : Unwritten = w \o v /\ v \in Seq(Op)
    BY <1>2 DEF Stops
  <2> QED BY <2>1, TidsJoin
<1>6. u \in held \cup Complete(r) \cup Tids(v)
  BY <1>3, <1>4 DEF KeptInv, Accepted
<1>7. ASSUME u \in Tids(v) PROVE u \in held
  <2>1. CASE t \in held
    BY <1>5, <1>7, <2>1 DEF UnwrittenInv
  <2>2. CASE t \in Complete(r)
    <3>1. t < u
      BY <1>3, <1>4, <1>7, <2>2 DEF Before
    <3>2. t \in 1 .. op_tid /\ u \in 1 .. op_tid
      BY <1>3, <1>4, <1>7, <2>2 DEF TidInv
    <3>3. t \in Int /\ u \in Int
      BY <3>2
    <3> QED BY <3>1, <3>3
  <2> QED BY <1>2, <2>1, <2>2
<1> QED BY <1>2, <1>6, <1>7

(* Nothing is queued or unwritten at first. *)
LEMMA UnwrittenInit == ASSUME Init PROVE QueueInv /\ UnwrittenInv
<1>1. cqueue = << >> /\ log_buffer = << >> /\ pending = NoOp
  BY DEF Init
<1>2. Unwritten = << >>
  BY <1>1, RestTyped, EmptySeq DEF Unwritten
<1> QED BY <1>1, <1>2, Empty DEF QueueInv, UnwrittenInv

(* What the theorems about recovery rest on. *)
JournalInv == TypeInv /\ TidInv /\ OrderInv /\ KeptInv /\ RewriteInv /\ QueueInv /\ UnwrittenInv

(* The invariant is inductive. *)
LEMMA JournalInvariant ==
  ASSUME PromptParent
  PROVE  (Init => JournalInv) /\ (JournalInv /\ [Next]_vars => JournalInv')
  BY TypeInit, TidInit, KeptInit, UnwrittenInit, TypeStep, TidStep, KeptStep, RewriteStep,
     QueueStep, UnwrittenStep DEF JournalInv

(***************************************************************************)
(* A crash at any point, also inside a write, loses the latest operations  *)
(* only: the file and what is not written yet are in the order of the      *)
(* requests, and a dump never has an operation without the older ones that *)
(* were still in log_buffer when it was taken.                             *)
(***************************************************************************)
THEOREM CrashesLoseTheLatest == ASSUME PromptParent PROVE Spec => RecoveryIsPrefix
<1>1. Init => JournalInv
  BY JournalInvariant
<1>2. JournalInv /\ [Next]_vars => JournalInv'
  BY JournalInvariant
<1>3. ASSUME JournalInv, [Next]_vars
      PROVE  [crashes' # crashes /\ Intact /\ main' # "replay" =>
                \A t \in applied', u \in (applied \cup WaitingTids) \ lost :
                  u < t => u \in applied']_vars
  <2> SUFFICES ASSUME crashes' # crashes, Intact, main' # "replay",
                      NEW t \in applied', NEW u \in (applied \cup WaitingTids) \ lost, u < t
               PROVE  u \in applied'
    OBVIOUS
  <2>1. ASSUME ~Restart PROVE FALSE
    <3>1. CASE \E r \in Request : Dispatch(r)
      BY <3>1 DEF Dispatch, histVars
    <3>2. CASE MainStep \/ FlushLogDb
      BY <3>2 DEF MainStep, AddToDbLog, FlushLogDb, Fork, ForkFailed, SetPid, SetOffset, histVars
    <3>3. CASE ConsumerCb \/ ExpirationCron \/ Rewrite \/ Tick \/ UNCHANGED vars
      BY <3>3 DEF ConsumerCb, ExpirationCron, Rewrite, Tick, vars, histVars
    <3>4. CASE \E w \in Worker : Shift(w) \/ Handle(w)
      BY <3>4 DEF Shift, Handle, histVars
    <3>5. CASE ChildExit \/ DamagedDump \/ SigchldKilled \/ Sigchld \/ SwapRefused
      BY <3>5 DEF ChildExit, DamagedDump, SigchldKilled, Sigchld, SwapRefused, histVars
    <3> QED BY <1>3, <2>1, <3>1, <3>2, <3>3, <3>4, <3>5 DEF Next, Restart
  <2> QED BY <1>3, <2>1, Survivors DEF JournalInv
<1> QED BY <1>1, <1>2, <1>3, PTL DEF Spec, RecoveryIsPrefix
-----------------------------------------------------------------------------
(* Nothing is in the journal twice *)

(* Nothing is logged twice at first. *)
LEMMA OnceInit == ASSUME Init PROVE OnceInv
<1>1. held = {} /\ child = "none" /\ file = << >> /\ offset = 0
  BY DEF Init
<1>2. From(file, offset) = << >>
  BY <1>1, Empty, NoneBehind
<1> QED BY <1>1, <1>2, Empty DEF OnceInv

(* No step logs an operation twice when writes succeed. *)
LEMMA OnceStep ==
  ASSUME PromptParent, ~WriteMayFail, JournalInv, OnceInv, [Next]_vars PROVE OnceInv'
<1>0. /\ TypeInv /\ TidInv /\ OrderInv /\ RewriteInv
      /\ Complete(Log) \cap held = {}
      /\ Complete(From(file, offset)) \cap Accepted = {}
      /\ child # "none" => Complete(From(Log, Mark)) \cap dumped = {}
  BY DEF JournalInv, OnceInv
<1>1. /\ IsSeq(Log) /\ Len(file) \in Nat /\ Len(Log) \in Nat /\ Len(file) <= Len(Log)
      /\ Complete(file) \subseteq Complete(Log) /\ IsSeq(file) /\ offset \in 0 .. Len(file)
      /\ op_tid \in Nat /\ held \cup dumped \cup Complete(Log) \subseteq 1 .. op_tid
  <2>1. TypeInv /\ TidInv
    BY <1>0
  <2>2. op_tid \in Nat /\ held \cup dumped \cup Complete(Log) \subseteq 1 .. op_tid
    BY <2>1, ServerAssumption DEF TypeInv, TidInv, TidSets
  <2> QED BY <2>1, <2>2, UnwrittenTyped DEF TypeInv
<1>2. child # "none" => Mark \in 0 .. Len(file)
  BY <1>0 DEF RewriteInv
<1> SUFFICES /\ Complete(Log') \cap held' = {}
             /\ Complete(From(file', offset')) \cap Accepted' = {}
             /\ child' # "none" => Complete(From(Log', Mark')) \cap dumped' = {}
  BY DEF OnceInv
<1>3. CASE Steady /\ (ChildKept \/ Forks \/ Damages)
  <2>1. /\ Log' = Log /\ Accepted' = Accepted /\ held' = held
        /\ Complete(From(file', offset')) \subseteq Complete(From(file, offset))
    BY <1>3 DEF Steady
  <2>2. CASE ChildKept
    BY <1>0, <2>1, <2>2 DEF ChildKept
  <2>3. CASE Forks
    <3>1. /\ dumped' = applied /\ Mark' = offset' /\ Unwritten' = << >> /\ IsSeq(file')
      BY <2>3 DEF Forks
    <3>2. Log' = file'
      BY <3>1, EmptyJoin DEF Log
    <3>3. dumped' \subseteq Accepted
      BY <3>1 DEF Accepted
    <3> QED BY <1>0, <2>1, <3>1, <3>2, <3>3
  <2>4. CASE Damages
    BY <1>0, <2>1, <2>4 DEF Damages
  <2> QED BY <1>3, <2>2, <2>3, <2>4
<1>4. ASSUME NEW r \in Request, Accepts(r)
      PROVE  /\ Complete(Log') \cap held' = {}
             /\ Complete(From(file', offset')) \cap Accepted' = {}
             /\ child' # "none" => Complete(From(Log', Mark')) \cap dumped' = {}
  <2>0. TypeInv
    BY <1>0
  <2>1. PICK z : /\ IsSeq(z) /\ Log' = Log \o z /\ Complete(z) = {op_tid + 1}
                 /\ Accepted' = Accepted \cup {op_tid + 1} /\ Mark' = Mark
                 /\ UNCHANGED <<held, child, dumped, file, offset>>
    BY <1>4, <2>0, NewTid
  <2>2. op_tid + 1 \notin held \cup dumped \cup Complete(Log)
    <3>1. op_tid + 1 \notin 1 .. op_tid
      BY <1>1
    <3> QED BY <1>1, <3>1
  <2>3. Complete(Log') = Complete(Log) \cup {op_tid + 1}
    BY <1>1, <2>1, CompleteJoin
  <2>4. Complete(From(file, offset)) \subseteq Complete(Log)
    BY <1>1, FromComplete
  <2>5. ASSUME child # "none"
        PROVE  Complete(From(Log', Mark')) = Complete(From(Log, Mark)) \cup {op_tid + 1}
    <3>1. Mark \in 0 .. Len(Log)
      BY <1>1, <1>2, <2>5
    <3> DEFINE g == From(Log, Mark)
    <3>2. From(Log \o z, Mark) = g \o z /\ IsSeq(g)
      BY <1>1, <2>1, <3>1, FromJoin, FromFacts
    <3> HIDE DEF g
    <3>3. Complete(g \o z) = Complete(g) \cup {op_tid + 1}
      BY <2>1, <3>2, CompleteJoin
    <3> QED BY <2>1, <3>2, <3>3 DEF g
  <2> QED BY <1>0, <2>1, <2>2, <2>3, <2>4, <2>5
<1>5. CASE Refuses
  <2> DEFINE z == << pending >>
             l == Log'
  <2>1. /\ Log = l \o z /\ Accepted' = Accepted
        /\ child' = child /\ Mark' = Mark /\ UNCHANGED <<dumped, file, offset, held>>
    BY <1>5 DEF Refuses
  <2>2. IsSeq(z)
    BY Single
  <2>3. IsSeq(l) /\ Len(file) <= Len(l) /\ Len(l) \in Nat
    BY <1>0, <1>5, RefusesTyped
  <2> HIDE DEF z, l
  <2>4. Complete(l) \subseteq Complete(Log)
    BY <2>1, <2>2, <2>3, CompleteJoin
  <2>5. ASSUME child # "none" PROVE Complete(From(l, Mark)) \subseteq Complete(From(Log, Mark))
    <3>1. Mark \in 0 .. Len(l)
      BY <1>1, <1>2, <2>3, <2>5
    <3> DEFINE g == From(l, Mark)
    <3>2. From(l \o z, Mark) = g \o z /\ IsSeq(g)
      BY <2>2, <2>3, <3>1, FromJoin, FromFacts
    <3> HIDE DEF g
    <3>3. Complete(g \o z) = Complete(g) \cup Complete(z)
      BY <2>2, <3>2, CompleteJoin
    <3> QED BY <2>1, <3>2, <3>3 DEF g
  <2> QED BY <1>0, <2>1, <2>4, <2>5 DEF l
<1>6. CASE Sigchld
  <2>1. PICK a, b : Swaps(a, b)
    BY <1>0, <1>6, SwapStep
  <2>2. /\ IsSeq(b) /\ Log' = dump \o b /\ child = "exited" /\ child' = "none" /\ held' = dumped
        /\ fork_offset <= Len(file) => b = From(Log, fork_offset)
        /\ Complete(From(file', offset')) = {}
    BY <2>1 DEF Swaps
  <2>3. Mark = fork_offset /\ b = From(Log, Mark)
    <3>1. Mark = fork_offset /\ Mark \in 0 .. Len(file)
      BY <1>0, <2>2 DEF RewriteInv, Mark
    <3>2. fork_offset <= Len(file)
      BY <1>1, <3>1
    <3> QED BY <2>2, <3>1, <3>2
  <2>4. IsSeq(dump) /\ Complete(dump) = {}
    BY <1>0 DEF TypeInv
  <2>5. Complete(dump \o b) = Complete(dump) \cup Complete(b)
    BY <2>2, <2>4, CompleteJoin
  <2> QED BY <1>0, <2>2, <2>3, <2>4, <2>5
<1>7. CASE Restart
  <2>1. PICK j, v, r, x : Reboots(j, v, r, x)
    BY <1>0, <1>7, RestartStep
  <2>2. /\ Stops(j, v) /\ Accepted' = held \cup Complete(r) /\ held' = held
        /\ Log' = file' /\ Complete(file') \subseteq Complete(j)
        /\ IsSeq(r) /\ IsSeq(x) /\ j = r \o x /\ child' = "none"
        /\ Complete(From(file', offset')) \subseteq Complete(x)
    BY <2>1 DEF Reboots, Boots
  <2>3. Complete(j) \subseteq Complete(Log) /\ Rising(j)
    BY <1>0, <2>2, StopKeeps DEF OrderInv
  <2>4. Complete(r \o x) = Complete(r) \cup Complete(x)
    BY <2>2, CompleteJoin
  <2>5. Before(Complete(r), Complete(x))
    BY <2>2, <2>3, RisingJoin
  <2>6. Complete(r) \cap Complete(x) = {}
    <3> SUFFICES ASSUME NEW t \in Complete(r), t \in Complete(x) PROVE FALSE
      OBVIOUS
    <3>1. t < t
      BY <2>5 DEF Before
    <3>2. t \in 1 .. op_tid
      BY <1>1, <2>2, <2>3, <2>4
    <3>3. t \in Int
      BY <3>2
    <3> QED BY <3>1, <3>3
  <2> QED BY <1>0, <2>2, <2>3, <2>4, <2>6
<1> QED BY <1>0, <1>3, <1>4, <1>5, <1>6, <1>7, Steps

(* A journal without duplicates, in the words of the property. *)
LEMMA OnceImplies ==
  ASSUME JournalInv, OnceInv PROVE LoggedOnce
<1>0. TypeInv /\ OrderInv
  BY DEF JournalInv
<1>1. PICK n \in 0 .. Len(file) : /\ Readable(file) = SubSeq(file, 1, n)
                                  /\ \A i \in 1 .. n : file[i] # Torn
  BY <1>0, ReadableFacts DEF TypeInv
<1> DEFINE r == Readable(file)
           x == From(file, n)
           u == Unwritten
<1>2. IsSeq(file) /\ u \in Seq(Op) /\ IsSeq(u)
  BY <1>0, UnwrittenTyped
<1>3. /\ IsSeq(r) /\ Len(r) = n /\ (\A i \in 1 .. n : r[i] = file[i])
      /\ IsSeq(x) /\ file = r \o x
  BY <1>1, <1>2, CutFacts, FromFacts, CutJoin
<1>4. \A i \in 1 .. Len(r) : r[i] # Torn
  BY <1>1, <1>3
<1>5. Journal = r \o u
  <2> DEFINE h == IF pending = NoOp THEN << >> ELSE << pending >>
  <2>1. Journal = (r \o log_buffer) \o h /\ u = log_buffer \o h
    BY DEF Journal, Unwritten, Rest
  <2>2. IsSeq(log_buffer) /\ IsSeq(h)
    BY <1>0, TypedSeq, Empty, Single DEF TypeInv
  <2> HIDE DEF h, r
  <2>3. IsSeq(r) /\ IsSeq(log_buffer) /\ IsSeq(h)
    BY <1>3, <2>2
  <2>4. (r \o log_buffer) \o h = r \o (log_buffer \o h)
    BY <2>3, JoinAssoc, SMTT(30)
  <2> QED BY <2>1, <2>4
<1> DEFINE s == r \o u
           f == r \o x
<1>6. Log = f \o u
  BY <1>3 DEF Log
<1> HIDE DEF r, x, u
<1>7. IsSeq(f) /\ Complete(f) = Complete(r) \cup Complete(x)
  BY <1>3, Join, CompleteJoin
<1>8. IsSeq(s) /\ Complete(s) = Complete(r) \cup Complete(u)
  BY <1>2, <1>3, Join, CompleteJoin
<1>9. Rising(r) /\ Rising(u) /\ Before(Complete(r), Complete(u))
      /\ Complete(Log) = Complete(f) \cup Complete(u)
  <2> HIDE DEF f
  <2>1. Rising(f \o u)
    BY <1>0, <1>6 DEF OrderInv
  <2>2. Rising(f) /\ Rising(u) /\ Before(Complete(f), Complete(u))
    BY <1>2, <1>7, <2>1, RisingJoin
  <2>3. Rising(r)
    BY <1>3, <2>2, RisingJoin DEF f
  <2>4. Complete(f \o u) = Complete(f) \cup Complete(u)
    BY <1>2, <1>7, CompleteJoin
  <2> QED BY <1>6, <1>7, <2>2, <2>3, <2>4 DEF Before
<1>10. Rising(s)
  BY <1>2, <1>3, <1>9, RisingJoin
<1>11. /\ Len(s) = Len(r) + Len(u)
       /\ \A i \in 1 .. Len(r) + Len(u) : s[i] = IF i <= Len(r) THEN r[i] ELSE u[i - Len(r)]
  BY <1>2, <1>3, Join
<1>12. DOMAIN s = 1 .. Len(s) /\ Len(r) \in Nat /\ Len(u) \in Nat
  BY <1>2, <1>3, <1>8, SeqFacts
<1> HIDE DEF s, f
<1>13. \A i \in DOMAIN s : s[i] # Torn
  <2> TAKE i \in DOMAIN s
  <2>0. i \in 1 .. Len(r) + Len(u)
    BY <1>11, <1>12
  <2>1. CASE i <= Len(r)
    <3>1. i \in 1 .. Len(r)
      BY <1>12, <2>0, <2>1
    <3> QED BY <1>4, <1>11, <2>0, <2>1, <3>1
  <2>2. CASE ~(i <= Len(r))
    <3>1. i - Len(r) \in 1 .. Len(u)
      BY <1>12, <2>0, <2>2
    <3>2. \A k \in 1 .. Len(u) : u[k] \in Op
      BY <1>2, TypedSeq
    <3> QED BY <1>11, <2>0, <2>2, <3>1, <3>2, OpFacts
  <2> QED BY <2>1, <2>2
<1>14. Complete(s) \cap held = {}
  BY <1>7, <1>8, <1>9 DEF OnceInv
<1>15. Journal = s
  BY <1>5 DEF s
<1>16. ASSUME NEW i \in DOMAIN s, s[i].tid # 0 PROVE s[i].tid \notin held
  BY <1>13, <1>14, <1>16 DEF Complete
<1>17. ASSUME NEW i \in DOMAIN s, NEW k \in DOMAIN s, s[i].tid # 0, s[k].tid # 0, i < k
       PROVE  s[i].tid < s[k].tid
  BY <1>10, <1>13, <1>17 DEF Rising, Numbered
<1> QED BY <1>15, <1>16, <1>17 DEF LoggedOnce

(***************************************************************************)
(* No operation is in the journal twice, or behind a dump that has its     *)
(* effect, as long as writes succeed: a rewrite forks with an empty        *)
(* log_buffer, and keeps of the old journal what is behind the offset of   *)
(* the fork; what a restart left unread behind that offset is not what the *)
(* process has applied.                                                    *)
(***************************************************************************)
THEOREM NothingIsLoggedTwice ==
  ASSUME PromptParent, ~WriteMayFail PROVE Spec => []LoggedOnce
<1>1. Init => JournalInv /\ OnceInv
  BY JournalInvariant, OnceInit
<1>2. JournalInv /\ OnceInv /\ [Next]_vars => (JournalInv /\ OnceInv)'
  BY JournalInvariant, OnceStep
<1>3. JournalInv /\ OnceInv => LoggedOnce
  BY OnceImplies
<1> QED BY <1>1, <1>2, <1>3, PTL DEF Spec
-----------------------------------------------------------------------------
(* FsyncPeriod 0: a reply means that the operation is on disk *)

(* With FsyncPeriod 0 at most the record that is being logged is           *)
(* unwritten, and it has no reply.                                         *)
LEMMA SyncUnwritten ==
  ASSUME TypeInv, SyncInv
  PROVE  /\ Tids(Unwritten) \cap acked = {}
         /\ pending = NoOp => Tids(Unwritten) = {}
<1>1. log_buffer = << >> /\ (pending # NoOp => pending.tid \notin acked)
  BY DEF SyncInv
<1>2. CASE pending = NoOp
  <2>1. Unwritten = << >>
    BY <1>1, <1>2, RestTyped, EmptySeq DEF Unwritten
  <2> QED BY <2>1, Empty
<1>3. CASE pending # NoOp
  <2>1. Unwritten = << >> \o << pending >>
    BY <1>1, <1>3 DEF Unwritten, Rest
  <2>2. Unwritten = << pending >>
    BY <2>1, Single, EmptyJoin
  <2>3. Tids(Unwritten) = {pending.tid}
    BY <2>2, Single
  <2> QED BY <1>1, <1>3, <2>3
<1> QED BY <1>2, <1>3

(* A reply is sent for what was written. *)
LEMMA SyncStep ==
  ASSUME FsyncPeriod = 0, ~WriteMayFail, JournalInv, SyncInv, [Next]_vars PROVE SyncInv'
<1>0. TypeInv /\ TidInv /\ KeptInv
  BY DEF JournalInv
<1>1. /\ log_buffer = << >> /\ replies \subseteq applied /\ acked \ lost \subseteq applied
      /\ pending # NoOp => pending.tid \notin acked
  BY DEF SyncInv
<1>2. ASSUME UNCHANGED <<log_buffer, replies, acked, applied>>, lost \subseteq lost',
             pending' \in {pending, NoOp}
      PROVE  SyncInv'
  BY <1>1, <1>2 DEF SyncInv
<1>3. ASSUME NEW r \in Request, Dispatch(r) PROVE SyncInv'
  <2>1. CASE Len(cqueue) < Capacity
    <3> DEFINE o == [r EXCEPT !.tid = op_tid + 1]
    <3>1. pending' = o /\ o.tid = op_tid + 1
      BY <1>0, <1>3, <2>1, DispatchEffect
    <3>2. UNCHANGED <<log_buffer, replies, acked, applied, lost>>
      BY <1>3 DEF Dispatch, histVars
    <3>3. op_tid + 1 \notin acked
      <4>1. acked \subseteq 1 .. op_tid /\ op_tid \in Nat
        BY <1>0, ServerAssumption DEF TidInv, TidSets, TypeInv
      <4>2. op_tid + 1 \notin 1 .. op_tid
        BY <4>1
      <4> QED BY <4>1, <4>2
    <3> HIDE DEF o
    <3> QED BY <1>1, <3>1, <3>2, <3>3 DEF SyncInv
  <2>2. CASE ~(Len(cqueue) < Capacity)
    BY <1>2, <1>3, <2>2 DEF Dispatch, histVars
  <2> QED BY <2>1, <2>2
<1>4. ASSUME AddToDbLog PROVE SyncInv'
  <2>1. UNCHANGED <<replies, acked, applied>>
    BY <1>4 DEF AddToDbLog
  <2>2. /\ pending' = NoOp /\ lost \subseteq lost'
        /\ log_buffer' = << >>
    <3>1. CASE Logged(pending)
      BY <1>0, <1>4, <3>1, AddMoves
    <3>2. CASE ~Logged(pending)
      BY <1>0, <1>1, <1>4, <3>2, AddMoves
    <3> QED BY <3>1, <3>2
  <2> QED BY <1>1, <2>1, <2>2 DEF SyncInv
<1>5. ASSUME FlushLogDb \/ Fork \/ ForkFailed PROVE SyncInv'
  <2>1. pending' = NoOp /\ log_buffer' = << >>
    BY <1>0, <1>5, LoopMoves
  <2>2. UNCHANGED <<replies, acked, applied, lost>>
    BY <1>5 DEF FlushLogDb, Fork, ForkFailed, histVars
  <2> QED BY <1>1, <2>1, <2>2 DEF SyncInv
<1>6. ASSUME ConsumerCb PROVE SyncInv'
  <2>1. /\ main = "loop" /\ acked' = acked \cup replies /\ replies' = {}
        /\ UNCHANGED <<log_buffer, pending, applied, lost>>
    BY <1>6 DEF ConsumerCb
  <2>2. pending = NoOp
    BY <1>0, <2>1 DEF TypeInv
  <2> QED BY <1>1, <2>1, <2>2 DEF SyncInv
<1>7. ASSUME NEW w \in Worker, Handle(w) PROVE SyncInv'
  <2>1. /\ applied' = applied \cup {op[w].tid} /\ replies' = replies \cup {op[w].tid}
        /\ UNCHANGED <<log_buffer, pending, acked, lost>>
    BY <1>7 DEF Handle
  <2> QED BY <1>1, <2>1 DEF SyncInv
<1>8. ASSUME Restart PROVE SyncInv'
  <2>1. PICK j, v, r, x : Reboots(j, v, r, x)
    BY <1>0, <1>8, RestartStep
  <2>2. /\ Stops(j, v) /\ lost' = lost \cup (Complete(j) \ applied')
        /\ applied' = held \cup Complete(r)
        /\ log_buffer' = << >> /\ pending' = NoOp /\ replies' = {} /\ acked' = acked
    BY <2>1 DEF Reboots, Boots
  <2>3. Complete(Log) = Complete(j) \cup Tids(v)
    BY <1>0, <2>2, StopKeeps
  <2>4. Tids(v) \cap acked = {}
    <3>1. PICK w \in Seq(Op) : Unwritten = w \o v /\ v \in Seq(Op)
      BY <2>2 DEF Stops
    <3>2. Tids(v) \subseteq Tids(Unwritten)
      BY <3>1, TidsJoin
    <3> QED BY <1>0, <3>2, SyncUnwritten
  <2>5. acked \ lost \subseteq held \cup Complete(Log)
    BY <1>0, <1>1 DEF KeptInv, Accepted
  <2>6. acked' \ lost' \subseteq applied'
    BY <2>2, <2>3, <2>4, <2>5
  <2> QED BY <2>2, <2>6 DEF SyncInv
<1>9. ASSUME ExpirationCron \/ Rewrite \/ Tick \/ SetPid \/ SetOffset PROVE SyncInv'
  BY <1>2, <1>9 DEF ExpirationCron, Rewrite, Tick, SetPid, SetOffset, memVars, histVars
<1>10. ASSUME NEW w \in Worker, Shift(w) PROVE SyncInv'
  BY <1>2, <1>10 DEF Shift, histVars
<1>11. ASSUME ChildExit \/ DamagedDump \/ SigchldKilled \/ Sigchld \/ SwapRefused
       PROVE  SyncInv'
  BY <1>2, <1>11 DEF ChildExit, DamagedDump, SigchldKilled, Sigchld, SwapRefused,
                     memVars, histVars
<1>12. ASSUME UNCHANGED vars PROVE SyncInv'
  BY <1>2, <1>12 DEF vars, memVars, histVars
<1> QED BY <1>3, <1>4, <1>5, <1>6, <1>7, <1>8, <1>9, <1>10, <1>11, <1>12
        DEF Next, MainStep, Restart

(* Replies are on disk, in the words of the property. *)
LEMMA SyncImplies == ASSUME JournalInv, SyncInv PROVE AckedOnDisk
<1>1. acked \ lost \subseteq held \cup Complete(Log)
  BY DEF JournalInv, SyncInv, KeptInv, Accepted
<1>2. Complete(Log) = Complete(file) \cup Tids(Unwritten) /\ Tids(Unwritten) \cap acked = {}
  BY UnwrittenTyped, SyncUnwritten DEF JournalInv
<1> QED BY <1>1, <1>2 DEF AckedOnDisk

(***************************************************************************)
(* With FsyncPeriod 0, and writes that succeed, whoever has a reply finds  *)
(* the operation on disk, known losses aside: the event loop sends replies *)
(* only between requests, when log_buffer is empty and nothing is at hand. *)
(***************************************************************************)
THEOREM RepliesAreOnDisk ==
  ASSUME PromptParent, ~WriteMayFail PROVE Spec => []AckedOnDisk
<1>1. CASE FsyncPeriod # 0
  <2>1. AckedOnDisk
    BY <1>1 DEF AckedOnDisk
  <2> QED BY <2>1, PTL
<1>2. CASE FsyncPeriod = 0
  <2>1. Init => JournalInv /\ SyncInv
    BY JournalInvariant DEF Init, SyncInv
  <2>2. JournalInv /\ SyncInv /\ [Next]_vars => (JournalInv /\ SyncInv)'
    BY <1>2, JournalInvariant, SyncStep
  <2>3. JournalInv /\ SyncInv => AckedOnDisk
    BY SyncImplies
  <2> QED BY <2>1, <2>2, <2>3, PTL DEF Spec
<1> QED BY <1>1, <1>2
-----------------------------------------------------------------------------
(* The journal and the memory: operations at hand *)

(* With one worker, the order in which the operations run is known. *)
OneWorker == \A v, w \in Worker : v = w

(* The operations S, oldest first, and those of a worker that has o. *)
InOrder(S) == CHOOSE s \in [1 .. Cardinality(S) -> S] :
                 \A i, j \in DOMAIN s : i < j => s[i].tid < s[j].tid
Hand(o) == IF o = NoOp THEN << >> ELSE << o >>

(* What one worker has at hand. *)
LEMMA InOrderOfOne ==
  ASSUME NEW S, NEW o, S = {o} \ {NoOp} PROVE InOrder(S) = Hand(o)
<1> DEFINE P(s) == \A i, j \in DOMAIN s : i < j => s[i].tid < s[j].tid
           F == [1 .. Cardinality(S) -> S]
           hand == CHOOSE s \in F : P(s)
<1>1. InOrder(S) = hand
  BY DEF InOrder
<1>2. CASE o = NoOp
  <2>1. S = {} /\ Cardinality(S) = 0
    BY <1>2, FS_EmptySet
  <2>2. << >> \in F /\ P(<< >>)
    BY <2>1
  <2>3. hand \in F
    BY <2>2
  <2> HIDE DEF hand
  <2>4. hand = << >>
    <3>1. hand \in [1 .. 0 -> {}] /\ 0 \in Nat
      BY <2>1, <2>3
    <3>2. hand \in Seq({}) /\ Len(hand) = 0
      BY <3>1, FunctionIsSeq
    <3> QED BY <3>2
  <2> QED BY <1>1, <1>2, <2>4 DEF Hand
<1>3. CASE o # NoOp
  <2>1. S = {o} /\ Cardinality(S) = 1
    BY <1>3, FS_Singleton
  <2>2. << o >> \in F /\ P(<< o >>)
    BY <2>1
  <2>3. hand \in F
    BY <2>2
  <2> HIDE DEF hand
  <2>4. hand = << o >>
    <3>1. hand \in [1 .. 1 -> {o}]
      BY <2>1, <2>3
    <3>2. 1 \in Nat /\ hand[1] = o
      BY <3>1
    <3>3. hand \in Seq({o}) /\ Len(hand) = 1
      BY <3>1, <3>2, FunctionIsSeq
    <3> QED BY <3>2, <3>3
  <2> QED BY <1>1, <1>3, <2>4 DEF Hand
<1> QED BY <1>2, <1>3
-----------------------------------------------------------------------------
(* Applying operations one after the other *)

-----------------------------------------------------------------------------
(* Applying operations one after the other *)

(* The databases between the operations. *)
Between(g, d, s) == g[0] = d /\ \A i \in 1 .. Len(s) : g[i] = Apply(g[i - 1], s[i])

(* They exist: ApplyAll's recursion is well-founded. *)
LEMMA ApplyAllSteps ==
  ASSUME NEW d, NEW s, Len(s) \in Nat
  PROVE  \E g : Between(g, d, s) /\ ApplyAll(d, s) = g[Len(s)]
<1> DEFINE Step(n, g) == [i \in 0 .. n |-> IF i = 0 THEN d ELSE Apply(g[i - 1], s[i])]
           Bad == {n \in 0 .. Len(s) : ~ \E g : g = Step(n, g)}
<1>1. ASSUME Bad # {} PROVE FALSE
  <2>1. Bad \in SUBSET Nat
    OBVIOUS
  <2>2. PICK m \in Bad : \A n \in Bad : m <= n
    BY <1>1, <2>1, LeastNat
  <2>3. CASE m = 0
    <3> DEFINE g == [i \in 0 .. 0 |-> d]
    <3>1. g = Step(0, g)
      OBVIOUS
    <3> QED BY <2>2, <2>3, <3>1
  <2>4. CASE m # 0
    <3>1. m \in 1 .. Len(s) /\ m - 1 \in 0 .. Len(s) /\ ~(m <= m - 1)
      BY <2>4
    <3>2. PICK g : g = Step(m - 1, g)
      BY <2>2, <3>1
    <3> DEFINE h == [i \in 0 .. m |-> IF i < m THEN g[i] ELSE Apply(g[m - 1], s[m])]
    <3>3. ASSUME NEW i \in 0 .. m
          PROVE  h[i] = IF i = 0 THEN d ELSE Apply(h[i - 1], s[i])
      <4>1. CASE i < m
        <5>1. i \in 0 .. m - 1 /\ h[i] = g[i]
          BY <3>1, <4>1
        <5>2. g[i] = IF i = 0 THEN d ELSE Apply(g[i - 1], s[i])
          BY <3>2, <5>1
        <5>3. i # 0 => h[i - 1] = g[i - 1]
          BY <3>1, <4>1
        <5> QED BY <5>1, <5>2, <5>3
      <4>2. CASE i = m
        <5>1. h[m] = Apply(g[m - 1], s[m]) /\ h[m - 1] = g[m - 1] /\ m # 0
          BY <3>1
        <5> QED BY <4>2, <5>1
      <4> QED BY <3>1, <4>1, <4>2
    <3>4. h = [i \in 0 .. m |-> h[i]]
      OBVIOUS
    <3> HIDE DEF h
    <3>5. h = Step(m, h)
      BY <3>3, <3>4
    <3> QED BY <2>2, <3>5
  <2> QED BY <2>3, <2>4
<1>2. Len(s) \notin Bad
  BY <1>1
<1>3. \E g : g = Step(Len(s), g)
  BY <1>2
<1> DEFINE f == CHOOSE g : g = Step(Len(s), g)
<1>4. f = Step(Len(s), f)
  BY <1>3
<1>5. ApplyAll(d, s) = f[Len(s)]
  BY DEF ApplyAll
<1> HIDE DEF f
<1>6. Between(f, d, s)
  BY <1>4 DEF Between
<1> QED BY <1>5, <1>6

(* They are the only ones. *)
LEMMA ApplyAllIs ==
  ASSUME NEW d, NEW s, Len(s) \in Nat, NEW g, Between(g, d, s)
  PROVE  ApplyAll(d, s) = g[Len(s)]
<1>1. PICK h : Between(h, d, s) /\ ApplyAll(d, s) = h[Len(s)]
  BY ApplyAllSteps
<1> DEFINE Bad == {n \in 0 .. Len(s) : h[n] # g[n]}
<1>2. ASSUME Bad # {} PROVE FALSE
  <2>1. Bad \in SUBSET Nat
    OBVIOUS
  <2>2. PICK m \in Bad : \A n \in Bad : m <= n
    BY <1>2, <2>1, LeastNat
  <2>3. m # 0
    BY <1>1, <2>2 DEF Between
  <2>4. m \in 1 .. Len(s) /\ m - 1 \in 0 .. Len(s) /\ ~(m <= m - 1)
    BY <2>3
  <2>5. h[m - 1] = g[m - 1]
    BY <2>2, <2>4
  <2> QED BY <1>1, <2>2, <2>4, <2>5 DEF Between
<1>3. Len(s) \in 0 .. Len(s)
  OBVIOUS
<1> QED BY <1>1, <1>2, <1>3

(* No operation; one operation. *)
LEMMA ApplyFew ==
  ASSUME NEW d, NEW o PROVE ApplyAll(d, << >>) = d /\ ApplyAll(d, << o >>) = Apply(d, o)
<1> DEFINE g == [i \in 0 .. 1 |-> IF i = 0 THEN d ELSE Apply(d, o)]
           one == << o >>
           none == << >>
<1>1. Len(one) = 1 /\ one[1] = o /\ Len(none) = 0
  OBVIOUS
<1> HIDE DEF one, none
<1>2. g[0] = d /\ g[1] = Apply(d, o)
  OBVIOUS
<1> HIDE DEF g
<1>3. Between(g, d, one) /\ Between(g, d, none)
  BY <1>1, <1>2 DEF Between
<1>4. ApplyAll(d, one) = g[Len(one)]
  BY <1>1, <1>3, ApplyAllIs
<1>5. ApplyAll(d, none) = g[Len(none)]
  BY <1>1, <1>3, ApplyAllIs
<1> QED BY <1>1, <1>2, <1>4, <1>5 DEF one, none

(* The operations of one sequence and then those of another. *)
LEMMA ApplyJoin ==
  ASSUME NEW d, NEW s, NEW t, IsSeq(s), IsSeq(t)
  PROVE  ApplyAll(d, s \o t) = ApplyAll(ApplyAll(d, s), t)
<1>1. /\ Len(s) \in Nat /\ Len(t) \in Nat /\ Len(s \o t) = Len(s) + Len(t)
      /\ \A i \in 1 .. Len(s) : (s \o t)[i] = s[i]
      /\ \A i \in 1 .. Len(t) : (s \o t)[Len(s) + i] = t[i]
  BY Join, SeqFacts
<1>2. PICK g : Between(g, d, s) /\ ApplyAll(d, s) = g[Len(s)]
  BY <1>1, ApplyAllSteps
<1>3. PICK h : Between(h, ApplyAll(d, s), t) /\ ApplyAll(ApplyAll(d, s), t) = h[Len(t)]
  BY <1>1, ApplyAllSteps
<1> DEFINE u == s \o t
           f == [i \in 0 .. Len(s) + Len(t) |-> IF i <= Len(s) THEN g[i] ELSE h[i - Len(s)]]
<1>4. /\ \A i \in 0 .. Len(s) : f[i] = g[i]
      /\ \A i \in 0 .. Len(t) : f[Len(s) + i] = h[i]
  <2>1. ASSUME NEW i \in 0 .. Len(t) PROVE f[Len(s) + i] = h[i]
    <3>1. CASE i = 0
      BY <1>1, <1>2, <1>3, <3>1 DEF Between
    <3>2. CASE i # 0
      <4>1. Len(s) + i \in 0 .. Len(s) + Len(t) /\ ~(Len(s) + i <= Len(s))
            /\ (Len(s) + i) - Len(s) = i
        BY <1>1, <3>2
      <4> QED BY <4>1
    <3> QED BY <3>1, <3>2
  <2> QED BY <1>1, <2>1
<1> HIDE DEF f
<1>5. f[0] = d
  BY <1>1, <1>2, <1>4 DEF Between
<1>6. ASSUME NEW i \in 1 .. Len(s) + Len(t) PROVE f[i] = Apply(f[i - 1], u[i])
  <2>1. CASE i <= Len(s)
    <3>1. i \in 1 .. Len(s) /\ i \in 0 .. Len(s) /\ i - 1 \in 0 .. Len(s)
      BY <1>1, <2>1
    <3> QED BY <1>1, <1>2, <1>4, <3>1 DEF Between
  <2>2. CASE ~(i <= Len(s))
    <3> DEFINE j == i - Len(s)
    <3>1. /\ j \in 1 .. Len(t) /\ j \in 0 .. Len(t) /\ j - 1 \in 0 .. Len(t)
          /\ i = Len(s) + j /\ i - 1 = Len(s) + (j - 1)
      BY <1>1, <2>2
    <3> HIDE DEF j
    <3>2. f[i] = h[j] /\ f[i - 1] = h[j - 1] /\ u[i] = t[j]
      BY <1>1, <1>4, <3>1
    <3> QED BY <1>3, <3>1, <3>2 DEF Between
  <2> QED BY <2>1, <2>2
<1> HIDE DEF u
<1>7. Len(u) = Len(s) + Len(t) /\ Len(u) \in Nat /\ Len(t) \in 0 .. Len(t)
  BY <1>1 DEF u
<1>8. Between(f, d, u)
  BY <1>5, <1>6, <1>7 DEF Between
<1>9. ApplyAll(d, u) = f[Len(u)]
  BY <1>7, <1>8, ApplyAllIs
<1> QED BY <1>3, <1>4, <1>7, <1>9 DEF u

(* The maps between special properties exist too. *)
LEMMA ApplySpecialsSteps ==
  ASSUME NEW p, NEW s, Len(s) \in Nat
  PROVE  \E g : /\ g[0] = p /\ \A i \in 1 .. Len(s) : g[i] = ApplySpecial(g[i - 1], s[i])
              /\ ApplySpecials(p, s) = g[Len(s)]
<1> DEFINE Step(n, g) == [i \in 0 .. n |-> IF i = 0 THEN p ELSE ApplySpecial(g[i - 1], s[i])]
           Bad == {n \in 0 .. Len(s) : ~ \E g : g = Step(n, g)}
<1>1. ASSUME Bad # {} PROVE FALSE
  <2>1. Bad \in SUBSET Nat
    OBVIOUS
  <2>2. PICK m \in Bad : \A n \in Bad : m <= n
    BY <1>1, <2>1, LeastNat
  <2>3. CASE m = 0
    <3> DEFINE g == [i \in 0 .. 0 |-> p]
    <3>1. g = Step(0, g)
      OBVIOUS
    <3> QED BY <2>2, <2>3, <3>1
  <2>4. CASE m # 0
    <3>1. m \in 1 .. Len(s) /\ m - 1 \in 0 .. Len(s) /\ ~(m <= m - 1)
      BY <2>4
    <3>2. PICK g : g = Step(m - 1, g)
      BY <2>2, <3>1
    <3> DEFINE h == [i \in 0 .. m |-> IF i < m THEN g[i] ELSE ApplySpecial(g[m - 1], s[m])]
    <3>3. ASSUME NEW i \in 0 .. m
          PROVE  h[i] = IF i = 0 THEN p ELSE ApplySpecial(h[i - 1], s[i])
      <4>1. CASE i < m
        <5>1. i \in 0 .. m - 1 /\ h[i] = g[i]
          BY <3>1, <4>1
        <5>2. g[i] = IF i = 0 THEN p ELSE ApplySpecial(g[i - 1], s[i])
          BY <3>2, <5>1
        <5>3. i # 0 => h[i - 1] = g[i - 1]
          BY <3>1, <4>1
        <5> QED BY <5>1, <5>2, <5>3
      <4>2. CASE i = m
        <5>1. h[m] = ApplySpecial(g[m - 1], s[m]) /\ h[m - 1] = g[m - 1] /\ m # 0
          BY <3>1
        <5> QED BY <4>2, <5>1
      <4> QED BY <3>1, <4>1, <4>2
    <3>4. h = [i \in 0 .. m |-> h[i]]
      OBVIOUS
    <3> HIDE DEF h
    <3>5. h = Step(m, h)
      BY <3>3, <3>4
    <3> QED BY <2>2, <3>5
  <2> QED BY <2>3, <2>4
<1>2. Len(s) \notin Bad
  BY <1>1
<1>3. \E g : g = Step(Len(s), g)
  BY <1>2
<1> DEFINE f == CHOOSE g : g = Step(Len(s), g)
<1>4. f = Step(Len(s), f)
  BY <1>3
<1>5. ApplySpecials(p, s) = f[Len(s)]
  BY DEF ApplySpecials
<1> HIDE DEF f
<1>6. f[0] = p /\ \A i \in 1 .. Len(s) : f[i] = ApplySpecial(f[i - 1], s[i])
  BY <1>4
<1> QED BY <1>5, <1>6
-----------------------------------------------------------------------------
(* Databases, and the decimals that a rewrite does not keep of them *)

IsMap(p) == p = [q \in DOMAIN p |-> p[q]]
IsRecord(r) == \E p, x : /\ IsMap(p) /\ x \in InBounds \cup {NoPosition}
                         /\ r = [properties |-> p, position |-> x, expires_at |-> 0]
IsLayer(y) == /\ y = [k \in Key |-> y[k]]
              /\ \A k \in Key : y[k] = Absent \/ IsRecord(y[k])
IsDB(d) == /\ d = [l \in Layer |-> d[l]]
           /\ \A l \in Layer : d[l] = Absent \/ IsLayer(d[l])

(* Absent is no layer and no record. *)
AbsentIsNothing == /\ \A y : IsLayer(y) => y # Absent
                   /\ \A r : IsRecord(r) => r # Absent

(* The same, once the positions are written down and read again. *)
SameMap(p, q) == DOMAIN p = DOMAIN q /\ \A x \in DOMAIN p : p[x] = q[x]
SameRecord(r, s) ==
    /\ r = Absent <=> s = Absent
    /\ r # Absent => /\ SameMap(r.properties, s.properties)
                     /\ RereadPosition(r.position) = RereadPosition(s.position)
SameLayer(y, z) == /\ y = Absent <=> z = Absent
                   /\ y # Absent => \A k \in Key : SameRecord(y[k], z[k])
Same(x, y) == \A l \in Layer : SameLayer(x[l], y[l])

(* An operation that the handlers know, without an expiration date. *)
Fits(o) ==
    /\ o.layer \in Layer
    /\ o.type \in {"layers_create", "layers_delete", "records_put", "records_delete"}
    /\ o.type \in {"records_put", "records_delete"} => o.key \in Key
    /\ o.type = "records_put" =>
          /\ Len(o.special) \in Nat /\ o.expires_at = 0
          /\ \A i \in 1 .. Len(o.special) :
                o.special[i].do \in {"delete", "delete_all", "add_int"}

(* What an operation makes of its record and of its layer. *)
RecordAfter(r, o) == IF o.type = "records_delete" THEN Absent
                     ELSE UpdateRecord(IF r = Absent THEN NewRecord ELSE r, o)
LayerAfter(y, o) ==
    IF o.type = "layers_create" THEN IF y = Absent THEN EmptyLayer ELSE y
    ELSE IF o.type = "layers_delete" \/ y = Absent THEN Absent
    ELSE [k \in Key |-> IF k = o.key THEN RecordAfter(y[k], o) ELSE y[k]]

(* One layer changes. *)
LEMMA ApplyChanges ==
  ASSUME NEW d, IsDB(d), NEW o, Fits(o)
  PROVE  Apply(d, o) = [l \in Layer |-> IF l = o.layer THEN LayerAfter(d[l], o) ELSE d[l]]
<1> DEFINE e == [l \in Layer |-> IF l = o.layer THEN LayerAfter(d[l], o) ELSE d[l]]
           y == d[o.layer]
<1>1. d = [l \in Layer |-> d[l]] /\ o.layer \in Layer
  BY DEF IsDB, Fits
<1>2. o.type \in {"layers_create", "layers_delete", "records_put", "records_delete"}
  BY DEF Fits
<1>3. CASE y = Absent /\ o.type # "layers_create"
  <2>1. Apply(d, o) = d
    BY <1>2, <1>3 DEF Apply
  <2>2. LayerAfter(y, o) = y
    BY <1>3 DEF LayerAfter
  <2> QED BY <1>1, <2>1, <2>2
<1>4. CASE o.type = "layers_create"
  <2>1. Apply(d, o) = IF y = Absent THEN [d EXCEPT ![o.layer] = EmptyLayer] ELSE d
    BY <1>4 DEF Apply, LayersCreate
  <2>2. LayerAfter(y, o) = IF y = Absent THEN EmptyLayer ELSE y
    BY <1>4 DEF LayerAfter
  <2> QED BY <1>1, <2>1, <2>2
<1>5. CASE y # Absent /\ o.type = "layers_delete"
  <2>1. Apply(d, o) = [d EXCEPT ![o.layer] = Absent]
    BY <1>5 DEF Apply, LayersDelete
  <2>2. LayerAfter(y, o) = Absent
    BY <1>5 DEF LayerAfter
  <2> QED BY <1>1, <2>1, <2>2
<1>6. CASE y # Absent /\ o.type \in {"records_put", "records_delete"}
  <2> DEFINE r == RecordAfter(y[o.key], o)
  <2>1. o.key \in Key /\ y = [k \in Key |-> y[k]]
    BY <1>1, <1>6 DEF Fits, IsDB, IsLayer
  <2>2. Apply(d, o) = [d EXCEPT ![o.layer][o.key] = r]
    <3>1. CASE o.type = "records_put"
      BY <1>6, <3>1 DEF Apply, RecordsPut, RecordAfter
    <3>2. CASE o.type = "records_delete"
      BY <1>6, <3>2 DEF Apply, RecordsDelete, RecordAfter
    <3> QED BY <1>6, <3>1, <3>2
  <2>3. LayerAfter(y, o) = [k \in Key |-> IF k = o.key THEN r ELSE y[k]]
    BY <1>6 DEF LayerAfter
  <2> HIDE DEF r
  <2>4. [d EXCEPT ![o.layer][o.key] = r] = [d EXCEPT ![o.layer] = [y EXCEPT ![o.key] = r]]
    BY <1>1
  <2>5. [y EXCEPT ![o.key] = r] = LayerAfter(y, o)
    BY <2>1, <2>3
  <2> QED BY <1>1, <2>2, <2>4, <2>5
<1> QED BY <1>2, <1>3, <1>4, <1>5, <1>6

(* The fields of a record. *)
LEMMA RecordFields ==
  ASSUME NEW r, IsRecord(r)
  PROVE  /\ IsMap(r.properties) /\ r.position \in InBounds \cup {NoPosition}
         /\ r.expires_at = 0
         /\ r = [properties |-> r.properties, position |-> r.position,
                 expires_at |-> r.expires_at]
<1>1. PICK p, x : /\ IsMap(p) /\ x \in InBounds \cup {NoPosition}
                  /\ r = [properties |-> p, position |-> x, expires_at |-> 0]
  BY DEF IsRecord
<1>2. r.properties = p /\ r.position = x /\ r.expires_at = 0
  BY <1>1
<1> QED BY <1>1, <1>2

(* A PUT makes a record. *)
LEMMA UpdateTyped ==
  ASSUME NEW r, IsRecord(r), NEW o, o.expires_at = 0
  PROVE  IsRecord(UpdateRecord(r, o))
<1> DEFINE p == Merge(ApplySpecials(r.properties, o.special), o.properties)
           x == IF o.position \in InBounds THEN o.position ELSE r.position
<1>1. IsMap(p)
  BY DEF IsMap, Merge
<1>2. x \in InBounds \cup {NoPosition}
  BY RecordFields
<1>3. UpdateRecord(r, o) = [properties |-> p, position |-> x, expires_at |-> 0]
  BY DEF UpdateRecord
<1> HIDE DEF p, x
<1> QED BY <1>1, <1>2, <1>3 DEF IsRecord

(* A record starts without anything. *)
LEMMA NewRecordTyped == IsRecord(NewRecord)
<1>1. IsMap(NoProperties)
  BY DEF IsMap, NoProperties
<1> QED BY <1>1 DEF IsRecord, NewRecord

(* The handlers keep a database a database. *)
LEMMA ApplyTyped ==
  ASSUME NEW d, IsDB(d), NEW o, Fits(o) PROVE IsDB(Apply(d, o))
<1>1. ASSUME NEW l \in Layer
      PROVE  LayerAfter(d[l], o) = Absent \/ IsLayer(LayerAfter(d[l], o))
  <2> DEFINE y == d[l]
  <2>1. y = Absent \/ IsLayer(y)
    BY DEF IsDB
  <2> HIDE DEF y
  <2>2. CASE o.type = "layers_create"
    <3>1. IsLayer(EmptyLayer)
      BY DEF IsLayer, EmptyLayer
    <3> QED BY <2>1, <2>2, <3>1 DEF LayerAfter, y
  <2>3. CASE o.type # "layers_create" /\ (o.type = "layers_delete" \/ y = Absent)
    BY <2>3 DEF LayerAfter, y
  <2>4. CASE ~(o.type \in {"layers_create", "layers_delete"}) /\ y # Absent
    <3> DEFINE z == [k \in Key |-> IF k = o.key THEN RecordAfter(y[k], o) ELSE y[k]]
    <3>1. LayerAfter(y, o) = z
      BY <2>4 DEF LayerAfter
    <3>2. ASSUME NEW k \in Key PROVE y[k] = Absent \/ IsRecord(y[k])
      BY <2>1, <2>4 DEF IsLayer
    <3>3. ASSUME NEW k \in Key
          PROVE  RecordAfter(y[k], o) = Absent \/ IsRecord(RecordAfter(y[k], o))
      <4>1. CASE o.type = "records_delete"
        BY <4>1 DEF RecordAfter
      <4>2. CASE o.type # "records_delete"
        <5> DEFINE r == IF y[k] = Absent THEN NewRecord ELSE y[k]
        <5>1. IsRecord(r)
          BY <3>2, NewRecordTyped
        <5>2. o.expires_at = 0
          BY <2>4, <4>2 DEF Fits
        <5>3. RecordAfter(y[k], o) = UpdateRecord(r, o)
          BY <4>2 DEF RecordAfter
        <5> HIDE DEF r
        <5> QED BY <5>1, <5>2, <5>3, UpdateTyped
      <4> QED BY <4>1, <4>2
    <3>4. z = [k \in Key |-> z[k]]
      OBVIOUS
    <3>5. \A k \in Key : z[k] = Absent \/ IsRecord(z[k])
      BY <3>2, <3>3
    <3> HIDE DEF z
    <3> QED BY <3>1, <3>4, <3>5 DEF IsLayer, y
  <2> QED BY <2>2, <2>3, <2>4 DEF y
<1> DEFINE e == [l \in Layer |-> IF l = o.layer THEN LayerAfter(d[l], o) ELSE d[l]]
<1>2. e = [l \in Layer |-> e[l]]
  OBVIOUS
<1>3. \A l \in Layer : e[l] = Absent \/ IsLayer(e[l])
  BY <1>1 DEF IsDB
<1>4. Apply(d, o) = e
  BY ApplyChanges
<1> HIDE DEF e
<1> QED BY <1>2, <1>3, <1>4 DEF IsDB

(* So does a database. *)
LEMMA EmptyDBTyped == IsDB(EmptyDB)
  BY DEF IsDB, EmptyDB

(* ... whatever operations come. *)
LEMMA ApplyAllTyped ==
  ASSUME NEW d, IsDB(d), NEW s, Len(s) \in Nat, \A i \in 1 .. Len(s) : Fits(s[i])
  PROVE  IsDB(ApplyAll(d, s))
<1>1. PICK g : Between(g, d, s) /\ ApplyAll(d, s) = g[Len(s)]
  BY ApplyAllSteps
<1> DEFINE Bad == {n \in 0 .. Len(s) : ~ IsDB(g[n])}
<1>2. ASSUME Bad # {} PROVE FALSE
  <2>1. Bad \in SUBSET Nat
    OBVIOUS
  <2>2. PICK m \in Bad : \A n \in Bad : m <= n
    BY <1>2, <2>1, LeastNat
  <2>3. m # 0
    BY <1>1, <2>2 DEF Between
  <2>4. m \in 1 .. Len(s) /\ m - 1 \in 0 .. Len(s) /\ ~(m <= m - 1)
    BY <2>3
  <2>5. IsDB(g[m - 1])
    BY <2>2, <2>4
  <2>6. g[m] = Apply(g[m - 1], s[m])
    BY <1>1, <2>4 DEF Between
  <2> QED BY <2>2, <2>4, <2>5, <2>6, ApplyTyped
<1>3. Len(s) \in 0 .. Len(s)
  OBVIOUS
<1> QED BY <1>1, <1>2, <1>3

(* Same is an equivalence. *)
LEMMA SameRefl == ASSUME NEW x PROVE Same(x, x)
  BY DEF Same, SameLayer, SameRecord, SameMap

(* ... in both directions. *)
LEMMA SameSym == ASSUME NEW x, NEW y, Same(x, y) PROVE Same(y, x)
  BY DEF Same, SameLayer, SameRecord, SameMap

(* ... and over a third one. *)
LEMMA SameTrans == ASSUME NEW x, NEW y, NEW z, Same(x, y), Same(y, z) PROVE Same(x, z)
<1>1. ASSUME NEW p, NEW q, NEW r, SameMap(p, q), SameMap(q, r) PROVE SameMap(p, r)
  BY <1>1 DEF SameMap
<1>2. ASSUME NEW p, NEW q, NEW r, SameRecord(p, q), SameRecord(q, r) PROVE SameRecord(p, r)
  BY <1>1, <1>2 DEF SameRecord
<1>3. ASSUME NEW p, NEW q, NEW r, SameLayer(p, q), SameLayer(q, r) PROVE SameLayer(p, r)
  BY <1>2, <1>3 DEF SameLayer
<1> QED BY <1>3 DEF Same
-----------------------------------------------------------------------------
(* Handlers do the same to databases that are the same *)

(* A special property does to two maps that are the same what it does to one. *)
LEMMA SpecialSame ==
  ASSUME NEW p, NEW q, SameMap(p, q), NEW s, s.do \in {"delete", "delete_all", "add_int"}
  PROVE  SameMap(ApplySpecial(p, s), ApplySpecial(q, s))
<1>1. Heeded(p, s) <=> Heeded(q, s)
  BY DEF SameMap, Heeded
<1>2. CASE ~Heeded(p, s)
  BY <1>1, <1>2 DEF ApplySpecial
<1>3. CASE Heeded(p, s) /\ s.do = "delete"
  <2>1. ApplySpecial(p, s) = Without(p, s.property) /\ ApplySpecial(q, s) = Without(q, s.property)
    BY <1>1, <1>3 DEF ApplySpecial
  <2> QED BY <2>1 DEF SameMap, Without
<1>4. CASE Heeded(p, s) /\ s.do = "delete_all"
  <2>1. ApplySpecial(p, s) = NoProperties /\ ApplySpecial(q, s) = NoProperties
    BY <1>1, <1>4 DEF ApplySpecial
  <2> QED BY <2>1 DEF SameMap
<1>5. CASE Heeded(p, s) /\ s.do = "add_int"
  <2> DEFINE old(m) == IF s.property \in DOMAIN m THEN Number(m[s.property]) ELSE 0
             v(m) == Wrap(old(m) + Number(s.value))
  <2>1. /\ ApplySpecial(p, s) = With(p, s.property, v(p))
        /\ ApplySpecial(q, s) = With(q, s.property, v(q))
    BY <1>1, <1>5 DEF ApplySpecial, AddInt
  <2>2. old(p) = old(q)
    BY DEF SameMap
  <2>3. v(p) = v(q)
    BY <2>2
  <2> HIDE DEF v
  <2> QED BY <2>1, <2>3 DEF SameMap, With
<1> QED BY <1>2, <1>3, <1>4, <1>5

(* g has the map after each of the special properties s, from p on. *)
SpecialSteps(p, s, g) ==
    /\ g[0] = p /\ \A i \in 1 .. Len(s) : g[i] = ApplySpecial(g[i - 1], s[i])
    /\ ApplySpecials(p, s) = g[Len(s)]

(* There is one. *)
LEMMA HasSpecialSteps ==
  ASSUME NEW p, NEW s, Len(s) \in Nat
  PROVE  \E g : SpecialSteps(p, s, g)
<1>1. PICK g : /\ g[0] = p /\ \A i \in 1 .. Len(s) : g[i] = ApplySpecial(g[i - 1], s[i])
               /\ ApplySpecials(p, s) = g[Len(s)]
  BY ApplySpecialsSteps
<1>2. SpecialSteps(p, s, g)
  BY <1>1 DEF SpecialSteps
<1> QED BY <1>2

(* So do all the special properties of a request. *)
LEMMA SpecialsSame ==
  ASSUME NEW p, NEW q, SameMap(p, q), NEW s, Len(s) \in Nat,
         \A i \in 1 .. Len(s) : s[i].do \in {"delete", "delete_all", "add_int"}
  PROVE  SameMap(ApplySpecials(p, s), ApplySpecials(q, s))
<1>1. PICK g : SpecialSteps(p, s, g)
  BY HasSpecialSteps
<1>2. PICK h : SpecialSteps(q, s, h)
  BY HasSpecialSteps
<1> DEFINE Bad == {n \in 0 .. Len(s) : ~ SameMap(g[n], h[n])}
<1>3. ASSUME Bad # {} PROVE FALSE
  <2>1. Bad \in SUBSET Nat
    OBVIOUS
  <2>2. PICK m \in Bad : \A n \in Bad : m <= n
    BY <1>3, <2>1, LeastNat
  <2>3. m # 0
    BY <1>1, <1>2, <2>2 DEF SpecialSteps
  <2>4. m \in 1 .. Len(s) /\ m - 1 \in 0 .. Len(s) /\ ~(m <= m - 1)
    BY <2>3
  <2>5. SameMap(g[m - 1], h[m - 1])
    BY <2>2, <2>4
  <2>6. g[m] = ApplySpecial(g[m - 1], s[m]) /\ h[m] = ApplySpecial(h[m - 1], s[m])
    BY <1>1, <1>2, <2>4 DEF SpecialSteps
  <2>7. SameMap(g[m], h[m])
    BY <2>4, <2>5, <2>6, SpecialSame
  <2> QED BY <2>2, <2>7
<1>4. Len(s) \in 0 .. Len(s)
  OBVIOUS
<1> QED BY <1>1, <1>2, <1>3, <1>4 DEF SpecialSteps

(* Two records that are the same stay the same. *)
LEMMA RecordSame ==
  ASSUME AbsentIsNothing, NEW r, NEW s, SameRecord(r, s), NEW o, Fits(o),
         o.type \in {"records_put", "records_delete"},
         r = Absent \/ IsRecord(r), s = Absent \/ IsRecord(s)
  PROVE  SameRecord(RecordAfter(r, o), RecordAfter(s, o))
<1>1. CASE o.type = "records_delete"
  BY <1>1 DEF RecordAfter, SameRecord
<1>2. CASE o.type = "records_put"
  <2> DEFINE base(x) == IF x = Absent THEN NewRecord ELSE x
             a == base(r)
             b == base(s)
  <2>1. RecordAfter(r, o) = UpdateRecord(a, o) /\ RecordAfter(s, o) = UpdateRecord(b, o)
    BY <1>2 DEF RecordAfter
  <2>2. IsRecord(a) /\ IsRecord(b)
    BY NewRecordTyped
  <2>3. SameMap(a.properties, b.properties)
        /\ RereadPosition(a.position) = RereadPosition(b.position)
    <3>1. CASE r = Absent
      BY <3>1 DEF SameRecord, SameMap
    <3>2. CASE r # Absent
      BY <3>2 DEF SameRecord
    <3> QED BY <3>1, <3>2
  <2> HIDE DEF a, b
  <2>4. SameMap(ApplySpecials(a.properties, o.special), ApplySpecials(b.properties, o.special))
    BY <1>2, <2>3, SpecialsSame DEF Fits
  <2> DEFINE p == Merge(ApplySpecials(a.properties, o.special), o.properties)
             q == Merge(ApplySpecials(b.properties, o.special), o.properties)
             x == IF o.position \in InBounds THEN o.position ELSE a.position
             y == IF o.position \in InBounds THEN o.position ELSE b.position
  <2>5. SameMap(p, q)
    BY <2>4 DEF SameMap, Merge
  <2>6. RereadPosition(x) = RereadPosition(y)
    BY <2>3
  <2> HIDE DEF p, q, x, y
  <2>7. /\ UpdateRecord(a, o).properties = p /\ UpdateRecord(b, o).properties = q
        /\ UpdateRecord(a, o).position = x /\ UpdateRecord(b, o).position = y
    BY DEF UpdateRecord, p, q, x, y
  <2>8. IsRecord(UpdateRecord(a, o)) /\ IsRecord(UpdateRecord(b, o))
    BY <1>2, <2>2, UpdateTyped DEF Fits
  <2>9. UpdateRecord(a, o) # Absent /\ UpdateRecord(b, o) # Absent
    BY <2>8 DEF AbsentIsNothing
  <2> QED BY <2>1, <2>5, <2>6, <2>7, <2>9 DEF SameRecord
<1> QED BY <1>1, <1>2

(* A layer is not Absent. *)
LEMMA LayersExist == ASSUME AbsentIsNothing, NEW y, IsLayer(y) PROVE y # Absent
  BY DEF AbsentIsNothing

(* The empty layer is one. *)
LEMMA EmptyLayerExists == ASSUME AbsentIsNothing PROVE IsLayer(EmptyLayer) /\ EmptyLayer # Absent
<1>1. IsLayer(EmptyLayer)
  BY DEF IsLayer, EmptyLayer
<1> QED BY <1>1, LayersExist

(* One operation on two layers that are the same. *)
LEMMA LayerSame ==
  ASSUME AbsentIsNothing, NEW y, NEW z, SameLayer(y, z), NEW o, Fits(o),
         y = Absent \/ IsLayer(y), z = Absent \/ IsLayer(z)
  PROVE  SameLayer(LayerAfter(y, o), LayerAfter(z, o))
<1>1. o.type \in {"layers_create", "layers_delete", "records_put", "records_delete"}
  BY DEF Fits
<1>2. CASE o.type = "layers_create"
  <2>1. CASE y = Absent
    <3>1. LayerAfter(y, o) = EmptyLayer /\ LayerAfter(z, o) = EmptyLayer
      BY <1>2, <2>1 DEF LayerAfter, SameLayer
    <3> QED BY <3>1 DEF SameLayer, SameRecord, SameMap
  <2>2. CASE y # Absent
    <3>1. LayerAfter(y, o) = y /\ LayerAfter(z, o) = z
      BY <1>2, <2>2 DEF LayerAfter, SameLayer
    <3> QED BY <3>1
  <2> QED BY <2>1, <2>2
<1>3. CASE o.type # "layers_create" /\ (o.type = "layers_delete" \/ y = Absent)
  <2>1. LayerAfter(y, o) = Absent /\ LayerAfter(z, o) = Absent
    BY <1>3 DEF LayerAfter, SameLayer
  <2> QED BY <2>1 DEF SameLayer
<1>4. CASE o.type \in {"records_put", "records_delete"} /\ y # Absent
  <2> DEFINE a == [k \in Key |-> IF k = o.key THEN RecordAfter(y[k], o) ELSE y[k]]
             b == [k \in Key |-> IF k = o.key THEN RecordAfter(z[k], o) ELSE z[k]]
  <2>1. LayerAfter(y, o) = a /\ LayerAfter(z, o) = b
    BY <1>4 DEF LayerAfter, SameLayer
  <2>2. \A k \in Key : SameRecord(y[k], z[k]) /\ (y[k] = Absent \/ IsRecord(y[k]))
                       /\ (z[k] = Absent \/ IsRecord(z[k]))
    BY <1>4 DEF SameLayer, IsLayer
  <2>3. \A k \in Key : SameRecord(RecordAfter(y[k], o), RecordAfter(z[k], o))
    BY <1>4, <2>2, RecordSame
  <2>4. \A k \in Key : SameRecord(a[k], b[k])
    BY <2>2, <2>3
  <2>5. a # Absent /\ b # Absent
    <3>1. ASSUME NEW k \in Key
          PROVE  /\ RecordAfter(y[k], o) = Absent \/ IsRecord(RecordAfter(y[k], o))
                 /\ RecordAfter(z[k], o) = Absent \/ IsRecord(RecordAfter(z[k], o))
      <4>1. CASE o.type = "records_delete"
        BY <4>1 DEF RecordAfter
      <4>2. CASE o.type = "records_put"
        <5>1. IsRecord(IF y[k] = Absent THEN NewRecord ELSE y[k])
              /\ IsRecord(IF z[k] = Absent THEN NewRecord ELSE z[k])
          BY <2>2, NewRecordTyped
        <5>2. o.expires_at = 0
          BY <4>2 DEF Fits
        <5>3. IsRecord(UpdateRecord(IF y[k] = Absent THEN NewRecord ELSE y[k], o))
              /\ IsRecord(UpdateRecord(IF z[k] = Absent THEN NewRecord ELSE z[k], o))
          BY <5>1, <5>2, UpdateTyped
        <5> QED BY <4>2, <5>3 DEF RecordAfter
      <4> QED BY <1>4, <4>1, <4>2
    <3>2. IsLayer(a)
      BY <2>2, <3>1 DEF IsLayer
    <3>3. IsLayer(b)
      BY <2>2, <3>1 DEF IsLayer
    <3> HIDE DEF a, b
    <3> QED BY <3>2, <3>3, LayersExist
  <2> HIDE DEF a, b
  <2> QED BY <2>1, <2>4, <2>5 DEF SameLayer
<1> QED BY <1>1, <1>2, <1>3, <1>4

(* The same operation on two databases that are the same. *)
LEMMA ApplySame ==
  ASSUME AbsentIsNothing, NEW x, NEW y, IsDB(x), IsDB(y), Same(x, y), NEW o, Fits(o)
  PROVE  Same(Apply(x, o), Apply(y, o))
<1>1. /\ Apply(x, o) = [l \in Layer |-> IF l = o.layer THEN LayerAfter(x[l], o) ELSE x[l]]
      /\ Apply(y, o) = [l \in Layer |-> IF l = o.layer THEN LayerAfter(y[l], o) ELSE y[l]]
  BY ApplyChanges
<1>2. \A l \in Layer : /\ SameLayer(x[l], y[l]) /\ (x[l] = Absent \/ IsLayer(x[l]))
                       /\ (y[l] = Absent \/ IsLayer(y[l]))
  BY DEF Same, IsDB
<1>3. \A l \in Layer : SameLayer(LayerAfter(x[l], o), LayerAfter(y[l], o))
  BY <1>2, LayerSame
<1> QED BY <1>1, <1>2, <1>3 DEF Same

(* ... and any sequence of operations. *)
LEMMA ApplyAllSame ==
  ASSUME AbsentIsNothing, NEW x, NEW y, IsDB(x), IsDB(y), Same(x, y),
         NEW s, Len(s) \in Nat, \A i \in 1 .. Len(s) : Fits(s[i])
  PROVE  Same(ApplyAll(x, s), ApplyAll(y, s))
<1>1. PICK g : Between(g, x, s) /\ ApplyAll(x, s) = g[Len(s)]
  BY ApplyAllSteps
<1>2. PICK h : Between(h, y, s) /\ ApplyAll(y, s) = h[Len(s)]
  BY ApplyAllSteps
<1> DEFINE P(n) == IsDB(g[n]) /\ IsDB(h[n]) /\ Same(g[n], h[n])
           Bad == {n \in 0 .. Len(s) : ~ P(n)}
<1>3. ASSUME Bad # {} PROVE FALSE
  <2>1. Bad \in SUBSET Nat
    OBVIOUS
  <2>2. PICK m \in Bad : \A n \in Bad : m <= n
    BY <1>3, <2>1, LeastNat
  <2>3. m # 0
    BY <1>1, <1>2, <2>2 DEF Between
  <2>4. m \in 1 .. Len(s) /\ m - 1 \in 0 .. Len(s) /\ ~(m <= m - 1)
    BY <2>3
  <2>5. P(m - 1)
    BY <2>2, <2>4
  <2>6. g[m] = Apply(g[m - 1], s[m]) /\ h[m] = Apply(h[m - 1], s[m]) /\ Fits(s[m])
    BY <1>1, <1>2, <2>4 DEF Between
  <2>7. P(m)
    BY <2>5, <2>6, ApplyTyped, ApplySame
  <2> QED BY <2>2, <2>7
<1>4. Len(s) \in 0 .. Len(s)
  OBVIOUS
<1> QED BY <1>1, <1>2, <1>3, <1>4
-----------------------------------------------------------------------------
(* What a dump says *)

(* Records from a dump *)

(* A PUT without special properties. *)
LEMMA NoSpecials == ASSUME NEW p PROVE ApplySpecials(p, << >>) = p
<1> DEFINE none == << >>
<1>1. Len(none) = 0
  OBVIOUS
<1> HIDE DEF none
<1>2. PICK g : /\ g[0] = p /\ \A i \in 1 .. Len(none) : g[i] = ApplySpecial(g[i - 1], none[i])
               /\ ApplySpecials(p, none) = g[Len(none)]
  BY <1>1, ApplySpecialsSteps
<1>3. ApplySpecials(p, none) = p
  BY <1>1, <1>2
<1> QED BY <1>3 DEF none

(* The texts that no rewrite changes. *)
LEMMA RereadSame ==
  ASSUME ReadsBack, NEW props
  PROVE  /\ DOMAIN RereadProperties(props) = DOMAIN props
         /\ \A p \in DOMAIN props : RereadProperties(props)[p] = props[p]
<1>1. \A v : Reread(v) = v
  BY DEF Reread, ReadsBack
<1>2. {Reread(p) : p \in DOMAIN props} = DOMAIN props
  BY <1>1
<1>3. ASSUME NEW q \in DOMAIN props
      PROVE  (CHOOSE p \in DOMAIN props : Reread(p) = q) = q
  BY <1>1, <1>3
<1> QED BY <1>1, <1>2, <1>3 DEF RereadProperties

(* The PUT that recreates a record is an operation. *)
LEMMA DumpRecordFits ==
  ASSUME ReadsBack, NEW l \in Layer, NEW k \in Key, NEW r, IsRecord(r)
  PROVE  Fits(DumpRecord(l, k, r))
<1>1. r.expires_at = 0
  BY RecordFields
<1> DEFINE none == << >>
           o == DumpRecord(l, k, r)
<1>2. /\ o.layer = l /\ o.key = k /\ o.type = "records_put" /\ o.expires_at = 0
      /\ o.special = none
  BY <1>1 DEF DumpRecord, ReadsBack
<1>3. Len(none) = 0
  OBVIOUS
<1> HIDE DEF o, none
<1>4. Len(o.special) \in Nat /\ \A i \in 1 .. Len(o.special) : FALSE
  BY <1>2, <1>3
<1>5. Fits(o)
  BY <1>2, <1>4 DEF Fits
<1> QED BY <1>5 DEF o

(* The dump of a record makes that record, where there is none and where   *)
(* there is the same one.                                                  *)
LEMMA RecordRemade ==
  ASSUME ReadsBack, AbsentIsNothing, NEW l \in Layer, NEW k \in Key, NEW r, IsRecord(r),
         NEW x, x = Absent \/ (IsRecord(x) /\ SameRecord(x, r))
  PROVE  /\ SameRecord(RecordAfter(x, DumpRecord(l, k, r)), r)
         /\ IsRecord(RecordAfter(x, DumpRecord(l, k, r)))
<1> DEFINE o == DumpRecord(l, k, r)
           base == IF x = Absent THEN NewRecord ELSE x
           new == RereadProperties(r.properties)
           none == << >>
<1>1. /\ o.type = "records_put" /\ o.special = none /\ o.properties = new
      /\ o.position = RereadPosition(r.position) /\ o.expires_at = r.expires_at
  BY DEF DumpRecord
<1> HIDE DEF o
<1>2. RecordAfter(x, o) = UpdateRecord(base, o)
  BY <1>1 DEF RecordAfter
<1>3. IsRecord(base) /\ r # Absent
  BY NewRecordTyped DEF AbsentIsNothing
<1>4. /\ DOMAIN base.properties \subseteq DOMAIN r.properties
      /\ r.position \notin InBounds => RereadPosition(base.position) = RereadPosition(r.position)
  <2>1. CASE x = Absent
    <3>1. base.properties = NoProperties /\ base.position = NoPosition
      BY <2>1 DEF NewRecord
    <3>2. r.position \notin InBounds => r.position = NoPosition
      BY RecordFields
    <3> QED BY <3>1, <3>2 DEF NoProperties
  <2>2. CASE x # Absent
    BY <2>2 DEF SameRecord, SameMap
  <2> QED BY <2>1, <2>2
<1> HIDE DEF base
<1> DEFINE after == UpdateRecord(base, o)
<1>5. after.properties = Merge(base.properties, new)
  BY <1>1, NoSpecials DEF UpdateRecord
<1>6. after.position = IF RereadPosition(r.position) \in InBounds THEN RereadPosition(r.position)
                       ELSE base.position
  BY <1>1 DEF UpdateRecord
<1>7. IsRecord(after)
  BY <1>1, <1>3, RecordFields, UpdateTyped
<1> HIDE DEF after
<1>8. SameMap(after.properties, r.properties)
  <2>1. /\ DOMAIN new = DOMAIN r.properties
        /\ \A p \in DOMAIN r.properties : new[p] = r.properties[p]
    BY RereadSame
  <2>2. DOMAIN Merge(base.properties, new) = DOMAIN r.properties
    BY <1>4, <2>1 DEF Merge
  <2>3. \A p \in DOMAIN r.properties : Merge(base.properties, new)[p] = r.properties[p]
    BY <2>1 DEF Merge
  <2> HIDE DEF new
  <2> QED BY <1>5, <2>2, <2>3 DEF SameMap
<1>9. RereadPosition(after.position) = RereadPosition(r.position)
  <2>1. r.position \in InBounds <=> RereadPosition(r.position) \in InBounds
    BY StoreAssumption DEF RereadPosition
  <2>2. RereadPosition(RereadPosition(r.position)) = RereadPosition(r.position)
    BY DEF RereadPosition
  <2> QED BY <1>4, <1>6, <2>1, <2>2
<1>10. after # Absent
  BY <1>7 DEF AbsentIsNothing
<1> QED BY <1>2, <1>3, <1>7, <1>8, <1>9, <1>10 DEF SameRecord, o, after

(* The operations of a dump. *)
Created(l) == [tid |-> 0, type |-> "layers_create", layer |-> l]
FromDump(d, o) ==
    \/ \E l \in Layer : d[l] # Absent /\ o = Created(l)
    \/ \E l \in Layer, k \in Key : /\ d[l] # Absent /\ d[l][k] # Absent
                                   /\ o = DumpRecord(l, k, d[l][k])

(* The fields of the record that creates a layer. *)
LEMMA CreatedFields ==
  ASSUME NEW l \in Layer
  PROVE  Fits(Created(l)) /\ Created(l).layer = l /\ Created(l).type = "layers_create"
  BY DEF Created, Fits

(* A layer of a database has records. *)
LEMMA RecordOf ==
  ASSUME NEW d, IsDB(d), NEW l \in Layer, d[l] # Absent, NEW k \in Key, d[l][k] # Absent
  PROVE  IsRecord(d[l][k])
  BY DEF IsDB, IsLayer

(* They have nothing to do on a database that is the same. *)
LEMMA DumpAbsorbed ==
  ASSUME ReadsBack, AbsentIsNothing, NEW d, IsDB(d), NEW e, IsDB(e), Same(e, d), NEW o, FromDump(d, o)
  PROVE  Fits(o) /\ Same(Apply(e, o), e)
<1>1. ASSUME NEW l \in Layer, d[l] # Absent, o = Created(l) PROVE Fits(o) /\ Same(Apply(e, o), e)
  <2>1. Fits(o) /\ o.layer = l /\ o.type = "layers_create"
    BY <1>1, CreatedFields
  <2>2. e[l] # Absent
    BY <1>1 DEF Same, SameLayer
  <2>3. Apply(e, o) = e
    BY <2>1, <2>2 DEF Apply, LayersCreate
  <2> QED BY <2>1, <2>3, SameRefl
<1>2. ASSUME NEW l \in Layer, NEW k \in Key, d[l] # Absent, d[l][k] # Absent,
             o = DumpRecord(l, k, d[l][k])
      PROVE  Fits(o) /\ Same(Apply(e, o), e)
  <2>1. IsRecord(d[l][k])
    BY <1>2, RecordOf
  <2>2. Fits(o)
    BY <1>2, <2>1, DumpRecordFits
  <2>3. o.layer = l /\ o.key = k /\ o.type = "records_put"
    BY <1>2 DEF DumpRecord, ReadsBack
  <2>4. e[l] # Absent /\ SameRecord(e[l][k], d[l][k]) /\ e[l][k] # Absent
    BY <1>2 DEF Same, SameLayer, SameRecord
  <2>5. IsRecord(e[l][k])
    BY <2>4, RecordOf
  <2>6. SameRecord(RecordAfter(e[l][k], o), d[l][k]) /\ IsRecord(RecordAfter(e[l][k], o))
    BY <1>2, <2>1, <2>4, <2>5, RecordRemade
  <2>7. SameRecord(RecordAfter(e[l][k], o), e[l][k])
    BY <2>4, <2>6 DEF SameRecord, SameMap
  <2> DEFINE z == [j \in Key |-> IF j = k THEN RecordAfter(e[l][j], o) ELSE e[l][j]]
  <2>8. LayerAfter(e[l], o) = z
    BY <2>3, <2>4 DEF LayerAfter
  <2>9. Apply(e, o) = [m \in Layer |-> IF m = l THEN z ELSE e[m]]
    BY <2>2, <2>3, <2>8, ApplyChanges
  <2>10. IsDB(Apply(e, o))
    BY <2>2, ApplyTyped
  <2>11. z # Absent
    <3>1. \A j \in Key : z[j] = Absent \/ IsRecord(z[j])
      BY <2>4, <2>6, RecordOf
    <3>2. IsLayer(z)
      BY <3>1 DEF IsLayer
    <3> HIDE DEF z
    <3> QED BY <3>2, LayersExist
  <2>12. \A j \in Key : SameRecord(z[j], e[l][j])
    BY <2>7 DEF SameRecord, SameMap
  <2> HIDE DEF z
  <2>13. SameLayer(z, e[l])
    BY <2>4, <2>11, <2>12 DEF SameLayer
  <2> QED BY <2>2, <2>9, <2>13, SameRefl DEF Same
<1> QED BY <1>1, <1>2 DEF FromDump

(* The dump, layer by layer. *)
DumpOps(d) == {o \in {Created(l) : l \in Layer}
                       \cup {DumpRecord(l, k, d[l][k]) : l \in Layer, k \in Key} : FromDump(d, o)}

(* keys lists the records of a layer, puts dumps them. *)
LayerListed(d, l, keys, puts) ==
    /\ Len(keys) \in Nat /\ IsSeq(puts) /\ Len(puts) = Len(keys)
    /\ \A i \in 1 .. Len(keys) : /\ keys[i] \in Key /\ d[l][keys[i]] # Absent
                                 /\ puts[i] = DumpRecord(l, keys[i], d[l][keys[i]])
    /\ \A k \in Key : d[l][k] # Absent => \E i \in 1 .. Len(keys) : keys[i] = k
    /\ DumpLayer(d, l) = << Created(l) >> \o puts

(* ls lists the layers, f[i] dumps the first i of them. *)
Listed(d, ls, f) ==
    /\ Len(ls) \in Nat
    /\ \A i \in 1 .. Len(ls) : ls[i] \in Layer /\ d[ls[i]] # Absent
    /\ \A i, j \in 1 .. Len(ls) : ls[i] = ls[j] => i = j
    /\ \A l \in Layer : d[l] # Absent => \E i \in 1 .. Len(ls) : ls[i] = l
    /\ f[0] = << >> /\ \A i \in 1 .. Len(ls) : f[i] = f[i - 1] \o DumpLayer(d, ls[i])
    /\ \A i \in 0 .. Len(ls) : IsSeq(f[i])
    /\ Dump(d) = f[Len(ls)]

(* What the dump of a layer consists of. *)
LEMMA DumpLayerShape ==
  ASSUME NEW d, NEW l \in Layer, d[l] # Absent
  PROVE  DumpLayer(d, l) \in Seq(DumpOps(d)) /\ \E keys, puts : LayerListed(d, l, keys, puts)
<1> DEFINE K == {k \in Key : d[l][k] # Absent}
           keys == SetToSeq(K)
           T == DumpOps(d)
           rest == [i \in 1 .. Len(keys) |-> DumpRecord(l, keys[i], d[l][keys[i]])]
           head == Created(l)
<1>1. IsFiniteSet(K)
  BY StoreAssumption, FS_Subset
<1>2. keys \in Seq(K) /\ \A k \in K : \E i \in 1 .. Len(keys) : keys[i] = k
  BY <1>1, Enumeration
<1>3. DumpLayer(d, l) = << head >> \o [i \in DOMAIN keys |-> DumpRecord(l, keys[i], d[l][keys[i]])]
  BY DEF DumpLayer, Created
<1> HIDE DEF keys, head
<1>4. Len(keys) \in Nat /\ DOMAIN keys = 1 .. Len(keys)
      /\ \A i \in 1 .. Len(keys) : keys[i] \in K
  BY <1>2
<1>5. \A i \in 1 .. Len(keys) : keys[i] \in Key /\ d[l][keys[i]] # Absent
  BY <1>4
<1>6. \A i \in 1 .. Len(keys) : DumpRecord(l, keys[i], d[l][keys[i]]) \in T
  BY <1>5 DEF FromDump, DumpOps
<1>7. head \in T
  BY DEF FromDump, DumpOps, head
<1>8. DumpLayer(d, l) = << head >> \o rest
  BY <1>3, <1>4
<1> HIDE DEF T
<1>9. /\ rest \in [1 .. Len(keys) -> T]
      /\ \A i \in 1 .. Len(keys) : rest[i] = DumpRecord(l, keys[i], d[l][keys[i]])
  BY <1>6
<1> HIDE DEF rest
<1>10. rest \in Seq(T) /\ Len(rest) = Len(keys)
  BY <1>4, <1>9, FunctionIsSeq
<1>11. << head >> \o rest \in Seq(T)
  BY <1>7, <1>10
<1>12. IsSeq(rest)
  BY <1>10, TypedSeq
<1>13. \A k \in Key : d[l][k] # Absent => \E i \in 1 .. Len(keys) : keys[i] = k
  BY <1>2
<1>14. LayerListed(d, l, keys, rest)
  BY <1>4, <1>5, <1>8, <1>9, <1>10, <1>12, <1>13 DEF LayerListed, head
<1> QED BY <1>8, <1>11, <1>14 DEF T

(* What a dump consists of. *)
LEMMA DumpShape ==
  ASSUME NEW d
  PROVE  /\ IsSeq(Dump(d)) /\ \A i \in DOMAIN Dump(d) : FromDump(d, Dump(d)[i])
         /\ \E ls, f : Listed(d, ls, f)
<1> DEFINE T == DumpOps(d)
           L == {l \in Layer : d[l] # Absent}
           ls == SetToSeq(L)
           seqs == [i \in DOMAIN ls |-> DumpLayer(d, ls[i])]
<1>1. \A o \in T : FromDump(d, o)
  BY DEF DumpOps
<1>2. \A l \in Layer : d[l] # Absent => DumpLayer(d, l) \in Seq(T)
  BY DumpLayerShape
<1> HIDE DEF T
<1>3. IsFiniteSet(L)
  BY StoreAssumption, FS_Subset
<1>4. ls \in Seq(L) /\ IsInjective(ls) /\ \A l \in L : \E i \in 1 .. Len(ls) : ls[i] = l
  BY <1>3, Enumeration
<1>5. Dump(d) = FlattenSeq(seqs)
  BY DEF Dump
<1> HIDE DEF ls
<1>6. Len(ls) \in Nat /\ DOMAIN ls = 1 .. Len(ls)
      /\ \A i \in 1 .. Len(ls) : ls[i] \in Layer /\ d[ls[i]] # Absent
  BY <1>4
<1>7. seqs \in [1 .. Len(ls) -> Seq(T)] /\ \A i \in 1 .. Len(ls) : seqs[i] = DumpLayer(d, ls[i])
  BY <1>2, <1>6
<1> HIDE DEF seqs
<1>8. seqs \in Seq(Seq(T)) /\ Len(seqs) = Len(ls)
  BY <1>6, <1>7, FunctionIsSeq
<1>9. PICK f : /\ f[0] = << >> /\ \A i \in 1 .. Len(seqs) : f[i] = f[i - 1] \o seqs[i]
               /\ \A i \in 0 .. Len(seqs) : f[i] \in Seq(T)
               /\ FlattenSeq(seqs) = f[Len(seqs)]
  BY <1>8, FlattenSteps
<1>10. \A i \in 0 .. Len(ls) : IsSeq(f[i])
  BY <1>8, <1>9, TypedSeq
<1>12. Len(ls) \in 0 .. Len(ls)
  BY <1>6
<1>13. Dump(d) \in Seq(T)
  BY <1>5, <1>8, <1>9, <1>12
<1>14. IsSeq(Dump(d)) /\ \A i \in DOMAIN Dump(d) : Dump(d)[i] \in T
  BY <1>13, TypedSeq, SeqFacts
<1>15. \A l \in Layer : d[l] # Absent => \E i \in 1 .. Len(ls) : ls[i] = l
  BY <1>4
<1>16. \A i \in 1 .. Len(ls) : f[i] = f[i - 1] \o DumpLayer(d, ls[i])
  BY <1>7, <1>8, <1>9
<1>17. Dump(d) = f[Len(ls)]
  BY <1>5, <1>8, <1>9
<1>19. \A i, j \in 1 .. Len(ls) : ls[i] = ls[j] => i = j
  BY <1>4, <1>6 DEF IsInjective
<1>18. Listed(d, ls, f)
  BY <1>6, <1>9, <1>10, <1>15, <1>19, <1>16, <1>17 DEF Listed
<1> QED BY <1>1, <1>14, <1>18
-----------------------------------------------------------------------------
(* Replaying a dump *)

(* The dump of a layer makes that layer, where there is none. *)
LEMMA LayerRemade ==
  ASSUME ReadsBack, AbsentIsNothing, NEW d, IsDB(d), NEW l \in Layer, d[l] # Absent,
         NEW e, IsDB(e), e[l] = Absent
  PROVE  /\ IsDB(ApplyAll(e, DumpLayer(d, l)))
         /\ SameLayer(ApplyAll(e, DumpLayer(d, l))[l], d[l])
         /\ \A m \in Layer \ {l} : ApplyAll(e, DumpLayer(d, l))[m] = e[m]
<1>1. PICK keys, puts : LayerListed(d, l, keys, puts)
  BY DumpLayerShape
<1>2. /\ Len(keys) \in Nat /\ IsSeq(puts) /\ Len(puts) = Len(keys)
      /\ \A i \in 1 .. Len(keys) : /\ keys[i] \in Key /\ d[l][keys[i]] # Absent
                                   /\ puts[i] = DumpRecord(l, keys[i], d[l][keys[i]])
      /\ \A k \in Key : d[l][k] # Absent => \E i \in 1 .. Len(keys) : keys[i] = k
      /\ DumpLayer(d, l) = << Created(l) >> \o puts
  BY <1>1 DEF LayerListed
<1> DEFINE first == Apply(e, Created(l))
<1>3. ApplyAll(e, DumpLayer(d, l)) = ApplyAll(first, puts)
  <2>1. IsSeq(<< Created(l) >>)
    BY Single
  <2>2. ApplyAll(e, << Created(l) >>) = first
    BY ApplyFew
  <2> QED BY <1>2, <2>1, <2>2, ApplyJoin
<1>4. /\ IsDB(first) /\ first[l] = EmptyLayer /\ \A m \in Layer \ {l} : first[m] = e[m]
  <2>1. Fits(Created(l)) /\ Created(l).layer = l /\ Created(l).type = "layers_create"
    BY CreatedFields
  <2>2. first = [m \in Layer |-> IF m = l THEN LayerAfter(e[m], Created(l)) ELSE e[m]]
    BY <2>1, ApplyChanges
  <2>3. LayerAfter(e[l], Created(l)) = EmptyLayer
    BY <2>1 DEF LayerAfter
  <2> QED BY <2>1, <2>2, <2>3, ApplyTyped
<1> HIDE DEF first
<1>14. Len(puts) \in Nat
  BY <1>2
<1>5. PICK g : Between(g, first, puts) /\ ApplyAll(first, puts) = g[Len(puts)]
  BY <1>14, ApplyAllSteps
<1> DEFINE Done(n, k) == \E i \in 1 .. n : keys[i] = k
           P(n) == /\ IsDB(g[n]) /\ g[n][l] # Absent
                   /\ \A m \in Layer \ {l} : g[n][m] = e[m]
                   /\ \A k \in Key : IF Done(n, k) THEN SameRecord(g[n][l][k], d[l][k])
                                     ELSE g[n][l][k] = Absent
           Bad == {n \in 0 .. Len(puts) : ~ P(n)}
<1>6. P(0)
  <2>1. g[0] = first
    BY <1>5 DEF Between
  <2>2. \A k \in Key : ~ Done(0, k) /\ g[0][l][k] = Absent
    BY <1>4, <2>1 DEF EmptyLayer
  <2> QED BY <1>4, <2>1, <2>2, EmptyLayerExists
<1>7. ASSUME NEW n \in 1 .. Len(puts), P(n - 1) PROVE P(n)
  <2> DEFINE x == g[n - 1]
             key == keys[n]
             o == DumpRecord(l, key, d[l][key])
  <2>1. g[n] = Apply(x, o)
    BY <1>2, <1>5 DEF Between
  <2>2. key \in Key /\ d[l][key] # Absent
    BY <1>2
  <2>3. IsRecord(d[l][key])
    BY <2>2, RecordOf
  <2>4. Fits(o)
    BY <2>2, <2>3, DumpRecordFits
  <2>5. o.layer = l /\ o.key = key /\ o.type = "records_put"
    BY <2>2 DEF DumpRecord, ReadsBack
  <2>6. /\ IsDB(x) /\ x[l] # Absent
        /\ \A m \in Layer \ {l} : x[m] = e[m]
        /\ \A k \in Key : IF Done(n - 1, k) THEN SameRecord(x[l][k], d[l][k])
                          ELSE x[l][k] = Absent
    BY <1>7
  <2>7. \A k \in Key : Done(n, k) <=> Done(n - 1, k) \/ k = key
    <3>1. ASSUME NEW k \in Key, Done(n, k) PROVE Done(n - 1, k) \/ k = key
      <4>1. PICK i \in 1 .. n : keys[i] = k
        BY <3>1
      <4>2. i = n \/ i \in 1 .. n - 1
        BY <1>2
      <4> QED BY <4>1, <4>2
    <3>2. ASSUME NEW k \in Key, Done(n - 1, k) \/ k = key PROVE Done(n, k)
      <4>1. n \in 1 .. n /\ 1 .. n - 1 \subseteq 1 .. n
        BY <1>2
      <4> QED BY <3>2, <4>1
    <3> QED BY <3>1, <3>2
  <2> HIDE DEF Done, key
  <2>8. \A k \in Key : x[l][k] = Absent \/ (IsRecord(x[l][k]) /\ SameRecord(x[l][k], d[l][k]))
    BY <2>6, RecordOf
  <2>9. SameRecord(RecordAfter(x[l][key], o), d[l][key]) /\ IsRecord(RecordAfter(x[l][key], o))
    BY <2>2, <2>3, <2>8, RecordRemade
  <2> HIDE DEF o, x
  <2> DEFINE z == [k \in Key |-> IF k = key THEN RecordAfter(x[l][k], o) ELSE x[l][k]]
  <2>10. LayerAfter(x[l], o) = z
    BY <2>5, <2>6 DEF LayerAfter
  <2>11. z # Absent
    <3>1. \A k \in Key : z[k] = Absent \/ IsRecord(z[k])
      BY <2>8, <2>9
    <3>2. IsLayer(z)
      BY <3>1 DEF IsLayer
    <3> HIDE DEF z
    <3> QED BY <3>2, LayersExist
  <2>12. \A k \in Key : IF Done(n, k) THEN SameRecord(z[k], d[l][k]) ELSE z[k] = Absent
    BY <2>6, <2>7, <2>9
  <2> HIDE DEF z
  <2>13. g[n] = [m \in Layer |-> IF m = l THEN z ELSE x[m]]
    BY <2>1, <2>4, <2>5, <2>6, <2>10, ApplyChanges
  <2>14. IsDB(g[n])
    BY <2>1, <2>4, <2>6, ApplyTyped
  <2>15. g[n][l] = z /\ \A m \in Layer \ {l} : g[n][m] = e[m]
    BY <2>6, <2>13
  <2> QED BY <2>11, <2>12, <2>14, <2>15
<1> HIDE DEF P
<1>8. ASSUME Bad # {} PROVE FALSE
  <2>1. Bad \in SUBSET Nat
    BY <1>2
  <2>2. PICK m \in Bad : \A n \in Bad : m <= n
    BY <1>8, <2>1, LeastNat
  <2>3. m # 0
    BY <1>6, <2>2
  <2>4. m \in 1 .. Len(puts) /\ m - 1 \in 0 .. Len(puts) /\ ~(m <= m - 1)
    BY <1>2, <2>3
  <2>5. P(m - 1)
    BY <2>2, <2>4
  <2>6. P(m)
    BY <1>7, <2>4, <2>5
  <2> QED BY <2>2, <2>6
<1>9. P(Len(puts))
  <2>1. Len(puts) \in 0 .. Len(puts)
    BY <1>2
  <2> QED BY <1>8, <2>1
<1> DEFINE last == g[Len(puts)]
<1>10. /\ IsDB(last) /\ last[l] # Absent
       /\ \A m \in Layer \ {l} : last[m] = e[m]
       /\ \A k \in Key : IF Done(Len(puts), k) THEN SameRecord(last[l][k], d[l][k])
                         ELSE last[l][k] = Absent
  BY <1>9 DEF P
<1>11. \A k \in Key : ~ Done(Len(puts), k) => d[l][k] = Absent
  BY <1>2
<1> HIDE DEF last, Done
<1>12. \A k \in Key : SameRecord(last[l][k], d[l][k])
  BY <1>10, <1>11 DEF SameRecord
<1>13. SameLayer(last[l], d[l])
  BY <1>10, <1>12 DEF SameLayer
<1> QED BY <1>3, <1>5, <1>10, <1>13 DEF last

(* Replaying a dump makes the database that it was taken of, up to the     *)
(* decimals of positions.                                                  *)
LEMMA DumpReplays ==
  ASSUME ReadsBack, AbsentIsNothing, NEW d, IsDB(d)
  PROVE  Same(ApplyAll(EmptyDB, Dump(d)), d)
<1>0. \E ls, f : Listed(d, ls, f)
  BY DumpShape
<1>1. PICK ls, f : Listed(d, ls, f)
  BY <1>0
<1>2. /\ Len(ls) \in Nat
      /\ \A i \in 1 .. Len(ls) : ls[i] \in Layer /\ d[ls[i]] # Absent
      /\ \A i, j \in 1 .. Len(ls) : ls[i] = ls[j] => i = j
      /\ \A l \in Layer : d[l] # Absent => \E i \in 1 .. Len(ls) : ls[i] = l
      /\ f[0] = << >> /\ \A i \in 1 .. Len(ls) : f[i] = f[i - 1] \o DumpLayer(d, ls[i])
      /\ \A i \in 0 .. Len(ls) : IsSeq(f[i])
      /\ Dump(d) = f[Len(ls)]
  BY <1>1 DEF Listed
<1> DEFINE x(n) == ApplyAll(EmptyDB, f[n])
           Done(n, l) == \E i \in 1 .. n : ls[i] = l
           P(n) == /\ IsDB(x(n))
                   /\ \A l \in Layer : IF Done(n, l) THEN SameLayer(x(n)[l], d[l])
                                       ELSE x(n)[l] = Absent
           Bad == {n \in 0 .. Len(ls) : ~ P(n)}
<1>3. P(0)
  <2>1. x(0) = EmptyDB
    BY <1>2, ApplyFew
  <2>2. \A l \in Layer : ~ Done(0, l) /\ EmptyDB[l] = Absent
    BY DEF EmptyDB
  <2> QED BY <2>1, <2>2, EmptyDBTyped
<1>4. ASSUME NEW n \in 1 .. Len(ls), P(n - 1) PROVE P(n)
  <2> DEFINE e == x(n - 1)
             l == ls[n]
  <2>1. l \in Layer /\ d[l] # Absent /\ f[n] = f[n - 1] \o DumpLayer(d, l)
    BY <1>2
  <2>2. n - 1 \in 0 .. Len(ls)
    BY <1>2
  <2>3. IsSeq(f[n - 1]) /\ IsSeq(DumpLayer(d, l))
    <3>1. DumpLayer(d, l) \in Seq(DumpOps(d))
      BY <2>1, DumpLayerShape
    <3> QED BY <1>2, <2>2, <3>1, TypedSeq
  <2>4. x(n) = ApplyAll(e, DumpLayer(d, l))
    BY <2>1, <2>3, ApplyJoin
  <2>5. /\ IsDB(e)
        /\ \A m \in Layer : IF Done(n - 1, m) THEN SameLayer(e[m], d[m]) ELSE e[m] = Absent
    BY <1>4
  <2>6. \A m \in Layer : Done(n, m) <=> Done(n - 1, m) \/ m = l
    <3>1. ASSUME NEW m \in Layer, Done(n, m) PROVE Done(n - 1, m) \/ m = l
      <4>1. PICK i \in 1 .. n : ls[i] = m
        BY <3>1
      <4>2. i = n \/ i \in 1 .. n - 1
        BY <1>2
      <4> QED BY <4>1, <4>2
    <3>2. ASSUME NEW m \in Layer, Done(n - 1, m) \/ m = l PROVE Done(n, m)
      <4>1. n \in 1 .. n /\ 1 .. n - 1 \subseteq 1 .. n
        BY <1>2
      <4> QED BY <3>2, <4>1
    <3> QED BY <3>1, <3>2
  <2>7. ~ Done(n - 1, l)
    <3>1. \A i \in 1 .. n - 1 : i \in 1 .. Len(ls) /\ i # n
      BY <1>2
    <3> QED BY <1>2, <3>1
  <2> DEFINE new == x(n)
  <2>8. new = ApplyAll(e, DumpLayer(d, l))
    BY <2>4
  <2> HIDE DEF new, e, l, x, Done
  <2>9. e[l] = Absent
    BY <2>1, <2>5, <2>7
  <2>10. IsDB(new) /\ SameLayer(new[l], d[l]) /\ \A m \in Layer \ {l} : new[m] = e[m]
    BY <2>1, <2>5, <2>8, <2>9, LayerRemade
  <2>11. \A m \in Layer : IF Done(n, m) THEN SameLayer(new[m], d[m]) ELSE new[m] = Absent
    BY <2>5, <2>6, <2>10
  <2> QED BY <2>10, <2>11 DEF new
<1> HIDE DEF P
<1>5. ASSUME Bad # {} PROVE FALSE
  <2>1. Bad \in SUBSET Nat
    BY <1>2
  <2>2. PICK m \in Bad : \A n \in Bad : m <= n
    BY <1>5, <2>1, LeastNat
  <2>3. m # 0
    BY <1>3, <2>2
  <2>4. m \in 1 .. Len(ls) /\ m - 1 \in 0 .. Len(ls) /\ ~(m <= m - 1)
    BY <1>2, <2>3
  <2>5. P(m - 1)
    BY <2>2, <2>4
  <2>6. P(m)
    BY <1>4, <2>4, <2>5
  <2> QED BY <2>2, <2>6
<1>6. P(Len(ls))
  <2>1. Len(ls) \in 0 .. Len(ls)
    BY <1>2
  <2> QED BY <1>5, <2>1
<1>7. \A l \in Layer : IF Done(Len(ls), l) THEN SameLayer(x(Len(ls))[l], d[l])
                        ELSE x(Len(ls))[l] = Absent
  BY <1>6 DEF P
<1>8. \A l \in Layer : ~ Done(Len(ls), l) => d[l] = Absent
  BY <1>2
<1>9. x(Len(ls)) = ApplyAll(EmptyDB, Dump(d))
  BY <1>2
<1> HIDE DEF x, Done
<1>10. \A l \in Layer : SameLayer(x(Len(ls))[l], d[l])
  BY <1>7, <1>8 DEF SameLayer
<1> QED BY <1>9, <1>10 DEF Same
-----------------------------------------------------------------------------
(* The journal and the memory: the invariant *)

(* What the workers will make of the memory. *)
After == ApplyAll(db, Waiting)

(* No record is torn; every other one is an operation. *)
Whole(s) == \A i \in DOMAIN s : s[i] # Torn
AllFit(s) == \A i \in DOMAIN s : s[i] = Torn \/ Fits(s[i])

(* What s says is already so in d. *)
Absorbs(d, s) == \A i \in DOMAIN s : s[i] # Torn => Same(Apply(d, s[i]), d)

StoreInv ==
    /\ IsDB(db) /\ AllFit(file) /\ AllFit(dump)
    /\ ~cut => \A i \in DOMAIN dump : Fits(dump[i])

(* The journal makes what the memory will be. *)
MemoryInv ==
    Whole(file) /\ ~damaged /\ lost \cap Accepted = {}
      => Same(ApplyAll(EmptyDB, Log), After)

(* So does the journal that a rewrite prepares; a dump with nothing behind *)
(* it says what is so.                                                     *)
DumpInv ==
    child # "none" /\ (lost \cup queued) \cap Accepted = {} =>
        /\ Whole(From(Log, Mark)) /\ ~cut /\ Mark >= unread
             => Same(ApplyAll(EmptyDB, dump \o From(Log, Mark)), After)
        /\ From(Log, Mark) = << >> => Absorbs(After, dump)

(* After a rewrite the file offset may be 0: what a next rewrite copies    *)
(* from there says what is so.  Records that the start left unread do not. *)
OffsetInv ==
    Unwritten = << >> /\ lost \cap Accepted = {} /\ offset >= unread
        /\ Whole(From(file, offset))
      => Absorbs(After, From(file, offset))

(* No date: nothing expires. *)
Undated == \A r \in Request : r.type = "records_put" => r.expires_at = 0

(* What a client asks for is an operation. *)
LEMMA OpFits == ASSUME Undated, NEW o \in Op PROVE Fits(o)
<1>1. PICK r \in Request, t \in 1 .. MaxOps : o = [r EXCEPT !.tid = t]
  BY DEF Op
<1>2. /\ {"tid", "type", "layer"} \subseteq DOMAIN r /\ r.layer \in Layer
      /\ r.type \in {"layers_create", "layers_delete", "records_put", "records_delete"}
      /\ r.type \in {"records_put", "records_delete"} => "key" \in DOMAIN r /\ r.key \in Key
      /\ r.type = "records_put" =>
            /\ {"special", "properties", "position", "expires_at"} \subseteq DOMAIN r
            /\ Len(r.special) \in Nat /\ r.expires_at = 0
            /\ \A i \in 1 .. Len(r.special) :
                  r.special[i].do \in {"delete", "delete_all", "add_int"}
  BY RequestAssumption DEF Undated
<1>3. /\ o.layer = r.layer /\ o.type = r.type
      /\ "key" \in DOMAIN r => o.key = r.key
      /\ "special" \in DOMAIN r => o.special = r.special
      /\ "expires_at" \in DOMAIN r => o.expires_at = r.expires_at
  BY <1>1, <1>2
<1> QED BY <1>2, <1>3 DEF Fits

(* No operation is torn. *)
LEMMA OpsFit ==
  ASSUME Undated, NEW s \in Seq(Op)
  PROVE  /\ \A i \in 1 .. Len(s) : Fits(s[i])
         /\ AllFit(s) /\ Whole(s)
<1>1. IsSeq(s) /\ \A i \in DOMAIN s : s[i] \in Op
  BY OpSeq
<1>2. DOMAIN s = 1 .. Len(s)
  BY <1>1, SeqFacts
<1> QED BY <1>1, <1>2, OpFits, OpFacts DEF AllFit, Whole

(* What holds of the records of two sequences. *)
LEMMA JoinRecords ==
  ASSUME NEW s, NEW t, IsSeq(s), IsSeq(t)
  PROVE  /\ Whole(s \o t) <=> Whole(s) /\ Whole(t)
         /\ AllFit(s \o t) <=> AllFit(s) /\ AllFit(t)
<1>1. /\ DOMAIN s = 1 .. Len(s) /\ DOMAIN t = 1 .. Len(t) /\ Len(s) \in Nat /\ Len(t) \in Nat
      /\ IsSeq(s \o t) /\ Len(s \o t) = Len(s) + Len(t)
      /\ \A i \in 1 .. Len(s) : (s \o t)[i] = s[i]
      /\ \A i \in 1 .. Len(t) : (s \o t)[Len(s) + i] = t[i]
  BY Join, SeqFacts
<1>2. DOMAIN (s \o t) = 1 .. Len(s) + Len(t)
  BY <1>1, SeqFacts
<1>3. \A i \in 1 .. Len(s) : i \in 1 .. Len(s) + Len(t)
  BY <1>1
<1>4. \A i \in 1 .. Len(t) : Len(s) + i \in 1 .. Len(s) + Len(t)
  BY <1>1
<1>5. \A i \in 1 .. Len(s) + Len(t) : i \in 1 .. Len(s) \/ \E j \in 1 .. Len(t) : i = Len(s) + j
  <2>1. \A i \in 1 .. Len(s) + Len(t) : i \in 1 .. Len(s)
           \/ (i - Len(s) \in 1 .. Len(t) /\ i = Len(s) + (i - Len(s)))
    BY <1>1
  <2> QED BY <2>1
<1>6. \A i \in DOMAIN (s \o t) : \/ \E j \in DOMAIN s : (s \o t)[i] = s[j]
                                \/ \E j \in DOMAIN t : (s \o t)[i] = t[j]
  <2> TAKE i \in DOMAIN (s \o t)
  <2>1. CASE i \in 1 .. Len(s)
    BY <1>1, <2>1
  <2>2. CASE \E j \in 1 .. Len(t) : i = Len(s) + j
    <3>1. PICK j \in 1 .. Len(t) : i = Len(s) + j
      BY <2>2
    <3>2. (s \o t)[i] = t[j] /\ j \in DOMAIN t
      BY <1>1, <3>1
    <3> QED BY <3>2
  <2> QED BY <1>2, <1>5, <2>1, <2>2
<1>7. /\ \A j \in DOMAIN s : \E i \in DOMAIN (s \o t) : (s \o t)[i] = s[j]
      /\ \A j \in DOMAIN t : \E i \in DOMAIN (s \o t) : (s \o t)[i] = t[j]
  BY <1>1, <1>2, <1>3, <1>4
<1> DEFINE u == s \o t
<1> HIDE DEF u
<1>8. Whole(u) <=> Whole(s) /\ Whole(t)
  BY <1>6, <1>7 DEF Whole, u
<1>9. AllFit(u) <=> AllFit(s) /\ AllFit(t)
  BY <1>6, <1>7, Zenon DEF AllFit, u
<1> QED BY <1>8, <1>9 DEF u

(* A journal without torn records consists of operations. *)
LEMMA WholeFits ==
  ASSUME NEW s, IsSeq(s), Whole(s), AllFit(s)
  PROVE  Len(s) \in Nat /\ \A i \in 1 .. Len(s) : Fits(s[i])
  BY SeqFacts DEF Whole, AllFit

(* process_request accepts an operation. *)
LEMMA FitsAreAccepted == ASSUME NEW o, Fits(o) PROVE ~Refused(o)
  BY StoreAssumption DEF Fits, Refused

(* A start reads all of them. *)
LEMMA FitsAreRead == ASSUME NEW s, Whole(s), AllFit(s) PROVE Readable(s) = s
<1>1. {i \in DOMAIN s : s[i] = Torn \/ Refused(s[i])} = {}
  BY FitsAreAccepted DEF Whole, AllFit
<1> QED BY <1>1 DEF Readable

(* The part of a sequence behind the n-th element. *)
LEMMA FromRecords ==
  ASSUME NEW s, IsSeq(s), NEW n \in 0 .. Len(s)
  PROVE  /\ IsSeq(From(s, n)) /\ IsSeq(SubSeq(s, 1, n))
         /\ Whole(s) => Whole(From(s, n)) /\ Whole(SubSeq(s, 1, n))
         /\ AllFit(s) => AllFit(From(s, n)) /\ AllFit(SubSeq(s, 1, n))
<1>1. IsSeq(From(s, n)) /\ IsSeq(SubSeq(s, 1, n)) /\ SubSeq(s, 1, n) \o From(s, n) = s
  BY FromFacts, CutFacts, CutJoin
<1> QED BY <1>1, JoinRecords

(* What is already so stays so. *)
LEMMA AbsorbsAll ==
  ASSUME AbsentIsNothing, NEW d, IsDB(d), NEW s, IsSeq(s), Whole(s), AllFit(s), Absorbs(d, s)
  PROVE  Same(ApplyAll(d, s), d)
<1>1. Len(s) \in Nat /\ DOMAIN s = 1 .. Len(s) /\ \A i \in 1 .. Len(s) : Fits(s[i])
  BY WholeFits, SeqFacts
<1>2. \A i \in 1 .. Len(s) : Same(Apply(d, s[i]), d)
  BY <1>1 DEF Absorbs, Whole
<1>3. PICK g : Between(g, d, s) /\ ApplyAll(d, s) = g[Len(s)]
  BY <1>1, ApplyAllSteps
<1> DEFINE P(n) == IsDB(g[n]) /\ Same(g[n], d)
           Bad == {n \in 0 .. Len(s) : ~ P(n)}
<1>4. ASSUME Bad # {} PROVE FALSE
  <2>1. Bad \in SUBSET Nat
    BY <1>1
  <2>2. PICK m \in Bad : \A n \in Bad : m <= n
    BY <1>4, <2>1, LeastNat
  <2>3. m # 0
    BY <1>3, <2>2, SameRefl DEF Between
  <2>4. m \in 1 .. Len(s) /\ m - 1 \in 0 .. Len(s) /\ ~(m <= m - 1)
    BY <1>1, <2>3
  <2>5. P(m - 1)
    BY <2>2, <2>4
  <2>6. g[m] = Apply(g[m - 1], s[m]) /\ Fits(s[m])
    BY <1>1, <1>3, <2>4 DEF Between
  <2>7. IsDB(g[m]) /\ IsDB(Apply(d, s[m])) /\ Same(g[m], Apply(d, s[m]))
    BY <2>5, <2>6, ApplyTyped, ApplySame
  <2>8. P(m)
    BY <1>2, <2>4, <2>7, SameTrans
  <2> QED BY <2>2, <2>8
<1>5. Len(s) \in 0 .. Len(s)
  BY <1>1
<1> QED BY <1>3, <1>4, <1>5

(* Whether something is so does not depend on how it was written. *)
LEMMA AbsorbsSame ==
  ASSUME AbsentIsNothing, NEW d, IsDB(d), NEW e, IsDB(e), Same(d, e),
         NEW s, AllFit(s), Absorbs(d, s)
  PROVE  Absorbs(e, s)
<1> SUFFICES ASSUME NEW i \in DOMAIN s, s[i] # Torn PROVE Same(Apply(e, s[i]), e)
  BY DEF Absorbs
<1>1. Fits(s[i]) /\ Same(Apply(d, s[i]), d)
  BY DEF AllFit, Absorbs
<1>2. Same(Apply(e, s[i]), Apply(d, s[i]))
  BY <1>1, ApplySame, SameSym
<1> QED BY <1>1, <1>2, SameTrans

(* One worker's operation, then the queue; now and after a step. *)
LEMMA WaitingOfOne ==
  ASSUME OneWorker, NEW w \in Worker
  PROVE  Waiting = Hand(op[w]) \o cqueue /\ Waiting' = Hand(op'[w]) \o cqueue'
<1>1. Waiting = InOrder(InHand) \o cqueue /\ Waiting' = InOrder(InHand') \o cqueue'
  BY DEF Waiting, InOrder
<1>2. InHand = {op[w]} \ {NoOp} /\ InHand' = {op'[w]} \ {NoOp}
  BY DEF InHand, OneWorker
<1>3. InOrder(InHand) = Hand(op[w]) /\ InOrder(InHand') = Hand(op'[w])
  BY <1>2, InOrderOfOne
<1> QED BY <1>1, <1>3

(* What a worker has at hand is a sequence. *)
LEMMA HandTyped ==
  ASSUME NEW o \in Op \cup {NoOp}
  PROVE  /\ Hand(o) \in Seq(Op) /\ IsSeq(Hand(o))
         /\ o = NoOp => Hand(o) = << >>
         /\ o # NoOp => Hand(o) = << o >>
<1>1. CASE o = NoOp
  <2>1. << >> \in Seq(Op)
    BY EmptySeq
  <2> QED BY <1>1, <2>1, Empty DEF Hand
<1>2. CASE o # NoOp
  <2>1. << o >> \in Seq(Op)
    BY <1>2
  <2> QED BY <1>2, <2>1, Single DEF Hand
<1> QED BY <1>1, <1>2

(* What waits are operations; they make a database. *)
LEMMA WaitingTyped ==
  ASSUME OneWorker, Undated, TypeInv, IsDB(db)
  PROVE  Waiting \in Seq(Op) /\ IsSeq(Waiting) /\ IsDB(After)
<1>1. PICK w : w \in Worker
  BY ServerAssumption
<1>2. op[w] \in Op \cup {NoOp} /\ cqueue \in Seq(Op)
  BY <1>1 DEF TypeInv
<1>3. Waiting = Hand(op[w]) \o cqueue
  BY <1>1, WaitingOfOne
<1>4. Hand(op[w]) \in Seq(Op)
  BY <1>2, HandTyped
<1>5. Waiting \in Seq(Op)
  BY <1>2, <1>3, <1>4, TidsJoin
<1> HIDE DEF Waiting
<1>6. IsSeq(Waiting) /\ Len(Waiting) \in Nat /\ \A i \in 1 .. Len(Waiting) : Fits(Waiting[i])
  BY <1>5, OpSeq, OpsFit, SeqFacts
<1> QED BY <1>5, <1>6, ApplyAllTyped DEF After

(* Taking an operation out of the queue changes nothing yet. *)
LEMMA ShiftAfter ==
  ASSUME OneWorker, TypeInv, NEW w \in Worker, Shift(w) PROVE After' = After
<1>1. /\ op[w] = NoOp /\ cqueue # << >> /\ cqueue' = Tail(cqueue) /\ db' = db
      /\ op' = [op EXCEPT ![w] = Head(cqueue)]
  BY DEF Shift
<1>2. cqueue \in Seq(Op) /\ op \in [Worker -> Op \cup {NoOp}]
  BY DEF TypeInv
<1>3. op'[w] = Head(cqueue)
  BY <1>1, <1>2
<1>4. Head(cqueue) \in Op /\ cqueue = << Head(cqueue) >> \o Tail(cqueue)
  BY <1>1, <1>2
<1>5. Hand(op'[w]) = << Head(cqueue) >> /\ Hand(op[w]) = << >>
  BY <1>1, <1>3, <1>4, OpFacts DEF Hand
<1>6. Waiting = << >> \o cqueue /\ Waiting' = << Head(cqueue) >> \o Tail(cqueue)
  BY <1>1, <1>5, WaitingOfOne
<1>7. << >> \o cqueue = cqueue
  BY <1>2, OpSeq, EmptyJoin
<1>8. Waiting' = Waiting
  BY <1>4, <1>6, <1>7
<1> QED BY <1>1, <1>8 DEF After

(* Running it does what was expected. *)
LEMMA HandleAfter ==
  ASSUME OneWorker, TypeInv, NEW w \in Worker, Handle(w) PROVE After' = After
<1>1. /\ op[w] # NoOp /\ db' = Apply(db, op[w]) /\ cqueue' = cqueue
      /\ op' = [op EXCEPT ![w] = NoOp]
  BY DEF Handle
<1>2. cqueue \in Seq(Op) /\ op \in [Worker -> Op \cup {NoOp}]
  BY DEF TypeInv
<1>3. op'[w] = NoOp
  BY <1>1, <1>2
<1>4. IsSeq(cqueue) /\ IsSeq(<< op[w] >>)
  BY <1>2, OpSeq, Single
<1>5. Waiting = << op[w] >> \o cqueue /\ Waiting' = << >> \o cqueue
  BY <1>1, <1>3, WaitingOfOne DEF Hand
<1>6. Waiting' = cqueue
  BY <1>4, <1>5, EmptyJoin
<1>7. After = ApplyAll(ApplyAll(db, << op[w] >>), cqueue)
  BY <1>4, <1>5, ApplyJoin DEF After
<1>8. ApplyAll(db, << op[w] >>) = db'
  BY <1>1, ApplyFew
<1>9. After' = ApplyAll(db', cqueue)
  BY <1>6 DEF After
<1> QED BY <1>7, <1>8, <1>9

(* A new operation will run last. *)
LEMMA DispatchAfter ==
  ASSUME OneWorker, TypeInv, NEW r \in Request, Accepts(r)
  PROVE  \E o \in Op : /\ Log' = Log \o << o >> /\ After' = Apply(After, o)
                       /\ Accepted' = Accepted \cup {op_tid + 1}
                       /\ Unwritten' = Unwritten \o << o >> /\ Mark' = Mark
                       /\ UNCHANGED <<db, file, offset, lost, unread, damaged, child, dump, queued, cut>>
<1> DEFINE o == [r EXCEPT !.tid = op_tid + 1]
<1>1. Dispatch(r) /\ Len(cqueue) < Capacity
  BY DEF Accepts
<1>2. /\ o \in Op /\ cqueue' = Append(cqueue, o) /\ Log' = Log \o << o >>
      /\ Accepted' = Accepted \cup {op_tid + 1} /\ Unwritten' = Unwritten \o << o >>
  BY <1>1, DispatchEffect
<1>3. /\ UNCHANGED <<db, op, file, offset, lost, unread, damaged, child, dump, queued, cut>>
      /\ main = "loop" /\ main' = "log" /\ fork_offset' = fork_offset
  BY <1>1 DEF Dispatch, fileVars, childVars, histVars
<1>4. Mark' = Mark
  BY <1>3 DEF Mark
<1> HIDE DEF o
<1>5. PICK w : w \in Worker
  BY ServerAssumption
<1>6. op[w] \in Op \cup {NoOp} /\ cqueue \in Seq(Op)
  BY <1>5 DEF TypeInv
<1>7. IsSeq(cqueue) /\ IsSeq(<< o >>) /\ IsSeq(Hand(op[w]))
  BY <1>6, OpSeq, Single, HandTyped
<1>8. cqueue' = cqueue \o << o >>
  BY <1>2, <1>7, AppendJoin
<1>9. Waiting = Hand(op[w]) \o cqueue /\ Waiting' = Hand(op[w]) \o (cqueue \o << o >>)
  BY <1>3, <1>5, <1>8, WaitingOfOne
<1>10. Waiting' = Waiting \o << o >> /\ IsSeq(Waiting)
  BY <1>7, <1>9, JoinAssoc, Join
<1>11. After' = ApplyAll(db, Waiting \o << o >>)
  BY <1>3, <1>10 DEF After
<1>12. ApplyAll(db, Waiting \o << o >>) = ApplyAll(After, << o >>)
  BY <1>7, <1>10, ApplyJoin DEF After
<1>13. After' = Apply(After, o)
  BY <1>11, <1>12, ApplyFew
<1> QED BY <1>2, <1>3, <1>4, <1>13
-----------------------------------------------------------------------------
(* ... its steps *)

(* A step that changes neither what the memory will be nor the journal. *)
Calm ==
    /\ After' = After /\ Log' = Log /\ Accepted' = Accepted /\ UNCHANGED <<lost, unread, damaged>>
    /\ IsDB(db') /\ AllFit(file') /\ (Whole(file') => Whole(file))
    /\ offset' = Len(file') \/ (UNCHANGED <<file, offset>> /\ Unwritten' = Unwritten)

(* ... and not the rewrite that is going on, if it does not end it. *)
SameChild ==
    /\ child' # "none" => child # "none" /\ Mark' = Mark /\ UNCHANGED <<dump, queued, cut>>
    /\ UNCHANGED <<dump, cut>> \/ dump' = << >>

(* Nothing moves. *)
LEMMA CalmQuiet ==
  ASSUME StoreInv, offset' \in {offset, Len(file)},
         UNCHANGED <<db, cqueue, op, applied, file, log_buffer, pending, lost, unread, damaged>>
  PROVE  Calm
<1>1. After' = After
  BY DEF After, Waiting, InHand
<1>2. Log' = Log /\ Unwritten' = Unwritten
  BY DEF Log, Unwritten, Rest
<1>3. Accepted' = Accepted
  BY DEF Accepted, WaitingTids, InHand, Tids
<1> QED BY <1>1, <1>2, <1>3 DEF Calm, StoreInv

(* Records move from the buffer to the file. *)
LEMMA CalmWrites ==
  ASSUME Undated, TypeInv, StoreInv, Moves, log_buffer' \in Seq(Op), pending' \in Op \cup {NoOp},
         UNCHANGED <<db, cqueue, op, applied, lost, unread, damaged>>
  PROVE  Calm
<1>1. After' = After
  BY DEF After, Waiting, InHand
<1>2. Accepted' = Accepted
  BY DEF Accepted, WaitingTids, InHand, Tids
<1>3. Log' = Log
  BY MovesKeep
<1>4. PICK w \in Seq(Op) :
         /\ Unwritten = w \o Unwritten' /\ file' = file \o w
         /\ offset' = Len(file') \/ (w = << >> /\ offset' = offset)
  BY DEF Moves
<1>5. IsSeq(file) /\ IsSeq(w) /\ IsSeq(Unwritten') /\ AllFit(w)
  <2>1. Unwritten' \in Seq(Op)
    BY RestTyped DEF Unwritten
  <2> QED BY <2>1, OpSeq, OpsFit DEF TypeInv
<1>6. AllFit(file') /\ (Whole(file') => Whole(file))
  BY <1>4, <1>5, JoinRecords DEF StoreInv
<1>7. w = << >> => file' = file /\ Unwritten' = Unwritten
  BY <1>4, <1>5, EmptyJoin
<1> QED BY <1>1, <1>2, <1>3, <1>4, <1>6, <1>7 DEF Calm, StoreInv

(* Without dates nothing expires. *)
LEMMA PurgeNothing == ASSUME NEW d, IsDB(d), NEW t PROVE Purge(d, t) = d
<1>1. d = [l \in Layer |-> d[l]]
  BY DEF IsDB
<1>2. ASSUME NEW l \in Layer, d[l] # Absent
      PROVE  d[l] = [k \in Key |-> IF d[l][k] # Absent /\ d[l][k].expires_at # 0
                                       /\ t >= d[l][k].expires_at
                                   THEN Absent ELSE d[l][k]]
  <2>1. d[l] = [k \in Key |-> d[l][k]]
    BY <1>2 DEF IsDB, IsLayer
  <2>2. \A k \in Key : d[l][k] # Absent => d[l][k].expires_at = 0
    BY <1>2, RecordOf, RecordFields
  <2> QED BY <2>1, <2>2
<1> QED BY <1>1, <1>2 DEF Purge

(* A worker runs what was waiting. *)
LEMMA CalmHandle ==
  ASSUME OneWorker, Undated, TypeInv, StoreInv, NEW w \in Worker, Shift(w) \/ Handle(w)
  PROVE  Calm /\ SameChild
<1>1. After' = After
  BY ShiftAfter, HandleAfter
<1>2. Accepted' = Accepted
  BY ShiftEffect, HandleEffect
<1>3. UNCHANGED <<main, pending, log_buffer, fork_offset, file, offset, lost, unread, damaged,
                  child, dump, queued, cut>>
  BY DEF Shift, Handle, fileVars, childVars, histVars
<1>4. Log' = Log /\ Unwritten' = Unwritten /\ Mark' = Mark
  BY <1>3 DEF Log, Unwritten, Rest, Mark
<1>5. IsDB(db')
  <2>1. CASE Shift(w)
    BY <2>1 DEF Shift, StoreInv
  <2>2. CASE Handle(w)
    <3>1. op[w] \in Op /\ db' = Apply(db, op[w])
      BY <2>2 DEF Handle, TypeInv
    <3> QED BY <3>1, OpFits, ApplyTyped DEF StoreInv
  <2> QED BY <2>1, <2>2
<1> QED BY <1>1, <1>2, <1>3, <1>4, <1>5 DEF Calm, SameChild, StoreInv

(* Every step is calm, or one of a few. *)
LEMMA MemorySteps ==
  ASSUME OneWorker, Undated, TypeInv, StoreInv, [Next]_vars
  PROVE  \/ Calm /\ (SameChild \/ Fork \/ DamagedDump)
         \/ \E r \in Request : Accepts(r)
         \/ AddToDbLog /\ ~Logged(pending)
         \/ Sigchld \/ Restart
<1>1. CASE UNCHANGED vars
  <2>1. UNCHANGED <<db, cqueue, op, applied, file, offset, log_buffer, pending, lost, unread, damaged,
                    main, fork_offset, child, dump, queued, cut>>
    BY <1>1 DEF vars, memVars, fileVars, childVars, histVars
  <2> QED BY <2>1, CalmQuiet DEF SameChild, Mark
<1>2. ASSUME NEW r \in Request, Dispatch(r), ~Accepts(r) PROVE Calm /\ SameChild
  <2>1. UNCHANGED <<db, cqueue, op, applied, file, offset, log_buffer, pending, lost, unread, damaged,
                    main, fork_offset, child, dump, queued, cut>>
    BY <1>2 DEF Dispatch, Accepts, fileVars, childVars, histVars
  <2> QED BY <2>1, CalmQuiet DEF SameChild, Mark
<1>3. ASSUME FlushLogDb \/ ForkFailed PROVE Calm /\ SameChild
  <2>1. pending' = NoOp /\ log_buffer' \in Seq(Op) /\ Moves
    BY <1>3, LoopMoves
  <2>2. /\ UNCHANGED <<db, cqueue, op, applied, lost, unread, damaged, fork_offset, child, dump, queued, cut>>
        /\ main \notin {"set_pid", "set_offset"} /\ main' \notin {"set_pid", "set_offset"}
    BY <1>3 DEF FlushLogDb, ForkFailed, childVars, histVars
  <2>3. Mark' = Mark
    BY <2>2 DEF Mark
  <2> QED BY <2>1, <2>2, <2>3, CalmWrites DEF SameChild
<1>4. ASSUME ConsumerCb \/ Tick \/ Rewrite \/ SetPid PROVE Calm /\ SameChild
  <2>1. UNCHANGED <<db, cqueue, op, applied, file, offset, log_buffer, pending, lost, unread, damaged,
                    fork_offset, child, dump, queued, cut>>
    BY <1>4 DEF ConsumerCb, Tick, Rewrite, SetPid, memVars, fileVars, childVars, histVars
  <2>2. main' \in {"set_pid", "set_offset"} <=> main \in {"set_pid", "set_offset"}
    BY <1>4 DEF ConsumerCb, Tick, Rewrite, SetPid, memVars
  <2> QED BY <2>1, <2>2, CalmQuiet DEF SameChild, Mark
<1>5. ASSUME SetOffset PROVE Calm /\ SameChild
  <2>1. UNCHANGED <<db, cqueue, op, applied, file, offset, log_buffer, pending, lost, unread, damaged,
                    child, dump, queued, cut>>
    BY <1>5 DEF SetOffset, fileVars, childVars, histVars
  <2>2. main = "set_offset" /\ main' = "loop" /\ fork_offset' = offset
    BY <1>5 DEF SetOffset
  <2> QED BY <2>1, <2>2, CalmQuiet DEF SameChild, Mark
<1>6. ASSUME ChildExit \/ SigchldKilled PROVE Calm /\ SameChild
  <2>1. UNCHANGED <<db, cqueue, op, applied, file, offset, log_buffer, pending, lost, unread, damaged,
                    main, fork_offset, dump, queued, cut>>
    BY <1>6 DEF ChildExit, SigchldKilled, memVars, fileVars, histVars
  <2>2. child # "none"
    BY <1>6 DEF ChildExit, SigchldKilled
  <2> QED BY <2>1, <2>2, CalmQuiet DEF SameChild, Mark
<1>7. ASSUME SwapRefused PROVE Calm /\ SameChild
  <2>1. /\ UNCHANGED <<db, cqueue, op, applied, file, log_buffer, pending, lost, unread, damaged>>
        /\ offset' = Len(file) /\ child' = "none" /\ dump' = << >>
    BY <1>7 DEF SwapRefused, histVars
  <2> QED BY <2>1, CalmQuiet DEF SameChild
<1>8. ASSUME Fork PROVE Calm
  <2>1. pending' = NoOp /\ log_buffer' \in Seq(Op) /\ Moves
    BY <1>8, LoopMoves
  <2>2. UNCHANGED <<db, cqueue, op, applied, lost, unread, damaged>>
    BY <1>8 DEF Fork, histVars
  <2> QED BY <2>1, <2>2, CalmWrites
<1>9. ASSUME DamagedDump PROVE Calm
  <2>1. UNCHANGED <<db, cqueue, op, applied, file, offset, log_buffer, pending, lost, unread, damaged>>
    BY <1>9 DEF DamagedDump, memVars, fileVars, histVars
  <2> QED BY <2>1, CalmQuiet
<1>10. ASSUME AddToDbLog, Logged(pending) PROVE Calm /\ SameChild
  <2>1. pending' = NoOp /\ log_buffer' \in Seq(Op) /\ Moves /\ lost' = lost
    BY <1>10, AddMoves
  <2>2. /\ UNCHANGED <<db, cqueue, op, applied, unread, damaged, fork_offset, child, dump, queued, cut>>
        /\ main = "log" /\ main' = "loop"
    BY <1>10 DEF AddToDbLog, childVars
  <2>3. Mark' = Mark
    BY <2>2 DEF Mark
  <2> QED BY <2>1, <2>2, <2>3, CalmWrites DEF SameChild
<1>11. ~ ExpirationCron
  BY PurgeNothing DEF ExpirationCron, StoreInv
<1>12. ASSUME NEW w \in Worker, Shift(w) \/ Handle(w) PROVE Calm /\ SameChild
  BY <1>12, CalmHandle
<1> HIDE DEF Calm, SameChild, Accepts
<1> QED BY <1>1, <1>2, <1>3, <1>4, <1>5, <1>6, <1>7, <1>8, <1>9, <1>10, <1>11, <1>12
        DEF Next, MainStep, Restart

(* Nothing is always so. *)
LEMMA AbsorbsNothing == ASSUME NEW d PROVE Absorbs(d, << >>)
  BY DEF Absorbs

(* A calm step keeps what the journal says ... *)
LEMMA CalmKeeps ==
  ASSUME TypeInv', Calm, MemoryInv, OffsetInv PROVE MemoryInv' /\ OffsetInv'
<1>1. /\ After' = After /\ Log' = Log /\ Accepted' = Accepted /\ UNCHANGED <<lost, unread, damaged>>
      /\ Whole(file') => Whole(file)
      /\ offset' = Len(file') \/ (UNCHANGED <<file, offset>> /\ Unwritten' = Unwritten)
  BY DEF Calm
<1>2. MemoryInv'
  BY <1>1 DEF MemoryInv
<1>3. CASE offset' = Len(file')
  <2>1. From(file', offset') = << >>
    BY <1>3, NoneBehind DEF TypeInv
  <2>2. Absorbs(After', From(file', offset'))
    BY <2>1, AbsorbsNothing
  <2> QED BY <1>2, <2>2 DEF OffsetInv
<1>4. CASE UNCHANGED <<file, offset>> /\ Unwritten' = Unwritten
  BY <1>1, <1>2, <1>4 DEF OffsetInv
<1> QED BY <1>1, <1>3, <1>4

(* ... and what the rewrite prepares. *)
LEMMA CalmDump ==
  ASSUME Calm, SameChild, DumpInv PROVE DumpInv'
<1>1. /\ After' = After /\ Log' = Log /\ Accepted' = Accepted /\ UNCHANGED <<lost, unread>>
      /\ child' # "none" => child # "none" /\ Mark' = Mark /\ UNCHANGED <<dump, queued, cut>>
  BY DEF Calm, SameChild
<1> SUFFICES ASSUME child' # "none" PROVE DumpInv'
  BY DEF DumpInv
<1>2. child # "none" /\ Mark' = Mark /\ UNCHANGED <<dump, queued, cut>>
  BY <1>1
<1> QED BY <1>1, <1>2 DEF DumpInv

(* The operations of a dump. *)
LEMMA DumpTyped ==
  ASSUME ReadsBack, AbsentIsNothing, NEW d, IsDB(d)
  PROVE  /\ IsSeq(Dump(d)) /\ AllFit(Dump(d)) /\ Absorbs(d, Dump(d))
         /\ IsDB(ApplyAll(EmptyDB, Dump(d))) /\ \A i \in DOMAIN Dump(d) : Fits(Dump(d)[i])
<1>1. IsSeq(Dump(d)) /\ \A i \in DOMAIN Dump(d) : FromDump(d, Dump(d)[i])
  BY DumpShape
<1>2. \A i \in DOMAIN Dump(d) : Fits(Dump(d)[i]) /\ Same(Apply(d, Dump(d)[i]), d)
  BY <1>1, DumpAbsorbed, SameRefl
<1>3. Len(Dump(d)) \in Nat /\ \A i \in 1 .. Len(Dump(d)) : Fits(Dump(d)[i])
  BY <1>1, <1>2, SeqFacts
<1>4. IsDB(ApplyAll(EmptyDB, Dump(d)))
  BY <1>3, EmptyDBTyped, ApplyAllTyped
<1> QED BY <1>1, <1>2, <1>4 DEF AllFit, Absorbs

(* Nothing waits: the memory is what will be. *)
LEMMA NothingWaits ==
  ASSUME OneWorker, TypeInv, \A w \in Worker : op[w] = NoOp, Tids(cqueue) = {}
  PROVE  After = db
<1>1. PICK w : w \in Worker
  BY ServerAssumption
<1>2. cqueue \in Seq(Op)
  BY DEF TypeInv
<1>3. cqueue = << >>
  <2>1. Len(cqueue) \in Nat /\ DOMAIN cqueue = 1 .. Len(cqueue)
    BY <1>2
  <2>2. \A i \in 1 .. Len(cqueue) : FALSE
    BY <2>1 DEF Tids
  <2>3. Len(cqueue) = 0
    BY <2>1, <2>2
  <2> QED BY <1>2, <2>3
<1>4. Hand(op[w]) = << >>
  BY <1>1 DEF Hand
<1>5. Waiting = << >> \o << >>
  BY <1>1, <1>3, <1>4, WaitingOfOne
<1>6. Waiting = << >>
  BY <1>5, Empty, EmptyJoin
<1> QED BY <1>6, ApplyFew DEF After

(* A fork dumps what the memory is. *)
LEMMA ForkDump ==
  ASSUME ReadsBack, AbsentIsNothing, ~WriteMayFail, OneWorker, TypeInv, TypeInv', StoreInv,
         Fork, Calm, OffsetInv'
  PROVE  DumpInv'
<1>1. /\ Mark' = offset' /\ Accepted = applied \cup Tids(cqueue)
      /\ queued' = Tids(cqueue) \ Tids(Unwritten') /\ Unwritten' = << >>
  BY ForkStep DEF Forks
<1>2. dump' = Dump(db) /\ \A w \in Worker : op[w] = NoOp
  BY DEF Fork
<1>3. /\ After' = After /\ Accepted' = Accepted /\ AllFit(file') /\ IsDB(db)
      /\ IsSeq(file') /\ offset' \in 0 .. Len(file')
  BY DEF Calm, StoreInv, TypeInv
<1>4. Log' = file'
  BY <1>1, <1>3, EmptyJoin DEF Log
<1> DEFINE F == From(file', offset')
           D == Dump(db)
<1>5. IsSeq(F) /\ AllFit(F)
  BY <1>3, FromRecords
<1> SUFFICES ASSUME (lost' \cup queued') \cap Accepted' = {}
             PROVE  /\ Whole(F) /\ offset' >= unread'
                         => Same(ApplyAll(EmptyDB, D \o F), db)
                    /\ Absorbs(db, D)
                    /\ After' = db
  BY <1>1, <1>2, <1>4 DEF DumpInv
<1>6. Tids(cqueue) = {}
  <2>1. queued' = Tids(cqueue)
    BY <1>1, Empty
  <2> QED BY <1>1, <1>3, <2>1
<1>7. After = db
  BY <1>2, <1>6, NothingWaits
<1>8. IsSeq(D) /\ Absorbs(db, D) /\ IsDB(ApplyAll(EmptyDB, D)) /\ Same(ApplyAll(EmptyDB, D), db)
  BY <1>3, DumpTyped, DumpReplays
<1> HIDE DEF D
<1>9. ASSUME Whole(F), offset' >= unread' PROVE Same(ApplyAll(EmptyDB, D \o F), db)
  <2>1. Absorbs(db, F)
    <3>1. lost' \cap Accepted' = {}
      OBVIOUS
    <3> QED BY <1>1, <1>3, <1>7, <1>9, <3>1 DEF OffsetInv
  <2> HIDE DEF F
  <2>2. Same(ApplyAll(db, F), db)
    BY <1>3, <1>5, <1>9, <2>1, AbsorbsAll
  <2>3. Same(ApplyAll(ApplyAll(EmptyDB, D), F), ApplyAll(db, F))
    BY <1>3, <1>5, <1>8, <1>9, WholeFits, ApplyAllSame
  <2>4. ApplyAll(EmptyDB, D \o F) = ApplyAll(ApplyAll(EmptyDB, D), F)
    BY <1>5, <1>8, ApplyJoin
  <2> QED BY <2>2, <2>3, <2>4, SameTrans
<1> QED BY <1>3, <1>7, <1>8, <1>9

(* A dump that was cut short says less, and nothing else. *)
LEMMA DamagedRecords ==
  ASSUME NEW d, NEW s, IsSeq(s), NEW n \in 0 .. Len(s) - 1,
         NEW e \in {SubSeq(s, 1, n), Append(SubSeq(s, 1, n), Torn)}
  PROVE  (AllFit(s) => AllFit(e)) /\ (Absorbs(d, s) => Absorbs(d, e))
<1> DEFINE c == SubSeq(s, 1, n)
<1>1. n \in 0 .. Len(s) /\ Len(s) \in Nat /\ DOMAIN s = 1 .. Len(s)
  BY SeqFacts
<1>2. IsSeq(c) /\ Len(c) = n /\ \A i \in 1 .. n : c[i] = s[i]
  BY <1>1, CutFacts
<1> HIDE DEF c
<1>3. \A i \in DOMAIN e : e[i] = Torn \/ \E k \in DOMAIN s : e[i] = s[k]
  <2>1. CASE e = c
    <3>1. DOMAIN c = 1 .. n /\ \A i \in 1 .. n : i \in DOMAIN s
      BY <1>1, <1>2, SeqFacts
    <3> QED BY <1>2, <2>1, <3>1
  <2>2. CASE e = Append(c, Torn)
    <3>1. e = c \o << Torn >>
      BY <1>2, <2>2, AppendJoin
    <3>2. /\ IsSeq(e) /\ Len(e) = n + 1
          /\ \A i \in 1 .. n + 1 : e[i] = IF i <= n THEN c[i] ELSE << Torn >>[i - n]
      BY <1>2, <3>1, Single, Join
    <3>3. DOMAIN e = 1 .. n + 1
      BY <3>2, SeqFacts
    <3>4. << Torn >>[1] = Torn
      BY Single
    <3>5. ASSUME NEW i \in 1 .. n + 1 PROVE e[i] = Torn \/ \E k \in DOMAIN s : e[i] = s[k]
      <4>1. CASE i <= n
        <5>1. i \in 1 .. n /\ i \in DOMAIN s
          BY <1>1, <4>1
        <5> QED BY <1>2, <3>2, <4>1, <5>1
      <4>2. CASE ~(i <= n)
        <5>1. i - n = 1
          BY <1>1, <4>2
        <5> QED BY <3>2, <3>4, <4>2, <5>1
      <4> QED BY <4>1, <4>2
    <3> QED BY <3>3, <3>5
  <2> QED BY <2>1, <2>2 DEF c
<1> QED BY <1>3 DEF AllFit, Absorbs

(* The journal that a cut-short dump prepares is exempt. *)
LEMMA DamageDump ==
  ASSUME TypeInv, DamagedDump, Calm, DumpInv PROVE DumpInv' /\ (AllFit(dump) => AllFit(dump'))
<1>1. child = "running" /\ queued' = queued \cup dumped /\ cut' = TRUE
  BY DEF DamagedDump
<1>2. PICK n \in 0 .. Len(dump) - 1 :
         dump' \in {SubSeq(dump, 1, n), Append(SubSeq(dump, 1, n), Torn)}
  BY DEF DamagedDump
<1>3. Mark' = Mark
  BY DamageStep DEF Damages
<1>4. After' = After /\ Log' = Log /\ Accepted' = Accepted /\ UNCHANGED <<lost, unread>>
  BY DEF Calm
<1>5. IsSeq(dump)
  BY DEF TypeInv
<1>6. (AllFit(dump) => AllFit(dump')) /\ (Absorbs(After, dump) => Absorbs(After, dump'))
  BY <1>2, <1>5, DamagedRecords
<1>7. ASSUME (lost' \cup queued') \cap Accepted' = {}, From(Log', Mark') = << >>
      PROVE  Absorbs(After', dump')
  <2>1. (lost \cup queued) \cap Accepted = {} /\ From(Log, Mark) = << >>
    BY <1>1, <1>3, <1>4, <1>7
  <2>2. Absorbs(After, dump)
    BY <1>1, <2>1 DEF DumpInv
  <2> QED BY <1>4, <1>6, <2>2
<1> QED BY <1>1, <1>6, <1>7 DEF DumpInv

(* The journal as it will be written. *)
LEMMA LogFits ==
  ASSUME Undated, TypeInv, StoreInv
  PROVE  /\ IsSeq(Log) /\ AllFit(Log) /\ (Whole(file) <=> Whole(Log))
<1>1. Unwritten \in Seq(Op) /\ IsSeq(Unwritten) /\ IsSeq(file) /\ IsSeq(Log)
  BY UnwrittenTyped
<1>2. AllFit(Unwritten) /\ Whole(Unwritten)
  BY <1>1, OpsFit
<1> QED BY <1>1, <1>2, JoinRecords DEF Log, StoreInv

(* An accepted operation goes to the end of the journal and of the queue. *)
LEMMA AcceptKeeps ==
  ASSUME AbsentIsNothing, OneWorker, Undated, TypeInv, RewriteInv, StoreInv,
         MemoryInv, DumpInv, OffsetInv, NEW r \in Request, Accepts(r)
  PROVE  StoreInv' /\ MemoryInv' /\ DumpInv' /\ OffsetInv'
<1>1. PICK o \in Op : /\ Log' = Log \o << o >> /\ After' = Apply(After, o)
                      /\ Accepted' = Accepted \cup {op_tid + 1}
                      /\ Unwritten' = Unwritten \o << o >> /\ Mark' = Mark
                      /\ UNCHANGED <<db, file, offset, lost, unread, damaged, child, dump,
                                      queued, cut>>
  BY DispatchAfter
<1>2. StoreInv'
  BY <1>1 DEF StoreInv
<1>3. IsDB(After) /\ IsDB(EmptyDB) /\ Fits(o) /\ IsSeq(<< o >>) /\ Len(<< o >>) = 1
  BY WaitingTyped, EmptyDBTyped, OpFits, Single DEF StoreInv
<1>4. IsSeq(Log) /\ AllFit(Log) /\ (Whole(file) <=> Whole(Log)) /\ IsSeq(Unwritten)
      /\ Len(file) <= Len(Log) /\ Len(file) \in Nat /\ Len(Log) \in Nat
  BY LogFits, UnwrittenTyped
<1>5. \A s : IsSeq(s) => ApplyAll(EmptyDB, s \o << o >>) = Apply(ApplyAll(EmptyDB, s), o)
  BY <1>3, ApplyJoin, ApplyFew
<1>6. \A s : IsSeq(s) /\ Whole(s) /\ AllFit(s) => IsDB(ApplyAll(EmptyDB, s))
  BY <1>3, WholeFits, ApplyAllTyped
<1>7. MemoryInv'
  <2> SUFFICES ASSUME Whole(file), ~damaged, lost \cap Accepted' = {}
               PROVE  Same(ApplyAll(EmptyDB, Log'), After')
    BY <1>1 DEF MemoryInv
  <2>1. Same(ApplyAll(EmptyDB, Log), After)
    BY <1>1 DEF MemoryInv
  <2>2. IsDB(ApplyAll(EmptyDB, Log))
    BY <1>4, <1>6
  <2>3. Same(Apply(ApplyAll(EmptyDB, Log), o), Apply(After, o))
    BY <1>3, <2>1, <2>2, ApplySame
  <2> QED BY <1>1, <1>4, <1>5, <2>3
<1>8. ASSUME child # "none", (lost \cup queued) \cap Accepted' = {}
      PROVE  /\ Whole(From(Log', Mark)) /\ ~cut /\ Mark >= unread
                  => Same(ApplyAll(EmptyDB, dump \o From(Log', Mark)), After')
             /\ From(Log', Mark) # << >>
  <2> DEFINE F == From(Log, Mark)
  <2>1. Mark \in 0 .. Len(Log)
    BY <1>4, <1>8 DEF RewriteInv
  <2>2. From(Log', Mark) = F \o << o >>
    BY <1>1, <1>3, <1>4, <2>1, FromJoin
  <2>3. IsSeq(F) /\ AllFit(F) /\ IsSeq(dump) /\ AllFit(dump)
    BY <1>4, <2>1, FromRecords DEF StoreInv, TypeInv
  <2> HIDE DEF F
  <2>4. F \o << o >> # << >>
    <3>1. Len(F \o << o >>) = Len(F) + 1 /\ Len(F) \in Nat
      BY <1>3, <2>3, Join, SeqFacts
    <3>2. Len(F \o << o >>) # 0
      BY <3>1
    <3> QED BY <3>2, Empty
  <2>5. ASSUME Whole(F \o << o >>), ~cut, Mark >= unread
        PROVE  Same(ApplyAll(EmptyDB, dump \o (F \o << o >>)), After')
    <3>1. Whole(F)
      BY <1>3, <2>3, <2>5, JoinRecords
    <3>2. Same(ApplyAll(EmptyDB, dump \o F), After)
      BY <1>1, <1>8, <2>5, <3>1 DEF DumpInv, F
    <3>3. dump \o (F \o << o >>) = (dump \o F) \o << o >> /\ IsSeq(dump \o F)
      BY <1>3, <2>3, JoinAssoc, Join
    <3>4. ApplyAll(EmptyDB, dump \o (F \o << o >>)) = Apply(ApplyAll(EmptyDB, dump \o F), o)
      BY <1>5, <3>3
    <3>5. IsDB(ApplyAll(EmptyDB, dump \o F))
      <4>1. Len(dump) \in Nat /\ \A i \in 1 .. Len(dump) : Fits(dump[i])
        BY <2>3, <2>5, SeqFacts DEF StoreInv
      <4>2. IsDB(ApplyAll(EmptyDB, dump))
        BY <1>3, <4>1, ApplyAllTyped
      <4>3. IsDB(ApplyAll(ApplyAll(EmptyDB, dump), F))
        BY <2>3, <3>1, <4>2, WholeFits, ApplyAllTyped
      <4> QED BY <2>3, <4>3, ApplyJoin
    <3>6. Same(Apply(ApplyAll(EmptyDB, dump \o F), o), Apply(After, o))
      BY <1>3, <3>2, <3>5, ApplySame
    <3> QED BY <1>1, <3>4, <3>6
  <2> QED BY <2>2, <2>4, <2>5
<1>9. DumpInv'
  BY <1>1, <1>8 DEF DumpInv
<1>10. Unwritten' # << >>
  <2>1. Len(Unwritten \o << o >>) = Len(Unwritten) + 1 /\ Len(Unwritten) \in Nat
    BY <1>3, <1>4, Join, SeqFacts
  <2>2. Len(Unwritten \o << o >>) # 0
    BY <2>1
  <2> QED BY <1>1, <2>2, Empty
<1> QED BY <1>2, <1>7, <1>9, <1>10 DEF OffsetInv

(* An operation that was refused is known to be lost. *)
LEMMA RefuseKeeps ==
  ASSUME TypeInv, UnwrittenInv, StoreInv, AddToDbLog, ~Logged(pending)
  PROVE  StoreInv' /\ MemoryInv' /\ DumpInv' /\ OffsetInv'
<1>1. /\ pending.tid \in Tids(Unwritten) /\ lost' = lost \cup {pending.tid}
      /\ Accepted' = Accepted /\ file' = file
  BY RefusedStep DEF Refuses
<1>2. pending.tid \in lost' \cap Accepted'
  BY <1>1 DEF UnwrittenInv
<1>3. UNCHANGED <<db, dump, cut>>
  BY DEF AddToDbLog, childVars
<1>4. StoreInv'
  BY <1>1, <1>3 DEF StoreInv
<1>5. lost' \cap Accepted' # {} /\ (lost' \cup queued') \cap Accepted' # {}
  BY <1>2
<1> QED BY <1>4, <1>5 DEF MemoryInv, DumpInv, OffsetInv

(* The new journal makes what the memory will be. *)
LEMMA SwapKeeps ==
  ASSUME Undated, TypeInv, RewriteInv, StoreInv, DumpInv, TypeInv', Sigchld
  PROVE  StoreInv' /\ MemoryInv' /\ DumpInv' /\ OffsetInv'
<1>1. /\ child = "exited" /\ child' = "none" /\ fork_offset # -1
      /\ file' = dump \o SinceFork /\ offset' = IF SinceFork = << >> THEN 0 ELSE Len(file')
      /\ lost' = lost \cup queued /\ damaged' = (cut \/ fork_offset < unread)
      /\ dump' = << >> /\ UNCHANGED <<db, cqueue, op>>
  BY DEF Sigchld
<1>2. After' = After
  BY <1>1 DEF After, Waiting, InHand
<1>3. Mark = fork_offset /\ fork_offset \in 0 .. Len(file)
  BY <1>1 DEF RewriteInv, Mark
<1>4. IsSeq(file) /\ IsSeq(Unwritten) /\ IsSeq(dump) /\ Len(file) \in Nat /\ IsSeq(file')
  BY UnwrittenTyped DEF TypeInv
<1>5. SinceFork = From(file, fork_offset)
  BY DEF SinceFork, From
<1> DEFINE c == From(file, fork_offset)
           u == Unwritten
           b == c \o u
<1>6. IsSeq(c) /\ AllFit(c)
  BY <1>3, <1>4, FromRecords DEF StoreInv
<1>7. From(Log, Mark) = b
  BY <1>3, <1>4, FromJoin DEF Log
<1>8. /\ Log' = dump \o b /\ Unwritten' = u /\ Accepted' = Accepted
  <2>1. PICK x, y : Swaps(x, y)
    BY SwapStep
  <2>2. y = From(Log, fork_offset)
    BY <1>3, <2>1 DEF Swaps
  <2> QED BY <1>3, <1>7, <2>1, <2>2 DEF Swaps
<1>9. AllFit(u) /\ Whole(u)
  BY UnwrittenTyped, OpsFit
<1> HIDE DEF c, u
<1>10. StoreInv'
  <2>1. AllFit(file')
    BY <1>1, <1>4, <1>5, <1>6, JoinRecords DEF StoreInv, c
  <2>2. AllFit(dump') /\ \A i \in DOMAIN dump' : Fits(dump'[i])
    BY <1>1 DEF AllFit
  <2> QED BY <1>1, <2>1, <2>2 DEF StoreInv
<1>11. MemoryInv'
  <2> SUFFICES ASSUME Whole(file'), ~cut, ~(fork_offset < unread),
                      (lost \cup queued) \cap Accepted = {}
               PROVE  Same(ApplyAll(EmptyDB, Log'), After')
    BY <1>1, <1>8 DEF MemoryInv
  <2>1. Whole(c)
    BY <1>1, <1>4, <1>5, <1>6, JoinRecords DEF c
  <2>2. Whole(b)
    BY <1>4, <1>6, <1>9, <2>1, JoinRecords DEF u
  <2>3. Mark >= unread
    <3>1. unread \in Nat /\ fork_offset \in Nat
      BY <1>3, <1>4 DEF TypeInv
    <3> QED BY <1>3, <3>1
  <2>4. Same(ApplyAll(EmptyDB, dump \o b), After)
    BY <1>1, <1>7, <2>2, <2>3 DEF DumpInv
  <2> QED BY <1>2, <1>8, <2>4
<1>12. DumpInv'
  BY <1>1 DEF DumpInv
<1>13. OffsetInv'
  <2> SUFFICES ASSUME u = << >>, (lost \cup queued) \cap Accepted = {}
               PROVE  Absorbs(After', From(file', offset'))
    BY <1>1, <1>8 DEF OffsetInv
  <2>1. CASE SinceFork # << >>
    <3>1. From(file', offset') = << >>
      BY <1>1, <1>4, <2>1, NoneBehind
    <3> QED BY <3>1, AbsorbsNothing
  <2>2. CASE SinceFork = << >>
    <3>1. file' = dump /\ offset' = 0
      BY <1>1, <1>4, <2>2, EmptyJoin
    <3>2. From(file', offset') = dump
      BY <1>4, <3>1, AllBehind
    <3>3. From(Log, Mark) = << >>
      BY <1>5, <1>7, <2>2, Empty, EmptyJoin DEF c
    <3>4. Absorbs(After, dump)
      BY <1>1, <3>3 DEF DumpInv
    <3> QED BY <1>2, <3>2, <3>4
  <2> QED BY <2>1, <2>2
<1> QED BY <1>10, <1>11, <1>12, <1>13

(* The new process has in memory what it read. *)
LEMMA RestartKeeps ==
  ASSUME OneWorker, Undated, TypeInv, StoreInv, TypeInv', Restart
  PROVE  StoreInv' /\ MemoryInv' /\ DumpInv' /\ OffsetInv'
<1>1. PICK j, v : Stops(j, v) /\ Boot(j)
  BY Restarts DEF Restart
<1>2. IsSeq(j) /\ AllFit(j)
  <2>1. PICK w, torn : /\ w \in Seq(Op) /\ torn \in {<< >>, << Torn >>}
                       /\ j = (file \o w) \o torn
    BY <1>1 DEF Stops
  <2>2. IsSeq(file) /\ AllFit(file) /\ IsSeq(w) /\ AllFit(w)
    BY <2>1, OpSeq, OpsFit DEF StoreInv, TypeInv
  <2>3. IsSeq(torn) /\ AllFit(torn)
    <3>1. CASE torn = << >>
      BY <3>1, Empty DEF AllFit
    <3>2. CASE torn = << Torn >>
      <4>1. DOMAIN << Torn >> = {1} /\ << Torn >>[1] = Torn
        OBVIOUS
      <4> QED BY <3>2, <4>1, Single DEF AllFit
    <3> QED BY <2>1, <3>1, <3>2
  <2>4. IsSeq(file \o w) /\ AllFit(file \o w)
    BY <2>2, Join, JoinRecords
  <2> DEFINE fw == file \o w
  <2>5. IsSeq(fw \o torn) /\ AllFit(fw \o torn)
    <3> HIDE DEF fw
    <3> QED BY <2>3, <2>4, Join, JoinRecords DEF fw
  <2> QED BY <2>1, <2>5
<1>3. PICK n \in 0 .. Len(j) : /\ Readable(j) = SubSeq(j, 1, n)
                               /\ \A i \in 1 .. n : j[i] # Torn
                               /\ \/ n = Len(j)
                                  \/ j[n + 1] = Torn \/ Refused(j[n + 1])
  BY <1>2, ReadableFacts
<1> DEFINE r == SubSeq(j, 1, n)
<1>4. IsSeq(r) /\ AllFit(r) /\ Len(r) = n /\ Whole(r)
  <2>1. IsSeq(r) /\ AllFit(r) /\ Len(r) = n /\ \A i \in 1 .. n : r[i] = j[i]
    BY <1>2, <1>3, FromRecords, CutFacts
  <2>2. DOMAIN r = 1 .. n
    BY <2>1, SeqFacts
  <2> HIDE DEF r
  <2> QED BY <1>3, <2>1, <2>2 DEF Whole
<1>5. Len(j) \in Nat /\ DOMAIN j = 1 .. Len(j) /\ (n # Len(j) => j[n + 1] = Torn)
  <2>1. Len(j) \in Nat /\ DOMAIN j = 1 .. Len(j)
    BY <1>2, SeqFacts
  <2>2. n # Len(j) => n + 1 \in DOMAIN j
    BY <2>1, Bounds
  <2> QED BY <1>2, <1>3, <2>1, <2>2, FitsAreAccepted DEF AllFit
<1>6. PICK m \in n .. Len(j) : \/ file' = j /\ offset' = m
                               \/ file' \in Truncated(j, m) /\ offset' = Len(file')
  BY <1>1, <1>2, <1>3, BootFile
<1>7. /\ db' = ApplyAll(EmptyDB, r) /\ unread' = (IF file' = r THEN 0 ELSE Len(file'))
      /\ cqueue' = << >> /\ op' = [w \in Worker |-> NoOp] /\ pending' = NoOp
      /\ log_buffer' = << >> /\ child' = "none" /\ dump' = << >>
  <2>1. r = Readable(j)
    BY <1>3
  <2> HIDE DEF r
  <2> QED BY <1>1, <2>1 DEF Boot, Replay
<1>8. IsDB(db')
  <2> HIDE DEF r
  <2> QED BY <1>4, <1>7, WholeFits, EmptyDBTyped, ApplyAllTyped
<1>9. /\ IsSeq(file') /\ offset' \in 0 .. Len(file') /\ Len(file') \in Nat
  BY SeqFacts DEF TypeInv
<1>10. \/ \E k \in n .. Len(j) : file' = SubSeq(j, 1, k)
       \/ AllFit(file') /\ ~Whole(file')
  <2>1. CASE file' = j
    <3>1. Len(j) \in n .. Len(j) /\ Len(j) \in 0 .. Len(j)
      BY <1>5, Bounds
    <3>2. j = SubSeq(j, 1, Len(j))
      <4> DEFINE all == SubSeq(j, 1, Len(j))
      <4>1. IsSeq(all) /\ Len(all) = Len(j) /\ \A i \in 1 .. Len(j) : all[i] = j[i]
        BY <1>2, <3>1, CutFacts
      <4> HIDE DEF all
      <4>2. all = j
        BY <1>2, <1>5, <4>1, SameSeq
      <4> QED BY <4>2 DEF all
    <3> QED BY <2>1, <3>1, <3>2
  <2>2. CASE file' = SubSeq(j, 1, m)
    BY <2>2
  <2>3. CASE file' = Append(SubSeq(j, 1, m), Torn)
    <3> DEFINE c == SubSeq(j, 1, m)
               z == << Torn >>
    <3>1. m \in 0 .. Len(j)
      BY <1>5, Bounds
    <3>2. IsSeq(c) /\ AllFit(c)
      BY <1>2, <3>1, FromRecords
    <3>3. IsSeq(z) /\ AllFit(z) /\ ~Whole(z)
      <4>1. DOMAIN << Torn >> = {1} /\ << Torn >>[1] = Torn
        OBVIOUS
      <4> QED BY <4>1, Single DEF AllFit, Whole
    <3>4. file' = c \o z
      BY <2>3, <3>2, AppendJoin
    <3> HIDE DEF c, z
    <3> QED BY <3>2, <3>3, <3>4, JoinRecords
  <2> QED BY <1>6, <2>1, <2>2, <2>3 DEF Truncated
<1>11. AllFit(file')
  <2>1. ASSUME NEW k \in n .. Len(j), file' = SubSeq(j, 1, k) PROVE AllFit(file')
    <3>1. k \in 0 .. Len(j)
      BY <1>5, Bounds
    <3> QED BY <1>2, <2>1, <3>1, FromRecords
  <2> QED BY <1>10, <2>1
<1>12. Whole(file') => file' = r
  <2> SUFFICES ASSUME Whole(file'), NEW k \in n .. Len(j), file' = SubSeq(j, 1, k)
               PROVE  k = n
    BY <1>10
  <2>1. k \in 0 .. Len(j)
    BY <1>5, Bounds
  <2>2. Len(file') = k /\ (\A i \in 1 .. k : file'[i] = j[i]) /\ DOMAIN file' = 1 .. k
    BY <1>2, <1>9, <2>1, CutFacts, SeqFacts
  <2>3. k # n => n # Len(j) /\ n + 1 \in 1 .. k
    BY <1>5, Bounds
  <2> QED BY <1>5, <2>2, <2>3 DEF Whole
<1>13. StoreInv'
  <2>1. AllFit(dump') /\ \A i \in DOMAIN dump' : Fits(dump'[i])
    BY <1>7 DEF AllFit
  <2> QED BY <1>8, <1>11, <2>1 DEF StoreInv
<1>14. After' = db'
  <2>1. PICK w : w \in Worker
    BY ServerAssumption
  <2>2. op'[w] = NoOp
    BY <1>7, <2>1
  <2>3. Waiting' = << >> \o << >>
    BY <1>7, <2>1, <2>2, WaitingOfOne DEF Hand
  <2>4. Waiting' = << >>
    BY <2>3, Empty, EmptyJoin
  <2> QED BY <2>4, ApplyFew DEF After
<1>15. Log' = file'
  <2>1. Unwritten' = << >>
    BY <1>7, RestTyped, EmptySeq DEF Unwritten
  <2> QED BY <1>9, <2>1, EmptyJoin DEF Log
<1>16. MemoryInv'
  <2> HIDE DEF r
  <2> QED BY <1>7, <1>12, <1>14, <1>15, SameRefl DEF MemoryInv
<1>17. OffsetInv'
  <2> SUFFICES ASSUME offset' >= unread' PROVE From(file', offset') = << >>
    BY AbsorbsNothing DEF OffsetInv
  <2>1. offset' = Len(file')
    <3>1. CASE file' = j /\ offset' = m /\ file' = r
      <4>1. Len(j) = n
        BY <1>4, <3>1
      <4> QED BY <1>5, <3>1, <4>1
    <3>2. CASE file' # r
      BY <1>7, <1>9, <3>2
    <3> QED BY <1>6, <3>1, <3>2
  <2> QED BY <1>9, <2>1, NoneBehind
<1>18. DumpInv'
  BY <1>7 DEF DumpInv
<1> QED BY <1>13, <1>16, <1>17, <1>18

(* A quiet step. *)
LEMMA CalmStore ==
  ASSUME ReadsBack, AbsentIsNothing, TypeInv, StoreInv, Calm, SameChild \/ Fork \/ DamagedDump
  PROVE  StoreInv'
<1>1. IsDB(db') /\ AllFit(file')
  BY DEF Calm
<1>2. CASE SameChild
  <2>1. CASE UNCHANGED <<dump, cut>>
    BY <1>1, <2>1 DEF StoreInv
  <2>2. CASE dump' = << >>
    <3>1. AllFit(dump') /\ \A i \in DOMAIN dump' : Fits(dump'[i])
      BY <2>2 DEF AllFit
    <3> QED BY <1>1, <3>1 DEF StoreInv
  <2> QED BY <1>2, <2>1, <2>2 DEF SameChild
<1>3. CASE Fork
  <2>1. dump' = Dump(db)
    BY <1>3 DEF Fork
  <2>2. AllFit(dump') /\ \A i \in DOMAIN dump' : Fits(dump'[i])
    BY <2>1, DumpTyped DEF StoreInv
  <2> QED BY <1>1, <2>2 DEF StoreInv
<1>4. CASE DamagedDump
  <2>1. PICK n \in 0 .. Len(dump) - 1 :
           dump' \in {SubSeq(dump, 1, n), Append(SubSeq(dump, 1, n), Torn)}
    BY <1>4 DEF DamagedDump
  <2>2. cut' = TRUE /\ IsSeq(dump)
    BY <1>4 DEF DamagedDump, TypeInv
  <2>3. AllFit(dump')
    BY <2>1, <2>2, DamagedRecords DEF StoreInv
  <2> QED BY <1>1, <2>2, <2>3 DEF StoreInv
<1> QED BY <1>2, <1>3, <1>4

(* What the journal says, as an invariant. *)
ReplayInv == StoreInv /\ MemoryInv /\ DumpInv /\ OffsetInv

(* The server starts with nothing in memory and nothing in the journal. *)
LEMMA ReplayInit == ASSUME OneWorker, Init PROVE ReplayInv
<1>1. /\ db = EmptyDB /\ cqueue = << >> /\ op = [w \in Worker |-> NoOp] /\ pending = NoOp
      /\ log_buffer = << >> /\ file = << >> /\ offset = 0 /\ child = "none" /\ dump = << >>
  BY DEF Init
<1>2. TypeInv
  BY TypeInit
<1>3. AllFit(<< >>) /\ \A i \in DOMAIN << >> : Fits(<< >>[i])
  BY DEF AllFit
<1>4. StoreInv
  BY <1>1, <1>3, EmptyDBTyped DEF StoreInv
<1>5. After = EmptyDB
  <2>1. \A w \in Worker : op[w] = NoOp
    BY <1>1
  <2>2. Tids(cqueue) = {}
    BY <1>1, Empty
  <2> QED BY <1>1, <1>2, <2>1, <2>2, NothingWaits
<1>6. Log = << >>
  <2>1. Unwritten = << >>
    BY <1>1, RestTyped, EmptySeq DEF Unwritten
  <2> QED BY <1>1, <2>1, Empty, EmptyJoin DEF Log
<1>7. MemoryInv
  BY <1>5, <1>6, ApplyFew, SameRefl DEF MemoryInv
<1>8. From(file, offset) = << >>
  BY <1>1, Empty, AllBehind
<1>9. OffsetInv
  BY <1>8, AbsorbsNothing DEF OffsetInv
<1> QED BY <1>1, <1>4, <1>7, <1>9 DEF DumpInv, ReplayInv

(* The invariant is inductive. *)
LEMMA ReplayStep ==
  ASSUME ReadsBack, AbsentIsNothing, OneWorker, Undated, ~WriteMayFail,
         JournalInv, ReplayInv, JournalInv', [Next]_vars
  PROVE  ReplayInv'
<1>1. /\ TypeInv /\ RewriteInv /\ UnwrittenInv /\ TypeInv'
      /\ StoreInv /\ MemoryInv /\ DumpInv /\ OffsetInv
  BY DEF JournalInv, ReplayInv
<1>2. ASSUME Calm, SameChild \/ Fork \/ DamagedDump PROVE ReplayInv'
  <2>1. StoreInv' /\ MemoryInv' /\ OffsetInv'
    BY <1>1, <1>2, CalmStore, CalmKeeps
  <2>2. DumpInv'
    BY <1>1, <1>2, <2>1, CalmDump, ForkDump, DamageDump
  <2> QED BY <2>1, <2>2 DEF ReplayInv
<1>3. ASSUME NEW r \in Request, Accepts(r) PROVE ReplayInv'
  BY <1>1, <1>3, AcceptKeeps DEF ReplayInv
<1>4. ASSUME AddToDbLog, ~Logged(pending) PROVE ReplayInv'
  BY <1>1, <1>4, RefuseKeeps DEF ReplayInv
<1>5. ASSUME Sigchld PROVE ReplayInv'
  BY <1>1, <1>5, SwapKeeps DEF ReplayInv
<1>6. ASSUME Restart PROVE ReplayInv'
  BY <1>1, <1>6, RestartKeeps DEF ReplayInv
<1>7. \/ Calm /\ (SameChild \/ Fork \/ DamagedDump)
      \/ \E r \in Request : Accepts(r)
      \/ AddToDbLog /\ ~Logged(pending)
      \/ Sigchld \/ Restart
  BY <1>1, MemorySteps
<1> QED BY <1>2, <1>3, <1>4, <1>5, <1>6, <1>7

(* Databases that are the same are written down as the same. *)
LEMMA SameWritten ==
  ASSUME NEW x, IsDB(x), NEW y, IsDB(y), Same(x, y)
  PROVE  AsWritten(x) = AsWritten(y)
<1> DEFINE R(r) == [r EXCEPT !.position = RereadPosition(@)]
           W(r) == IF r = Absent THEN Absent ELSE R(r)
           L(z) == IF z = Absent THEN Absent ELSE [k \in Key |-> W(z[k])]
<1>1. ASSUME NEW r, IsRecord(r)
      PROVE  R(r) = [properties |-> r.properties, position |-> RereadPosition(r.position),
                     expires_at |-> 0]
  <2>1. PICK p, x0 : r = [properties |-> p, position |-> x0, expires_at |-> 0]
    BY <1>1 DEF IsRecord
  <2>2. r.properties = p /\ r.position = x0
    BY <2>1
  <2> DEFINE y0 == RereadPosition(x0)
  <2>3. R(r) = [r EXCEPT !.position = y0]
    BY <2>2
  <2> HIDE DEF y0
  <2>4. R(r) = [properties |-> p, position |-> y0, expires_at |-> 0]
    <3> HIDE DEF R
    <3> QED BY <2>1, <2>3
  <2> QED BY <2>2, <2>4 DEF y0
<1>2. ASSUME NEW r, NEW s, r = Absent \/ IsRecord(r), s = Absent \/ IsRecord(s), SameRecord(r, s)
      PROVE  W(r) = W(s)
  <2>1. CASE r = Absent
    BY <1>2, <2>1 DEF SameRecord
  <2>2. CASE r # Absent
    <3>1. /\ s # Absent /\ SameMap(r.properties, s.properties)
          /\ RereadPosition(r.position) = RereadPosition(s.position)
      BY <1>2, <2>2 DEF SameRecord
    <3>2. IsRecord(r) /\ IsRecord(s)
      BY <1>2, <2>2, <3>1
    <3>3. r.properties = s.properties
      <4> DEFINE a == r.properties
                 b == s.properties
      <4>1. /\ a = [q \in DOMAIN a |-> a[q]] /\ b = [q \in DOMAIN b |-> b[q]]
            /\ DOMAIN a = DOMAIN b /\ \A q \in DOMAIN a : a[q] = b[q]
        BY <3>1, <3>2, RecordFields DEF SameMap, IsMap
      <4> HIDE DEF a, b
      <4>2. a = b
        BY <4>1
      <4> QED BY <4>2 DEF a, b
    <3> HIDE DEF R
    <3>4. R(r) = R(s)
      BY <1>1, <3>1, <3>2, <3>3
    <3> QED BY <2>2, <3>1, <3>4
  <2> QED BY <2>1, <2>2
<1>3. AsWritten(x) = [l \in Layer |-> L(x[l])] /\ AsWritten(y) = [l \in Layer |-> L(y[l])]
  BY DEF AsWritten
<1> HIDE DEF W
<1>4. ASSUME NEW l \in Layer PROVE L(x[l]) = L(y[l])
  <2>1. /\ SameLayer(x[l], y[l])
        /\ x[l] = Absent \/ IsLayer(x[l])
        /\ y[l] = Absent \/ IsLayer(y[l])
    BY DEF Same, IsDB
  <2>2. CASE x[l] = Absent
    BY <2>1, <2>2 DEF SameLayer
  <2>3. CASE x[l] # Absent
    <3>1. y[l] # Absent /\ \A k \in Key : SameRecord(x[l][k], y[l][k])
      BY <2>1, <2>3 DEF SameLayer
    <3>2. \A k \in Key : /\ x[l][k] = Absent \/ IsRecord(x[l][k])
                         /\ y[l][k] = Absent \/ IsRecord(y[l][k])
      BY <2>1, <2>3, <3>1 DEF IsLayer
    <3>3. \A k \in Key : W(x[l][k]) = W(y[l][k])
      BY <1>2, <3>1, <3>2
    <3> QED BY <2>3, <3>1, <3>3
  <2> QED BY <2>2, <2>3
<1> HIDE DEF L
<1> QED BY <1>3, <1>4

(* The invariant is enough: nothing expires, and what is the same is written the same. *)
LEMMA ReplayImplies ==
  ASSUME OneWorker, Undated, JournalInv, ReplayInv
  PROVE  JournalMatchesMemory
<1> SUFFICES ASSUME Intact, ~damaged, lost \cap Accepted = {}
             PROVE  AsWritten(Purge(Replay(Journal), now)) = AsWritten(Purge(After, now))
  BY DEF JournalMatchesMemory, Accepted, After
<1>1. TypeInv /\ StoreInv /\ MemoryInv
  BY DEF JournalInv, ReplayInv
<1>2. Whole(file)
  BY DEF Intact, Whole
<1>3. IsSeq(Log) /\ AllFit(Log) /\ Whole(Log)
  BY <1>1, <1>2, LogFits
<1>4. Readable(file) = file /\ Readable(Log) = Log
  BY <1>1, <1>2, <1>3, FitsAreRead DEF StoreInv
<1>5. Journal = Log
  <2> DEFINE p == IF pending = NoOp THEN << >> ELSE << pending >>
  <2>1. IsSeq(file) /\ IsSeq(log_buffer)
    BY <1>1, TypedSeq DEF TypeInv
  <2>2. IsSeq(p)
    BY Empty, Single
  <2>3. Journal = (file \o log_buffer) \o p /\ Log = file \o (log_buffer \o p)
    BY <1>4 DEF Journal, Log, Unwritten, Rest
  <2> HIDE DEF p
  <2> QED BY <2>1, <2>2, <2>3, JoinAssoc
<1>6. Replay(Journal) = ApplyAll(EmptyDB, Log)
  BY <1>4, <1>5 DEF Replay
<1> DEFINE x == ApplyAll(EmptyDB, Log)
<1>7. IsDB(x) /\ IsDB(After)
  BY <1>1, <1>3, WholeFits, EmptyDBTyped, ApplyAllTyped, WaitingTyped DEF StoreInv
<1>8. Same(x, After)
  BY <1>1, <1>2 DEF MemoryInv
<1> HIDE DEF x
<1>9. Purge(x, now) = x /\ Purge(After, now) = After
  BY <1>7, PurgeNothing
<1>10. AsWritten(x) = AsWritten(After)
  BY <1>7, <1>8, SameWritten
<1> QED BY <1>6, <1>9, <1>10 DEF x

(***************************************************************************)
(* With one worker, requests without expiration dates, writes that         *)
(* succeed, and keys and texts that a rewrite does not change (ReadsBack), *)
(* the journal always stands for the memory, whatever sequence of          *)
(* requests, flushes, rewrites, cut-short dumps, crashes inside a write    *)
(* and restarts comes about.  A rewrite keeps it because replaying a dump  *)
(* makes the database that was dumped, and because a dump's records say    *)
(* what is so, which is why the second rewrite may read the first one's    *)
(* dump again from offset 0.                                               *)
(***************************************************************************)
THEOREM JournalStandsForMemory ==
  ASSUME PromptParent, ~WriteMayFail, OneWorker, Undated, ReadsBack, AbsentIsNothing
  PROVE  Spec => []JournalMatchesMemory
<1>1. Init => JournalInv /\ ReplayInv
  BY JournalInvariant, ReplayInit
<1>2. JournalInv /\ ReplayInv /\ [Next]_vars => (JournalInv /\ ReplayInv)'
  BY JournalInvariant, ReplayStep
<1>3. JournalInv /\ ReplayInv => JournalMatchesMemory
  BY ReplayImplies
<1> QED BY <1>1, <1>2, <1>3, PTL DEF Spec
=============================================================================
