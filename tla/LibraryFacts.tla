---------------------------- MODULE LibraryFacts ----------------------------
(***************************************************************************)
(* Facts about the operators of the standard and community modules that    *)
(* the proofs of several components need.  Induction is by the least       *)
(* counterexample (LeastNat): the library states it for well-founded       *)
(* relations and sets, without an operator parameter.                      *)
(***************************************************************************)
EXTENDS Integers, FiniteSetsExt, FiniteSetTheorems, SequenceTheorems, TLAPS

(* Every non-empty set of natural numbers has a least element. *)
LEMMA LeastNat ==
  ASSUME NEW S \in SUBSET Nat, S # {}
  PROVE  \E m \in S : \A n \in S : m <= n
<1> DEFINE R == {ss \in Nat \X Nat : ss[1] < ss[2]}
<1>1. IsWellFoundedOn(R, Nat)
  BY NatLessThanWellFounded DEF OpToRel
<1>2. PICK x \in S : \A y \in S : <<y, x>> \notin R
  BY <1>1, WFMin
<1>3. ASSUME NEW y \in S PROVE x <= y
  <2>1. <<y, x>> \in Nat \X Nat /\ <<y, x>>[1] = y /\ <<y, x>>[2] = x
    OBVIOUS
  <2>2. ~(y < x)
    BY <1>2, <2>1
  <2> QED BY <2>2
<1> QED BY <1>3

(* Min picks the least element. *)
LEMMA MinNat ==
  ASSUME NEW S \in SUBSET Nat, S # {}
  PROVE  Min(S) \in S /\ \A n \in S : Min(S) <= n
<1>1. \E m \in S : \A n \in S : m <= n
  BY LeastNat
<1> QED BY <1>1 DEF Min

(* Max picks the greatest element of a bounded set. *)
LEMMA MaxNat ==
  ASSUME NEW n \in Nat, NEW S \in SUBSET (0 .. n), S # {}
  PROVE  Max(S) \in S /\ \A m \in S : m <= Max(S)
<1> DEFINE T == {n - x : x \in S}
<1>1. \A x \in S : x \in Nat /\ n - x \in Nat /\ n - x \in T
  OBVIOUS
<1> HIDE DEF T
<1>0. T \in SUBSET Nat /\ T # {}
  BY <1>1 DEF T
<1>2. PICK t \in T : \A u \in T : t <= u
  BY <1>0, LeastNat
<1>3. PICK x \in S : t = n - x
  BY DEF T
<1>4. \A m \in S : n - m \in T /\ t <= n - m
  BY <1>1, <1>2
<1>5. \A m \in S : m <= x
  BY <1>1, <1>3, <1>4
<1> QED BY <1>5 DEF Max

(* A function on 1 .. n is a sequence of length n. *)
LEMMA FunctionIsSeq ==
  ASSUME NEW n \in Nat, NEW S, NEW f \in [1 .. n -> S]
  PROVE  f \in Seq(S) /\ Len(f) = n
  OBVIOUS

(* The head of a sequence moved to the end of the one before it. *)
LEMMA MoveHead ==
  ASSUME NEW S, NEW s \in Seq(S), NEW t \in Seq(S), t # << >>
  PROVE  Append(s, Head(t)) \o Tail(t) = s \o t
<1>1. Head(t) = t[1] /\ Len(t) \in Nat \ {0} /\ Len(s) \in Nat
  OBVIOUS
<1>2. /\ Head(t) \in S /\ Tail(t) \in Seq(S) /\ Len(Tail(t)) = Len(t) - 1
      /\ \A i \in 1 .. Len(Tail(t)) : Tail(t)[i] = t[i + 1]
  BY HeadTailProperties
<1> DEFINE a == Append(s, Head(t))
<1>3. /\ a \in Seq(S) /\ Len(a) = Len(s) + 1
      /\ \A i \in 1 .. Len(s) : a[i] = s[i]
      /\ a[Len(s) + 1] = Head(t)
  BY <1>2, AppendProperties
<1> HIDE DEF a
<1>4. /\ a \o Tail(t) \in Seq(S) /\ Len(a \o Tail(t)) = Len(a) + Len(Tail(t))
      /\ \A i \in 1 .. Len(a) + Len(Tail(t)) :
            (a \o Tail(t))[i] = IF i <= Len(a) THEN a[i] ELSE Tail(t)[i - Len(a)]
  BY <1>2, <1>3, ConcatProperties
<1>5. /\ s \o t \in Seq(S) /\ Len(s \o t) = Len(s) + Len(t)
      /\ \A i \in 1 .. Len(s) + Len(t) :
            (s \o t)[i] = IF i <= Len(s) THEN s[i] ELSE t[i - Len(s)]
  BY ConcatProperties
<1>6. Len(a \o Tail(t)) = Len(s \o t)
  BY <1>1, <1>2, <1>3, <1>4, <1>5
<1>7. ASSUME NEW i \in 1 .. Len(s \o t) PROVE (a \o Tail(t))[i] = (s \o t)[i]
  <2>1. CASE i <= Len(s)
    BY <1>1, <1>2, <1>3, <1>4, <1>5, <1>7, <2>1
  <2>2. CASE i = Len(s) + 1
    BY <1>1, <1>2, <1>3, <1>4, <1>5, <1>7, <2>2
  <2>3. CASE i > Len(s) + 1
    <3>1. i - Len(a) \in 1 .. Len(Tail(t)) /\ (i - Len(a)) + 1 = i - Len(s)
      BY <1>1, <1>2, <1>3, <1>5, <1>7, <2>3
    <3>2. Tail(t)[i - Len(a)] = t[i - Len(s)]
      BY <1>2, <3>1
    <3> QED BY <1>1, <1>2, <1>3, <1>4, <1>5, <1>7, <2>3, <3>2
  <2>4. i \in Int /\ Len(s) \in Int
    BY <1>1, <1>5, <1>7
  <2>5. i <= Len(s) \/ i = Len(s) + 1 \/ i > Len(s) + 1
    BY <2>4
  <2> QED BY <2>1, <2>2, <2>3, <2>5
<1>8. a \o Tail(t) = s \o t
  BY <1>4, <1>5, <1>6, <1>7, SeqEqual
<1> QED BY <1>8 DEF a

(* A step repeated n times. *)
Iteration(g, S, first, step, n) == /\ g \in [0 .. n -> S]
                                   /\ g[0] = first
                                   /\ \A i \in 1 .. n : g[i] = step[g[i - 1]]

(* A function can be iterated any number of times. *)
LEMMA Iterates ==
  ASSUME NEW S, NEW first \in S, NEW step \in [S -> S], NEW n \in Nat
  PROVE  \E g : Iteration(g, S, first, step, n)
<1> DEFINE Iter(k) == {g \in [0 .. k -> S] :
                         g[0] = first /\ \A i \in 1 .. k : g[i] = step[g[i - 1]]}
           Bad == {k \in Nat : Iter(k) = {}}
<1>1. ASSUME Bad # {} PROVE FALSE
  <2>1. PICK m \in Bad : \A k \in Bad : m <= k
    BY <1>1, LeastNat
  <2>2. CASE m = 0
    <3>1. [i \in 0 .. 0 |-> first] \in Iter(0)
      OBVIOUS
    <3> QED BY <2>1, <2>2, <3>1
  <2>3. CASE m # 0
    <3>1. m \in Nat /\ m - 1 \in Nat /\ ~(m <= m - 1)
      BY <2>3
    <3>2. m - 1 \notin Bad
      BY <2>1, <3>1
    <3>3. PICK g \in [0 .. m - 1 -> S] :
             g[0] = first /\ \A i \in 1 .. m - 1 : g[i] = step[g[i - 1]]
      BY <3>1, <3>2
    <3> DEFINE h == [i \in 0 .. m |-> IF i < m THEN g[i] ELSE step[g[m - 1]]]
    <3>4. h \in [0 .. m -> S]
      BY <3>1
    <3>5. h[0] = first
      BY <3>1, <3>3
    <3>6. ASSUME NEW i \in 1 .. m PROVE h[i] = step[h[i - 1]]
      <4>1. CASE i < m
        BY <3>1, <3>3, <4>1
      <4>2. CASE i = m
        BY <3>1, <4>2
      <4> QED BY <3>1, <4>1, <4>2
    <3> HIDE DEF h
    <3>7. h \in Iter(m)
      BY <3>4, <3>5, <3>6
    <3> QED BY <2>1, <3>7
  <2> QED BY <2>2, <2>3
<1> QED BY <1>1 DEF Iteration

(* A set of sequences that has the empty one and grows at the end. *)
LEMMA GrownSeq ==
  ASSUME NEW S, NEW G, << >> \in G,
         \A t \in Seq(S), x \in S : t \in G => Append(t, x) \in G
  PROVE  Seq(S) \subseteq G
<1> DEFINE Bad == {n \in Nat : \E t \in Seq(S) : Len(t) = n /\ t \notin G}
<1>1. ASSUME Bad # {} PROVE FALSE
  <2>1. PICK m \in Bad : \A n \in Bad : m <= n
    BY <1>1, LeastNat
  <2>2. PICK t \in Seq(S) : Len(t) = m /\ t \notin G
    BY <2>1
  <2>3. PICK u \in Seq(S), x \in S : t = Append(u, x)
    BY <2>2, SequenceEmptyOrAppend
  <2>4. Len(u) \in Nat /\ Len(u) = m - 1 /\ ~(m <= Len(u))
    BY <2>2, <2>3, AppendProperties
  <2>5. u \in G
    BY <2>1, <2>4
  <2> QED BY <2>2, <2>3, <2>5
<1>2. ASSUME NEW t \in Seq(S) PROVE t \in G
  <2>1. Len(t) \in Nat
    OBVIOUS
  <2> QED BY <1>1, <2>1
<1> QED BY <1>2

(* An element appended to the second of two sequences. *)
LEMMA AppendToConcat ==
  ASSUME NEW S, NEW s \in Seq(S), NEW t \in Seq(S), NEW x \in S
  PROVE  s \o Append(t, x) = Append(s \o t, x)
<1>1. s \o t \in Seq(S) /\ <<x>> \in Seq(S)
  BY ConcatProperties
<1>2. Append(t, x) = t \o <<x>> /\ Append(s \o t, x) = (s \o t) \o <<x>>
  BY <1>1, AppendIsConcat
<1> QED BY <1>1, <1>2, ConcatAssociative

(* The elements of a sequence with one more. *)
LEMMA RangeAppended ==
  ASSUME NEW S, NEW s \in Seq(S), NEW x \in S
  PROVE  Range(Append(s, x)) = Range(s) \cup {x}
<1>1. /\ Append(s, x) \in Seq(S) /\ Len(Append(s, x)) = Len(s) + 1 /\ Len(s) \in Nat
      /\ \A i \in 1 .. Len(s) : Append(s, x)[i] = s[i]
      /\ Append(s, x)[Len(s) + 1] = x
  BY AppendProperties
<1>2. \A y : y \in Range(Append(s, x)) <=> y \in Range(s) \cup {x}
  BY <1>1 DEF Range
<1> QED BY <1>2

(* The head and the tail of a sequence hold nothing else. *)
LEMMA RangeOfTail ==
  ASSUME NEW S, NEW s \in Seq(S), s # << >>
  PROVE  Head(s) \in Range(s) /\ Range(Tail(s)) \subseteq Range(s)
<1>1. Len(s) \in Nat /\ Len(s) >= 1 /\ Head(s) = s[1]
  OBVIOUS
<1>2. /\ Tail(s) \in Seq(S) /\ Len(Tail(s)) = Len(s) - 1
      /\ \A i \in 1 .. Len(Tail(s)) : Tail(s)[i] = s[i + 1]
  BY HeadTailProperties
<1>3. Head(s) \in Range(s)
  BY <1>1 DEF Range
<1>4. ASSUME NEW y \in Range(Tail(s)) PROVE y \in Range(s)
  <2>1. PICK i \in 1 .. Len(Tail(s)) : y = Tail(s)[i]
    BY <1>2 DEF Range
  <2>2. i + 1 \in 1 .. Len(s) /\ y = s[i + 1]
    BY <1>1, <1>2, <2>1
  <2> QED BY <2>2 DEF Range
<1> QED BY <1>3, <1>4
=============================================================================
