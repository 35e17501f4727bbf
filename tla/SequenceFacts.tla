---------------------------- MODULE SequenceFacts ----------------------------
(***************************************************************************)
(* Facts about the elements of a sequence: what each operation on queues     *)
(* and batches adds or removes, and that it keeps the elements distinct;     *)
(* and induction, for what is defined by recursion.                          *)
(***************************************************************************)
EXTENDS Integers, SequencesExt, Selection, FiniteSetTheorems, TLAPS

(* The elements of a sequence, and their being distinct, by position.         *)
LEMMA ElementPositions ==
  ASSUME NEW S, NEW q \in Seq(S)
  PROVE  /\ Len(q) \in Nat
         /\ \A i \in 1..Len(q) : q[i] \in S /\ q[i] \in ToSet(q)
         /\ \A x \in ToSet(q) : \E i \in 1..Len(q) : q[i] = x
         /\ ToSet(q) \subseteq S
         /\ IsInjective(q) <=> \A i, j \in 1..Len(q) : q[i] = q[j] => i = j
<1>1. DOMAIN q = 1..Len(q) /\ Len(q) \in Nat /\ \A i \in 1..Len(q) : q[i] \in S
  OBVIOUS
<1> QED BY <1>1 DEF ToSet, IsInjective

(* The empty sequence.                                                        *)
LEMMA EmptyElements ==
  /\ ToSet(<<>>) = {}
  /\ IsInjective(<<>>)
  /\ \A S : \A q \in Seq(S) : ToSet(q) = {} => q = <<>>
<1>1. ToSet(<<>>) = {} /\ IsInjective(<<>>)
  BY DEF ToSet, IsInjective
<1>2. ASSUME NEW S, NEW q \in Seq(S), q # <<>> PROVE q[1] \in ToSet(q)
  <2>1. Len(q) \in Nat /\ Len(q) > 0
    BY <1>2
  <2> QED BY <2>1, ElementPositions
<1> QED BY <1>1, <1>2

(* Two sequences, one put after the other: what is at each position.           *)
LEMMA ConcatPositions ==
  ASSUME NEW S, NEW p \in Seq(S), NEW q \in Seq(S)
  PROVE  /\ p \o q \in Seq(S)
         /\ Len(p \o q) = Len(p) + Len(q)
         /\ \A i \in 1..(Len(p) + Len(q)) :
              (p \o q)[i] = IF i <= Len(p) THEN p[i] ELSE q[i - Len(p)]
OBVIOUS

(* Two sequences, one put after the other: their elements.                    *)
LEMMA ConcatElements ==
  ASSUME NEW S, NEW p \in Seq(S), NEW q \in Seq(S)
  PROVE  /\ p \o q \in Seq(S)
         /\ ToSet(p \o q) = ToSet(p) \cup ToSet(q)
         /\ IsInjective(p \o q) <=> /\ IsInjective(p)
                                    /\ IsInjective(q)
                                    /\ ToSet(p) \cap ToSet(q) = {}
<1> DEFINE c == p \o q
<1>1. /\ c \in Seq(S)
      /\ Len(p) \in Nat /\ Len(q) \in Nat
      /\ Len(c) = Len(p) + Len(q)
      /\ \A i \in 1..Len(p) : c[i] = p[i]
      /\ \A i \in 1..Len(q) : c[Len(p) + i] = q[i]
  OBVIOUS
<1>2. \A i \in 1..Len(c) : \/ i \in 1..Len(p) /\ c[i] = p[i]
                           \/ i - Len(p) \in 1..Len(q) /\ c[i] = q[i - Len(p)]
  <2> SUFFICES ASSUME NEW i \in 1..Len(c), i \notin 1..Len(p)
               PROVE  i - Len(p) \in 1..Len(q) /\ c[i] = q[i - Len(p)]
    BY <1>1
  <2>1. i - Len(p) \in 1..Len(q) /\ Len(p) + (i - Len(p)) = i
    BY <1>1
  <2>2. c[Len(p) + (i - Len(p))] = q[i - Len(p)]
    BY <1>1, <2>1
  <2> QED BY <2>1, <2>2
<1>3. \A i \in 1..Len(p) : i \in 1..Len(c)
  BY <1>1
<1>4. \A i \in 1..Len(q) : Len(p) + i \in 1..Len(c)
  BY <1>1
<1> HIDE DEF c
<1>5. /\ \A i \in 1..Len(p) : p[i] \in ToSet(p)
      /\ \A x \in ToSet(p) : \E i \in 1..Len(p) : p[i] = x
      /\ IsInjective(p) <=> \A i, j \in 1..Len(p) : p[i] = p[j] => i = j
  BY ElementPositions
<1>6. /\ \A i \in 1..Len(q) : q[i] \in ToSet(q)
      /\ \A x \in ToSet(q) : \E i \in 1..Len(q) : q[i] = x
      /\ IsInjective(q) <=> \A i, j \in 1..Len(q) : q[i] = q[j] => i = j
  BY ElementPositions
<1>7. /\ \A i \in 1..Len(c) : c[i] \in ToSet(c)
      /\ \A x \in ToSet(c) : \E i \in 1..Len(c) : c[i] = x
      /\ IsInjective(c) <=> \A i, j \in 1..Len(c) : c[i] = c[j] => i = j
  BY <1>1, ElementPositions
<1>8. ToSet(c) = ToSet(p) \cup ToSet(q)
  <2>1. ASSUME NEW x \in ToSet(c) PROVE x \in ToSet(p) \cup ToSet(q)
    BY <1>2, <1>5, <1>6, <1>7
  <2>2. ASSUME NEW x \in ToSet(p) PROVE x \in ToSet(c)
    <3>1. PICK i \in 1..Len(p) : p[i] = x
      BY <1>5
    <3>2. i \in 1..Len(c) /\ c[i] = x
      BY <1>1, <1>3, <3>1
    <3> QED BY <1>7, <3>2
  <2>3. ASSUME NEW x \in ToSet(q) PROVE x \in ToSet(c)
    <3>1. PICK i \in 1..Len(q) : q[i] = x
      BY <1>6
    <3>2. Len(p) + i \in 1..Len(c) /\ c[Len(p) + i] = x
      BY <1>1, <1>4, <3>1
    <3> QED BY <1>7, <3>2
  <2> QED BY <2>1, <2>2, <2>3
<1>9. ASSUME IsInjective(p), IsInjective(q), ToSet(p) \cap ToSet(q) = {}
      PROVE  IsInjective(c)
  <2> SUFFICES ASSUME NEW i \in 1..Len(c), NEW j \in 1..Len(c), c[i] = c[j] PROVE i = j
    BY <1>7
  <2>1. CASE i \in 1..Len(p) /\ c[i] = p[i] /\ j \in 1..Len(p) /\ c[j] = p[j]
    BY <1>5, <1>9, <2>1
  <2>2. CASE /\ i - Len(p) \in 1..Len(q) /\ c[i] = q[i - Len(p)]
             /\ j - Len(p) \in 1..Len(q) /\ c[j] = q[j - Len(p)]
    <3>1. i - Len(p) = j - Len(p)
      BY <1>6, <1>9, <2>2
    <3> QED BY <1>1, <3>1
  <2>3. ASSUME NEW k \in 1..Len(p), NEW l \in 1..Len(q), p[k] = q[l] PROVE FALSE
    BY <1>5, <1>6, <1>9, <2>3
  <2> QED BY <1>2, <2>1, <2>2, <2>3
<1>10. ASSUME IsInjective(c)
       PROVE  IsInjective(p) /\ IsInjective(q) /\ ToSet(p) \cap ToSet(q) = {}
  <2>1. ASSUME NEW i \in 1..Len(p), NEW j \in 1..Len(p), p[i] = p[j] PROVE i = j
    <3>1. i \in 1..Len(c) /\ j \in 1..Len(c) /\ c[i] = c[j]
      BY <1>1, <1>3, <2>1
    <3> QED BY <1>7, <1>10, <3>1
  <2>2. ASSUME NEW i \in 1..Len(q), NEW j \in 1..Len(q), q[i] = q[j] PROVE i = j
    <3>1. /\ Len(p) + i \in 1..Len(c) /\ Len(p) + j \in 1..Len(c)
          /\ c[Len(p) + i] = c[Len(p) + j]
      BY <1>1, <1>4, <2>2
    <3>2. Len(p) + i = Len(p) + j
      BY <1>7, <1>10, <3>1
    <3> QED BY <1>1, <3>2
  <2>3. ASSUME NEW i \in 1..Len(p), NEW j \in 1..Len(q), p[i] = q[j] PROVE FALSE
    <3>1. i \in 1..Len(c) /\ Len(p) + j \in 1..Len(c) /\ c[i] = c[Len(p) + j]
      BY <1>1, <1>3, <1>4, <2>3
    <3>2. i = Len(p) + j
      BY <1>7, <1>10, <3>1
    <3> QED BY <1>1, <3>2
  <2>4. ToSet(p) \cap ToSet(q) = {}
    BY <1>5, <1>6, <2>3
  <2> QED BY <1>5, <1>6, <2>1, <2>2, <2>4
<1> QED BY <1>1, <1>8, <1>9, <1>10 DEF c

(* The sequence of one element.                                               *)
LEMMA SingleElement ==
  ASSUME NEW S, NEW e \in S
  PROVE  /\ <<e>> \in Seq(S)
         /\ ToSet(<<e>>) = {e}
         /\ IsInjective(<<e>>)
<1>1. <<e>> \in Seq(S) /\ Len(<<e>>) = 1 /\ <<e>>[1] = e
  OBVIOUS
<1> DEFINE s == <<e>>
<1>2. s \in Seq(S) /\ Len(s) = 1 /\ s[1] = e
  BY <1>1
<1> HIDE DEF s
<1>3. \A i \in 1..Len(s) : i = 1
  BY <1>2
<1>4. ToSet(s) = {e} /\ IsInjective(s)
  <2>1. ToSet(s) \subseteq {e}
    BY <1>2, <1>3, ElementPositions
  <2>2. e \in ToSet(s)
    <3>1. 1 \in 1..Len(s)
      BY <1>2
    <3> QED BY <1>2, <3>1, ElementPositions
  <2>3. IsInjective(s)
    BY <1>2, <1>3, ElementPositions
  <2> QED BY <2>1, <2>2, <2>3
<1> QED BY <1>2, <1>4 DEF s

(* An element added at the back, as queuePush does.                          *)
LEMMA AppendElements ==
  ASSUME NEW S, NEW q \in Seq(S), NEW e \in S
  PROVE  /\ Append(q, e) \in Seq(S)
         /\ ToSet(Append(q, e)) = ToSet(q) \cup {e}
         /\ IsInjective(Append(q, e)) <=> IsInjective(q) /\ e \notin ToSet(q)
<1>1. Append(q, e) = q \o <<e>>
  OBVIOUS
<1>2. <<e>> \in Seq(S) /\ ToSet(<<e>>) = {e} /\ IsInjective(<<e>>)
  BY SingleElement
<1> DEFINE s == <<e>>
<1>3. s \in Seq(S) /\ ToSet(s) = {e} /\ IsInjective(s) /\ Append(q, e) = q \o s
  BY <1>1, <1>2
<1> HIDE DEF s
<1>4. /\ q \o s \in Seq(S)
      /\ ToSet(q \o s) = ToSet(q) \cup ToSet(s)
      /\ IsInjective(q \o s) <=> IsInjective(q) /\ IsInjective(s) /\ ToSet(q) \cap ToSet(s) = {}
  BY <1>3, ConcatElements
<1> QED BY <1>3, <1>4

(* An element added at the front, as queuePushFront does.                     *)
LEMMA ConsElements ==
  ASSUME NEW S, NEW q \in Seq(S), NEW e \in S
  PROVE  /\ Cons(e, q) \in Seq(S)
         /\ ToSet(Cons(e, q)) = ToSet(q) \cup {e}
         /\ IsInjective(Cons(e, q)) <=> IsInjective(q) /\ e \notin ToSet(q)
<1> DEFINE s == <<e>>
<1>1. s \in Seq(S) /\ ToSet(s) = {e} /\ IsInjective(s)
  BY SingleElement
<1>2. Cons(e, q) = s \o q
  BY DEF Cons
<1> HIDE DEF s
<1>3. /\ s \o q \in Seq(S)
      /\ ToSet(s \o q) = ToSet(s) \cup ToSet(q)
      /\ IsInjective(s \o q) <=> IsInjective(s) /\ IsInjective(q) /\ ToSet(s) \cap ToSet(q) = {}
  BY <1>1, ConcatElements
<1> QED BY <1>1, <1>2, <1>3

(* The front taken away, as queuePop does.                                    *)
LEMMA TailElements ==
  ASSUME NEW S, NEW q \in Seq(S), q # <<>>
  PROVE  /\ Head(q) \in S
         /\ Tail(q) \in Seq(S)
         /\ ToSet(q) = ToSet(Tail(q)) \cup {Head(q)}
         /\ IsInjective(q) <=> IsInjective(Tail(q)) /\ Head(q) \notin ToSet(Tail(q))
<1> DEFINE e == Head(q)
           t == Tail(q)
<1>1. e \in S /\ t \in Seq(S) /\ q = <<e>> \o t
  OBVIOUS
<1>2. q = Cons(e, t)
  BY <1>1 DEF Cons
<1> HIDE DEF e, t
<1>3. ToSet(Cons(e, t)) = ToSet(t) \cup {e}
  BY <1>1, ConsElements
<1>4. IsInjective(Cons(e, t)) <=> IsInjective(t) /\ e \notin ToSet(t)
  BY <1>1, ConsElements
<1> QED BY <1>1, <1>2, <1>3, <1>4 DEF e, t

(* The last element taken away.                                               *)
LEMMA FrontElements ==
  ASSUME NEW S, NEW q \in Seq(S), q # <<>>
  PROVE  /\ Last(q) \in S
         /\ Front(q) \in Seq(S)
         /\ Len(Front(q)) = Len(q) - 1
         /\ ToSet(q) = ToSet(Front(q)) \cup {Last(q)}
         /\ IsInjective(q) <=> IsInjective(Front(q)) /\ Last(q) \notin ToSet(Front(q))
<1> DEFINE e == Last(q)
           f == Front(q)
<1>1. Len(q) \in Nat /\ Len(q) > 0
  OBVIOUS
<1>2. /\ e \in S /\ f \in Seq(S) /\ Len(f) = Len(q) - 1 /\ e = q[Len(q)]
      /\ \A i \in 1..Len(f) : f[i] = q[i]
  <2>1. Front(q) = SubSeq(q, 1, Len(q) - 1) /\ Last(q) = q[Len(q)]
    BY DEF Last, Front
  <2>2. 1 \in Int /\ Len(q) - 1 \in Nat /\ Len(q) \in 1..Len(q) /\ q[Len(q)] \in S
    BY <1>1
  <2>3. ASSUME NEW m \in 0..Len(q)
        PROVE  /\ SubSeq(q, 1, m) \in Seq(S) /\ Len(SubSeq(q, 1, m)) = m
               /\ \A i \in 1..m : SubSeq(q, 1, m)[i] = q[i]
    OBVIOUS
  <2>4. Len(q) - 1 \in 0..Len(q)
    BY <1>1
  <2>5. /\ SubSeq(q, 1, Len(q) - 1) \in Seq(S)
        /\ Len(SubSeq(q, 1, Len(q) - 1)) = Len(q) - 1
        /\ \A i \in 1..(Len(q) - 1) : SubSeq(q, 1, Len(q) - 1)[i] = q[i]
    BY <2>3, <2>4
  <2> HIDE DEF e, f
  <2>6. e = q[Len(q)] /\ f = SubSeq(q, 1, Len(q) - 1)
    BY <2>1 DEF e, f
  <2> QED BY <2>2, <2>5, <2>6
<1> HIDE DEF e, f
<1>3. q = Append(f, e)
  <2>1. Append(f, e) \in Seq(S) /\ Len(Append(f, e)) = Len(q)
    BY <1>1, <1>2
  <2>2. \A i \in 1..Len(q) : Append(f, e)[i] = q[i]
    BY <1>1, <1>2
  <2> QED BY <2>1, <2>2
<1>4. ToSet(Append(f, e)) = ToSet(f) \cup {e}
  BY <1>2, AppendElements
<1>5. IsInjective(Append(f, e)) <=> IsInjective(f) /\ e \notin ToSet(f)
  BY <1>2, AppendElements
<1> QED BY <1>2, <1>3, <1>4, <1>5 DEF e, f

(* The n-th element taken away, as queueEvict does.                            *)
LEMMA RemoveAtElements ==
  ASSUME NEW S, NEW q \in Seq(S), NEW n \in 1..Len(q)
  PROVE  /\ q[n] \in S
         /\ RemoveAt(q, n) \in Seq(S)
         /\ ToSet(q) = ToSet(RemoveAt(q, n)) \cup {q[n]}
         /\ IsInjective(q) => IsInjective(RemoveAt(q, n)) /\ q[n] \notin ToSet(RemoveAt(q, n))
<1> DEFINE p == SubSeq(q, 1, n - 1)
           r == SubSeq(q, n + 1, Len(q))
<1>1. q[n] \in S /\ p \in Seq(S) /\ r \in Seq(S) /\ RemoveAt(q, n) = p \o r
  BY DEF RemoveAt
<1>2. q = Append(p, q[n]) \o r
  <2> DEFINE c == Append(p, q[n]) \o r
  <2>1. /\ Len(q) \in Nat /\ Len(p) = n - 1 /\ Len(r) = Len(q) - n
        /\ \A i \in 1..(n - 1) : p[i] = q[i]
        /\ \A i \in 1..(Len(q) - n) : r[i] = q[n + i]
    OBVIOUS
  <2>2. /\ Append(p, q[n]) \in Seq(S) /\ Len(Append(p, q[n])) = n
        /\ \A i \in 1..n : Append(p, q[n])[i] = q[i]
    BY <1>1, <2>1
  <2> HIDE DEF p, r
  <2> DEFINE a == Append(p, q[n])
  <2>3. /\ c \in Seq(S) /\ Len(c) = Len(q)
        /\ \A i \in 1..Len(q) : c[i] = IF i <= n THEN a[i] ELSE r[i - n]
    <3>1. a \in Seq(S) /\ Len(a) = n /\ r \in Seq(S) /\ c = a \o r
      BY <1>1, <2>2
    <3> HIDE DEF a, c
    <3>2. /\ a \o r \in Seq(S)
          /\ Len(a \o r) = Len(a) + Len(r)
          /\ \A i \in 1..(Len(a) + Len(r)) :
               (a \o r)[i] = IF i <= Len(a) THEN a[i] ELSE r[i - Len(a)]
      BY <3>1, ConcatPositions
    <3>3. Len(a) + Len(r) = Len(q)
      BY <2>1, <3>1
    <3> QED BY <3>1, <3>2, <3>3
  <2>4. ASSUME NEW i \in 1..Len(q) PROVE c[i] = q[i]
    <3>1. CASE i <= n
      BY <2>2, <2>3, <3>1
    <3>2. CASE ~(i <= n)
      <4>1. i - n \in 1..(Len(q) - n) /\ n + (i - n) = i
        BY <2>1, <3>2
      <4>2. r[i - n] = q[n + (i - n)]
        BY <2>1, <4>1
      <4> QED BY <2>3, <3>2, <4>1, <4>2
    <3> QED BY <3>1, <3>2
  <2> HIDE DEF c
  <2>5. c = q
    BY <2>3, <2>4
  <2> QED BY <2>5 DEF c
<1> HIDE DEF p, r
<1>3. /\ Append(p, q[n]) \in Seq(S)
      /\ ToSet(Append(p, q[n])) = ToSet(p) \cup {q[n]}
      /\ IsInjective(Append(p, q[n])) <=> IsInjective(p) /\ q[n] \notin ToSet(p)
  BY <1>1, AppendElements
<1>4. /\ ToSet(Append(p, q[n]) \o r) = ToSet(Append(p, q[n])) \cup ToSet(r)
      /\ IsInjective(Append(p, q[n]) \o r) => /\ IsInjective(Append(p, q[n])) /\ IsInjective(r)
                                             /\ ToSet(Append(p, q[n])) \cap ToSet(r) = {}
  BY <1>1, <1>3, ConcatElements
<1>5. /\ p \o r \in Seq(S)
      /\ ToSet(p \o r) = ToSet(p) \cup ToSet(r)
      /\ IsInjective(p) /\ IsInjective(r) /\ ToSet(p) \cap ToSet(r) = {} => IsInjective(p \o r)
  BY <1>1, ConcatElements
<1>6. /\ ToSet(q) = ToSet(p) \cup {q[n]} \cup ToSet(r)
      /\ IsInjective(q) => /\ IsInjective(p) /\ q[n] \notin ToSet(p) /\ IsInjective(r)
                           /\ (ToSet(p) \cup {q[n]}) \cap ToSet(r) = {}
  BY <1>2, <1>3, <1>4
<1> QED BY <1>1, <1>5, <1>6

(* The elements in the opposite order.                                         *)
LEMMA ReverseElements ==
  ASSUME NEW S, NEW q \in Seq(S)
  PROVE  /\ Reverse(q) \in Seq(S)
         /\ ToSet(Reverse(q)) = ToSet(q)
         /\ IsInjective(q) => IsInjective(Reverse(q))
<1> DEFINE r == Reverse(q)
<1>1. /\ r \in Seq(S) /\ Len(r) = Len(q) /\ Len(q) \in Nat
      /\ \A i \in 1..Len(q) : r[i] = q[(Len(q) - i) + 1]
  BY DEF Reverse
<1>2. \A i \in 1..Len(q) : (Len(q) - i) + 1 \in 1..Len(q)
  BY <1>1
<1>3. \A i \in 1..Len(q) : r[(Len(q) - i) + 1] = q[i]
  <2> TAKE i \in 1..Len(q)
  <2>1. (Len(q) - ((Len(q) - i) + 1)) + 1 = i
    BY <1>1
  <2> QED BY <1>1, <1>2, <2>1
<1> HIDE DEF r
<1>4. /\ \A i \in 1..Len(q) : q[i] \in ToSet(q)
      /\ \A x \in ToSet(q) : \E i \in 1..Len(q) : q[i] = x
      /\ IsInjective(q) <=> \A i, j \in 1..Len(q) : q[i] = q[j] => i = j
  BY ElementPositions
<1>5. /\ \A i \in 1..Len(q) : r[i] \in ToSet(r)
      /\ \A x \in ToSet(r) : \E i \in 1..Len(q) : r[i] = x
      /\ IsInjective(r) <=> \A i, j \in 1..Len(q) : r[i] = r[j] => i = j
  BY <1>1, ElementPositions
<1>6. ToSet(r) = ToSet(q)
  <2>1. ASSUME NEW x \in ToSet(r) PROVE x \in ToSet(q)
    <3>1. PICK i \in 1..Len(q) : r[i] = x
      BY <1>5
    <3>2. (Len(q) - i) + 1 \in 1..Len(q) /\ q[(Len(q) - i) + 1] = x
      BY <1>1, <1>2, <3>1
    <3> QED BY <1>4, <3>2
  <2>2. ASSUME NEW x \in ToSet(q) PROVE x \in ToSet(r)
    <3>1. PICK i \in 1..Len(q) : q[i] = x
      BY <1>4
    <3> QED BY <1>2, <1>3, <1>5, <3>1
  <2> QED BY <2>1, <2>2
<1>7. ASSUME IsInjective(q) PROVE IsInjective(r)
  <2> SUFFICES ASSUME NEW i \in 1..Len(q), NEW j \in 1..Len(q), r[i] = r[j] PROVE i = j
    BY <1>5
  <2>1. q[(Len(q) - i) + 1] = q[(Len(q) - j) + 1]
    BY <1>1
  <2>2. (Len(q) - i) + 1 = (Len(q) - j) + 1
    BY <1>2, <1>4, <1>7, <2>1
  <2> QED BY <1>1, <2>2
<1> QED BY <1>1, <1>6, <1>7 DEF r

(* A sequence of different elements has as many as there are elements in it.         *)
LEMMA LengthIsCardinality ==
  ASSUME NEW S, NEW q \in Seq(S), IsInjective(q), NEW n \in Nat, ToSet(q) = 1 .. n
  PROVE  Len(q) = n
<1>1. /\ Len(q) \in Nat
      /\ \A i \in 1 .. Len(q) : q[i] \in 1 .. n
      /\ \A x \in 1 .. n : \E i \in 1 .. Len(q) : q[i] = x
      /\ \A i, j \in 1 .. Len(q) : q[i] = q[j] => i = j
  BY ElementPositions
<1> DEFINE m == Len(q)
           f == [i \in 1 .. m |-> q[i]]
<1> HIDE DEF m
<1>2. f \in Bijection(1 .. m, 1 .. n)
  <2>1. f \in [1 .. m -> 1 .. n]
    BY <1>1 DEF m
  <2>2. f \in Injection(1 .. m, 1 .. n)
    BY <1>1, <2>1 DEF m, Injection, IsInjective
  <2>3. f \in Surjection(1 .. m, 1 .. n)
    BY <1>1, <2>1 DEF m, Surjection
  <2> QED BY <2>2, <2>3 DEF Bijection
<1>3. IsFiniteSet(1 .. m) /\ Cardinality(1 .. m) = m /\ Cardinality(1 .. n) = n
  <2>1. m \in Nat /\ (IF 1 > m THEN 0 ELSE m - 1 + 1) = m /\ (IF 1 > n THEN 0 ELSE n - 1 + 1) = n
    BY <1>1 DEF m
  <2> QED BY <2>1, FS_Interval
<1>4. ExistsBijection(1 .. m, 1 .. n)
  BY <1>2 DEF ExistsBijection
<1> QED BY <1>3, <1>4, FS_Bijection DEF m

-----------------------------------------------------------------------------
(* A set of numbers has a least one: finite sets are well-founded by inclusion.      *)
LEMMA LeastNumber ==
  ASSUME NEW T \in SUBSET Nat, T # {}
  PROVE  \E m \in T : \A n \in T : m <= n
<1> DEFINE U == {1 .. n : n \in T}
           R == StrictSubsetOrdering(Nat)
<1>1. IsWellFoundedOn(R, FiniteSubsetsOf(Nat))
  BY FS_StrictSubsetOrderingWellFounded
<1>2. U \subseteq FiniteSubsetsOf(Nat) /\ U # {}
  <2>1. ASSUME NEW n \in T PROVE 1 .. n \in FiniteSubsetsOf(Nat)
    <3>1. n \in Int /\ 1 \in Int
      OBVIOUS
    <3>2. IsFiniteSet(1 .. n)
      BY <3>1, FS_Interval
    <3> QED BY <3>2 DEF FiniteSubsetsOf
  <2> QED BY <2>1
<1> HIDE DEF R
<1>3. \E x \in U : \A y \in U : ~(<<y, x>> \in R)
  <2> HIDE DEF U
  <2> QED BY <1>1, <1>2, WFMin
<1>4. PICK m \in T : \A n \in T : ~(<<1 .. n, 1 .. m>> \in R)
  BY <1>3
<1>5. ASSUME NEW n \in T, n < m PROVE FALSE
  <2>1. n \in Nat /\ m \in Nat
    OBVIOUS
  <2>2. 1 .. n \subseteq 1 .. m /\ m \in 1 .. m /\ m \notin 1 .. n
    BY <1>5, <2>1
  <2>3. <<1 .. n, 1 .. m>> \in R
    <3>1. 1 .. n \in SUBSET Nat /\ 1 .. m \in SUBSET Nat
      BY <2>1
    <3>2. 1 .. n # 1 .. m
      BY <2>2
    <3> QED BY <2>2, <3>1, <3>2 DEF R, StrictSubsetOrdering
  <2> QED BY <1>4, <2>3
<1>6. \A n \in T : m <= n
  BY <1>5
<1> QED BY <1>6

(* Induction: a set that has 0, and n + 1 with n, has all numbers.                    *)
LEMMA SetInduction ==
  ASSUME NEW S \in SUBSET Nat, 0 \in S, \A n \in S : n + 1 \in S
  PROVE  S = Nat
<1> SUFFICES ASSUME Nat \ S # {} PROVE FALSE
  OBVIOUS
<1>1. PICK m \in Nat \ S : \A n \in Nat \ S : m <= n
  <2>1. Nat \ S \in SUBSET Nat
    OBVIOUS
  <2> QED BY <2>1, LeastNumber
<1>2. m - 1 \in Nat
  BY <1>1
<1>3. m - 1 \in S
  BY <1>1, <1>2
<1>4. (m - 1) + 1 \in S
  BY <1>3
<1> QED BY <1>1, <1>2, <1>4
-----------------------------------------------------------------------------
(* The place of a number among those of a finite set: each place is taken, once.    *)
LEMMA Ranks ==
  ASSUME NEW S \in SUBSET Nat, IsFiniteSet(S)
  PROVE  /\ Cardinality(S) \in Nat
         /\ \A k \in S : Cardinality({j \in S : j < k}) \in 0 .. Cardinality(S) - 1
         /\ \A k, l \in S : Cardinality({j \in S : j < k}) = Cardinality({j \in S : j < l}) => k = l
         /\ \A i \in 0 .. Cardinality(S) - 1 : \E k \in S : Cardinality({j \in S : j < k}) = i
<1> DEFINE Below(k) == {j \in S : j < k}
           Rank(k) == Cardinality(Below(k))
           n == Cardinality(S)
           f == [k \in S |-> Rank(k)]
<1>1. n \in Nat
  BY FS_CardinalityType
<1>2. \A k \in S : IsFiniteSet(Below(k)) /\ Rank(k) \in Nat
  BY FS_Subset, FS_CardinalityType
<1>3. \A k \in S : Rank(k) \in 0 .. n - 1
  <2> SUFFICES ASSUME NEW k \in S PROVE Rank(k) \in 0 .. n - 1
    OBVIOUS
  <2>1. IsFiniteSet(S \ {k}) /\ Cardinality(S \ {k}) = n - 1
    BY FS_RemoveElement
  <2>2. Below(k) \in SUBSET (S \ {k})
    OBVIOUS
  <2>3. Rank(k) <= n - 1
    BY <2>1, <2>2, FS_Subset
  <2> QED BY <1>1, <1>2, <2>3
<1>4. \A k, l \in S : k < l => Rank(k) < Rank(l)
  <2> SUFFICES ASSUME NEW k \in S, NEW l \in S, k < l PROVE Rank(k) < Rank(l)
    OBVIOUS
  <2>1. Cardinality(Below(k) \cup {k}) = Rank(k) + 1
    BY <1>2, FS_AddElement
  <2>2. Below(k) \cup {k} \in SUBSET Below(l)
    <3>1. k \in Nat /\ l \in Nat /\ S \subseteq Nat
      OBVIOUS
    <3>2. \A j \in S : j < k => j < l
      BY <3>1
    <3> QED BY <3>2
  <2>3. Cardinality(Below(k) \cup {k}) <= Rank(l)
    BY <1>2, <2>2, FS_Subset
  <2> QED BY <1>2, <2>1, <2>3
<1>5. \A k, l \in S : Rank(k) = Rank(l) => k = l
  <2> SUFFICES ASSUME NEW k \in S, NEW l \in S, Rank(k) = Rank(l), k # l PROVE FALSE
    OBVIOUS
  <2>1. k < l \/ l < k
    OBVIOUS
  <2> QED BY <1>2, <1>4, <2>1
<1>6. f \in Injection(S, 0 .. n - 1)
  BY <1>3, <1>5 DEF Injection, IsInjective
<1>7. f \in Surjection(S, 0 .. n - 1)
  <2>1. 0 \in Int /\ n - 1 \in Int /\ (IF 0 > n - 1 THEN 0 ELSE n - 1 - 0 + 1) = n
    BY <1>1
  <2>2. IsFiniteSet(0 .. n - 1) /\ Cardinality(0 .. n - 1) = n
    BY <2>1, FS_Interval
  <2> QED BY <1>6, <2>2, FS_Injection
<1>8. \A i \in 0 .. n - 1 : \E k \in S : Rank(k) = i
  BY <1>7 DEF Surjection
<1> QED BY <1>1, <1>3, <1>5, <1>8

(* The elements of a finite set, from the smallest to the greatest: each once.      *)
LEMMA InOrderElements ==
  ASSUME NEW S \in SUBSET Nat, IsFiniteSet(S)
  PROVE  /\ InOrder(S) \in Seq(S)
         /\ ToSet(InOrder(S)) = S
         /\ IsInjective(InOrder(S))
<1> DEFINE Rank(k) == Cardinality({j \in S : j < k})
           n == Cardinality(S)
           q == InOrder(S)
<1>1. /\ n \in Nat
      /\ \A k \in S : Rank(k) \in 0 .. n - 1
      /\ \A k, l \in S : Rank(k) = Rank(l) => k = l
      /\ \A i \in 0 .. n - 1 : \E k \in S : Rank(k) = i
  BY Ranks
<1>2. q = [i \in 1 .. n |-> CHOOSE k \in S : Rank(k) = i - 1]
  BY DEF InOrder
<1>3. \A i \in 1 .. n : q[i] \in S /\ Rank(q[i]) = i - 1
  <2> HIDE DEF Rank, n
  <2> SUFFICES ASSUME NEW i \in 1 .. n PROVE q[i] \in S /\ Rank(q[i]) = i - 1
    OBVIOUS
  <2>1. i - 1 \in 0 .. n - 1
    BY <1>1
  <2>2. \E k \in S : Rank(k) = i - 1
    BY <1>1, <2>1
  <2> QED BY <1>2, <2>2
<1> HIDE DEF q, n, Rank
<1>4. DOMAIN q = 1 .. n /\ q = [i \in 1 .. n |-> q[i]]
  BY <1>2
<1>5. q \in Seq(S) /\ Len(q) = n
  BY <1>1, <1>3, <1>4
<1>6. \A k \in S : \E i \in 1 .. n : q[i] = k
  <2> SUFFICES ASSUME NEW k \in S PROVE \E i \in 1 .. n : q[i] = k
    OBVIOUS
  <2>1. Rank(k) + 1 \in 1 .. n
    BY <1>1
  <2>2. q[Rank(k) + 1] \in S /\ Rank(q[Rank(k) + 1]) = Rank(k)
    BY <1>1, <1>3, <2>1
  <2> QED BY <1>1, <2>1, <2>2
<1>7. \A i, j \in 1 .. n : q[i] = q[j] => i = j
  <2> SUFFICES ASSUME NEW i \in 1 .. n, NEW j \in 1 .. n, q[i] = q[j] PROVE i = j
    OBVIOUS
  <2>1. i - 1 = j - 1
    BY <1>3
  <2> QED BY <1>1, <2>1
<1>8. ToSet(q) = S
  <2>1. ToSet(q) \subseteq S
    BY <1>5, ElementPositions
  <2>2. \A i \in 1 .. n : q[i] \in ToSet(q)
    BY <1>5, ElementPositions
  <2> QED BY <1>6, <2>1, <2>2
<1>9. IsInjective(q)
  BY <1>5, <1>7, ElementPositions
<1> QED BY <1>5, <1>8, <1>9 DEF q

(* The numbers of a set in order: each is below those after it.                     *)
LEMMA InOrderAscends ==
  ASSUME NEW S \in SUBSET Nat, IsFiniteSet(S)
  PROVE  /\ DOMAIN InOrder(S) = 1 .. Cardinality(S)
         /\ \A i, j \in 1 .. Cardinality(S) : i < j => InOrder(S)[i] < InOrder(S)[j]
<1> DEFINE Below(k) == {j \in S : j < k}
           Rank(k) == Cardinality(Below(k))
           n == Cardinality(S)
           q == InOrder(S)
<1>1. /\ n \in Nat
      /\ \A i \in 0 .. n - 1 : \E k \in S : Rank(k) = i
  BY Ranks
<1>2. q = [i \in 1 .. n |-> CHOOSE k \in S : Rank(k) = i - 1]
  BY DEF InOrder
<1>3. \A i \in 1 .. n : q[i] \in S /\ Rank(q[i]) = i - 1
  <2> HIDE DEF Rank, n
  <2> SUFFICES ASSUME NEW i \in 1 .. n PROVE q[i] \in S /\ Rank(q[i]) = i - 1
    OBVIOUS
  <2>1. i - 1 \in 0 .. n - 1
    BY <1>1
  <2>2. \E k \in S : Rank(k) = i - 1
    BY <1>1, <2>1
  <2> QED BY <1>2, <2>2
<1>4. \A k, l \in S : l <= k => Rank(l) <= Rank(k)
  <2> SUFFICES ASSUME NEW k \in S, NEW l \in S, l <= k PROVE Rank(l) <= Rank(k)
    OBVIOUS
  <2>1. Below(l) \in SUBSET Below(k) /\ IsFiniteSet(Below(k))
    <3>1. IsFiniteSet(Below(k))
      BY FS_Subset
    <3>2. \A j \in S : j < l => j < k
      OBVIOUS
    <3> QED BY <3>1, <3>2
  <2> QED BY <2>1, FS_Subset
<1> HIDE DEF n, q, Rank
<1>5. \A i, j \in 1 .. n : i < j => q[i] < q[j]
  <2> SUFFICES ASSUME NEW i \in 1 .. n, NEW j \in 1 .. n, i < j, ~(q[i] < q[j]) PROVE FALSE
    OBVIOUS
  <2>1. q[i] \in Nat /\ q[j] \in Nat
    BY <1>3
  <2>2. q[j] <= q[i]
    BY <2>1
  <2>3. Rank(q[j]) <= Rank(q[i])
    BY <1>3, <1>4, <2>2
  <2>4. j - 1 <= i - 1
    BY <1>3, <2>3
  <2> QED BY <1>1, <2>4
<1>6. DOMAIN q = 1 .. n
  BY <1>2
<1> QED BY <1>5, <1>6 DEF q, n

(* A sequence cut in two.                                                            *)
LEMMA SplitElements ==
  ASSUME NEW S, NEW q \in Seq(S), NEW n \in 0 .. Len(q)
  PROVE  /\ SubSeq(q, 1, n) \in Seq(S) /\ SubSeq(q, n + 1, Len(q)) \in Seq(S)
         /\ ToSet(q) = ToSet(SubSeq(q, 1, n)) \cup ToSet(SubSeq(q, n + 1, Len(q)))
         /\ IsInjective(q) =>
              /\ IsInjective(SubSeq(q, 1, n)) /\ IsInjective(SubSeq(q, n + 1, Len(q)))
              /\ ToSet(SubSeq(q, 1, n)) \cap ToSet(SubSeq(q, n + 1, Len(q))) = {}
<1> DEFINE a == SubSeq(q, 1, n)
           b == SubSeq(q, n + 1, Len(q))
<1>1. a \in Seq(S) /\ b \in Seq(S) /\ Len(a) = n /\ Len(b) = Len(q) - n
  OBVIOUS
<1>2. Len(q) \in Nat /\ n \in Nat /\ n <= Len(q)
  OBVIOUS
<1>3. /\ \A i \in 1 .. n : a[i] = q[i]
      /\ \A i \in 1 .. Len(q) - n : b[i] = q[n + i]
  BY <1>2
<1> HIDE DEF a, b
<1>4. a \o b = q
  <2>1. a \o b \in Seq(S) /\ Len(a \o b) = Len(q)
    <3>1. a \o b \in Seq(S) /\ Len(a \o b) = Len(a) + Len(b)
      BY <1>1, ConcatPositions
    <3>2. n + (Len(q) - n) = Len(q)
      BY <1>2
    <3> QED BY <1>1, <3>1, <3>2
  <2>2. ASSUME NEW i \in 1 .. Len(q) PROVE (a \o b)[i] = q[i]
    <3>1. (a \o b)[i] = IF i <= n THEN a[i] ELSE b[i - n]
      BY <1>1, <1>2, ConcatPositions
    <3>2. CASE i <= n
      BY <1>3, <3>1, <3>2
    <3>3. CASE ~(i <= n)
      <4>1. i - n \in 1 .. Len(q) - n /\ n + (i - n) = i
        BY <1>2, <3>3
      <4> QED BY <1>3, <3>1, <3>3, <4>1
    <3> QED BY <3>2, <3>3
  <2> DEFINE c == a \o b
  <2> HIDE DEF c
  <2>3. c \in Seq(S) /\ Len(c) = Len(q) /\ \A i \in 1 .. Len(q) : c[i] = q[i]
    BY <2>1, <2>2 DEF c
  <2>4. c = q
    BY <2>3
  <2> QED BY <2>4 DEF c
<1>5. /\ ToSet(a \o b) = ToSet(a) \cup ToSet(b)
      /\ IsInjective(a \o b) <=> /\ IsInjective(a) /\ IsInjective(b)
                                  /\ ToSet(a) \cap ToSet(b) = {}
  BY <1>1, ConcatElements
<1> QED BY <1>1, <1>4, <1>5 DEF a, b

(* A finite set, put in some order.                                                  *)
LEMMA SetToSeqElements ==
  ASSUME NEW S, IsFiniteSet(S)
  PROVE  SetToSeq(S) \in Seq(S) /\ ToSet(SetToSeq(S)) = S
<1> DEFINE n == Cardinality(S)
<1>1. n \in Nat /\ ExistsBijection(1 .. n, S)
  BY FS_CardinalityType
<1>2. PICK g \in Bijection(1 .. n, S) : TRUE
  BY <1>1 DEF ExistsBijection
<1>3. g \in [1 .. n -> S] /\ IsInjective(g)
  BY <1>2 DEF Bijection, Injection
<1>4. SetToSeq(S) = CHOOSE f \in [1 .. n -> S] : IsInjective(f)
  BY DEF SetToSeq
<1>5. SetToSeq(S) \in [1 .. n -> S] /\ IsInjective(SetToSeq(S))
  BY <1>3, <1>4
<1> DEFINE f == SetToSeq(S)
<1> HIDE DEF n, f
<1>6. f \in Injection(1 .. n, S)
  BY <1>5 DEF f, Injection
<1>7. Cardinality(1 .. n) = n /\ IsFiniteSet(1 .. n)
  <2>1. 1 \in Int /\ n \in Int /\ (IF 1 > n THEN 0 ELSE n - 1 + 1) = n
    BY <1>1
  <2> QED BY <2>1, FS_Interval
<1>8. f \in Surjection(1 .. n, S)
  BY <1>6, <1>7, FS_Injection DEF n
<1>9. f \in Seq(S) /\ ToSet(f) = S
  <2>1. f \in [1 .. n -> S] /\ \A x \in S : \E i \in 1 .. n : f[i] = x
    BY <1>8 DEF Surjection
  <2>2. f \in Seq(S) /\ DOMAIN f = 1 .. n
    BY <1>1, <2>1
  <2> QED BY <2>1, <2>2 DEF ToSet
<1> QED BY <1>9 DEF f

(* The elements of a sequence that are in a set.                                    *)
LEMMA ThoseElements ==
  ASSUME NEW S, NEW q \in Seq(S), NEW T
  PROVE  /\ Those(q, T) \in Seq(S)
         /\ ToSet(Those(q, T)) = ToSet(q) \cap T
         /\ IsInjective(q) => IsInjective(Those(q, T))
<1> DEFINE P == {i \in DOMAIN q : q[i] \in T}
           at == InOrder(P)
           r == Those(q, T)
<1>1. DOMAIN q = 1 .. Len(q) /\ Len(q) \in Nat /\ \A i \in 1 .. Len(q) : q[i] \in S
  OBVIOUS
<1>2. P \in SUBSET Nat /\ IsFiniteSet(P)
  <2>1. 1 \in Int /\ Len(q) \in Int
    BY <1>1
  <2>2. IsFiniteSet(1 .. Len(q))
    BY <2>1, FS_Interval
  <2>3. P \in SUBSET (1 .. Len(q))
    BY <1>1
  <2> QED BY <1>1, <2>2, <2>3, FS_Subset
<1>3. at \in Seq(P) /\ ToSet(at) = P /\ IsInjective(at)
  BY <1>2, InOrderElements
<1>4. r = [k \in DOMAIN at |-> q[at[k]]]
  BY DEF Those
<1>5. \A i : i \in P <=> i \in 1 .. Len(q) /\ q[i] \in T
  BY <1>1
<1> HIDE DEF P, at, r
<1>6. /\ Len(at) \in Nat /\ DOMAIN at = 1 .. Len(at)
      /\ \A k \in 1 .. Len(at) : at[k] \in P
      /\ \A i \in P : \E k \in 1 .. Len(at) : at[k] = i
      /\ \A k, l \in 1 .. Len(at) : at[k] = at[l] => k = l
  BY <1>3, ElementPositions
<1>7. /\ r \in Seq(S) /\ Len(r) = Len(at)
      /\ \A k \in 1 .. Len(at) : r[k] = q[at[k]] /\ q[at[k]] \in S \cap T /\ at[k] \in 1 .. Len(q)
  BY <1>1, <1>4, <1>5, <1>6
<1>8. /\ \A k \in 1 .. Len(at) : r[k] \in ToSet(r)
      /\ \A x \in ToSet(r) : \E k \in 1 .. Len(at) : r[k] = x
      /\ IsInjective(r) <=> \A k, l \in 1 .. Len(at) : r[k] = r[l] => k = l
  BY <1>7, ElementPositions
<1>9. /\ \A i \in 1 .. Len(q) : q[i] \in ToSet(q)
      /\ \A x \in ToSet(q) : \E i \in 1 .. Len(q) : q[i] = x
      /\ IsInjective(q) <=> \A i, j \in 1 .. Len(q) : q[i] = q[j] => i = j
  BY ElementPositions
<1>10. ToSet(r) = ToSet(q) \cap T
  <2>1. ASSUME NEW x \in ToSet(r) PROVE x \in ToSet(q) \cap T
    BY <1>7, <1>8, <1>9
  <2>2. ASSUME NEW x \in ToSet(q) \cap T PROVE x \in ToSet(r)
    <3>1. PICK i \in 1 .. Len(q) : q[i] = x
      BY <1>9
    <3>2. PICK k \in 1 .. Len(at) : at[k] = i
      BY <1>5, <1>6, <3>1
    <3> QED BY <1>7, <1>8, <3>1, <3>2
  <2> QED BY <2>1, <2>2
<1>11. ASSUME IsInjective(q) PROVE IsInjective(r)
  <2>1. ASSUME NEW k \in 1 .. Len(at), NEW l \in 1 .. Len(at), r[k] = r[l] PROVE k = l
    <3>1. at[k] = at[l]
      BY <1>7, <1>9, <1>11, <2>1
    <3> QED BY <1>6, <3>1
  <2> QED BY <1>8, <2>1
<1> QED BY <1>7, <1>10, <1>11 DEF r

(* What WithoutFirst keeps: no element that was not there, and all that are not in T.   *)
LEMMA WithoutFirstElements ==
  ASSUME NEW S, NEW q \in Seq(S), NEW T
  PROVE  /\ WithoutFirst(q, T) \in Seq(S)
         /\ ToSet(WithoutFirst(q, T)) \subseteq ToSet(q)
         /\ \A x \in ToSet(q) : x \notin T => x \in ToSet(WithoutFirst(q, T))
<1> DEFINE P == {i \in DOMAIN q : q[i] \in T => \E k \in 1 .. i - 1 : q[k] = q[i]}
           at == InOrder(P)
           r == WithoutFirst(q, T)
<1>1. DOMAIN q = 1 .. Len(q) /\ Len(q) \in Nat /\ \A i \in 1 .. Len(q) : q[i] \in S
  OBVIOUS
<1>2. P \in SUBSET Nat /\ IsFiniteSet(P)
  <2>1. 1 \in Int /\ Len(q) \in Int
    BY <1>1
  <2>2. IsFiniteSet(1 .. Len(q))
    BY <2>1, FS_Interval
  <2>3. P \in SUBSET (1 .. Len(q))
    BY <1>1
  <2> QED BY <1>1, <2>2, <2>3, FS_Subset
<1>3. at \in Seq(P) /\ ToSet(at) = P /\ IsInjective(at)
  BY <1>2, InOrderElements
<1>4. r = [k \in DOMAIN at |-> q[at[k]]]
  BY DEF WithoutFirst
<1>5. P \subseteq 1 .. Len(q) /\ \A i \in 1 .. Len(q) : q[i] \notin T => i \in P
  BY <1>1
<1> HIDE DEF P, at, r
<1>6. /\ Len(at) \in Nat /\ DOMAIN at = 1 .. Len(at)
      /\ \A k \in 1 .. Len(at) : at[k] \in P
      /\ \A i \in P : \E k \in 1 .. Len(at) : at[k] = i
  BY <1>3, ElementPositions
<1>7. /\ r \in Seq(S) /\ Len(r) = Len(at)
      /\ \A k \in 1 .. Len(at) : r[k] = q[at[k]] /\ at[k] \in 1 .. Len(q)
  <2>1. r = [k \in 1 .. Len(at) |-> q[at[k]]]
    BY <1>4, <1>6
  <2>2. \A k \in 1 .. Len(at) : at[k] \in 1 .. Len(q)
    BY <1>5, <1>6
  <2>3. \A k \in 1 .. Len(at) : q[at[k]] \in S
    BY <1>1, <2>2
  <2>4. r \in [1 .. Len(at) -> S]
    BY <2>1, <2>3
  <2>5. r \in Seq(S) /\ Len(r) = Len(at)
    BY <1>6, <2>4
  <2> QED BY <2>1, <2>2, <2>5
<1>8. /\ \A k \in 1 .. Len(at) : r[k] \in ToSet(r)
      /\ \A x \in ToSet(r) : \E k \in 1 .. Len(at) : r[k] = x
  BY <1>7, ElementPositions
<1>9. /\ \A i \in 1 .. Len(q) : q[i] \in ToSet(q)
      /\ \A x \in ToSet(q) : \E i \in 1 .. Len(q) : q[i] = x
  BY ElementPositions
<1>10. ASSUME NEW x \in ToSet(r) PROVE x \in ToSet(q)
  BY <1>7, <1>8, <1>9
<1>11. ASSUME NEW x \in ToSet(q), x \notin T PROVE x \in ToSet(r)
  <2>1. PICK i \in 1 .. Len(q) : q[i] = x
    BY <1>9
  <2>2. PICK k \in 1 .. Len(at) : at[k] = i
    BY <1>5, <1>6, <1>11, <2>1
  <2> QED BY <1>7, <1>8, <2>1, <2>2
<1> QED BY <1>7, <1>10, <1>11 DEF r

(* FlattenSeq is what its recursion says: the sequences up to the ith, one after      *)
(* another.  The recursive function exists, by induction on its length, and is the     *)
(* only one.                                                                         *)
LEMMA FlattenRecursion ==
  ASSUME NEW S, NEW seqs \in Seq(Seq(S)), Len(seqs) # 0
  PROVE  \E f \in [1 .. Len(seqs) -> Seq(S)] :
           /\ FlattenSeq(seqs) = f[Len(seqs)]
           /\ \A i \in 1 .. Len(seqs) : f[i] = IF i = 1 THEN seqs[i] ELSE f[i - 1] \o seqs[i]
<1> DEFINE n == Len(seqs)
           Good == {m \in Nat : m <= n => \E f \in [1 .. m -> Seq(S)] :
                      \A i \in 1 .. m : f[i] = IF i = 1 THEN seqs[i] ELSE f[i - 1] \o seqs[i]}
           flatten == CHOOSE f : f = [i \in 1 .. n |-> IF i = 1 THEN seqs[i] ELSE f[i - 1] \o seqs[i]]
<1>1. n \in Nat \ {0} /\ \A i \in 1 .. n : seqs[i] \in Seq(S)
  OBVIOUS
<1> HIDE DEF n
<1>2. 0 \in Good
  <2>1. [i \in 1 .. 0 |-> <<>>] \in [1 .. 0 -> Seq(S)] /\ 1 .. 0 = {}
    OBVIOUS
  <2> QED BY <2>1
<1>3. ASSUME NEW m \in Good, m + 1 <= n PROVE m + 1 \in Good
  <2>0. m \in Nat /\ m <= n /\ m + 1 \in 1 .. n
    BY <1>1, <1>3
  <2>1. PICK f \in [1 .. m -> Seq(S)] :
          \A i \in 1 .. m : f[i] = IF i = 1 THEN seqs[i] ELSE f[i - 1] \o seqs[i]
    BY <2>0
  <2> DEFINE last == IF m + 1 = 1 THEN seqs[m + 1] ELSE f[m] \o seqs[m + 1]
             g == [i \in 1 .. m + 1 |-> IF i = m + 1 THEN last ELSE f[i]]
  <2>2. last \in Seq(S)
    <3>1. seqs[m + 1] \in Seq(S)
      BY <1>1, <2>0
    <3>2. CASE m = 0
      BY <3>1, <3>2
    <3>3. CASE m # 0
      <4>1. f[m] \in Seq(S)
        BY <2>0, <2>1, <3>3
      <4> QED BY <2>0, <3>1, <3>3, <4>1
    <3> QED BY <3>2, <3>3
  <2> HIDE DEF last
  <2>3. g \in [1 .. m + 1 -> Seq(S)]
    BY <2>0, <2>2
  <2>4. ASSUME NEW i \in 1 .. m + 1
        PROVE  g[i] = IF i = 1 THEN seqs[i] ELSE g[i - 1] \o seqs[i]
    <3>1. CASE i = m + 1
      <4>1. g[i] = last
        BY <3>1
      <4>2. i # 1 => g[i - 1] = f[m]
        BY <2>0, <3>1
      <4> QED BY <2>0, <3>1, <4>1, <4>2 DEF last
    <3>2. CASE i # m + 1
      <4>1. i \in 1 .. m /\ g[i] = f[i] /\ (i # 1 => i - 1 \in 1 .. m + 1 /\ g[i - 1] = f[i - 1])
        BY <2>0, <3>2
      <4> QED BY <2>1, <4>1
    <3> QED BY <3>1, <3>2
  <2> HIDE DEF g
  <2>5. m + 1 \in Nat
    BY <2>0
  <2> QED BY <2>3, <2>4, <2>5
<1>4. Good = Nat
  <2>1. ASSUME NEW m \in Good PROVE m + 1 \in Good
    <3>1. CASE m + 1 <= n
      BY <1>3, <3>1
    <3>2. CASE ~(m + 1 <= n)
      BY <3>2
    <3> QED BY <3>1, <3>2
  <2>2. Good \in SUBSET Nat
    OBVIOUS
  <2> HIDE DEF Good
  <2> QED BY <1>2, <2>1, <2>2, SetInduction
<1>5. PICK f \in [1 .. n -> Seq(S)] :
        \A i \in 1 .. n : f[i] = IF i = 1 THEN seqs[i] ELSE f[i - 1] \o seqs[i]
  <2>1. n \in Good
    <3> HIDE DEF Good
    <3> QED BY <1>1, <1>4
  <2>2. n <= n
    BY <1>1
  <2> QED BY <2>1, <2>2
<1>6. f = [i \in 1 .. n |-> IF i = 1 THEN seqs[i] ELSE f[i - 1] \o seqs[i]]
  BY <1>5
<1>7. flatten = [i \in 1 .. n |-> IF i = 1 THEN seqs[i] ELSE flatten[i - 1] \o seqs[i]]
  BY <1>6
<1>8. FlattenSeq(seqs) = flatten[n]
  BY <1>1 DEF FlattenSeq, n
<1> HIDE DEF flatten, Good
<1> DEFINE Same == {m \in Nat : m + 1 <= n => flatten[m + 1] = f[m + 1]}
<1>9. Same = Nat
  <2>1. 0 \in Same
    <3>1. 1 \in 1 .. n /\ 0 + 1 = 1
      BY <1>1
    <3>2. flatten[1] = seqs[1]
      BY <1>7, <3>1
    <3>3. f[1] = seqs[1]
      BY <1>5, <3>1
    <3> QED BY <3>1, <3>2, <3>3
  <2>2. ASSUME NEW m \in Same PROVE m + 1 \in Same
    <3>1. m \in Nat /\ m + 1 \in Nat
      OBVIOUS
    <3>2. ASSUME (m + 1) + 1 <= n PROVE flatten[(m + 1) + 1] = f[(m + 1) + 1]
      <4> DEFINE i == (m + 1) + 1
      <4>1. i \in 1 .. n /\ m + 1 \in 1 .. n /\ i # 1 /\ i - 1 = m + 1 /\ m + 1 <= n
        BY <1>1, <3>1, <3>2
      <4>2. flatten[m + 1] = f[m + 1]
        BY <4>1
      <4> HIDE DEF i
      <4>3. flatten[i] = flatten[i - 1] \o seqs[i]
        BY <1>7, <4>1
      <4>4. f[i] = f[i - 1] \o seqs[i]
        BY <1>5, <4>1
      <4> QED BY <4>1, <4>2, <4>3, <4>4 DEF i
    <3> QED BY <3>1, <3>2
  <2>3. Same \in SUBSET Nat
    OBVIOUS
  <2> HIDE DEF Same
  <2> QED BY <2>1, <2>2, <2>3, SetInduction
<1>10. flatten[n] = f[n]
  <2>1. n - 1 \in Same /\ (n - 1) + 1 = n
    <3>1. n - 1 \in Nat
      BY <1>1
    <3> HIDE DEF Same
    <3> QED BY <1>1, <1>9, <3>1
  <2> QED BY <1>1, <2>1
<1> QED BY <1>1, <1>5, <1>8, <1>10 DEF n

(* The elements of the sequences in a sequence, put one after another.              *)
LEMMA FlattenElements ==
  ASSUME NEW S, NEW seqs \in Seq(Seq(S))
  PROVE  /\ FlattenSeq(seqs) \in Seq(S)
         /\ \A x : x \in ToSet(FlattenSeq(seqs)) <=> \E i \in 1 .. Len(seqs) : x \in ToSet(seqs[i])
         /\ /\ \A i \in 1 .. Len(seqs) : IsInjective(seqs[i])
            /\ \A i, j \in 1 .. Len(seqs) : i # j => ToSet(seqs[i]) \cap ToSet(seqs[j]) = {}
            => IsInjective(FlattenSeq(seqs))
<1>1. CASE Len(seqs) = 0
  <2>1. seqs = <<>> /\ FlattenSeq(seqs) = seqs /\ 1 .. Len(seqs) = {}
    BY <1>1 DEF FlattenSeq
  <2>2. <<>> \in Seq(S)
    OBVIOUS
  <2> QED BY <2>1, <2>2, EmptyElements
<1>2. CASE Len(seqs) # 0
  <2> DEFINE n == Len(seqs)
  <2>1. n \in Nat \ {0} /\ \A i \in 1 .. n : seqs[i] \in Seq(S)
    BY <1>2
  <2>2. PICK f \in [1 .. n -> Seq(S)] :
           /\ FlattenSeq(seqs) = f[n]
           /\ \A i \in 1 .. n : f[i] = IF i = 1 THEN seqs[i] ELSE f[i - 1] \o seqs[i]
    BY <1>2, FlattenRecursion
  <2> HIDE DEF n
  <2> DEFINE Apart == /\ \A i \in 1 .. n : IsInjective(seqs[i])
                      /\ \A i, j \in 1 .. n : i # j => ToSet(seqs[i]) \cap ToSet(seqs[j]) = {}
             Of(k) == {x \in S : \E i \in 1 .. k : x \in ToSet(seqs[i])}
             Known(m) == m + 1 <= n => /\ ToSet(f[m + 1]) = Of(m + 1)
                                       /\ Apart => IsInjective(f[m + 1])
             Good == {m \in Nat : Known(m)}
  <2>3. \A i \in 1 .. n : ToSet(seqs[i]) \subseteq S
    BY <2>1, ElementPositions
  <2>4. 0 \in Good
    <3>0. 1 \in 1 .. n
      BY <2>1
    <3>1. 1 \in 1 .. n /\ f[1] = seqs[1]
      BY <2>2, <3>0
    <3>2. Of(1) = ToSet(seqs[1])
      BY <2>3, <3>1
    <3>3. 0 + 1 = 1
      OBVIOUS
    <3> HIDE DEF Of
    <3>4. Apart => IsInjective(seqs[1])
      BY <3>1
    <3> QED BY <3>1, <3>2, <3>3, <3>4
  <2>5. ASSUME NEW m \in Good PROVE m + 1 \in Good
    <3>1. m \in Nat /\ m + 1 \in Nat
      OBVIOUS
    <3> DEFINE k == m + 1
    <3>2. ASSUME k + 1 <= n
          PROVE  ToSet(f[k + 1]) = Of(k + 1) /\ (Apart => IsInjective(f[k + 1]))
      <4>1. /\ k \in 1 .. n /\ k + 1 \in 1 .. n /\ k + 1 # 1 /\ (k + 1) - 1 = k
        BY <2>1, <3>1, <3>2
      <4>2. ToSet(f[k]) = Of(k) /\ (Apart => IsInjective(f[k]))
        <5>1. m + 1 <= n
          BY <2>1, <4>1
        <5>2. Known(m)
          <6> HIDE DEF Known
          <6> QED OBVIOUS
        <5> HIDE DEF Apart, Of
        <5> QED BY <5>1, <5>2
      <4> HIDE DEF k
      <4>3. f[k + 1] = f[k] \o seqs[k + 1] /\ f[k] \in Seq(S) /\ seqs[k + 1] \in Seq(S)
        BY <2>1, <2>2, <4>1
      <4>4. Of(k + 1) = Of(k) \cup ToSet(seqs[k + 1])
        <5>1. \A i : i \in 1 .. k + 1 <=> i \in 1 .. k \/ i = k + 1
          BY <4>1
        <5> QED BY <2>3, <4>1, <5>1
      <4>5. Apart => Of(k) \cap ToSet(seqs[k + 1]) = {}
        <5>1. \A i \in 1 .. k : i # k + 1 /\ i \in 1 .. n
          BY <2>1, <4>1
        <5> QED BY <4>1, <5>1
      <4>6. Apart => IsInjective(seqs[k + 1])
        BY <4>1
      <4> DEFINE next == seqs[k + 1]
      <4> HIDE DEF Apart, Of, next
      <4>7. /\ ToSet(f[k] \o next) = ToSet(f[k]) \cup ToSet(next)
            /\ IsInjective(f[k] \o next) <=> /\ IsInjective(f[k]) /\ IsInjective(next)
                                             /\ ToSet(f[k]) \cap ToSet(next) = {}
        BY <4>3, ConcatElements DEF next
      <4> QED BY <4>2, <4>3, <4>4, <4>5, <4>6, <4>7 DEF next
    <3> HIDE DEF Apart, Of
    <3> QED BY <3>1, <3>2
  <2>6. Good = Nat
    <3>1. Good \in SUBSET Nat
      OBVIOUS
    <3> HIDE DEF Good
    <3> QED BY <2>4, <2>5, <3>1, SetInduction
  <2>7. ToSet(f[n]) = Of(n) /\ (Apart => IsInjective(f[n])) /\ f[n] \in Seq(S)
    <3>1. n - 1 \in Nat /\ (n - 1) + 1 = n /\ n \in 1 .. n /\ n <= n
      BY <2>1
    <3>2. n - 1 \in Good
      <4> HIDE DEF Good
      <4> QED BY <2>6, <3>1
    <3>3. f[n] \in Seq(S)
      BY <2>2, <3>1
    <3>4. Known(n - 1)
      <4> HIDE DEF Known
      <4> QED BY <3>2
    <3> HIDE DEF Apart, Of
    <3> QED BY <3>1, <3>3, <3>4
  <2>8. \A x : x \in Of(n) <=> \E i \in 1 .. n : x \in ToSet(seqs[i])
    BY <2>3
  <2> QED BY <2>2, <2>7, <2>8 DEF n
<1> QED BY <1>1, <1>2

-----------------------------------------------------------------------------
(* How often an element is in a sequence, and in its tail.                     *)
LEMMA TailOccurrences ==
  ASSUME NEW S, NEW q \in Seq(S), q # <<>>, NEW e
  PROVE  /\ Occurrences(e, q) \in Nat /\ Occurrences(e, Tail(q)) \in Nat
         /\ Occurrences(e, q) = Occurrences(e, Tail(q)) + (IF Head(q) = e THEN 1 ELSE 0)
<1> DEFINE n == Len(q)
           T == {i \in 2 .. n : q[i] = e}
           U == {i \in 1 .. n - 1 : Tail(q)[i] = e}
           f == [i \in U |-> i + 1]
<1>1. /\ n \in Nat /\ n > 0 /\ DOMAIN q = 1 .. n /\ DOMAIN Tail(q) = 1 .. n - 1 /\ Head(q) = q[1]
      /\ \A i \in 1 .. n - 1 : Tail(q)[i] = q[i + 1]
  OBVIOUS
<1>2. {i \in DOMAIN Tail(q) : Tail(q)[i] = e} = U
  BY <1>1
<1>3. {i \in DOMAIN q : q[i] = e} = IF Head(q) = e THEN T \cup {1} ELSE T
  <2> HIDE DEF n
  <2>1. \A i \in 1 .. n : i = 1 \/ i \in 2 .. n
    BY <1>1
  <2>2. 1 \in 1 .. n /\ \A i \in 2 .. n : i \in 1 .. n
    BY <1>1
  <2> QED BY <1>1, <2>1, <2>2
<1> HIDE DEF n
<1>4. IsFiniteSet(T) /\ IsFiniteSet(U)
  <2>1. IsFiniteSet(2 .. n) /\ IsFiniteSet(1 .. n - 1)
    <3>1. 1 \in Int /\ 2 \in Int /\ n \in Int /\ n - 1 \in Int
      BY <1>1
    <3> QED BY <3>1, FS_Interval
  <2> QED BY <2>1, FS_Subset
<1>5. Cardinality(T) = Cardinality(U)
  <2>1. \A i \in U : i \in Nat /\ i + 1 \in 2 .. n /\ q[i + 1] = e
    BY <1>1
  <2>2. \A j \in T : j - 1 \in U /\ j = (j - 1) + 1
    <3> SUFFICES ASSUME NEW j \in T PROVE j - 1 \in U /\ j = (j - 1) + 1
      OBVIOUS
    <3>1. j \in Int /\ j >= 2 /\ j <= n /\ q[j] = e
      BY <1>1
    <3>2. j - 1 \in 1 .. n - 1 /\ (j - 1) + 1 = j
      BY <1>1, <3>1
    <3> QED BY <1>1, <3>1, <3>2
  <2>3. f \in Bijection(U, T)
    <3>1. f \in [U -> T]
      BY <2>1
    <3>2. \A i, j \in U : f[i] = f[j] => i = j
      <4>1. \A i \in U : f[i] = i + 1 /\ i \in Nat
        BY <2>1
      <4> HIDE DEF f, U
      <4> QED BY <4>1
    <3>3. \A j \in T : \E i \in U : f[i] = j
      BY <2>2
    <3> HIDE DEF f, T, U
    <3>4. f \in Injection(U, T)
      BY <3>1, <3>2 DEF Injection, IsInjective
    <3>5. f \in Surjection(U, T)
      BY <3>1, <3>3 DEF Surjection
    <3> QED BY <3>4, <3>5 DEF Bijection
  <2> HIDE DEF f, T, U
  <2> QED BY <1>4, <2>3, FS_Bijection DEF ExistsBijection
<1>6. 1 \notin T
  BY <1>1
<1> HIDE DEF T, U
<1>7. /\ Cardinality(T) \in Nat /\ Cardinality(U) \in Nat
      /\ Cardinality(T \cup {1}) = Cardinality(T) + 1
  BY <1>4, <1>6, FS_CardinalityType, FS_AddElement
<1>8. Occurrences(e, Tail(q)) = Cardinality(U)
  BY <1>2 DEF Occurrences
<1>9. CASE Head(q) = e
  <2>1. Occurrences(e, q) = Cardinality(T \cup {1})
    BY <1>3, <1>9 DEF Occurrences
  <2> QED BY <1>5, <1>7, <1>8, <1>9, <2>1
<1>10. CASE Head(q) # e
  <2>1. Occurrences(e, q) = Cardinality(T)
    BY <1>3, <1>10 DEF Occurrences
  <2> QED BY <1>5, <1>7, <1>8, <1>10, <2>1
<1> QED BY <1>9, <1>10
=============================================================================
