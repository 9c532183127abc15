------------------------------ MODULE NodeProofs -----------------------------
(***************************************************************************)
(* Safety of Lru, for any keys, values, sizes and limits, and that it      *)
(* implements Cache; and safety of HashRing, for any peers, any number of  *)
(* points each, and any hashes.  The byte count is a sum over a list; the  *)
(* loop of Add, the binary search and the loops that fill a ring take any  *)
(* number of turns.  So this takes induction; the induction here is over a *)
(* set, by the least number outside it.                                    *)
(***************************************************************************)
EXTENDS Node, SequenceTheorems, WellFoundedInduction, TLAPS

-----------------------------------------------------------------------------
(* Induction and recursion.                                                 *)

LEMMA LeastOf ==
  ASSUME NEW T, T \subseteq Nat, T # {}
  PROVE  \E x \in T : \A y \in T : x <= y
<1>1. PICK x \in T : \A y \in T : ~ (<<y, x>> \in OpToRel(<, Nat))
  BY NatLessThanWellFounded, WFMin
<1>2. \A y \in T : ~ (y < x)
  BY <1>1 DEF OpToRel
<1>3. QED
  BY <1>2

LEMMA MinIsLeast ==
  ASSUME NEW T, T \subseteq Nat, T # {}
  PROVE  Min(T) \in T /\ \A y \in T : Min(T) <= y
  BY LeastOf DEF Min

LEMMA ByInduction ==
  ASSUME NEW T, 0 \in T, \A n \in Nat : n \in T => n + 1 \in T
  PROVE  \A n \in Nat : n \in T
<1> SUFFICES ASSUME Nat \ T # {} PROVE FALSE
  OBVIOUS
<1>1. PICK x \in Nat \ T : \A y \in Nat \ T : x <= y
  BY LeastOf
<1>2. x # 0 /\ x - 1 \in Nat /\ x - 1 \notin Nat \ T
  BY <1>1
<1>3. QED
  BY <1>2

(* A function given by its first value and a step from each to the next.    *)
Computes(f, N, S, first, step) ==
  /\ f \in [0..N -> S]
  /\ f[0] = first /\ \A n \in 1..N : f[n] = step[<<n, f[n - 1]>>]

LEMMA Recursion ==
  ASSUME NEW N \in Nat, NEW S, NEW first \in S, NEW step \in [(1..N) \X S -> S]
  PROVE  \E f : Computes(f, N, S, first, step)
<1> DEFINE Steps(f, m) == f[0] = first /\ \A n \in 1..m : f[n] = step[<<n, f[n - 1]>>]
           T == {m \in Nat : m <= N => \E f \in [0..m -> S] : Steps(f, m)}
<1>1. 0 \in T
  <2>1. [i \in 0..0 |-> first] \in [0..0 -> S] /\ Steps([i \in 0..0 |-> first], 0)
    OBVIOUS
  <2>2. QED
    BY <2>1
<1>2. \A m \in Nat : m \in T => m + 1 \in T
  <2> SUFFICES ASSUME NEW m \in Nat, m \in T, m + 1 <= N PROVE \E f \in [0..(m + 1) -> S] : Steps(f, m + 1)
    OBVIOUS
  <2>1. PICK f \in [0..m -> S] : Steps(f, m)
    OBVIOUS
  <2> DEFINE g == [i \in 0..(m + 1) |-> IF i <= m THEN f[i] ELSE step[<<m + 1, f[m]>>]]
  <2>2. f[m] \in S /\ <<m + 1, f[m]>> \in (1..N) \X S
    OBVIOUS
  <2>3. g \in [0..(m + 1) -> S]
    BY <2>2
  <2>4. g[0] = f[0] /\ \A n \in 1..m : g[n] = f[n] /\ g[n - 1] = f[n - 1]
    OBVIOUS
  <2>5. g[m + 1] = step[<<m + 1, g[(m + 1) - 1]>>]
    <3>1. m + 1 \in 0..(m + 1) /\ ~(m + 1 <= m) /\ m \in 0..(m + 1) /\ (m + 1) - 1 = m
      OBVIOUS
    <3>2. g[m + 1] = step[<<m + 1, f[m]>>] /\ g[m] = f[m]
      BY <3>1
    <3>3. QED
      BY <3>1, <3>2
  <2>6. \A n \in 1..(m + 1) : n \in 1..m \/ n = m + 1
    OBVIOUS
  <2> HIDE DEF g
  <2>7. Steps(g, m + 1)
    BY <2>1, <2>4, <2>5, <2>6
  <2>8. QED
    BY <2>3, <2>7
<1> HIDE DEF T
<1>3. N \in T
  BY <1>1, <1>2, ByInduction
<1>4. QED
  BY <1>3 DEF T, Computes

LEMMA SameSteps ==
  ASSUME NEW N \in Nat, NEW f, NEW g, f[0] = g[0],
         \A n \in 1..N : f[n - 1] = g[n - 1] => f[n] = g[n]
  PROVE  \A n \in 0..N : f[n] = g[n]
<1> DEFINE T == {n \in Nat : n <= N => f[n] = g[n]}
<1>1. 0 \in T
  OBVIOUS
<1>2. \A n \in Nat : n \in T => n + 1 \in T
  <2> SUFFICES ASSUME NEW n \in Nat, n \in T, n + 1 <= N PROVE f[n + 1] = g[n + 1]
    OBVIOUS
  <2>1. n + 1 \in 1..N /\ (n + 1) - 1 = n /\ f[n] = g[n]
    OBVIOUS
  <2>2. QED
    BY <2>1
<1> HIDE DEF T
<1>3. \A n \in Nat : n \in T
  BY <1>1, <1>2, ByInduction
<1>4. QED
  BY <1>3 DEF T

-----------------------------------------------------------------------------
(* The bytes of a list.                                                     *)

LEMMA SizeIsNat == \A e \in Entry : Size(e) \in Nat
  BY LenAssumption DEF Size, Entry

IsSum(s, ll) ==
  /\ s \in [0..Len(ll) -> Nat] /\ s[0] = 0
  /\ \A n \in 1..Len(ll) : s[n] = s[n - 1] + Size(ll[n])

LEMMA SumOf ==
  ASSUME NEW ll \in Seq(Entry)
  PROVE  \E s : IsSum(s, ll) /\ Bytes(ll) = s[Len(ll)]
<1> DEFINE N == Len(ll)
           Step(s) == [n \in 0..N |-> IF n = 0 THEN 0 ELSE s[n - 1] + Size(ll[n])]
           sum == CHOOSE s : s = Step(s)
           step == [x \in (1..N) \X Nat |-> x[2] + Size(ll[x[1]])]
<1>1. N \in Nat /\ \A n \in 1..N : Size(ll[n]) \in Nat
  BY SizeIsNat
<1>2. step \in [(1..N) \X Nat -> Nat]
  BY <1>1
<1> HIDE DEF step, N
<1>3. PICK f : Computes(f, N, Nat, 0, step)
  BY <1>1, <1>2, Recursion
<1>4. \A n \in 1..N : f[n - 1] \in Nat /\ f[n] = f[n - 1] + Size(ll[n])
  <2> SUFFICES ASSUME NEW n \in 1..N PROVE f[n - 1] \in Nat /\ f[n] = f[n - 1] + Size(ll[n])
    OBVIOUS
  <2>1. n - 1 \in 0..N
    BY <1>1
  <2>2. f[n - 1] \in Nat /\ <<n, f[n - 1]>> \in (1..N) \X Nat
    BY <1>3, <2>1 DEF Computes
  <2>3. QED
    BY <1>3, <2>2 DEF step, Computes
<1> USE DEF N
<1>5. f = Step(f)
  BY <1>1, <1>3, <1>4 DEF Computes
<1>6. sum = Step(sum)
  BY <1>5
<1>7. Bytes(ll) = sum[N]
  BY DEF Bytes
<1> HIDE DEF sum
<1>8. sum[0] = 0 /\ \A n \in 1..N : sum[n] = sum[n - 1] + Size(ll[n])
  BY <1>1, <1>6
<1> HIDE DEF N
<1>9. \A n \in 0..N : sum[n] = f[n]
  <2>1. \A n \in 1..N : sum[n - 1] = f[n - 1] => sum[n] = f[n]
    BY <1>4, <1>8
  <2>2. N \in Nat /\ sum[0] = f[0]
    BY <1>1, <1>3, <1>8 DEF Computes
  <2>3. QED
    BY <2>1, <2>2, SameSteps, Zenon
<1> USE DEF N
<1>10. IsSum(f, ll) /\ Bytes(ll) = f[N]
  BY <1>1, <1>3, <1>4, <1>7, <1>9 DEF IsSum, Computes
<1>11. QED
  BY <1>10

LEMMA BytesIsNat == \A ll \in Seq(Entry) : Bytes(ll) \in Nat
<1> SUFFICES ASSUME NEW ll \in Seq(Entry) PROVE Bytes(ll) \in Nat
  OBVIOUS
<1>1. PICK s : IsSum(s, ll) /\ Bytes(ll) = s[Len(ll)]
  BY SumOf
<1>2. QED
  BY <1>1 DEF IsSum

LEMMA BytesOfNone == Bytes(<<>>) = 0
<1>1. <<>> \in Seq(Entry) /\ Len(<<>>) = 0
  OBVIOUS
<1>2. PICK s : IsSum(s, <<>>) /\ Bytes(<<>>) = s[Len(<<>>)]
  BY <1>1, SumOf
<1>3. QED
  BY <1>1, <1>2 DEF IsSum

LEMMA BytesOfOne == \A e \in Entry : Bytes(<<e>>) = Size(e)
<1> SUFFICES ASSUME NEW e \in Entry PROVE Bytes(<<e>>) = Size(e)
  OBVIOUS
<1>1. <<e>> \in Seq(Entry) /\ Len(<<e>>) = 1 /\ <<e>>[1] = e
  OBVIOUS
<1>2. PICK s : IsSum(s, <<e>>) /\ Bytes(<<e>>) = s[Len(<<e>>)]
  BY <1>1, SumOf
<1>3. s[0] = 0 /\ s[1] = s[0] + Size(e)
  BY <1>1, <1>2 DEF IsSum
<1>4. QED
  BY <1>1, <1>2, <1>3, SizeIsNat

LEMMA BytesOfConcat ==
  ASSUME NEW s \in Seq(Entry), NEW t \in Seq(Entry)
  PROVE  Bytes(s \o t) = Bytes(s) + Bytes(t)
<1>0. Len(s) \in Nat /\ Len(t) \in Nat
  OBVIOUS
<1> DEFINE r == s \o t
<1>1. /\ r \in Seq(Entry) /\ Len(r) = Len(s) + Len(t) /\ Len(s) \in Nat /\ Len(t) \in Nat
      /\ \A i \in 1..Len(s) : r[i] = s[i]
      /\ \A i \in 1..Len(t) : r[Len(s) + i] = t[i]
  BY ConcatProperties
<1> HIDE DEF r
<1>2. PICK f : IsSum(f, s) /\ Bytes(s) = f[Len(s)]
  BY SumOf
<1>3. PICK g : IsSum(g, t) /\ Bytes(t) = g[Len(t)]
  BY SumOf
<1>4. PICK h : IsSum(h, r) /\ Bytes(r) = h[Len(r)]
  BY <1>1, SumOf
<1>5. h[Len(s)] = f[Len(s)]
  <2>1. h[0] = f[0]
    BY <1>2, <1>4 DEF IsSum
  <2>2. \A n \in 1..Len(s) : h[n - 1] = f[n - 1] => h[n] = f[n]
    BY <1>1, <1>2, <1>4 DEF IsSum
  <2>3. \A n \in 0..Len(s) : h[n] = f[n]
    BY <2>1, <2>2, <1>0, SameSteps, Zenon
  <2>4. QED
    BY <1>1, <2>3
<1> DEFINE k == [n \in 0..Len(t) |-> h[Len(s) + n]]
           l == [n \in 0..Len(t) |-> f[Len(s)] + g[n]]
<1>6. k[Len(t)] = l[Len(t)]
  <2>1. f[Len(s)] \in Nat /\ \A n \in 0..Len(t) : g[n] \in Nat /\ h[Len(s) + n] \in Nat
    <3>1. f[Len(s)] \in Nat /\ \A n \in 0..Len(t) : g[n] \in Nat
      BY <1>0, <1>2, <1>3 DEF IsSum
    <3>2. \A n \in 0..Len(t) : Len(s) + n \in 0..Len(r)
      BY <1>0, <1>1
    <3>3. \A n \in 0..Len(t) : h[Len(s) + n] \in Nat
      BY <1>4, <3>2 DEF IsSum
    <3>4. QED
      BY <3>1, <3>3
  <2>2. k[0] = l[0]
    <3>1. 0 \in 0..Len(t) /\ Len(s) + 0 = Len(s) /\ g[0] = 0
      BY <1>0, <1>3 DEF IsSum
    <3>2. k[0] = h[Len(s)] /\ l[0] = f[Len(s)]
      BY <2>1, <3>1
    <3>3. QED
      BY <1>5, <3>2
  <2>3. \A n \in 1..Len(t) : k[n - 1] = l[n - 1] => k[n] = l[n]
    <3> SUFFICES ASSUME NEW n \in 1..Len(t), k[n - 1] = l[n - 1] PROVE k[n] = l[n]
      OBVIOUS
    <3>1. /\ n - 1 \in 0..Len(t) /\ n \in 0..Len(t)
          /\ Len(s) + n \in 1..Len(r) /\ (Len(s) + n) - 1 = Len(s) + (n - 1)
      BY <1>1
    <3>2. h[Len(s) + n] = h[Len(s) + (n - 1)] + Size(t[n])
      BY <1>1, <1>4, <3>1 DEF IsSum
    <3>3. g[n] = g[n - 1] + Size(t[n])
      BY <1>3 DEF IsSum
    <3>4. t[n] \in Entry /\ Size(t[n]) \in Nat
      BY SizeIsNat
    <3>5. h[Len(s) + (n - 1)] = f[Len(s)] + g[n - 1]
      BY <3>1
    <3>6. h[Len(s) + n] = f[Len(s)] + g[n]
      <4>1. f[Len(s)] \in Nat /\ g[n - 1] \in Nat /\ g[n] \in Nat
        BY <2>1, <3>1
      <4>2. QED
        BY <3>2, <3>3, <3>4, <3>5, <4>1
    <3>7. QED
      BY <3>1, <3>6
  <2> HIDE DEF k, l
  <2>4. \A n \in 0..Len(t) : k[n] = l[n]
    BY <2>2, <2>3, <1>0, SameSteps, Zenon
  <2>5. QED
    BY <1>1, <2>4
<1>7. h[Len(r)] = f[Len(s)] + g[Len(t)]
  BY <1>1, <1>6
<1>8. QED
  BY <1>2, <1>3, <1>4, <1>7 DEF r

(* The bytes a list loses with its last entry, or with any.                 *)
LEMMA BytesOfFront ==
  ASSUME NEW ll \in Seq(Entry), ll # <<>>
  PROVE  /\ Front(ll) \in Seq(Entry) /\ Last(ll) \in Entry
         /\ Bytes(ll) = Bytes(Front(ll)) + Size(Last(ll))
<1>1. Front(ll) \in Seq(Entry) /\ Last(ll) \in Entry /\ <<Last(ll)>> \in Seq(Entry)
  BY DEF Front, Last
<1>2. ll = Front(ll) \o <<Last(ll)>>
  BY DEF Front, Last
<1>3. QED
  BY <1>1, <1>2, BytesOfConcat, BytesOfOne

LEMMA Removed ==
  ASSUME NEW ll \in Seq(Entry), NEW i \in 1..Len(ll)
  PROVE  /\ RemoveAt(ll, i) \in Seq(Entry) /\ Len(RemoveAt(ll, i)) = Len(ll) - 1
         /\ \A j \in 1..(Len(ll) - 1) : RemoveAt(ll, i)[j] = IF j < i THEN ll[j] ELSE ll[j + 1]
         /\ Bytes(ll) = Bytes(RemoveAt(ll, i)) + Size(ll[i])
<1> DEFINE a == SubSeq(ll, 1, i - 1)
           b == SubSeq(ll, i + 1, Len(ll))
<1>1. /\ a \in Seq(Entry) /\ Len(a) = i - 1 /\ \A j \in 1..(i - 1) : a[j] = ll[j]
      /\ b \in Seq(Entry) /\ Len(b) = Len(ll) - i /\ \A j \in 1..(Len(ll) - i) : b[j] = ll[i + j]
  OBVIOUS
<1>2. ll[i] \in Entry /\ <<ll[i]>> \in Seq(Entry) /\ a \o <<ll[i]>> \in Seq(Entry)
  BY <1>1
<1>3. ll = (a \o <<ll[i]>>) \o b
  <2> DEFINE c == a \o <<ll[i]>>
  <2>1. /\ c \in Seq(Entry) /\ Len(c) = i /\ c[i] = ll[i]
        /\ \A j \in 1..(i - 1) : c[j] = ll[j]
    BY <1>1, <1>2
  <2> HIDE DEF a, b, c
  <2>2. c \in Seq(Entry) /\ Len(c) = i /\ \A j \in 1..i : c[j] = ll[j]
    <3>1. \A j \in 1..i : j \in 1..(i - 1) \/ j = i
      OBVIOUS
    <3>2. QED
      BY <2>1, <3>1
  <2>3. /\ c \o b \in Seq(Entry) /\ Len(c \o b) = Len(ll)
        /\ \A j \in 1..Len(ll) : (c \o b)[j] = IF j <= i THEN c[j] ELSE b[j - i]
    <3>1. /\ c \o b \in Seq(Entry) /\ Len(c \o b) = Len(c) + Len(b)
          /\ \A j \in 1..(Len(c) + Len(b)) : (c \o b)[j] = IF j <= Len(c) THEN c[j] ELSE b[j - Len(c)]
      BY <1>1, <2>2, ConcatProperties
    <3>2. Len(c) = i /\ Len(c) + Len(b) = Len(ll)
      BY <1>1, <2>2
    <3>3. QED
      BY <3>1, <3>2
  <2>4. \A j \in 1..Len(ll) : (c \o b)[j] = ll[j]
    <3> SUFFICES ASSUME NEW j \in 1..Len(ll) PROVE (c \o b)[j] = ll[j]
      OBVIOUS
    <3>1. j > i => j - i \in 1..(Len(ll) - i) /\ i + (j - i) = j
      OBVIOUS
    <3>2. j > i => b[j - i] = ll[i + (j - i)]
      BY <1>1, <3>1
    <3>3. QED
      BY <2>2, <2>3, <3>1, <3>2
  <2>5. QED
    BY <2>3, <2>4, SeqEqual DEF c
<1>4. RemoveAt(ll, i) = a \o b
  BY DEF RemoveAt
<1> HIDE DEF a, b
<1>5. Bytes(ll) = Bytes(a) + Size(ll[i]) + Bytes(b)
  <2>1. Bytes(ll) = Bytes(a \o <<ll[i]>>) + Bytes(b)
    BY <1>1, <1>2, <1>3, BytesOfConcat
  <2>2. QED
    BY <1>1, <1>2, <2>1, BytesOfConcat, BytesOfOne
<1>6. Bytes(a \o b) = Bytes(a) + Bytes(b) /\ Bytes(a) \in Nat /\ Bytes(b) \in Nat
  BY <1>1, BytesOfConcat, BytesIsNat
<1>7. Bytes(ll) = Bytes(RemoveAt(ll, i)) + Size(ll[i])
  BY <1>2, <1>4, <1>5, <1>6, SizeIsNat
<1>8. /\ a \o b \in Seq(Entry) /\ Len(a \o b) = Len(ll) - 1
      /\ \A j \in 1..(Len(ll) - 1) : (a \o b)[j] = IF j < i THEN ll[j] ELSE ll[j + 1]
  <2>1. /\ a \o b \in Seq(Entry) /\ Len(a \o b) = Len(ll) - 1
        /\ \A j \in 1..(Len(ll) - 1) : (a \o b)[j] = IF j <= i - 1 THEN a[j] ELSE b[j - (i - 1)]
    <3>1. /\ a \o b \in Seq(Entry) /\ Len(a \o b) = Len(a) + Len(b)
          /\ \A j \in 1..(Len(a) + Len(b)) : (a \o b)[j] = IF j <= Len(a) THEN a[j] ELSE b[j - Len(a)]
      BY <1>1, ConcatProperties
    <3>2. Len(a) = i - 1 /\ Len(a) + Len(b) = Len(ll) - 1
      BY <1>1
    <3>3. QED
      BY <3>1, <3>2
  <2>2. \A j \in 1..(Len(ll) - 1) : (a \o b)[j] = IF j < i THEN ll[j] ELSE ll[j + 1]
    <3> SUFFICES ASSUME NEW j \in 1..(Len(ll) - 1)
                 PROVE  (a \o b)[j] = IF j < i THEN ll[j] ELSE ll[j + 1]
      OBVIOUS
    <3>1. j >= i => j - (i - 1) \in 1..(Len(ll) - i) /\ i + (j - (i - 1)) = j + 1
      OBVIOUS
    <3>2. j >= i => b[j - (i - 1)] = ll[i + (j - (i - 1))]
      BY <1>1, <3>1
    <3>3. QED
      BY <1>1, <2>1, <3>1, <3>2
  <2>3. QED
    BY <2>1, <2>2
<1>9. QED
  BY <1>4, <1>7, <1>8

-----------------------------------------------------------------------------
(* The entries of a list.                                                   *)

LEMMA Found ==
  ASSUME NEW ll \in Seq(Entry), NEW k \in KeysOf(ll)
  PROVE  /\ IndexOf(ll, k) \in 1..Len(ll) /\ ll[IndexOf(ll, k)].key = k
         /\ EntryOf(ll, k) = ll[IndexOf(ll, k)] /\ EntryOf(ll, k) \in Entry
         /\ k \in Keys
<1>1. PICK i \in 1..Len(ll) : ll[i].key = k
  BY DEF KeysOf
<1>2. IndexOf(ll, k) \in 1..Len(ll) /\ ll[IndexOf(ll, k)].key = k
  BY <1>1 DEF IndexOf
<1>3. EntryOf(ll, k) = ll[IndexOf(ll, k)]
  BY DEF EntryOf
<1>4. ll[IndexOf(ll, k)] \in Entry /\ k \in Keys
  <2> DEFINE n == IndexOf(ll, k)
  <2>1. n \in 1..Len(ll) /\ ll[n].key = k
    BY <1>2
  <2> HIDE DEF n
  <2>2. ll[n] \in Entry
    BY <2>1
  <2>3. \A e \in Entry : e.key \in Keys
    BY DEF Entry
  <2>4. QED
    BY <2>1, <2>2, <2>3 DEF n
<1>5. QED
  BY <1>2, <1>3, <1>4

LEMMA FoundAt ==
  ASSUME NEW ll \in Seq(Entry), OneEach(ll), NEW i \in 1..Len(ll)
  PROVE  /\ ll[i].key \in KeysOf(ll) /\ IndexOf(ll, ll[i].key) = i
         /\ EntryOf(ll, ll[i].key) = ll[i]
<1>1. ll[i].key \in KeysOf(ll)
  BY DEF KeysOf
<1>2. IndexOf(ll, ll[i].key) \in 1..Len(ll) /\ ll[IndexOf(ll, ll[i].key)].key = ll[i].key
  BY <1>1, Found
<1>3. IndexOf(ll, ll[i].key) = i
  <2> DEFINE n == IndexOf(ll, ll[i].key)
  <2>1. n \in 1..Len(ll) /\ ll[n].key = ll[i].key
    BY <1>2
  <2> HIDE DEF n
  <2>2. n = i
    BY <2>1 DEF OneEach
  <2>3. QED
    BY <2>2 DEF n
<1>4. QED
  BY <1>1, <1>3 DEF EntryOf

LEMMA OthersLeft ==
  ASSUME NEW ll \in Seq(Entry), OneEach(ll), NEW k
  PROVE  LET o == Others(ll, k) IN
         /\ o \in Seq(Entry) /\ OneEach(o) /\ KeysOf(o) = KeysOf(ll) \ {k}
         /\ \A x \in KeysOf(o) : EntryOf(o, x) = EntryOf(ll, x)
         /\ Bytes(ll) = Bytes(o) + (IF k \in KeysOf(ll) THEN Size(EntryOf(ll, k)) ELSE 0)
<1> DEFINE o == Others(ll, k)
           i == IndexOf(ll, k)
<1>1. CASE k \notin KeysOf(ll)
  BY <1>1, BytesIsNat DEF Others
<1>2. CASE k \in KeysOf(ll)
  <2>1. i \in 1..Len(ll) /\ ll[i].key = k /\ EntryOf(ll, k) = ll[i] /\ o = RemoveAt(ll, i)
    BY <1>2, Found DEF Others
  <2> HIDE DEF o, i
  <2>2. /\ o \in Seq(Entry) /\ Len(o) = Len(ll) - 1
        /\ \A j \in 1..(Len(ll) - 1) : o[j] = IF j < i THEN ll[j] ELSE ll[j + 1]
        /\ Bytes(ll) = Bytes(o) + Size(ll[i])
    BY <2>1, Removed
  <2>3. OneEach(o)
    BY <2>1, <2>2 DEF OneEach
  <2>4. \A j \in 1..Len(o) :
          /\ o[j].key \in KeysOf(ll) \ {k}
          /\ EntryOf(o, o[j].key) = o[j] /\ EntryOf(ll, o[j].key) = o[j]
    <3> SUFFICES ASSUME NEW j \in 1..Len(o)
                 PROVE  /\ o[j].key \in KeysOf(ll) \ {k}
                        /\ EntryOf(o, o[j].key) = o[j] /\ EntryOf(ll, o[j].key) = o[j]
      OBVIOUS
    <3> DEFINE m == IF j < i THEN j ELSE j + 1
    <3>1. m \in 1..Len(ll) /\ m # i /\ o[j] = ll[m]
      BY <2>1, <2>2
    <3> HIDE DEF m
    <3>2. o[j].key # k
      BY <2>1, <3>1 DEF OneEach
    <3>3. ll[m].key \in KeysOf(ll) /\ EntryOf(ll, ll[m].key) = ll[m]
      BY <3>1, FoundAt
    <3>4. EntryOf(o, o[j].key) = o[j]
      BY <2>2, <2>3, FoundAt
    <3>5. QED
      BY <3>1, <3>2, <3>3, <3>4
  <2>5. \A x \in KeysOf(ll) \ {k} : x \in KeysOf(o)
    <3> SUFFICES ASSUME NEW x \in KeysOf(ll), x # k PROVE x \in KeysOf(o)
      OBVIOUS
    <3>1. PICK m \in 1..Len(ll) : ll[m].key = x
      BY DEF KeysOf
    <3>2. m # i
      BY <2>1, <3>1
    <3> DEFINE j == IF m < i THEN m ELSE m - 1
    <3>3. j \in 1..Len(o) /\ o[j] = ll[m]
      BY <2>1, <2>2, <3>2
    <3> HIDE DEF j
    <3>4. QED
      BY <2>2, <3>1, <3>3 DEF KeysOf
  <2>6. \A x \in KeysOf(o) : \E j \in 1..Len(o) : o[j].key = x
    BY <2>2 DEF KeysOf
  <2>7. KeysOf(o) = KeysOf(ll) \ {k}
    BY <2>4, <2>5, <2>6
  <2>8. \A x \in KeysOf(o) : EntryOf(o, x) = EntryOf(ll, x)
    BY <2>4, <2>6
  <2>9. QED
    BY <1>2, <2>1, <2>2, <2>3, <2>7, <2>8 DEF o
<1>3. QED
  BY <1>1, <1>2

LEMMA InFront ==
  ASSUME NEW e \in Entry, NEW o \in Seq(Entry)
  PROVE  /\ <<e>> \o o \in Seq(Entry) /\ Len(<<e>> \o o) = Len(o) + 1
         /\ (<<e>> \o o)[1] = e /\ \A i \in 1..Len(o) : (<<e>> \o o)[i + 1] = o[i]
         /\ Bytes(<<e>> \o o) = Size(e) + Bytes(o)
<1>1. <<e>> \in Seq(Entry) /\ Len(<<e>>) = 1 /\ <<e>>[1] = e
  OBVIOUS
<1>2. Bytes(<<e>> \o o) = Size(e) + Bytes(o)
  BY <1>1, BytesOfConcat, BytesOfOne
<1>3. QED
  BY <1>1, <1>2

LEMMA MovedToFront ==
  ASSUME NEW ll \in Seq(Entry), OneEach(ll), NEW e \in Entry
  PROVE  LET r == ToFront(ll, e) IN
         /\ r \in Seq(Entry) /\ OneEach(r) /\ KeysOf(r) = KeysOf(ll) \cup {e.key}
         /\ EntryOf(r, e.key) = e
         /\ \A x \in KeysOf(ll) \ {e.key} : EntryOf(r, x) = EntryOf(ll, x)
         /\ Bytes(r) + (IF e.key \in KeysOf(ll) THEN Size(EntryOf(ll, e.key)) ELSE 0)
              = Bytes(ll) + Size(e)
<1> DEFINE o == Others(ll, e.key)
           r == ToFront(ll, e)
<1>1. /\ o \in Seq(Entry) /\ OneEach(o) /\ KeysOf(o) = KeysOf(ll) \ {e.key}
      /\ \A x \in KeysOf(o) : EntryOf(o, x) = EntryOf(ll, x)
      /\ Bytes(ll) = Bytes(o) + (IF e.key \in KeysOf(ll) THEN Size(EntryOf(ll, e.key)) ELSE 0)
  BY OthersLeft
<1>2. r = <<e>> \o o
  BY DEF ToFront
<1> HIDE DEF o, r
<1>3. /\ r \in Seq(Entry) /\ Len(r) = Len(o) + 1
      /\ r[1] = e /\ \A i \in 1..Len(o) : r[i + 1] = o[i]
      /\ Bytes(r) = Size(e) + Bytes(o)
  BY <1>1, <1>2, InFront
<1>4. \A i \in 1..Len(r) :
        i # 1 => i - 1 \in 1..Len(o) /\ r[i] = o[i - 1] /\ o[i - 1].key \in KeysOf(o)
  <2> SUFFICES ASSUME NEW i \in 1..Len(r), i # 1
               PROVE  i - 1 \in 1..Len(o) /\ r[i] = o[i - 1] /\ o[i - 1].key \in KeysOf(o)
    OBVIOUS
  <2>1. i - 1 \in 1..Len(o) /\ (i - 1) + 1 = i
    BY <1>1, <1>3
  <2>2. QED
    BY <1>1, <1>3, <2>1, FoundAt
<1>5. OneEach(r)
  <2> SUFFICES ASSUME NEW i \in 1..Len(r), NEW j \in 1..Len(r), r[i].key = r[j].key PROVE i = j
    BY DEF OneEach
  <2>1. CASE i = 1 \/ j = 1
    BY <1>1, <1>3, <1>4, <2>1
  <2>2. CASE i # 1 /\ j # 1
    BY <1>1, <1>4, <2>2 DEF OneEach
  <2>3. QED
    BY <2>1, <2>2
<1>6. KeysOf(r) = KeysOf(ll) \cup {e.key}
  <2>1. \A i \in 1..Len(r) : r[i].key \in KeysOf(ll) \cup {e.key}
    BY <1>1, <1>3, <1>4
  <2>2. e.key \in KeysOf(r)
    BY <1>1, <1>3 DEF KeysOf
  <2>3. \A x \in KeysOf(o) : x \in KeysOf(r)
    <3> SUFFICES ASSUME NEW x \in KeysOf(o) PROVE x \in KeysOf(r)
      OBVIOUS
    <3>1. PICK i \in 1..Len(o) : o[i].key = x
      BY <1>1 DEF KeysOf
    <3>2. i + 1 \in 1..Len(r) /\ r[i + 1].key = x
      BY <1>1, <1>3, <3>1
    <3>3. QED
      BY <1>3, <3>2 DEF KeysOf
  <2>4. \A x \in KeysOf(r) : \E i \in 1..Len(r) : r[i].key = x
    BY <1>3 DEF KeysOf
  <2>5. QED
    BY <1>1, <2>1, <2>2, <2>3, <2>4
<1>7. EntryOf(r, e.key) = e
  BY <1>1, <1>3, <1>5, FoundAt
<1>8. \A x \in KeysOf(ll) \ {e.key} : EntryOf(r, x) = EntryOf(ll, x)
  <2> SUFFICES ASSUME NEW x \in KeysOf(o) PROVE EntryOf(r, x) = EntryOf(ll, x)
    BY <1>1
  <2>1. PICK i \in 1..Len(o) : o[i].key = x
    BY <1>1 DEF KeysOf
  <2>2. EntryOf(o, x) = o[i]
    BY <1>1, <2>1, FoundAt
  <2>3. i + 1 \in 1..Len(r) /\ r[i + 1] = o[i]
    BY <1>1, <1>3
  <2>4. EntryOf(r, x) = r[i + 1]
    BY <1>3, <1>5, <2>1, <2>3, FoundAt
  <2>5. QED
    BY <1>1, <2>2, <2>3, <2>4
<1>9. /\ Bytes(o) \in Nat /\ Size(e) \in Nat
      /\ e.key \in KeysOf(ll) => Size(EntryOf(ll, e.key)) \in Nat
  BY <1>1, BytesIsNat, SizeIsNat, Found
<1>10. Bytes(r) + (IF e.key \in KeysOf(ll) THEN Size(EntryOf(ll, e.key)) ELSE 0) = Bytes(ll) + Size(e)
  BY <1>1, <1>3, <1>9
<1>11. QED
  BY <1>3, <1>5, <1>6, <1>7, <1>8, <1>10 DEF r

-----------------------------------------------------------------------------
(* Evictions.                                                               *)

Sound(c) ==
  /\ c \in Caches
  /\ c.index = KeysOf(c.ll) /\ OneEach(c.ll) /\ c.nbytes = Bytes(c.ll)

LEMMA SoundFields ==
  ASSUME NEW c, Sound(c)
  PROVE  /\ c.ll \in Seq(Entry) /\ c.evicted \in Seq(Entry) /\ c.index = KeysOf(c.ll)
         /\ c.nbytes \in Nat /\ c.nbytes = Bytes(c.ll) /\ c.maxBytes \in Limits /\ c.maxBytes \in Nat
  BY LimitsAssumption DEF Sound, Caches

(* d holds the first entries of c.                                          *)
HoldsFirst(d, c) ==
  /\ d.maxBytes = c.maxBytes /\ Len(d.ll) <= Len(c.ll)
  /\ \A i \in 1..Len(d.ll) : d.ll[i] = c.ll[i]

LEMMA OldestRemoved ==
  ASSUME NEW c, Sound(c), c.ll # <<>>
  PROVE  LET d == RemoveOldest(c) IN
         /\ Sound(d) /\ HoldsFirst(d, c) /\ Len(d.ll) = Len(c.ll) - 1
         /\ d.nbytes = c.nbytes - Size(Last(c.ll))
         /\ d.evicted # <<>> /\ Last(d.evicted) = Last(c.ll)
<1> DEFINE d == RemoveOldest(c)
           ll == c.ll
           kv == Last(c.ll)
<1>1. /\ ll \in Seq(Entry) /\ c.evicted \in Seq(Entry) /\ c.nbytes \in Nat
      /\ c.index = KeysOf(ll) /\ OneEach(ll) /\ c.nbytes = Bytes(ll)
  BY DEF Sound, Caches
<1>2. d = [c EXCEPT !.ll = Front(ll), !.index = @ \ {kv.key}, !.nbytes = @ - Size(kv),
                    !.evicted = Append(@, kv)]
  BY DEF RemoveOldest, EntryDeleted
<1>3. /\ d.ll = Front(ll) /\ d.index = c.index \ {kv.key} /\ d.nbytes = c.nbytes - Size(kv)
      /\ d.evicted = Append(c.evicted, kv) /\ d.maxBytes = c.maxBytes
  BY <1>2 DEF Sound, Caches
<1>4. Front(ll) \in Seq(Entry) /\ kv \in Entry /\ Bytes(ll) = Bytes(Front(ll)) + Size(kv)
  BY <1>1, BytesOfFront
<1>5. /\ Len(ll) \in Nat /\ Len(ll) >= 1 /\ kv = ll[Len(ll)]
      /\ Len(Front(ll)) = Len(ll) - 1 /\ \A i \in 1..(Len(ll) - 1) : Front(ll)[i] = ll[i]
  BY <1>1 DEF Front, Last
<1>6. OneEach(Front(ll))
  BY <1>1, <1>5 DEF OneEach
<1>7. KeysOf(Front(ll)) = KeysOf(ll) \ {kv.key}
  <2>1. \A i \in 1..Len(ll) : i # Len(ll) => i \in 1..Len(Front(ll)) /\ ll[i].key # kv.key
    BY <1>1, <1>5 DEF OneEach
  <2>2. ASSUME NEW x \in KeysOf(ll), x # kv.key PROVE x \in KeysOf(Front(ll))
    <3>1. PICK i \in 1..Len(ll) : ll[i].key = x
      BY DEF KeysOf
    <3>2. i \in 1..Len(Front(ll)) /\ Front(ll)[i] = ll[i]
      BY <1>5, <2>1, <2>2, <3>1
    <3>3. QED
      BY <3>1, <3>2 DEF KeysOf
  <2>3. ASSUME NEW x \in KeysOf(Front(ll)) PROVE x \in KeysOf(ll) /\ x # kv.key
    <3>1. PICK i \in 1..Len(Front(ll)) : Front(ll)[i].key = x
      BY DEF KeysOf
    <3>2. i \in 1..Len(ll) /\ i # Len(ll) /\ ll[i].key = x
      BY <1>5, <3>1
    <3>3. QED
      BY <2>1, <3>2 DEF KeysOf
  <2>4. QED
    BY <2>2, <2>3
<1>8. d.nbytes = Bytes(Front(ll)) /\ d.nbytes \in Nat
  BY <1>1, <1>3, <1>4, SizeIsNat, BytesIsNat
<1>9. Append(c.evicted, kv) \in Seq(Entry) /\ Append(c.evicted, kv) # <<>> /\ Last(Append(c.evicted, kv)) = kv
  BY <1>1, <1>4 DEF Last
<1>10. d \in Caches
  <2>1. d.ll \in Seq(Entry) /\ d.index \in SUBSET Keys /\ d.evicted \in Seq(Entry)
    BY <1>3, <1>4, <1>9 DEF Sound, Caches
  <2>2. QED
    BY <1>2, <1>3, <1>8, <2>1 DEF Sound, Caches
<1>11. Sound(d)
  BY <1>1, <1>3, <1>6, <1>7, <1>8, <1>10 DEF Sound
<1>12. QED
  BY <1>3, <1>5, <1>9, <1>11 DEF HoldsFirst

LEMMA LimitReached ==
  ASSUME NEW c, Sound(c)
  PROVE  LET d == Evicted(c) IN
         /\ Sound(d) /\ HoldsFirst(d, c) /\ ~OverLimit(d)
         /\ \/ d = c
            \/ d.evicted # <<>> /\ d.maxBytes # 0 /\ d.nbytes + Size(Last(d.evicted)) > d.maxBytes
<1> DEFINE N == Len(c.ll)
           S == {d \in Caches : Sound(d)}
           Step(a) == [n \in 0..N |-> IF n = 0 THEN c ELSE RemoveOldest(a[n - 1])]
           after == CHOOSE a : a = Step(a)
           step == [x \in (1..N) \X S |-> RemoveOldest(x[2])]
<1>1. N \in Nat /\ c \in S /\ \A d : d \in S <=> Sound(d)
  BY DEF Sound, Caches
<1>2. \A d \in S : RemoveOldest(d) \in S
  <2> SUFFICES ASSUME NEW d, Sound(d) PROVE Sound(RemoveOldest(d))
    BY <1>1
  <2>1. CASE d.ll = <<>>
    BY <2>1 DEF RemoveOldest
  <2>2. CASE d.ll # <<>>
    BY <2>2, OldestRemoved
  <2>3. QED
    BY <2>1, <2>2
<1>3. step \in [(1..N) \X S -> S]
  BY <1>2
<1>4. Evictions(c) = after
  BY DEF Evictions
<1> HIDE DEF S, N, step
<1>5. PICK f : Computes(f, N, S, c, step)
  BY <1>1, <1>3, Recursion
<1>6. f[0] = c /\ \A n \in 1..N : f[n - 1] \in S /\ f[n] = RemoveOldest(f[n - 1])
  <2>1. f[0] = c
    BY <1>5 DEF Computes
  <2>2. ASSUME NEW n \in 1..N PROVE f[n - 1] \in S /\ f[n] = RemoveOldest(f[n - 1])
    <3>1. n - 1 \in 0..N
      BY <1>1
    <3>2. f[n - 1] \in S /\ <<n, f[n - 1]>> \in (1..N) \X S
      BY <1>5, <3>1 DEF Computes
    <3>3. f[n] = step[<<n, f[n - 1]>>]
      BY <1>5 DEF Computes
    <3>4. QED
      BY <3>2, <3>3 DEF step
  <2>3. QED
    BY <2>1, <2>2
<1>7. f = Step(f)
  BY <1>1, <1>5, <1>6 DEF Computes
<1>8. after = Step(after)
  BY <1>7
<1> HIDE DEF after
<1>9. after[0] = c /\ \A n \in 1..N : after[n] = RemoveOldest(after[n - 1])
  BY <1>1, <1>8
<1>10. \A n \in 0..N : after[n] = f[n]
  <2>1. N \in Nat /\ after[0] = f[0]
    BY <1>1, <1>6, <1>9
  <2>2. \A n \in 1..N : after[n - 1] = f[n - 1] => after[n] = f[n]
    BY <1>6, <1>9
  <2>3. QED
    BY <2>1, <2>2, SameSteps, Zenon
<1> HIDE DEF Step
(* All that is left after n evictions; after N of them nothing.              *)
<1> DEFINE T == {n \in Nat : n <= N => Sound(f[n]) /\ HoldsFirst(f[n], c) /\ Len(f[n].ll) = N - n}
<1>11. \A n \in 0..N : Sound(f[n]) /\ HoldsFirst(f[n], c) /\ Len(f[n].ll) = N - n
  <2>1. 0 \in T
    BY <1>1, <1>6 DEF HoldsFirst, N
  <2>2. ASSUME NEW n \in Nat, n \in T, n + 1 <= N
        PROVE  Sound(f[n + 1]) /\ HoldsFirst(f[n + 1], c) /\ Len(f[n + 1].ll) = N - (n + 1)
    <3>1. n + 1 \in 1..N /\ (n + 1) - 1 = n /\ n <= N
      BY <1>1, <2>2
    <3>2. f[n + 1] = RemoveOldest(f[n])
      BY <1>6, <3>1
    <3>3. Sound(f[n]) /\ HoldsFirst(f[n], c) /\ Len(f[n].ll) = N - n
      BY <2>2, <3>1
    <3>4. f[n].ll # <<>>
      BY <1>1, <2>2, <3>3
    <3> DEFINE a == f[n]  b == f[n + 1]
    <3> HIDE DEF a, b, T
    <3>5. Sound(b) /\ HoldsFirst(b, a) /\ Len(b.ll) = Len(a.ll) - 1
      BY <3>2, <3>3, <3>4, OldestRemoved DEF a, b
    <3>6. HoldsFirst(b, c)
      <4>1. Len(b.ll) \in Nat /\ Len(a.ll) \in Nat /\ Len(c.ll) \in Nat
        BY <3>3, <3>5 DEF Sound, Caches, a
      <4>2. HoldsFirst(a, c) /\ HoldsFirst(b, a)
        BY <3>3, <3>5 DEF a
      <4>3. QED
        BY <4>1, <4>2 DEF HoldsFirst
    <3>7. QED
      BY <1>1, <2>2, <3>3, <3>5, <3>6 DEF a, b
  <2>3. \A n \in Nat : n \in T => n + 1 \in T
    BY <2>2
  <2> HIDE DEF T
  <2>4. \A n \in Nat : n \in T
    BY <2>1, <2>3, ByInduction
  <2>5. QED
    BY <1>1, <2>4 DEF T
<1> HIDE DEF T
<1> DEFINE stops == {n \in 0..N : ~OverLimit(f[n])}
<1>12. N \in stops
  <2>1. N \in 0..N /\ Sound(f[N]) /\ Len(f[N].ll) = 0
    BY <1>1, <1>11
  <2> DEFINE a == f[N]
  <2>2. Sound(a) /\ Len(a.ll) = 0
    BY <2>1
  <2> HIDE DEF a
  <2>3. a.ll \in Seq(Entry) /\ a.nbytes = Bytes(a.ll) /\ a.maxBytes \in Nat
    BY <2>2, SoundFields
  <2>4. a.ll = <<>>
    BY <2>2, <2>3
  <2>5. a.nbytes = 0
    BY <2>3, <2>4, BytesOfNone
  <2>6. ~OverLimit(a)
    BY <2>3, <2>5 DEF OverLimit
  <2>7. QED
    BY <2>1, <2>6 DEF a
<1> DEFINE m == Min(stops)
<1>13. m \in stops /\ \A n \in stops : m <= n
  <2> HIDE DEF stops
  <2>1. stops # {} /\ stops \subseteq Nat
    BY <1>1, <1>12 DEF stops
  <2>2. QED
    BY <2>1, MinIsLeast
<1>14. Evicted(c) = f[m]
  <2>1. stops = Enough(c)
    BY <1>4, <1>10 DEF Enough, N
  <2>2. m \in 0..N
    BY <1>13
  <2> HIDE DEF stops
  <2>3. Evicted(c) = Evictions(c)[m]
    BY <2>1 DEF Evicted
  <2> HIDE DEF m
  <2>4. QED
    BY <1>4, <1>10, <2>2, <2>3
<1> HIDE DEF m
<1>15. Sound(f[m]) /\ HoldsFirst(f[m], c) /\ ~OverLimit(f[m])
  BY <1>11, <1>13
<1>16. \/ f[m] = c
       \/ /\ f[m].evicted # <<>> /\ f[m].maxBytes # 0
          /\ f[m].nbytes + Size(Last(f[m].evicted)) > f[m].maxBytes
  <2>1. CASE m = 0
    BY <1>6, <2>1
  <2>2. CASE m # 0
    <3>1. m \in 1..N /\ m - 1 \in 0..N /\ m - 1 \notin stops
      BY <1>1, <1>13, <2>2
    <3> DEFINE a == f[m - 1]  b == f[m]
    <3>2. b = RemoveOldest(a) /\ Sound(a) /\ OverLimit(a) /\ Len(a.ll) = N - (m - 1)
      BY <1>6, <1>11, <3>1
    <3>3. a.ll # <<>>
      BY <1>1, <3>1, <3>2
    <3> HIDE DEF a, b
    <3>4. /\ HoldsFirst(b, a) /\ b.nbytes = a.nbytes - Size(Last(a.ll))
          /\ b.evicted # <<>> /\ Last(b.evicted) = Last(a.ll)
      BY <3>2, <3>3, OldestRemoved
    <3>5. a.nbytes \in Nat /\ a.maxBytes \in Nat /\ a.ll \in Seq(Entry)
      BY <3>2, LimitsAssumption DEF Sound, Caches
    <3>6. Size(Last(a.ll)) \in Nat
      BY <3>3, <3>5, BytesOfFront, SizeIsNat
    <3>7. b.evicted # <<>> /\ b.maxBytes # 0 /\ b.nbytes + Size(Last(b.evicted)) > b.maxBytes
      BY <3>2, <3>4, <3>5, <3>6 DEF OverLimit, HoldsFirst
    <3>8. QED
      BY <3>7 DEF b
  <2>3. QED
    BY <2>1, <2>2
<1>17. QED
  BY <1>14, <1>15, <1>16

-----------------------------------------------------------------------------
(* The entries used last.                                                   *)

LEMMA Prefix ==
  ASSUME NEW s \in Seq(Entry), NEW t \in Seq(Entry)
  PROVE  IsPrefix(s, t) <=> Len(s) <= Len(t) /\ \A i \in 1..Len(s) : s[i] = t[i]
<1>1. Len(s) \in Nat /\ Len(t) \in Nat
  OBVIOUS
<1>2. SubSeq(s, 1, Len(s)) = s
  OBVIOUS
<1>3. CASE Len(s) <= Len(t)
  <2> DEFINE u == SubSeq(t, 1, Len(s))
  <2>1. u \in Seq(Entry) /\ Len(u) = Len(s) /\ \A i \in 1..Len(s) : u[i] = t[i]
    BY <1>1, <1>3
  <2> HIDE DEF u
  <2>2. s = u <=> \A i \in 1..Len(s) : s[i] = t[i]
    BY <2>1, SeqEqual
  <2>3. QED
    BY <1>2, <1>3, <2>2 DEF IsPrefix, u
<1>4. CASE ~(Len(s) <= Len(t))
  BY <1>4 DEF IsPrefix
<1>5. QED
  BY <1>3, <1>4

(* What a prefix holds is found in the whole, at the same place.            *)
LEMMA PrefixFound ==
  ASSUME NEW s \in Seq(Entry), NEW t \in Seq(Entry), OneEach(t), IsPrefix(s, t)
  PROVE  /\ OneEach(s)
         /\ \A k \in KeysOf(s) : /\ k \in KeysOf(t) /\ IndexOf(t, k) = IndexOf(s, k)
                                 /\ EntryOf(t, k) = EntryOf(s, k)
<1>1. Len(s) \in Nat /\ Len(t) \in Nat /\ Len(s) <= Len(t) /\ \A i \in 1..Len(s) : s[i] = t[i]
  BY Prefix
<1>2. OneEach(s)
  BY <1>1 DEF OneEach
<1>3. ASSUME NEW k \in KeysOf(s)
      PROVE  k \in KeysOf(t) /\ IndexOf(t, k) = IndexOf(s, k) /\ EntryOf(t, k) = EntryOf(s, k)
  <2> DEFINE i == IndexOf(s, k)
  <2>1. i \in 1..Len(s) /\ s[i].key = k /\ EntryOf(s, k) = s[i]
    BY Found
  <2> HIDE DEF i
  <2>2. i \in 1..Len(t) /\ t[i] = s[i] /\ t[i].key = k
    BY <1>1, <2>1
  <2>3. k \in KeysOf(t) /\ IndexOf(t, k) = i /\ EntryOf(t, k) = t[i]
    BY <2>2, FoundAt
  <2>4. QED
    BY <2>1, <2>2, <2>3 DEF i
<1>4. QED
  BY <1>2, <1>3

LEMMA PrefixToFront ==
  ASSUME NEW s \in Seq(Entry), NEW t \in Seq(Entry), OneEach(t), IsPrefix(s, t), NEW e \in Entry
  PROVE  IsPrefix(ToFront(s, e), ToFront(t, e))
<1> DEFINE k == e.key
           o == Others(s, k)
           q == Others(t, k)
           i == IndexOf(t, k)
<1>1. Len(s) \in Nat /\ Len(t) \in Nat /\ Len(s) <= Len(t) /\ \A j \in 1..Len(s) : s[j] = t[j]
  BY Prefix
<1>2. OneEach(s) /\ \A x \in KeysOf(s) : x \in KeysOf(t) /\ IndexOf(t, x) = IndexOf(s, x)
  BY PrefixFound
<1>3. o \in Seq(Entry) /\ q \in Seq(Entry)
  BY <1>2, OthersLeft
<1>4. Len(o) <= Len(q) /\ \A j \in 1..Len(o) : o[j] = q[j]
  <2>1. CASE k \notin KeysOf(t)
    BY <1>1, <1>2, <2>1 DEF Others
  <2>2. CASE k \in KeysOf(t) /\ k \notin KeysOf(s)
    <3>1. i \in 1..Len(t) /\ t[i].key = k /\ q = RemoveAt(t, i) /\ o = s
      BY <2>2, Found DEF Others
    <3> HIDE DEF i, q, o
    <3>2. i > Len(s)
      <4>1. SUFFICES ASSUME i \in 1..Len(s) PROVE FALSE
        BY <1>1, <3>1
      <4>2. s[i].key = k
        BY <1>1, <3>1, <4>1
      <4>3. QED
        BY <2>2, <4>1, <4>2 DEF KeysOf
    <3>3. Len(q) = Len(t) - 1 /\ \A j \in 1..(Len(t) - 1) : q[j] = IF j < i THEN t[j] ELSE t[j + 1]
      BY <3>1, Removed
    <3>4. QED
      BY <1>1, <3>1, <3>2, <3>3
  <2>3. CASE k \in KeysOf(s)
    <3>1. k \in KeysOf(t) /\ IndexOf(s, k) = i
      BY <1>2, <2>3
    <3>2. i \in 1..Len(s) /\ i \in 1..Len(t) /\ q = RemoveAt(t, i) /\ o = RemoveAt(s, i)
      BY <2>3, <3>1, Found DEF Others
    <3> HIDE DEF i, q, o
    <3>3. /\ Len(q) = Len(t) - 1 /\ \A j \in 1..(Len(t) - 1) : q[j] = IF j < i THEN t[j] ELSE t[j + 1]
          /\ Len(o) = Len(s) - 1 /\ \A j \in 1..(Len(s) - 1) : o[j] = IF j < i THEN s[j] ELSE s[j + 1]
      BY <3>2, Removed
    <3>4. QED
      BY <1>1, <3>2, <3>3
  <2>4. QED
    BY <2>1, <2>2, <2>3
<1> DEFINE a == <<e>> \o o  b == <<e>> \o q
<1>5. ToFront(s, e) = a /\ ToFront(t, e) = b
  BY DEF ToFront
<1> HIDE DEF o, q
<1>6. /\ a \in Seq(Entry) /\ Len(a) = Len(o) + 1 /\ a[1] = e /\ \A j \in 1..Len(o) : a[j + 1] = o[j]
      /\ b \in Seq(Entry) /\ Len(b) = Len(q) + 1 /\ b[1] = e /\ \A j \in 1..Len(q) : b[j + 1] = q[j]
  BY <1>3, InFront
<1> HIDE DEF a, b
<1>7. \A j \in 1..Len(a) : a[j] = b[j]
  <2> SUFFICES ASSUME NEW j \in 1..Len(a), j # 1 PROVE a[j] = b[j]
    BY <1>6
  <2>1. Len(o) \in Nat /\ Len(q) \in Nat
    BY <1>3
  <2>2. j - 1 \in 1..Len(o) /\ j - 1 \in 1..Len(q) /\ (j - 1) + 1 = j
    BY <1>4, <1>6, <2>1
  <2>3. QED
    BY <1>4, <1>6, <2>2
<1>8. Len(a) <= Len(b)
  BY <1>3, <1>4, <1>6
<1>9. QED
  BY <1>5, <1>6, <1>7, <1>8, Prefix

-----------------------------------------------------------------------------
(* What the operations make of a cache.                                     *)

LEMMA UsedIsSound ==
  ASSUME NEW c, Sound(c), NEW k \in c.index
  PROVE  LET d == Used(c, k) IN
         /\ Sound(d) /\ d.maxBytes = c.maxBytes /\ d.nbytes = c.nbytes
         /\ d.evicted = c.evicted /\ d.ll = ToFront(c.ll, EntryOf(c.ll, k))
         /\ d.index = c.index
         /\ EntryOf(c.ll, k) \in Entry /\ EntryOf(c.ll, k).key = k
<1> DEFINE e == EntryOf(c.ll, k)
           d == Used(c, k)
           r == ToFront(c.ll, e)
<1>1. /\ c.ll \in Seq(Entry) /\ c.index = KeysOf(c.ll) /\ OneEach(c.ll)
      /\ c.nbytes \in Nat /\ c.nbytes = Bytes(c.ll)
  BY SoundFields DEF Sound
<1>2. e \in Entry /\ e.key = k
  BY <1>1, Found
<1> HIDE DEF e
<1>3. /\ r \in Seq(Entry) /\ OneEach(r) /\ KeysOf(r) = KeysOf(c.ll) \cup {e.key}
      /\ Bytes(r) + (IF e.key \in KeysOf(c.ll) THEN Size(EntryOf(c.ll, e.key)) ELSE 0)
           = Bytes(c.ll) + Size(e)
  BY <1>1, <1>2, MovedToFront
<1> HIDE DEF r
<1>4. Bytes(r) = Bytes(c.ll)
  <2>1. e.key \in KeysOf(c.ll) /\ EntryOf(c.ll, e.key) = e
    BY <1>1, <1>2 DEF e
  <2>2. Bytes(r) \in Nat /\ Bytes(c.ll) \in Nat /\ Size(e) \in Nat
    BY <1>1, <1>2, <1>3, BytesIsNat, SizeIsNat
  <2>3. QED
    BY <1>3, <2>1, <2>2
<1>5. d = [c EXCEPT !.ll = r]
  BY DEF Used, e, r
<1>6. /\ d.ll = r /\ d.index = c.index /\ d.nbytes = c.nbytes /\ d.evicted = c.evicted
      /\ d.maxBytes = c.maxBytes /\ d \in Caches
  BY <1>3, <1>5 DEF Sound, Caches
<1>7. KeysOf(r) = c.index
  BY <1>1, <1>2, <1>3
<1>8. Sound(d)
  BY <1>1, <1>3, <1>4, <1>6, <1>7 DEF Sound
<1>9. QED
  BY <1>2, <1>6, <1>8 DEF e, r

LEMMA InsertedIsSound ==
  ASSUME NEW c, Sound(c), NEW e \in Entry
  PROVE  LET d == Inserted(c, e) IN
         /\ Sound(d) /\ d.maxBytes = c.maxBytes /\ d.evicted = c.evicted
         /\ d.ll = ToFront(c.ll, e)
<1> DEFINE d == Inserted(c, e)
           r == ToFront(c.ll, e)
<1>1. /\ c.ll \in Seq(Entry) /\ c.index = KeysOf(c.ll) /\ OneEach(c.ll)
      /\ c.nbytes \in Nat /\ c.nbytes = Bytes(c.ll)
  BY SoundFields DEF Sound
<1>2. /\ r \in Seq(Entry) /\ OneEach(r) /\ KeysOf(r) = KeysOf(c.ll) \cup {e.key}
      /\ Bytes(r) + (IF e.key \in KeysOf(c.ll) THEN Size(EntryOf(c.ll, e.key)) ELSE 0)
           = Bytes(c.ll) + Size(e)
  BY <1>1, MovedToFront
<1> HIDE DEF r
<1>3. Bytes(r) \in Nat /\ Size(e) \in Nat /\ e.key \in Keys
  BY <1>2, BytesIsNat, SizeIsNat DEF Entry
<1>4. Bytes(r) = c.nbytes + Growth(c, e)
  <2>1. CASE e.key \in c.index
    <3> DEFINE f == EntryOf(c.ll, e.key)
    <3>1. f \in Entry /\ f.key = e.key
      BY <1>1, <2>1, Found
    <3> HIDE DEF f
    <3>2. Size(f) \in Nat /\ Size(e) - Size(f) = ValueLen[e.value] - ValueLen[f.value]
      BY <3>1, LenAssumption DEF Size, Entry
    <3>3. Growth(c, e) = ValueLen[e.value] - ValueLen[f.value]
      BY <2>1 DEF Growth, f
    <3>4. Bytes(r) + Size(f) = c.nbytes + Size(e)
      BY <1>1, <1>2, <2>1 DEF f
    <3>5. QED
      BY <1>1, <1>3, <3>2, <3>3, <3>4
  <2>2. CASE e.key \notin c.index
    BY <1>1, <1>2, <1>3, <2>2 DEF Growth
  <2>3. QED
    BY <2>1, <2>2
<1>5. d = [c EXCEPT !.ll = r, !.index = c.index \cup {e.key}, !.nbytes = c.nbytes + Growth(c, e)]
  BY DEF Inserted, NewValue, r
<1>6. c.nbytes + Growth(c, e) \in Nat /\ c.index \cup {e.key} \in SUBSET Keys
  BY <1>3, <1>4 DEF Sound, Caches
<1>7. /\ d.ll = r /\ d.index = c.index \cup {e.key} /\ d.nbytes = Bytes(r)
      /\ d.evicted = c.evicted /\ d.maxBytes = c.maxBytes /\ d \in Caches
  BY <1>2, <1>4, <1>5, <1>6 DEF Sound, Caches
<1>8. Sound(d)
  BY <1>1, <1>2, <1>7 DEF Sound
<1>9. QED
  BY <1>7, <1>8 DEF r

LEMMA QuietIsSound ==
  ASSUME Inv
  PROVE  /\ Sound(Quiet) /\ Quiet.ll = lru.ll /\ Quiet.index = lru.index
         /\ Quiet.maxBytes = lru.maxBytes /\ Quiet.nbytes = lru.nbytes /\ Quiet.evicted = <<>>
         /\ ~OverLimit(Quiet)
<1>1. lru \in Caches /\ Accounting /\ WithinLimit
  BY DEF Inv, TypeOK
<1>2. /\ Quiet.ll = lru.ll /\ Quiet.index = lru.index /\ Quiet.maxBytes = lru.maxBytes
      /\ Quiet.nbytes = lru.nbytes /\ Quiet.evicted = <<>> /\ Quiet \in Caches
  <2>1. <<>> \in Seq(Entry)
    OBVIOUS
  <2>2. QED
    BY <1>1, <2>1 DEF Quiet, Caches
<1>3. lru.nbytes \in Nat /\ lru.maxBytes \in Nat
  BY <1>1, LimitsAssumption DEF Caches
<1>4. QED
  BY <1>1, <1>2, <1>3 DEF Sound, Accounting, WithinLimit, OverLimit

(* The list after Add is a first part of the list with e in front.          *)
LEMMA AddStep ==
  ASSUME Inv, NEW k \in Keys, NEW v \in Values
  PROVE  LET e == [key |-> k, value |-> v]
             c == Inserted(Quiet, e)
             d == Evicted(c) IN
         /\ e \in Entry /\ Sound(c) /\ c.ll = ToFront(lru.ll, e)
         /\ Sound(d) /\ ~OverLimit(d) /\ HoldsFirst(d, c)
         /\ d.evicted # <<>> =>
              d.maxBytes # 0 /\ d.nbytes + Size(Last(d.evicted)) > d.maxBytes
<1> DEFINE e == [key |-> k, value |-> v]
           c == Inserted(Quiet, e)
           d == Evicted(c)
<1>1. e \in Entry
  BY DEF Entry
<1> HIDE DEF e
<1>2. Sound(c) /\ c.ll = ToFront(lru.ll, e) /\ c.evicted = <<>>
  BY <1>1, QuietIsSound, InsertedIsSound
<1> HIDE DEF c
<1>3. /\ Sound(d) /\ HoldsFirst(d, c) /\ ~OverLimit(d)
      /\ \/ d = c
         \/ d.evicted # <<>> /\ d.maxBytes # 0 /\ d.nbytes + Size(Last(d.evicted)) > d.maxBytes
  BY <1>2, LimitReached
<1>4. QED
  BY <1>1, <1>2, <1>3 DEF c, e

(* The entries d holds are a first part of those c holds.                   *)
LEMMA FirstIsPrefix ==
  ASSUME NEW c, NEW d, Sound(c), Sound(d), HoldsFirst(d, c)
  PROVE  IsPrefix(d.ll, c.ll)
  BY SoundFields, Prefix DEF HoldsFirst

LEMMA PrefixOfPrefix ==
  ASSUME NEW r \in Seq(Entry), NEW s \in Seq(Entry), NEW t \in Seq(Entry),
         IsPrefix(r, s), IsPrefix(s, t)
  PROVE  IsPrefix(r, t)
<1>1. /\ Len(r) <= Len(s) /\ \A i \in 1..Len(r) : r[i] = s[i]
      /\ Len(s) <= Len(t) /\ \A i \in 1..Len(s) : s[i] = t[i]
  BY Prefix
<1>2. Len(r) \in Nat /\ Len(s) \in Nat /\ Len(t) \in Nat
  OBVIOUS
<1>3. Len(r) <= Len(t) /\ \A i \in 1..Len(r) : r[i] = t[i]
  BY <1>1, <1>2
<1>4. QED
  BY <1>3, Prefix

-----------------------------------------------------------------------------
(* The invariant.                                                           *)

LEMMA InvInit == Init => Inv
<1> SUFFICES ASSUME NEW limit \in Limits, lru = New(limit), recent = <<>>, op = "new" PROVE Inv
  BY DEF Init
<1>1. /\ lru.ll = <<>> /\ lru.index = {} /\ lru.nbytes = 0 /\ lru.evicted = <<>>
      /\ lru.maxBytes = limit
  BY DEF New
<1>2. <<>> \in Seq(Entry) /\ Len(<<>>) = 0
  OBVIOUS
<1>3. TypeOK
  BY <1>2, LimitsAssumption DEF TypeOK, Caches, New
<1>4. Accounting
  BY <1>1, <1>2, BytesOfNone DEF Accounting, KeysOf, OneEach
<1>5. WithinLimit
  BY <1>1, LimitsAssumption DEF WithinLimit
<1>6. KeepsMostRecent
  <2>1. IsPrefix(<<>>, <<>>)
    BY DEF IsPrefix
  <2>2. QED
    BY <1>1, <2>1 DEF KeepsMostRecent
<1>7. NoNeedlessEviction /\ OneEach(recent)
  BY <1>1, <1>2 DEF NoNeedlessEviction, OneEach
<1>8. QED
  BY <1>3, <1>4, <1>5, <1>6, <1>7 DEF Inv

(* What a step has to show.                                                 *)
LEMMA InvAfter ==
  ASSUME Sound(lru'), ~OverLimit(lru'), IsPrefix(lru'.ll, recent'), recent' \in Seq(Entry),
         OneEach(recent'), op' \in {"new", "get", "add", "removeOldest"}, NoNeedlessEviction'
  PROVE  Inv'
<1>1. lru'.nbytes \in Nat /\ lru'.maxBytes \in Nat
  BY SoundFields
<1>2. WithinLimit'
  BY <1>1 DEF OverLimit, WithinLimit
<1>3. TypeOK' /\ Accounting'
  BY DEF TypeOK, Accounting, Sound
<1>4. QED
  BY <1>2, <1>3 DEF Inv, KeepsMostRecent

LEMMA InvNext == Inv /\ [Next]_vars => Inv'
<1> SUFFICES ASSUME Inv, [Next]_vars PROVE Inv'
  OBVIOUS
<1>1. /\ Sound(Quiet) /\ Quiet.ll = lru.ll /\ Quiet.index = lru.index
      /\ Quiet.evicted = <<>> /\ ~OverLimit(Quiet)
  BY QuietIsSound
<1>2. /\ recent \in Seq(Entry) /\ OneEach(recent) /\ lru.ll \in Seq(Entry)
      /\ lru.index = KeysOf(lru.ll) /\ IsPrefix(lru.ll, recent)
  BY DEF Inv, TypeOK, Caches, Accounting, KeepsMostRecent
<1>3. ASSUME NEW k \in Keys, Get(k) PROVE Inv'
  <2>0. op' = "get"
    BY <1>3 DEF Get
  <2>1. CASE k \in lru.index
    <3> DEFINE e == EntryOf(lru.ll, k)
               d == Used(Quiet, k)
    <3>1. lru' = d /\ recent' = ToFront(recent, EntryOf(recent, k))
      BY <1>3, <2>1 DEF Get
    <3>2. /\ Sound(d) /\ d.maxBytes = Quiet.maxBytes /\ d.nbytes = Quiet.nbytes
          /\ d.ll = ToFront(lru.ll, e) /\ e \in Entry /\ e.key = k
      BY <1>1, <2>1, UsedIsSound
    <3>3. EntryOf(recent, k) = e
      BY <1>2, <2>1, PrefixFound
    <3> HIDE DEF e, d
    <3>4. Sound(lru') /\ ~OverLimit(lru')
      BY <1>1, <3>1, <3>2 DEF OverLimit
    <3>5. recent' \in Seq(Entry) /\ OneEach(recent') /\ IsPrefix(lru'.ll, recent')
      BY <1>2, <3>1, <3>2, <3>3, MovedToFront, PrefixToFront
    <3>6. NoNeedlessEviction'
      BY <2>0 DEF NoNeedlessEviction
    <3>7. QED
      BY <2>0, <3>4, <3>5, <3>6, InvAfter
  <2>2. CASE k \notin lru.index
    <3>1. lru' = Quiet /\ recent' = recent
      BY <1>3, <2>2 DEF Get
    <3>2. NoNeedlessEviction'
      BY <2>0 DEF NoNeedlessEviction
    <3>3. QED
      BY <1>1, <1>2, <2>0, <3>1, <3>2, InvAfter
  <2>3. QED
    BY <2>1, <2>2
<1>4. ASSUME NEW k \in Keys, NEW v \in Values, Add(k, v) PROVE Inv'
  <2> DEFINE e == [key |-> k, value |-> v]
             c == Inserted(Quiet, e)
             d == Evicted(c)
  <2>1. lru' = d /\ recent' = ToFront(recent, e) /\ op' = "add"
    BY <1>4 DEF Add
  <2>2. /\ e \in Entry /\ Sound(c) /\ c.ll = ToFront(lru.ll, e)
        /\ Sound(d) /\ ~OverLimit(d) /\ HoldsFirst(d, c)
        /\ d.evicted # <<>> =>
             d.maxBytes # 0 /\ d.nbytes + Size(Last(d.evicted)) > d.maxBytes
    BY AddStep
  <2> HIDE DEF e, c, d
  <2>3. recent' \in Seq(Entry) /\ OneEach(recent')
    BY <1>2, <2>1, <2>2, MovedToFront
  <2>4. IsPrefix(d.ll, c.ll) /\ IsPrefix(c.ll, recent')
    BY <1>2, <2>1, <2>2, FirstIsPrefix, PrefixToFront
  <2>5. IsPrefix(d.ll, recent')
    <3>1. d.ll \in Seq(Entry) /\ c.ll \in Seq(Entry)
      BY <2>2, SoundFields
    <3>2. QED
      BY <2>3, <2>4, <3>1, PrefixOfPrefix
  <2>6. NoNeedlessEviction'
    BY <2>1, <2>2 DEF NoNeedlessEviction
  <2>7. QED
    BY <2>1, <2>2, <2>3, <2>5, <2>6, InvAfter
<1>5. ASSUME Drop PROVE Inv'
  <2> DEFINE d == RemoveOldest(Quiet)
  <2>1. lru' = d /\ recent' = recent /\ op' = "removeOldest"
    BY <1>5 DEF Drop
  <2>2. Sound(d) /\ HoldsFirst(d, Quiet) /\ ~OverLimit(d)
    <3>1. CASE Quiet.ll = <<>>
      BY <1>1, <3>1 DEF RemoveOldest, HoldsFirst
    <3>2. CASE Quiet.ll # <<>>
      <4>1. /\ Sound(d) /\ HoldsFirst(d, Quiet)
            /\ d.nbytes = Quiet.nbytes - Size(Last(Quiet.ll))
        BY <1>1, <3>2, OldestRemoved
      <4> HIDE DEF d
      <4>2. Quiet.nbytes \in Nat /\ Quiet.maxBytes \in Nat /\ Quiet.ll \in Seq(Entry)
        BY <1>1, SoundFields
      <4>3. Size(Last(Quiet.ll)) \in Nat
        BY <3>2, <4>2, BytesOfFront, SizeIsNat
      <4>4. d.maxBytes = Quiet.maxBytes
        BY <4>1 DEF HoldsFirst
      <4>5. QED
        BY <1>1, <4>1, <4>2, <4>3, <4>4 DEF OverLimit
    <3>3. QED
      BY <3>1, <3>2
  <2> HIDE DEF d
  <2>3. IsPrefix(d.ll, recent)
    <3>1. IsPrefix(d.ll, lru.ll) /\ d.ll \in Seq(Entry)
      BY <1>1, <2>2, FirstIsPrefix, SoundFields
    <3>2. QED
      BY <1>2, <3>1, PrefixOfPrefix
  <2>4. NoNeedlessEviction'
    BY <2>1 DEF NoNeedlessEviction
  <2>5. QED
    BY <1>2, <2>1, <2>2, <2>3, <2>4, InvAfter
<1>6. CASE UNCHANGED vars
  BY <1>6 DEF vars, Inv, TypeOK, Accounting, WithinLimit, KeepsMostRecent, NoNeedlessEviction
<1>7. QED
  BY <1>3, <1>4, <1>5, <1>6 DEF Next

(* The map, the list and the byte count of lru.go never disagree, the limit *)
(* holds, and what stays is what was used last.                             *)
THEOREM Invariance == Spec => []Inv
<1>1. Init => Inv
  BY InvInit
<1>2. Inv /\ [Next]_vars => Inv'
  BY InvNext
<1>3. QED
  BY <1>1, <1>2, PTL DEF Spec

(* Every field of the Cache keeps its type: nbytes is never negative.       *)
THEOREM TypeCorrect == Spec => []TypeOK
<1>1. Inv => TypeOK
  BY DEF Inv
<1>2. QED
  BY <1>1, Invariance, PTL

(* The map holds the keys of the list, each once, and nbytes their size.    *)
THEOREM AccountingKept == Spec => []Accounting
<1>1. Inv => Accounting
  BY DEF Inv
<1>2. QED
  BY <1>1, Invariance, PTL

(* The limit holds after every operation, whatever was added.               *)
THEOREM LimitHolds == Spec => []WithinLimit
<1>1. Inv => WithinLimit
  BY DEF Inv
<1>2. QED
  BY <1>1, Invariance, PTL

(* The cache holds the most recently used entries, in that order.           *)
THEOREM MostRecentKept == Spec => []KeepsMostRecent
<1>1. Inv => KeepsMostRecent
  BY DEF Inv
<1>2. QED
  BY <1>1, Invariance, PTL

(* The loop of Add stops as soon as the limit holds.                        *)
THEOREM EvictsOnlyWhenNeeded == Spec => []NoNeedlessEviction
<1>1. Inv => NoNeedlessEviction
  BY DEF Inv
<1>2. QED
  BY <1>1, Invariance, PTL

-----------------------------------------------------------------------------
(* The refinement.                                                          *)

(* The entries of a first part are those of the whole.                      *)
LEMMA FirstFound ==
  ASSUME NEW c, NEW d, Sound(c), Sound(d), HoldsFirst(d, c)
  PROVE  \A x \in d.index : x \in c.index /\ EntryOf(d.ll, x) = EntryOf(c.ll, x)
<1>1. IsPrefix(d.ll, c.ll) /\ OneEach(c.ll)
  BY FirstIsPrefix DEF Sound
<1>2. /\ c.ll \in Seq(Entry) /\ c.index = KeysOf(c.ll)
      /\ d.ll \in Seq(Entry) /\ d.index = KeysOf(d.ll)
  BY SoundFields
<1>3. QED
  BY <1>1, <1>2, PrefixFound

LEMMA GetIsNoStep ==
  ASSUME Inv, NEW k \in Keys, Get(k)
  PROVE  UNCHANGED <<Store, Latest>>
<1>1. /\ Sound(Quiet) /\ Quiet.ll = lru.ll /\ Quiet.index = lru.index
  BY QuietIsSound
<1>2. /\ recent \in Seq(Entry) /\ OneEach(recent) /\ lru.ll \in Seq(Entry) /\ OneEach(lru.ll)
      /\ lru.index = KeysOf(lru.ll) /\ IsPrefix(lru.ll, recent)
  BY DEF Inv, TypeOK, Caches, Accounting, KeepsMostRecent
<1>3. CASE k \in lru.index
  <2> DEFINE e == EntryOf(lru.ll, k)
             d == Used(Quiet, k)
  <2>1. lru' = d /\ recent' = ToFront(recent, EntryOf(recent, k))
    BY <1>3 DEF Get
  <2>2. d.ll = ToFront(lru.ll, e) /\ d.index = lru.index /\ e \in Entry /\ e.key = k
    BY <1>1, <1>3, UsedIsSound
  <2>3. EntryOf(recent, k) = e /\ k \in KeysOf(recent) /\ EntryOf(lru.ll, k) = e
    BY <1>2, <1>3, PrefixFound
  <2> HIDE DEF e, d
  <2>4. lru'.index = lru.index /\ \A x \in lru.index : EntryOf(lru'.ll, x) = EntryOf(lru.ll, x)
    <3>1. /\ EntryOf(lru'.ll, k) = e
          /\ \A x \in KeysOf(lru.ll) \ {k} : EntryOf(lru'.ll, x) = EntryOf(lru.ll, x)
      BY <1>2, <2>1, <2>2, MovedToFront
    <3>2. QED
      BY <1>2, <2>1, <2>2, <2>3, <3>1
  <2>5. /\ KeysOf(recent') = KeysOf(recent)
        /\ \A x \in KeysOf(recent) : EntryOf(recent', x) = EntryOf(recent, x)
    <3>1. /\ KeysOf(recent') = KeysOf(recent) \cup {k} /\ EntryOf(recent', k) = e
          /\ \A x \in KeysOf(recent) \ {k} : EntryOf(recent', x) = EntryOf(recent, x)
      BY <1>2, <2>1, <2>2, <2>3, MovedToFront
    <3>2. QED
      BY <2>3, <3>1
  <2>6. QED
    BY <2>4, <2>5 DEF Store, Latest
<1>4. CASE k \notin lru.index
  BY <1>1, <1>4 DEF Get, Store, Latest
<1>5. QED
  BY <1>3, <1>4

LEMMA AddIsAdd ==
  ASSUME Inv, NEW k \in Keys, NEW v \in Values, Add(k, v)
  PROVE  Abstract!Add
<1> DEFINE e == [key |-> k, value |-> v]
           c == Inserted(Quiet, e)
           d == Evicted(c)
<1>1. lru' = d /\ recent' = ToFront(recent, e) /\ e.key = k /\ e.value = v
  BY DEF Add
<1>2. /\ e \in Entry /\ Sound(c) /\ c.ll = ToFront(lru.ll, e) /\ Sound(d) /\ HoldsFirst(d, c)
  BY AddStep
<1> HIDE DEF e, c, d
<1>3. /\ recent \in Seq(Entry) /\ OneEach(recent) /\ lru.ll \in Seq(Entry) /\ OneEach(lru.ll)
      /\ lru.index = KeysOf(lru.ll)
  BY DEF Inv, TypeOK, Caches, Accounting
<1>4. /\ c.index = lru.index \cup {k} /\ EntryOf(c.ll, k) = e
      /\ \A x \in lru.index \ {k} : EntryOf(c.ll, x) = EntryOf(lru.ll, x)
  <2>1. /\ KeysOf(c.ll) = KeysOf(lru.ll) \cup {k} /\ EntryOf(c.ll, k) = e
        /\ \A x \in KeysOf(lru.ll) \ {k} : EntryOf(c.ll, x) = EntryOf(lru.ll, x)
    BY <1>1, <1>2, <1>3, MovedToFront
  <2>2. QED
    BY <1>2, <1>3, <2>1, SoundFields
<1>5. /\ KeysOf(recent') = KeysOf(recent) \cup {k} /\ EntryOf(recent', k) = e
      /\ \A x \in KeysOf(recent) \ {k} : EntryOf(recent', x) = EntryOf(recent, x)
  BY <1>1, <1>2, <1>3, MovedToFront
<1>6. Latest' = Abstract!Updated(Latest, k, v)
  BY <1>1, <1>5 DEF Latest, Abstract!Updated
<1>7. \A x \in lru'.index : /\ x \in lru.index \cup {k}
                            /\ EntryOf(lru'.ll, x) = IF x = k THEN e ELSE EntryOf(lru.ll, x)
  <2>1. \A x \in d.index : x \in c.index /\ EntryOf(d.ll, x) = EntryOf(c.ll, x)
    BY <1>2, FirstFound
  <2>2. QED
    BY <1>1, <1>4, <2>1
<1> DEFINE u == Abstract!Updated(Store, k, v)
<1>8. /\ DOMAIN u = lru.index \cup {k}
      /\ \A x \in DOMAIN u : u[x] = IF x = k THEN v ELSE EntryOf(lru.ll, x).value
  BY DEF Abstract!Updated, Store
<1> HIDE DEF u
<1>9. Store' = [x \in lru'.index |-> u[x]] /\ lru'.index \in SUBSET DOMAIN u
  <2>1. \A x \in lru'.index : EntryOf(lru'.ll, x).value = u[x]
    BY <1>1, <1>7, <1>8
  <2>2. Store' = [x \in lru'.index |-> EntryOf(lru'.ll, x).value]
    BY DEF Store
  <2>3. QED
    BY <1>7, <1>8, <2>1, <2>2
<1>10. Store' \in Abstract!Added(Store, k, v)
  BY <1>9 DEF u, Abstract!Added, Abstract!Remains, Restrict, Abstract!Restrict
<1>11. QED
  BY <1>6, <1>10 DEF Abstract!Add

LEMMA DropIsForget ==
  ASSUME Inv, Drop
  PROVE  Abstract!Forget
<1> DEFINE d == RemoveOldest(Quiet)
<1>1. lru' = d /\ recent' = recent
  BY DEF Drop
<1>2. Sound(Quiet) /\ Quiet.ll = lru.ll /\ Quiet.index = lru.index
  BY QuietIsSound
<1>3. Sound(d) /\ HoldsFirst(d, Quiet)
  <2>1. CASE Quiet.ll = <<>>
    BY <1>2, <2>1 DEF RemoveOldest, HoldsFirst
  <2>2. CASE Quiet.ll # <<>>
    BY <1>2, <2>2, OldestRemoved
  <2>3. QED
    BY <2>1, <2>2
<1> HIDE DEF d
<1>4. \A x \in lru'.index : x \in lru.index /\ EntryOf(lru'.ll, x) = EntryOf(lru.ll, x)
  BY <1>1, <1>2, <1>3, FirstFound
<1>5. Store' = [x \in lru'.index |-> Store[x]] /\ lru'.index \in SUBSET DOMAIN Store
  BY <1>4 DEF Store
<1>6. Store' \in Abstract!Remains(Store)
  BY <1>5 DEF Abstract!Remains, Restrict, Abstract!Restrict
<1>7. Latest' = Latest
  BY <1>1 DEF Latest
<1>8. QED
  BY <1>6, <1>7 DEF Abstract!Forget

(* To its user the list, the map and the loop of evictions are a Cache: a   *)
(* hit has the value added last under the key.                              *)
THEOREM CacheImplemented == Spec => ImplementsCache
<1>1. Init => Abstract!Init
  <2> SUFFICES ASSUME Init PROVE Abstract!Init
    OBVIOUS
  <2>1. lru.index = {} /\ recent = <<>>
    BY DEF Init, New
  <2>2. KeysOf(recent) = {}
    BY <2>1 DEF KeysOf
  <2>3. QED
    BY <2>1, <2>2 DEF Abstract!Init, Abstract!Empty, Store, Latest
<1>2. Inv /\ [Next]_vars => [Abstract!Next]_<<Store, Latest>>
  <2> SUFFICES ASSUME Inv, [Next]_vars PROVE [Abstract!Next]_<<Store, Latest>>
    OBVIOUS
  <2>1. ASSUME NEW k \in Keys, Get(k) PROVE UNCHANGED <<Store, Latest>>
    BY <2>1, GetIsNoStep
  <2>2. ASSUME NEW k \in Keys, NEW v \in Values, Add(k, v) PROVE Abstract!Next
    BY <2>2, AddIsAdd DEF Abstract!Next
  <2>3. ASSUME Drop PROVE Abstract!Next
    BY <2>3, DropIsForget DEF Abstract!Next
  <2>4. ASSUME UNCHANGED vars PROVE UNCHANGED <<Store, Latest>>
    BY <2>4 DEF vars, Store, Latest
  <2>5. QED
    BY <2>1, <2>2, <2>3, <2>4 DEF Next
<1>3. QED
  BY <1>1, <1>2, Invariance, PTL DEF Spec, ImplementsCache, Abstract!Spec

-----------------------------------------------------------------------------
(* The binary search.                                                       *)

(* The numbers 1..N below a bound are the first ones, if with each all      *)
(* before it are.                                                           *)
Initial(T, N) == T \subseteq 1..N /\ \A i \in T, j \in 1..N : j <= i => j \in T

LEMMA InitialSegment ==
  ASSUME NEW N \in Nat, NEW T, Initial(T, N)
  PROVE  \E b \in 0..N : T = 1..b
<1> DEFINE Rest == (1..(N + 1)) \ T
<1>1. Rest \subseteq Nat /\ N + 1 \in Rest
  BY DEF Initial
<1>2. PICK m \in Rest : \A y \in Rest : m <= y
  BY <1>1, LeastOf
<1>3. m \in 1..(N + 1) /\ m \notin T
  BY <1>2
<1>4. \A k \in 1..(m - 1) : k \in T
  BY <1>2, <1>3
<1>5. \A k \in T : k <= m - 1
  BY <1>3 DEF Initial
<1>6. \A k \in Int : k \in T <=> k \in 1..(m - 1)
  BY <1>3, <1>4, <1>5 DEF Initial
<1>7. m - 1 \in 0..N /\ T \subseteq Int /\ 1..(m - 1) \subseteq Int
  BY <1>3 DEF Initial
<1>8. T = 1..(m - 1)
  BY <1>6, <1>7
<1>9. QED
  BY <1>7, <1>8

Sorted(s) == \A i, j \in 1..Len(s) : i <= j => s[i] <= s[j]

LEMMA Below ==
  ASSUME NEW s \in Seq(Nat), Sorted(s), NEW x \in Nat
  PROVE  /\ \E b \in 0..Len(s) : \A k \in 1..Len(s) : s[k] < x <=> k <= b
         /\ \E b \in 0..Len(s) : \A k \in 1..Len(s) : s[k] <= x <=> k <= b
<1>1. Len(s) \in Nat /\ \A k \in 1..Len(s) : s[k] \in Nat
  OBVIOUS
<1>2. \E b \in 0..Len(s) : \A k \in 1..Len(s) : s[k] < x <=> k <= b
  <2> DEFINE T == {k \in 1..Len(s) : s[k] < x}
  <2>1. Initial(T, Len(s))
    BY <1>1 DEF Initial, Sorted
  <2>2. PICK b \in 0..Len(s) : T = 1..b
    BY <1>1, <2>1, InitialSegment
  <2>3. \A k \in 1..Len(s) : s[k] < x <=> k <= b
    BY <1>1, <2>2
  <2>4. QED
    BY <2>3
<1>3. \E b \in 0..Len(s) : \A k \in 1..Len(s) : s[k] <= x <=> k <= b
  <2> DEFINE T == {k \in 1..Len(s) : s[k] <= x}
  <2>1. Initial(T, Len(s))
    BY <1>1 DEF Initial, Sorted
  <2>2. PICK b \in 0..Len(s) : T = 1..b
    BY <1>1, <2>1, InitialSegment
  <2>3. \A k \in 1..Len(s) : s[k] <= x <=> k <= b
    BY <1>1, <2>2
  <2>4. QED
    BY <2>3
<1>4. QED
  BY <1>2, <1>3

(* What sort.Search has left to look at.                                    *)
Ranges(N) == [i : 0..N, j : 0..N]

(* A turn keeps the bound b between i and j, and brings them closer.        *)
LEMMA HalvedNarrows ==
  ASSUME NEW keys \in Seq(Nat), NEW hash \in Nat, NEW b \in 0..Len(keys),
         \A k \in 1..Len(keys) : keys[k] < hash <=> k <= b,
         NEW r \in Ranges(Len(keys)), r.i <= b, b <= r.j, r.i # r.j
  PROVE  LET q == Ring!Halved(keys, hash, r) IN
         /\ q \in Ranges(Len(keys)) /\ q.i <= b /\ b <= q.j
         /\ q.j - q.i < r.j - r.i
<1> DEFINE N == Len(keys)
           h == (r.i + r.j) \div 2
           q == Ring!Halved(keys, hash, r)
<1>1. N \in Nat /\ r.i \in 0..N /\ r.j \in 0..N /\ r.i < r.j
  BY DEF Ranges
<1>2. h \in Nat /\ r.i <= h /\ h < r.j
  BY <1>1
<1>3. q = IF keys[h + 1] < hash THEN [r EXCEPT !.i = h + 1] ELSE [r EXCEPT !.j = h]
  BY DEF Ring!Halved
<1> HIDE DEF h, q
<1>4. h + 1 \in 1..N /\ h + 1 \in 0..N /\ h \in 0..N
  BY <1>1, <1>2
<1>5. CASE keys[h + 1] < hash
  <2>1. q = [r EXCEPT !.i = h + 1] /\ h + 1 <= b
    BY <1>3, <1>4, <1>5
  <2>2. q.i = h + 1 /\ q.j = r.j /\ q \in Ranges(N)
    BY <2>1, <1>4 DEF Ranges
  <2> HIDE DEF N
  <2>3. q.i <= b /\ b <= q.j /\ q.j - q.i < r.j - r.i
    BY <2>1, <2>2, <1>1, <1>2
  <2>4. QED
    BY <2>2, <2>3 DEF q, N
<1>6. CASE ~ (keys[h + 1] < hash)
  <2>1. q = [r EXCEPT !.j = h] /\ b <= h
    BY <1>3, <1>4, <1>6, <1>1
  <2>2. q.i = r.i /\ q.j = h /\ q \in Ranges(N)
    BY <2>1, <1>4 DEF Ranges
  <2> HIDE DEF N
  <2>3. q.i <= b /\ b <= q.j /\ q.j - q.i < r.j - r.i
    BY <2>1, <2>2, <1>1, <1>2
  <2>4. QED
    BY <2>2, <2>3 DEF q, N
<1>7. QED
  BY <1>5, <1>6

(* The binary search (consistenthash.go:57-59) ends, and finds the number of*)
(* hashes less than the key's: the index of the first that is not.          *)
THEOREM SearchFinds ==
  ASSUME NEW keys \in Seq(Nat), Sorted(keys), NEW hash \in Nat
  PROVE  /\ Ring!Search(keys, hash) \in 0..Len(keys)
         /\ \A k \in 1..Len(keys) : keys[k] < hash <=> k <= Ring!Search(keys, hash)
<1> DEFINE N == Len(keys)
           first == [i |-> 0, j |-> N]
           Turn(r) == IF r.i = r.j THEN r ELSE Ring!Halved(keys, hash, r)
           Turns(f) == [t \in 0..N |-> IF t = 0 THEN first ELSE Turn(f[t - 1])]
           turns == CHOOSE f : f = Turns(f)
<1>1. N \in Nat /\ first \in Ranges(N)
  BY DEF Ranges
<1>2. PICK b \in 0..N : \A k \in 1..N : keys[k] < hash <=> k <= b
  BY Below
<1> DEFINE S == {r \in Ranges(N) : r.i <= b /\ b <= r.j}
           step == [x \in (1..N) \X S |-> Turn(x[2])]
<1>3. \A r \in S : Turn(r) \in S /\ (r.i # r.j => Turn(r).j - Turn(r).i < r.j - r.i)
  BY <1>2, HalvedNarrows
<1>4. step \in [(1..N) \X S -> S] /\ first \in S
  <2> HIDE DEF Turn
  <2>1. step \in [(1..N) \X S -> S]
    BY <1>3
  <2>2. first \in S
    BY <1>1, <1>2
  <2>3. QED
    BY <2>1, <2>2
<1> HIDE DEF step, S, N, first, Turn
<1>5. PICK f : Computes(f, N, S, first, step)
  BY <1>1, <1>4, Recursion
<1>6. \A t \in 1..N : f[t - 1] \in S /\ f[t] = Turn(f[t - 1])
  <2> SUFFICES ASSUME NEW t \in 1..N PROVE f[t - 1] \in S /\ f[t] = Turn(f[t - 1])
    OBVIOUS
  <2>1. t - 1 \in 0..N
    BY <1>1
  <2>2. f[t - 1] \in S /\ <<t, f[t - 1]>> \in (1..N) \X S
    BY <1>5, <2>1 DEF Computes
  <2>3. QED
    BY <1>5, <2>2 DEF step, Computes
<1>7. f = Turns(f)
  BY <1>1, <1>5, <1>6 DEF Computes
<1>8. turns = Turns(turns)
  BY <1>7
<1>9. Ring!Search(keys, hash) = turns[N].i
  BY DEF Ring!Search, N, first, Turn
<1> HIDE DEF turns, Turns
<1>10. turns[0] = first /\ \A t \in 1..N : turns[t] = Turn(turns[t - 1])
  BY <1>1, <1>8 DEF Turns
<1>11. \A t \in 0..N : turns[t] = f[t]
  <2>1. \A t \in 1..N : turns[t - 1] = f[t - 1] => turns[t] = f[t]
    BY <1>6, <1>10
  <2>2. N \in Nat /\ turns[0] = f[0]
    BY <1>1, <1>5, <1>10 DEF Computes
  <2>3. QED
    BY <1>1, <2>1, <2>2, SameSteps, ZenonT(30)
<1> DEFINE T == {t \in Nat : t <= N => f[t].i = f[t].j \/ f[t].j - f[t].i <= N - t}
<1>12. \A r \in S : r.i \in 0..N /\ r.j \in 0..N /\ r.i <= b /\ b <= r.j
  BY DEF S, Ranges
<1>13. 0 \in T
  <2>1. f[0] = first /\ first.i = 0 /\ first.j = N
    BY <1>5 DEF Computes, first
  <2>2. QED
    BY <1>1, <2>1
<1>14. \A t \in Nat : t \in T => t + 1 \in T
  <2> SUFFICES ASSUME NEW t \in Nat, t \in T, t + 1 <= N PROVE t + 1 \in T
    OBVIOUS
  <2>1. t + 1 \in 1..N /\ (t + 1) - 1 = t /\ t <= N
    BY <1>1
  <2>2. f[t] \in S /\ f[t + 1] = Turn(f[t])
    BY <1>6, <2>1
  <2>3. CASE f[t].i = f[t].j
    BY <2>2, <2>3 DEF Turn
  <2>4. CASE f[t].i # f[t].j
    <3>1. Turn(f[t]) \in S /\ Turn(f[t]).j - Turn(f[t]).i < f[t].j - f[t].i
      BY <1>3, <2>2, <2>4
    <3>2. /\ f[t].i \in Int /\ f[t].j \in Int
          /\ Turn(f[t]).i \in Int /\ Turn(f[t]).j \in Int
      BY <1>12, <2>2, <3>1
    <3>3. f[t].j - f[t].i <= N - t
      BY <2>1, <2>4
    <3>4. Turn(f[t]).j - Turn(f[t]).i <= N - (t + 1)
      BY <1>1, <3>1, <3>2, <3>3
    <3>5. QED
      BY <2>2, <3>4
  <2>5. QED
    BY <2>3, <2>4
<1> HIDE DEF T
<1>15. N \in T
  BY <1>1, <1>13, <1>14, ByInduction
<1>16. f[N] \in S /\ (f[N].i = f[N].j \/ f[N].j - f[N].i <= 0)
  BY <1>1, <1>5, <1>15 DEF T, Computes
<1>17. f[N].i = b
  BY <1>1, <1>12, <1>16
<1>18. Ring!Search(keys, hash) = b
  BY <1>1, <1>9, <1>11, <1>17
<1>19. QED
  BY <1>2, <1>18 DEF N

-----------------------------------------------------------------------------
(* Filling a ring.                                                          *)

Elems(s) == {s[i] : i \in 1..Len(s)}

(* The hash x goes to one place, and the others keep their order.           *)
LEMMA InsertedAt ==
  ASSUME NEW s \in Seq(Nat), Sorted(s), NEW x \in Nat
  PROVE  \E b \in 0..Len(s) :
           /\ \A k \in 1..Len(s) : s[k] <= x <=> k <= b
           /\ Ring!Inserted(s, x) \in Seq(Nat) /\ Len(Ring!Inserted(s, x)) = Len(s) + 1
           /\ \A i \in 1..(Len(s) + 1) :
                Ring!Inserted(s, x)[i] = IF i <= b THEN s[i] ELSE IF i = b + 1 THEN x ELSE s[i - 1]
<1>1. Len(s) \in Nat /\ \A k \in 1..Len(s) : s[k] \in Nat
  OBVIOUS
<1> DEFINE b == CHOOSE n \in 0..Len(s) : \A i \in DOMAIN s : s[i] <= x <=> i <= n
           front == SubSeq(s, 1, b)
           back == SubSeq(s, b + 1, Len(s))
           q == front \o <<x>> \o back
<1>2. b \in 0..Len(s) /\ \A k \in 1..Len(s) : s[k] <= x <=> k <= b
  <2>1. DOMAIN s = 1..Len(s)
    OBVIOUS
  <2>2. \E n \in 0..Len(s) : \A i \in DOMAIN s : s[i] <= x <=> i <= n
    BY <2>1, Below
  <2>3. b \in 0..Len(s) /\ \A i \in DOMAIN s : s[i] <= x <=> i <= b
    BY <2>2
  <2> HIDE DEF b
  <2>4. QED
    BY <2>1, <2>3
<1>3. Ring!Inserted(s, x) = q
  BY DEF Ring!Inserted
<1> HIDE DEF b
<1>4. /\ front \in Seq(Nat) /\ Len(front) = b /\ \A i \in 1..b : front[i] = s[i]
      /\ back \in Seq(Nat) /\ Len(back) = Len(s) - b
      /\ \A i \in 1..(Len(s) - b) : back[i] = s[b + i]
  BY <1>1, <1>2
<1> HIDE DEF front, back
<1>5. /\ front \o <<x>> \in Seq(Nat) /\ Len(front \o <<x>>) = b + 1
      /\ \A i \in 1..b : (front \o <<x>>)[i] = s[i]
      /\ (front \o <<x>>)[b + 1] = x
  BY <1>1, <1>4
<1>6. /\ q \in Seq(Nat) /\ Len(q) = Len(s) + 1
      /\ \A i \in 1..(Len(s) + 1) :
           q[i] = IF i <= b + 1 THEN (front \o <<x>>)[i] ELSE back[i - (b + 1)]
  <2> DEFINE c == front \o <<x>>
  <2> HIDE DEF c
  <2>1. c \in Seq(Nat) /\ Len(c) = b + 1
    BY <1>5 DEF c
  <2>2. /\ c \o back \in Seq(Nat) /\ Len(c \o back) = Len(c) + Len(back)
        /\ \A i \in 1..(Len(c) + Len(back)) : (c \o back)[i] = IF i <= Len(c) THEN c[i] ELSE back[i - Len(c)]
    BY <2>1, <1>4, ConcatProperties
  <2>3. Len(c) + Len(back) = Len(s) + 1
    BY <1>1, <1>4, <2>1
  <2>4. QED
    BY <2>1, <2>2, <2>3 DEF c
<1> HIDE DEF q
<1>7. \A i \in 1..(Len(s) + 1) : q[i] = IF i <= b THEN s[i] ELSE IF i = b + 1 THEN x ELSE s[i - 1]
  <2> SUFFICES ASSUME NEW i \in 1..(Len(s) + 1)
               PROVE  q[i] = IF i <= b THEN s[i] ELSE IF i = b + 1 THEN x ELSE s[i - 1]
    OBVIOUS
  <2>1. CASE i <= b
    <3>1. i \in 1..b /\ i <= b + 1
      BY <1>1, <1>2, <2>1
    <3>2. QED
      BY <1>5, <1>6, <3>1, <2>1
  <2>2. CASE i = b + 1
    <3>1. ~ (i <= b) /\ i <= b + 1
      BY <1>1, <1>2, <2>2
    <3>2. q[i] = (front \o <<x>>)[i]
      BY <1>6, <3>1
    <3>3. (front \o <<x>>)[i] = x
      BY <1>5, <2>2
    <3>4. QED
      BY <2>2, <3>1, <3>2, <3>3
  <2>3. CASE i > b + 1
    <3>1. /\ i - (b + 1) \in 1..(Len(s) - b) /\ b + (i - (b + 1)) = i - 1
          /\ ~ (i <= b + 1) /\ ~ (i <= b) /\ i # b + 1
      BY <1>1, <1>2, <2>3
    <3>2. back[i - (b + 1)] = s[b + (i - (b + 1))]
      BY <1>4, <3>1
    <3>3. QED
      BY <1>6, <3>1, <3>2
  <2>4. QED
    BY <1>1, <1>2, <2>1, <2>2, <2>3
<1>8. QED
  BY <1>2, <1>3, <1>6, <1>7

(* append and sort.Ints: the hashes are sorted again, and x is one of them. *)
LEMMA InsertedSorted ==
  ASSUME NEW s \in Seq(Nat), Sorted(s), NEW x \in Nat
  PROVE  /\ Ring!Inserted(s, x) \in Seq(Nat) /\ Sorted(Ring!Inserted(s, x))
         /\ Elems(Ring!Inserted(s, x)) = Elems(s) \cup {x}
<1> DEFINE q == Ring!Inserted(s, x)
           N == Len(s)
<1>1. N \in Nat /\ \A k \in 1..N : s[k] \in Nat
  OBVIOUS
<1>2. PICK b \in 0..N :
        /\ \A k \in 1..N : s[k] <= x <=> k <= b
        /\ q \in Seq(Nat) /\ Len(q) = N + 1
        /\ \A i \in 1..(N + 1) : q[i] = IF i <= b THEN s[i] ELSE IF i = b + 1 THEN x ELSE s[i - 1]
  BY InsertedAt
<1>3. \A i, j \in 1..N : i <= j => s[i] <= s[j]
  BY DEF Sorted
<1> HIDE DEF q, N
<1>4. \A i \in 1..(N + 1) : i <= b => i \in 1..N /\ q[i] = s[i] /\ s[i] <= x
  BY <1>1, <1>2
<1>5. b + 1 \in 1..(N + 1) /\ q[b + 1] = x
  <2>1. b + 1 \in 1..(N + 1) /\ ~ (b + 1 <= b)
    BY <1>1
  <2>2. QED
    BY <1>2, <2>1
<1>6. \A i \in 1..(N + 1) : i > b + 1 => i - 1 \in 1..N /\ q[i] = s[i - 1] /\ x < s[i - 1]
  BY <1>1, <1>2
<1>7. b \in Nat /\ \A i \in 1..(N + 1) : q[i] \in Nat
  BY <1>1, <1>2
<1>8. \A i, j \in 1..(N + 1) : i <= j => q[i] <= q[j]
  <2> SUFFICES ASSUME NEW i \in 1..(N + 1), NEW j \in 1..(N + 1), i <= j PROVE q[i] <= q[j]
    OBVIOUS
  <2>1. CASE j <= b
    <3>1. i <= b
      BY <1>1, <2>1
    <3>2. QED
      BY <1>3, <1>4, <2>1, <3>1
  <2>2. CASE j = b + 1
    <3>1. q[j] = x
      BY <1>5, <2>2
    <3>2. i <= b \/ i = b + 1
      BY <1>1, <2>2
    <3>3. q[i] <= x
      BY <1>4, <1>5, <3>2
    <3>4. QED
      BY <3>1, <3>3
  <2>3. CASE j > b + 1
    <3>1. j - 1 \in 1..N /\ q[j] = s[j - 1] /\ x < s[j - 1] /\ s[j - 1] \in Nat
      BY <1>1, <1>6, <2>3
    <3>2. CASE i <= b
      <4>1. i \in 1..N /\ q[i] = s[i] /\ s[i] <= x /\ s[i] \in Nat
        BY <1>1, <1>4, <3>2
      <4>2. QED
        BY <3>1, <4>1
    <3>3. CASE i = b + 1
      <4>1. q[i] = x
        BY <1>5, <3>3
      <4>2. QED
        BY <3>1, <4>1
    <3>4. CASE i > b + 1
      <4>1. i - 1 \in 1..N /\ q[i] = s[i - 1] /\ i - 1 <= j - 1
        BY <1>1, <1>6, <3>4
      <4>2. QED
        BY <1>3, <3>1, <4>1
    <3>5. QED
      BY <1>1, <3>2, <3>3, <3>4
  <2>4. QED
    BY <1>1, <2>1, <2>2, <2>3
<1>9. Elems(q) = Elems(s) \cup {x}
  <2>1. ASSUME NEW y \in Elems(q) PROVE y \in Elems(s) \cup {x}
    <3>1. PICK i \in 1..(N + 1) : y = q[i]
      BY <1>2, <2>1 DEF Elems
    <3>2. y = x \/ (i \in 1..N /\ y = s[i]) \/ (i - 1 \in 1..N /\ y = s[i - 1])
      <4>1. i <= b \/ i = b + 1 \/ i > b + 1
        BY <1>1
      <4>2. QED
        BY <1>4, <1>5, <1>6, <3>1, <4>1
    <3>3. QED
      BY <3>2 DEF Elems, N
  <2>2. ASSUME NEW y \in Elems(s) PROVE y \in Elems(q)
    <3>1. PICK k \in 1..N : y = s[k]
      BY <2>2 DEF Elems, N
    <3>2. CASE k <= b
      <4>1. k \in 1..(N + 1) /\ q[k] = y
        BY <1>1, <1>2, <3>1, <3>2
      <4>2. QED
        BY <1>2, <4>1 DEF Elems
    <3>3. CASE k > b
      <4>1. k + 1 \in 1..(N + 1) /\ (k + 1) - 1 = k /\ ~ (k + 1 <= b) /\ k + 1 # b + 1
        BY <1>1, <3>3
      <4>2. q[k + 1] = y
        BY <1>2, <3>1, <4>1
      <4>3. QED
        BY <1>2, <4>1, <4>2 DEF Elems
    <3>4. QED
      BY <1>1, <3>2, <3>3
  <2>3. x \in Elems(q)
    BY <1>2, <1>5 DEF Elems
  <2>4. QED
    BY <2>1, <2>2, <2>3
<1>10. Sorted(q)
  BY <1>2, <1>8 DEF Sorted
<1>11. QED
  BY <1>2, <1>9, <1>10 DEF q

(* The rings the program can build: the hashes are sorted, and every one    *)
(* has its peer.                                                            *)
Maps == [keys : Seq(Nat), hashmap : UNION {[D -> RingPeers] : D \in SUBSET Nat}]
Rings == {m \in Maps : Sorted(m.keys) /\ Elems(m.keys) = DOMAIN m.hashmap}

LEMMA RingFields ==
  ASSUME NEW m \in Rings
  PROVE  /\ m.keys \in Seq(Nat) /\ Sorted(m.keys) /\ Elems(m.keys) = DOMAIN m.hashmap
         /\ DOMAIN m.hashmap \subseteq Nat
         /\ m.hashmap \in [DOMAIN m.hashmap -> RingPeers]
  BY DEF Rings, Maps

LEMMA PointAdded ==
  ASSUME NEW m \in Rings, NEW x \in Nat, NEW p \in RingPeers
  PROVE  /\ Ring!AddPoint(m, x, p) \in Rings
         /\ DOMAIN Ring!AddPoint(m, x, p).hashmap = DOMAIN m.hashmap \cup {x}
         /\ Ring!AddPoint(m, x, p).hashmap[x] = p
         /\ \A y \in DOMAIN m.hashmap : y # x => Ring!AddPoint(m, x, p).hashmap[y] = m.hashmap[y]
<1> DEFINE D == DOMAIN m.hashmap
           keys == Ring!Inserted(m.keys, x)
           hashmap == [y \in D \cup {x} |-> IF y = x THEN p ELSE m.hashmap[y]]
<1>1. m.keys \in Seq(Nat) /\ Sorted(m.keys) /\ Elems(m.keys) = D /\ D \subseteq Nat /\ m.hashmap \in [D -> RingPeers]
  BY RingFields
<1>2. keys \in Seq(Nat) /\ Sorted(keys) /\ Elems(keys) = D \cup {x}
  BY <1>1, InsertedSorted
<1> HIDE DEF D, keys
<1>3. hashmap \in [D \cup {x} -> RingPeers] /\ D \cup {x} \in SUBSET Nat
  BY <1>1
<1>4. Ring!AddPoint(m, x, p) = [keys |-> keys, hashmap |-> hashmap]
  BY DEF Ring!AddPoint, D, keys
<1>5. DOMAIN hashmap = D \cup {x} /\ hashmap[x] = p /\ \A y \in D : y # x => hashmap[y] = m.hashmap[y]
  OBVIOUS
<1> HIDE DEF hashmap
<1>6. hashmap \in UNION {[E -> RingPeers] : E \in SUBSET Nat}
  BY <1>3
<1> DEFINE q == [keys |-> keys, hashmap |-> hashmap]
<1>7. q \in Maps /\ q.keys = keys /\ q.hashmap = hashmap
  BY <1>2, <1>6 DEF Maps
<1> HIDE DEF q
<1>8. q \in Rings
  BY <1>2, <1>5, <1>7 DEF Rings
<1>9. QED
  BY <1>4, <1>5, <1>7, <1>8 DEF D, q

(* q is the ring m after p has taken the points in X.                       *)
Gives(q, m, p, X) ==
  /\ DOMAIN q.hashmap = DOMAIN m.hashmap \cup X
  /\ \A y \in X : q.hashmap[y] = p
  /\ \A y \in DOMAIN m.hashmap : y \notin X => q.hashmap[y] = m.hashmap[y]

LEMMA PeerAdded ==
  ASSUME NEW m \in Rings, NEW p \in RingPeers, NEW pts \in Seq(Nat)
  PROVE  Ring!Add(m, p, pts) \in Rings /\ Gives(Ring!Add(m, p, pts), m, p, Elems(pts))
<1> DEFINE N == Len(pts)
           Turn(q, i) == Ring!AddPoint(q, pts[i], p)
           Turns(f) == [i \in 0..N |-> IF i = 0 THEN m ELSE Turn(f[i - 1], i)]
           after == CHOOSE f : f = Turns(f)
           step == [z \in (1..N) \X Rings |-> Turn(z[2], z[1])]
<1>1. N \in Nat /\ \A i \in 1..N : pts[i] \in Nat
  OBVIOUS
<1>2. \A q \in Rings, i \in 1..N : Turn(q, i) \in Rings
  BY <1>1, PointAdded
<1>3. step \in [(1..N) \X Rings -> Rings]
  <2> HIDE DEF Turn
  <2>1. QED
    BY <1>2
<1> HIDE DEF step, N, Turn
<1>4. PICK f : Computes(f, N, Rings, m, step)
  BY <1>1, <1>3, Recursion
<1>5. \A i \in 1..N : f[i - 1] \in Rings /\ f[i] = Turn(f[i - 1], i)
  <2> SUFFICES ASSUME NEW i \in 1..N PROVE f[i - 1] \in Rings /\ f[i] = Turn(f[i - 1], i)
    OBVIOUS
  <2>1. i - 1 \in 0..N
    BY <1>1
  <2>2. f[i - 1] \in Rings /\ <<i, f[i - 1]>> \in (1..N) \X Rings
    BY <1>4, <2>1 DEF Computes
  <2>3. QED
    BY <1>4, <2>2 DEF step, Computes
<1>6. f = Turns(f)
  BY <1>1, <1>4, <1>5 DEF Computes
<1>7. after = Turns(after)
  BY <1>6
<1>8. Ring!Add(m, p, pts) = after[N]
  BY DEF Ring!Add, N, Turn
<1> HIDE DEF after
<1>9. after[0] = m /\ \A i \in 1..N : after[i] = Turn(after[i - 1], i)
  BY <1>1, <1>7
<1> HIDE DEF Turns
<1>10. \A i \in 0..N : after[i] = f[i]
  <2>1. \A i \in 1..N : after[i - 1] = f[i - 1] => after[i] = f[i]
    BY <1>5, <1>9
  <2>2. after[0] = f[0]
    BY <1>4, <1>9 DEF Computes
  <2>3. QED
    BY <1>1, <2>1, <2>2, SameSteps, ZenonT(30)
<1> DEFINE First(n) == {pts[i] : i \in 1..n}
           T == {n \in Nat : n <= N => Gives(f[n], m, p, First(n))}
<1>11. 0 \in T
  <2>1. First(0) = {} /\ f[0] = m
    BY <1>4 DEF Computes
  <2>2. QED
    BY <2>1 DEF Gives
<1> HIDE DEF First
<1>12. \A n \in Nat : n \in T => n + 1 \in T
  <2> SUFFICES ASSUME NEW n \in Nat, n \in T, n + 1 <= N PROVE Gives(f[n + 1], m, p, First(n + 1))
    OBVIOUS
  <2>1. n + 1 \in 1..N /\ (n + 1) - 1 = n /\ n <= N
    BY <1>1
  <2>2. f[n] \in Rings /\ f[n + 1] = Turn(f[n], n + 1) /\ pts[n + 1] \in Nat
    BY <1>1, <1>5, <2>1
  <2>3. First(n + 1) = First(n) \cup {pts[n + 1]}
    <3>1. \A i \in 1..(n + 1) : i \in 1..n \/ i = n + 1
      OBVIOUS
    <3>2. n + 1 \in 1..(n + 1) /\ 1..n \subseteq 1..(n + 1)
      OBVIOUS
    <3>3. QED
      BY <3>1, <3>2 DEF First
  <2>4. Gives(f[n], m, p, First(n))
    BY <2>1
  <2> DEFINE X == First(n)
             x == pts[n + 1]
             q == f[n]
             r == f[n + 1]
  <2>5. q \in Rings /\ x \in Nat /\ r = Ring!AddPoint(q, x, p)
    BY <2>2 DEF Turn
  <2> HIDE DEF X, x, q, r
  <2>6. Gives(r, m, p, X \cup {x})
    <3>1. Gives(q, m, p, X)
      BY <2>4 DEF q, X
    <3>2. /\ DOMAIN r.hashmap = DOMAIN q.hashmap \cup {x} /\ r.hashmap[x] = p
          /\ \A y \in DOMAIN q.hashmap : y # x => r.hashmap[y] = q.hashmap[y]
      BY <2>5, PointAdded
    <3>3. QED
      BY <3>1, <3>2 DEF Gives
  <2>7. QED
    BY <2>3, <2>6 DEF r, X, x
<1> HIDE DEF T
<1>13. N \in T
  BY <1>1, <1>11, <1>12, ByInduction
<1>14. Gives(f[N], m, p, First(N)) /\ f[N] \in Rings
  BY <1>1, <1>4, <1>13 DEF T, Computes
<1>15. First(N) = Elems(pts)
  BY DEF Elems, First, N
<1>16. Ring!Add(m, p, pts) = f[N]
  BY <1>1, <1>8, <1>10
<1>17. QED
  BY <1>14, <1>15, <1>16

-----------------------------------------------------------------------------
(* Looking a key up.                                                        *)

LEMMA LeastIs ==
  ASSUME NEW T, T \subseteq Nat, NEW x \in T, \A y \in T : x <= y
  PROVE  (CHOOSE z \in T : \A y \in T : z <= y) = x
<1> DEFINE z == CHOOSE z \in T : \A y \in T : z <= y
<1>1. z \in T /\ \A y \in T : z <= y
  OBVIOUS
<1> HIDE DEF z
<1>2. z <= x /\ x <= z /\ z \in Nat /\ x \in Nat
  BY <1>1
<1>3. z = x
  BY <1>2
<1>4. QED
  BY <1>3 DEF z

(* c is the next point of S clockwise: ahead of hash, or past the end.      *)
IsNext(c, S, hash) ==
  \/ c \in S /\ c >= hash /\ \A y \in S : y >= hash => c <= y
  \/ c \in S /\ \A y \in S : y < hash /\ c <= y

LEMMA ClockwiseIs ==
  ASSUME NEW S, S \subseteq Nat, NEW hash \in Nat, NEW c, IsNext(c, S, hash)
  PROVE  Ring!Clockwise(S, hash) = c
<1> DEFINE behind == {x \in S : x >= hash}
           least(T) == CHOOSE z \in T : \A y \in T : z <= y
<1>1. Ring!Clockwise(S, hash) = IF behind # {} THEN least(behind) ELSE least(S)
  BY DEF Ring!Clockwise
<1>2. CASE c \in S /\ c >= hash /\ \A y \in S : y >= hash => c <= y
  <2>1. c \in behind /\ behind \subseteq Nat /\ \A y \in behind : c <= y
    BY <1>2
  <2> HIDE DEF behind
  <2>2. least(behind) = c
    BY <2>1, LeastIs
  <2>3. QED
    BY <1>1, <2>1, <2>2
<1>3. CASE c \in S /\ \A y \in S : y < hash /\ c <= y
  <2>1. behind = {}
    <3>1. \A y \in S : ~ (y >= hash)
      BY <1>3
    <3>2. QED
      BY <3>1
  <2>2. least(S) = c
    BY <1>3, LeastIs
  <2>3. QED
    BY <1>1, <2>1, <2>2
<1>4. QED
  BY <1>2, <1>3 DEF IsNext

LEMMA ClockwiseIsNext ==
  ASSUME NEW S, S \subseteq Nat, S # {}, NEW hash \in Nat
  PROVE  IsNext(Ring!Clockwise(S, hash), S, hash)
<1> DEFINE behind == {x \in S : x >= hash}
<1>1. CASE behind # {}
  <2>1. PICK c \in behind : \A y \in behind : c <= y
    BY <1>1, LeastOf
  <2>2. IsNext(c, S, hash)
    BY <2>1 DEF IsNext
  <2>3. QED
    BY <2>2, ClockwiseIs
<1>2. CASE behind = {}
  <2>1. PICK c \in S : \A y \in S : c <= y
    BY LeastOf
  <2>2. \A y \in S : y < hash
    BY <1>2
  <2>3. IsNext(c, S, hash)
    BY <2>1, <2>2 DEF IsNext
  <2>4. QED
    BY <2>3, ClockwiseIs
<1>3. QED
  BY <1>1, <1>2

(* Map.Get (consistenthash.go:51-61) finds on every ring that can be built, *)
(* and for every key, the peer of the next point clockwise: the search with *)
(* its remainder for the wrap-around does.                                  *)
THEOREM GetFinds ==
  ASSUME NEW m \in Rings, DOMAIN m.hashmap # {}, NEW hash \in Nat
  PROVE  Ring!Get(m, hash) = m.hashmap[Ring!Clockwise(DOMAIN m.hashmap, hash)]
<1> DEFINE S == DOMAIN m.hashmap
           N == Len(m.keys)
           b == Ring!Search(m.keys, hash)
           c == m.keys[(b % N) + 1]
<1>1. m.keys \in Seq(Nat) /\ Sorted(m.keys) /\ S = {m.keys[i] : i \in 1..N} /\ S \subseteq Nat
  BY RingFields DEF Elems
<1>2. N \in Nat /\ N # 0 /\ m.keys # <<>> /\ \A i \in 1..N : m.keys[i] \in S /\ m.keys[i] \in Nat
  BY <1>1
<1>3. b \in 0..N /\ \A k \in 1..N : m.keys[k] < hash <=> k <= b
  BY <1>1, SearchFinds
<1>4. Ring!Get(m, hash) = m.hashmap[c]
  BY <1>2 DEF Ring!Get
<1>5. \A i, j \in 1..N : i <= j => m.keys[i] <= m.keys[j]
  BY <1>1 DEF Sorted
<1> HIDE DEF S, N, b
<1>6. CASE b < N
  <2>1. b % N = b /\ b + 1 \in 1..N /\ ~ (b + 1 <= b)
    BY <1>2, <1>3, <1>6
  <2>2. c = m.keys[b + 1] /\ c \in S /\ c >= hash
    BY <1>2, <1>3, <2>1
  <2>3. ASSUME NEW y \in S, y >= hash PROVE c <= y
    <3>1. PICK k \in 1..N : y = m.keys[k]
      BY <1>1
    <3>2. ~ (m.keys[k] < hash)
      BY <1>2, <2>3, <3>1
    <3>3. b + 1 <= k
      BY <1>2, <1>3, <3>2
    <3>4. QED
      BY <1>5, <2>1, <2>2, <3>1, <3>3
  <2>4. IsNext(c, S, hash)
    BY <2>2, <2>3 DEF IsNext
  <2> HIDE DEF c
  <2>5. Ring!Clockwise(S, hash) = c
    BY <1>1, <2>4, ClockwiseIs
  <2>6. QED
    BY <1>4, <2>5 DEF S
<1>7. CASE b = N
  <2>1. b % N = 0 /\ 1 \in 1..N
    BY <1>2, <1>7
  <2>2. c = m.keys[1] /\ c \in S
    BY <1>2, <2>1
  <2>3. ASSUME NEW y \in S PROVE y < hash /\ c <= y
    <3>1. PICK k \in 1..N : y = m.keys[k]
      BY <1>1
    <3>2. m.keys[k] < hash /\ 1 <= k
      BY <1>2, <1>3, <1>7
    <3>3. QED
      BY <1>5, <2>1, <2>2, <3>1, <3>2
  <2>4. IsNext(c, S, hash)
    BY <2>2, <2>3 DEF IsNext
  <2> HIDE DEF c
  <2>5. Ring!Clockwise(S, hash) = c
    BY <1>1, <2>4, ClockwiseIs
  <2>6. QED
    BY <1>4, <2>5 DEF S
<1>8. QED
  BY <1>2, <1>3, <1>6, <1>7

-----------------------------------------------------------------------------
(* Whole rings.                                                             *)

(* What HTTPPool.Set makes of the peers s with the points pt: every point   *)
(* belongs to the last peer that has it.                                    *)
PointsIn(pt, s) == UNION {Elems(pt[s[i]]) : i \in 1..Len(s)}
LastWith(pt, s, x, p) ==
  \E i \in 1..Len(s) : /\ s[i] = p /\ x \in Elems(pt[p])
                       /\ \A j \in 1..Len(s) : x \in Elems(pt[s[j]]) => j <= i
Owned(m, s, pt) ==
  /\ DOMAIN m.hashmap = PointsIn(pt, s)
  /\ \A x \in DOMAIN m.hashmap : LastWith(pt, s, x, m.hashmap[x])

LEMMA OneMoreOwned ==
  ASSUME NEW m \in Rings, NEW s \in Seq(RingPeers), NEW p \in RingPeers,
         NEW pt \in [RingPeers -> Seq(Nat)], Owned(m, s, pt)
  PROVE  /\ Ring!Add(m, p, pt[p]) \in Rings
         /\ Owned(Ring!Add(m, p, pt[p]), Append(s, p), pt)
<1> DEFINE q == Ring!Add(m, p, pt[p])
           t == Append(s, p)
           X == Elems(pt[p])
           N == Len(s)
<1>1. q \in Rings /\ Gives(q, m, p, X)
  <2>1. pt[p] \in Seq(Nat)
    OBVIOUS
  <2> HIDE DEF q, X
  <2>2. QED
    BY <2>1, PeerAdded DEF q, X
<1>2. /\ N \in Nat /\ Len(t) = N + 1 /\ t[N + 1] = p /\ \A i \in 1..N : t[i] = s[i]
  OBVIOUS
<1>3. \A i \in 1..(N + 1) : i \in 1..N \/ i = N + 1
  BY <1>2
<1>4. N + 1 \in 1..(N + 1) /\ \A i \in 1..N : i \in 1..(N + 1) /\ i <= N + 1
  BY <1>2
<1> HIDE DEF q, t, X, N
<1>5. PointsIn(pt, t) = PointsIn(pt, s) \cup X
  <2>1. PointsIn(pt, s) = UNION {Elems(pt[s[i]]) : i \in 1..N}
    BY DEF PointsIn, N
  <2>2. PointsIn(pt, t) = UNION {Elems(pt[t[i]]) : i \in 1..(N + 1)}
    BY <1>2 DEF PointsIn
  <2>3. Elems(pt[t[N + 1]]) = X
    BY <1>2 DEF X
  <2>4. ASSUME NEW x PROVE x \in PointsIn(pt, t) <=> x \in PointsIn(pt, s) \/ x \in X
    <3>1. x \in PointsIn(pt, t) <=> \E i \in 1..(N + 1) : x \in Elems(pt[t[i]])
      BY <2>2
    <3>2. x \in PointsIn(pt, s) <=> \E i \in 1..N : x \in Elems(pt[s[i]])
      BY <2>1
    <3>3. \A i \in 1..N : Elems(pt[t[i]]) = Elems(pt[s[i]])
      BY <1>2
    <3>4. QED
      BY <1>3, <1>4, <2>3, <3>1, <3>2, <3>3
  <2>5. QED
    BY <2>4
<1>6. DOMAIN q.hashmap = PointsIn(pt, t)
  BY <1>1, <1>5 DEF Owned, Gives
<1>7. ASSUME NEW x \in DOMAIN q.hashmap PROVE LastWith(pt, t, x, q.hashmap[x])
  <2>1. CASE x \in X
    <3>1. q.hashmap[x] = p
      BY <1>1, <2>1 DEF Gives
    <3>2. \A j \in 1..(N + 1) : j <= N + 1
      BY <1>2
    <3>3. QED
      BY <1>2, <1>4, <2>1, <3>1, <3>2 DEF LastWith, X
  <2>2. CASE x \notin X
    <3>1. x \in DOMAIN m.hashmap /\ q.hashmap[x] = m.hashmap[x]
      BY <1>1, <1>7, <2>2 DEF Gives
    <3>2. PICK i \in 1..N : /\ s[i] = m.hashmap[x] /\ x \in Elems(pt[m.hashmap[x]])
                            /\ \A j \in 1..N : x \in Elems(pt[s[j]]) => j <= i
      BY <3>1 DEF Owned, LastWith, N
    <3>3. \A j \in 1..(N + 1) : x \in Elems(pt[t[j]]) => j <= i
      <4>1. x \notin Elems(pt[t[N + 1]])
        BY <1>2, <2>2 DEF X
      <4>2. QED
        BY <1>2, <1>3, <3>2, <4>1
    <3>4. i \in 1..(N + 1) /\ t[i] = q.hashmap[x]
      BY <1>2, <1>4, <3>1, <3>2
    <3>5. QED
      BY <1>2, <3>1, <3>2, <3>3, <3>4 DEF LastWith
  <2>3. QED
    BY <2>1, <2>2
<1>8. QED
  BY <1>1, <1>6, <1>7 DEF Owned, q, t

LEMMA NewIsRing == Ring!New \in Rings /\ DOMAIN Ring!New.hashmap = {} /\ Ring!New.keys = <<>>
<1> DEFINE none == [x \in {} |-> x]
<1>1. Ring!New = [keys |-> <<>>, hashmap |-> none] /\ DOMAIN none = {}
  BY DEF Ring!New
<1>2. none \in [{} -> RingPeers] /\ {} \in SUBSET Nat
  OBVIOUS
<1> HIDE DEF none
<1>3. none \in UNION {[D -> RingPeers] : D \in SUBSET Nat}
  BY <1>2
<1>4. Ring!New \in Maps /\ Ring!New.keys = <<>> /\ Ring!New.hashmap = none
  <2>1. <<>> \in Seq(Nat)
    OBVIOUS
  <2>2. QED
    BY <1>1, <1>3, <2>1 DEF Maps
<1>5. Sorted(<<>>) /\ Elems(<<>>) = {}
  BY DEF Sorted, Elems
<1>6. QED
  BY <1>1, <1>4, <1>5 DEF Rings

LEMMA NoneOwned == \A pt : Owned(Ring!New, <<>>, pt)
  BY NewIsRing DEF Owned, PointsIn

(* HTTPPool.Set (http.go:131-138): whatever the peers and their points, the *)
(* ring is sound and every point belongs to the last peer that has it.      *)
THEOREM RingOwned ==
  ASSUME NEW s \in Seq(RingPeers), NEW pt \in [RingPeers -> Seq(Nat)]
  PROVE  Ring!Ring(s, pt) \in Rings /\ Owned(Ring!Ring(s, pt), s, pt)
<1> DEFINE N == Len(s)
           Turn(q, i) == Ring!Add(q, s[i], pt[s[i]])
           Turns(f) == [i \in 0..N |-> IF i = 0 THEN Ring!New ELSE Turn(f[i - 1], i)]
           after == CHOOSE f : f = Turns(f)
           step == [z \in (1..N) \X Rings |-> Turn(z[2], z[1])]
<1>1. N \in Nat /\ \A i \in 1..N : s[i] \in RingPeers /\ pt[s[i]] \in Seq(Nat)
  OBVIOUS
<1>2. \A q \in Rings, i \in 1..N : Turn(q, i) \in Rings
  BY <1>1, PeerAdded
<1>3. step \in [(1..N) \X Rings -> Rings]
  <2> HIDE DEF Turn
  <2>1. QED
    BY <1>2
<1> HIDE DEF step, N, Turn
<1>4. PICK f : Computes(f, N, Rings, Ring!New, step)
  BY <1>1, <1>3, NewIsRing, Recursion
<1>5. \A i \in 1..N : f[i - 1] \in Rings /\ f[i] = Turn(f[i - 1], i)
  <2> SUFFICES ASSUME NEW i \in 1..N PROVE f[i - 1] \in Rings /\ f[i] = Turn(f[i - 1], i)
    OBVIOUS
  <2>1. i - 1 \in 0..N
    BY <1>1
  <2>2. f[i - 1] \in Rings /\ <<i, f[i - 1]>> \in (1..N) \X Rings
    BY <1>4, <2>1 DEF Computes
  <2>3. QED
    BY <1>4, <2>2 DEF step, Computes
<1>6. f = Turns(f)
  BY <1>1, <1>4, <1>5 DEF Computes
<1>7. after = Turns(after)
  BY <1>6
<1>8. Ring!Ring(s, pt) = after[N]
  BY DEF Ring!Ring, N, Turn
<1> HIDE DEF after
<1>9. after[0] = Ring!New /\ \A i \in 1..N : after[i] = Turn(after[i - 1], i)
  BY <1>1, <1>7
<1> HIDE DEF Turns
<1>10. \A i \in 0..N : after[i] = f[i]
  <2>1. \A i \in 1..N : after[i - 1] = f[i - 1] => after[i] = f[i]
    BY <1>5, <1>9
  <2>2. after[0] = f[0]
    BY <1>4, <1>9 DEF Computes
  <2>3. QED
    BY <1>1, <2>1, <2>2, SameSteps, ZenonT(30)
<1> DEFINE First(n) == SubSeq(s, 1, n)
           T == {n \in Nat : n <= N => Owned(f[n], First(n), pt)}
<1> HIDE DEF First
<1>11. 0 \in T
  <2>1. First(0) = <<>> /\ f[0] = Ring!New
    BY <1>4 DEF Computes, First
  <2>2. QED
    BY <2>1, NoneOwned
<1>12. \A n \in Nat : n \in T => n + 1 \in T
  <2> SUFFICES ASSUME NEW n \in Nat, n \in T, n + 1 <= N PROVE Owned(f[n + 1], First(n + 1), pt)
    OBVIOUS
  <2>1. n + 1 \in 1..N /\ (n + 1) - 1 = n /\ n <= N
    BY <1>1
  <2> DEFINE q == f[n]
             r == f[n + 1]
             p == s[n + 1]
             u == First(n)
  <2>2. q \in Rings /\ r = Ring!Add(q, p, pt[p]) /\ p \in RingPeers
    BY <1>1, <1>5, <2>1 DEF Turn
  <2>3. u \in Seq(RingPeers) /\ First(n + 1) = Append(u, p)
    BY <2>1 DEF First, N
  <2>4. Owned(q, u, pt)
    BY <2>1
  <2> HIDE DEF q, r, p, u
  <2>5. Owned(r, Append(u, p), pt)
    BY <2>2, <2>3, <2>4, OneMoreOwned
  <2>6. QED
    BY <2>3, <2>5 DEF r
<1> HIDE DEF T
<1>13. N \in T
  BY <1>1, <1>11, <1>12, ByInduction
<1>14. Owned(f[N], First(N), pt) /\ f[N] \in Rings
  BY <1>1, <1>4, <1>13 DEF T, Computes
<1>15. First(N) = s
  BY DEF First, N
<1>16. Ring!Ring(s, pt) = f[N]
  BY <1>1, <1>8, <1>10
<1>17. QED
  BY <1>14, <1>15, <1>16

-----------------------------------------------------------------------------
(* The inductive invariant of HashRing.                                     *)


RingInv ==
  /\ order \in Seq(RingPeers)
  /\ points \in [RingPeers -> Ring!Points \cup {<<>>}]
  /\ \A i \in DOMAIN order : points[order[i]] \in Ring!Points
  /\ peers \in Rings
  /\ Owned(peers, order, points)

LEMMA PointsAreSeqs ==
  /\ \A pts \in Ring!Points : pts \in Seq(Nat) /\ Elems(pts) # {}
  /\ \A pt \in [RingPeers -> Ring!Points \cup {<<>>}] : pt \in [RingPeers -> Seq(Nat)]
  /\ Ring!Hashes \subseteq Nat
<1>1. Ring!Hashes \subseteq Nat /\ 0..MaxPoint \subseteq Nat
  BY RingAssumption DEF Ring!Hashes
<1>2. \A pts \in Ring!Points : pts \in Seq(Nat)
  BY <1>1, RingAssumption DEF Ring!Points
<1>3. \A pts \in Ring!Points : Elems(pts) # {}
  <2> SUFFICES ASSUME NEW pts \in Ring!Points PROVE pts[1] \in Elems(pts)
    OBVIOUS
  <2>1. 1 \in 1..Len(pts)
    BY RingAssumption DEF Ring!Points
  <2>2. QED
    BY <2>1 DEF Elems
<1>4. <<>> \in Seq(Nat)
  OBVIOUS
<1>5. QED
  BY <1>1, <1>2, <1>3, <1>4

LEMMA InitInv == Ring!Init => RingInv
<1> SUFFICES ASSUME Ring!Init PROVE RingInv
  OBVIOUS
<1>1. order = <<>> /\ peers = Ring!New /\ points = [p \in RingPeers |-> <<>>]
  BY DEF Ring!Init
<1>2. Owned(peers, order, points)
  BY <1>1, NoneOwned
<1>3. order \in Seq(RingPeers) /\ DOMAIN order = {}
  BY <1>1
<1>4. points \in [RingPeers -> Ring!Points \cup {<<>>}]
  BY <1>1
<1>5. QED
  BY <1>1, <1>2, <1>3, <1>4, NewIsRing DEF RingInv

LEMMA AddPeerInv ==
  ASSUME RingInv, NEW p \in RingPeers, NEW hashes \in Ring!Points, Ring!AddPeer(p, hashes)
  PROVE  RingInv'
<1>1. /\ p \notin Ring!Added /\ peers' = Ring!Add(peers, p, hashes) /\ order' = Append(order, p)
      /\ points' = [points EXCEPT ![p] = hashes]
  BY DEF Ring!AddPeer
<1>2. /\ order \in Seq(RingPeers) /\ points \in [RingPeers -> Ring!Points \cup {<<>>}]
      /\ peers \in Rings /\ Owned(peers, order, points)
      /\ \A i \in DOMAIN order : points[order[i]] \in Ring!Points
  BY DEF RingInv
<1>3. /\ points' \in [RingPeers -> Ring!Points \cup {<<>>}] /\ points'[p] = hashes
      /\ \A q \in RingPeers : q # p => points'[q] = points[q]
  BY <1>1, <1>2
<1>4. /\ DOMAIN order = 1..Len(order) /\ Len(order) \in Nat
      /\ order' \in Seq(RingPeers) /\ Len(order') = Len(order) + 1
      /\ \A i \in 1..Len(order) : order'[i] = order[i] /\ order[i] \in RingPeers /\ order[i] # p
      /\ order'[Len(order) + 1] = p /\ DOMAIN order' = 1..(Len(order) + 1)
  BY <1>1, <1>2 DEF Ring!Added
<1>5. Owned(peers, order, points')
  <2>1. \A i \in 1..Len(order) : points'[order[i]] = points[order[i]]
    BY <1>3, <1>4
  <2>2. PointsIn(points', order) = PointsIn(points, order)
    BY <2>1 DEF PointsIn
  <2>3. ASSUME NEW x, NEW q, LastWith(points, order, x, q) PROVE LastWith(points', order, x, q)
    BY <2>1, <2>3 DEF LastWith
  <2>4. QED
    BY <1>2, <2>2, <2>3 DEF Owned
<1>6. peers' \in Rings /\ Owned(peers', order', points')
  <2>1. points' \in [RingPeers -> Seq(Nat)]
    BY <1>3, PointsAreSeqs
  <2>2. Ring!Add(peers, p, points'[p]) \in Rings /\ Owned(Ring!Add(peers, p, points'[p]), Append(order, p), points')
    BY <1>2, <1>5, <2>1, OneMoreOwned
  <2>3. QED
    BY <1>1, <1>3, <2>2
<1>7. \A i \in 1..(Len(order) + 1) : points'[order'[i]] \in Ring!Points
  <2> SUFFICES ASSUME NEW i \in 1..(Len(order) + 1) PROVE points'[order'[i]] \in Ring!Points
    OBVIOUS
  <2>1. i \in 1..Len(order) \/ i = Len(order) + 1
    BY <1>4
  <2>2. QED
    BY <1>2, <1>3, <1>4, <2>1
<1>8. QED
  BY <1>3, <1>4, <1>6, <1>7 DEF RingInv

LEMMA AnewInv ==
  ASSUME Ring!Anew
  PROVE  RingInv'
<1>1. order' = <<>> /\ peers' = Ring!New /\ points' = [p \in RingPeers |-> <<>>]
  BY DEF Ring!Anew
<1>2. Owned(peers', order', points')
  BY <1>1, NoneOwned
<1>3. order' \in Seq(RingPeers) /\ DOMAIN order' = {}
  BY <1>1
<1>4. points' \in [RingPeers -> Ring!Points \cup {<<>>}]
  BY <1>1
<1>5. QED
  BY <1>1, <1>2, <1>3, <1>4, NewIsRing DEF RingInv

LEMMA RingInvariance == Ring!Spec => []RingInv
<1>1. Ring!Init => RingInv
  BY InitInv
<1>2. RingInv /\ [Ring!Next]_Ring!ringVars => RingInv'
  <2> SUFFICES ASSUME RingInv, [Ring!Next]_Ring!ringVars PROVE RingInv'
    OBVIOUS
  <2>1. CASE \E p \in RingPeers, hashes \in Ring!Points : Ring!AddPeer(p, hashes)
    BY <2>1, AddPeerInv
  <2>2. CASE Ring!Anew
    BY <2>2, AnewInv
  <2>3. CASE UNCHANGED Ring!ringVars
    BY <2>3 DEF Ring!ringVars, RingInv, Owned, LastWith, PointsIn
  <2>4. QED
    BY <2>1, <2>2, <2>3 DEF Ring!Next
<1>3. QED
  BY <1>1, <1>2, PTL DEF Ring!Spec

-----------------------------------------------------------------------------
(* The properties.                                                          *)

LEMMA RingFacts ==
  ASSUME RingInv
  PROVE  /\ order \in Seq(RingPeers) /\ DOMAIN order = 1..Len(order) /\ Len(order) \in Nat
         /\ points \in [RingPeers -> Seq(Nat)]
         /\ peers \in Rings /\ Owned(peers, order, points)
         /\ \A p \in RingPeers : Ring!PointsOf(p) = Elems(points[p])
         /\ DOMAIN peers.hashmap = UNION {Ring!PointsOf(p) : p \in Ring!Added}
         /\ order # <<>> => DOMAIN peers.hashmap # {}
<1>1. /\ order \in Seq(RingPeers) /\ DOMAIN order = 1..Len(order) /\ Len(order) \in Nat
      /\ points \in [RingPeers -> Seq(Nat)]
      /\ peers \in Rings /\ Owned(peers, order, points)
      /\ \A i \in 1..Len(order) : order[i] \in RingPeers /\ points[order[i]] \in Ring!Points
  <2>1. /\ order \in Seq(RingPeers) /\ points \in [RingPeers -> Ring!Points \cup {<<>>}]
        /\ peers \in Rings /\ Owned(peers, order, points)
        /\ \A i \in DOMAIN order : points[order[i]] \in Ring!Points
    BY DEF RingInv
  <2>2. points \in [RingPeers -> Seq(Nat)]
    BY <2>1, PointsAreSeqs
  <2>3. DOMAIN order = 1..Len(order) /\ Len(order) \in Nat /\ \A i \in 1..Len(order) : order[i] \in RingPeers
    BY <2>1
  <2>4. QED
    BY <2>1, <2>2, <2>3
<1>2. \A p \in RingPeers : Ring!PointsOf(p) = Elems(points[p])
  <2> SUFFICES ASSUME NEW p \in RingPeers PROVE Ring!PointsOf(p) = Elems(points[p])
    OBVIOUS
  <2>1. DOMAIN points[p] = 1..Len(points[p])
    BY <1>1
  <2>2. QED
    BY <2>1 DEF Ring!PointsOf, Elems
<1>3. DOMAIN peers.hashmap = UNION {Ring!PointsOf(p) : p \in Ring!Added}
  <2>1. ASSUME NEW x PROVE x \in PointsIn(points, order) <=> x \in UNION {Ring!PointsOf(p) : p \in Ring!Added}
    <3>1. x \in PointsIn(points, order) <=> \E i \in 1..Len(order) : x \in Elems(points[order[i]])
      BY DEF PointsIn
    <3>2. x \in UNION {Ring!PointsOf(p) : p \in Ring!Added} <=> \E p \in Ring!Added : x \in Ring!PointsOf(p)
      OBVIOUS
    <3>3. Ring!Added = {order[i] : i \in 1..Len(order)}
      BY <1>1 DEF Ring!Added
    <3>4. QED
      BY <1>1, <1>2, <3>1, <3>2, <3>3
  <2>2. PointsIn(points, order) = UNION {Ring!PointsOf(p) : p \in Ring!Added}
    BY <2>1
  <2>3. QED
    BY <1>1, <2>2 DEF Owned
<1>4. order # <<>> => DOMAIN peers.hashmap # {}
  <2> SUFFICES ASSUME order # <<>> PROVE DOMAIN peers.hashmap # {}
    OBVIOUS
  <2>1. 1 \in 1..Len(order)
    BY <1>1
  <2>2. Elems(points[order[1]]) # {} /\ points[order[1]] \in Seq(Nat)
    BY <1>1, <2>1, PointsAreSeqs
  <2>3. PointsIn(points, order) # {}
    BY <2>1, <2>2 DEF PointsIn
  <2>4. QED
    BY <1>1, <2>3 DEF Owned
<1>5. QED
  BY <1>1, <1>2, <1>3, <1>4

LEMMA InvNextClockwise == RingInv => NextClockwise
<1> SUFFICES ASSUME RingInv, order # <<>>, NEW hash \in Ring!Hashes
             PROVE  LET point == Ring!Clockwise(UNION {Ring!PointsOf(p) : p \in Ring!Added}, hash)
                        has == {i \in DOMAIN order : point \in Ring!PointsOf(order[i])}
                    IN  \E i \in has : Ring!Get(peers, hash) = order[i] /\ \A j \in has : j <= i
  BY DEF NextClockwise, Ring!NextClockwise
<1> DEFINE D == DOMAIN peers.hashmap
           point == Ring!Clockwise(D, hash)
           has == {i \in DOMAIN order : point \in Ring!PointsOf(order[i])}
<1>1. /\ order \in Seq(RingPeers) /\ DOMAIN order = 1..Len(order)
      /\ \A p \in RingPeers : Ring!PointsOf(p) = Elems(points[p])
      /\ peers \in Rings /\ Owned(peers, order, points)
      /\ D = UNION {Ring!PointsOf(p) : p \in Ring!Added} /\ D # {}
  BY RingFacts
<1>2. D \subseteq Nat /\ hash \in Nat
  BY <1>1, RingFields, PointsAreSeqs
<1>3. point \in D
  <2> HIDE DEF D
  <2>1. IsNext(point, D, hash)
    BY <1>1, <1>2, ClockwiseIsNext
  <2>2. QED
    BY <2>1 DEF IsNext
<1>4. Ring!Get(peers, hash) = peers.hashmap[point]
  BY <1>1, <1>2, GetFinds
<1> HIDE DEF point
<1>5. PICK i \in 1..Len(order) :
        /\ order[i] = peers.hashmap[point] /\ point \in Elems(points[order[i]])
        /\ \A j \in 1..Len(order) : point \in Elems(points[order[j]]) => j <= i
  BY <1>1, <1>3 DEF Owned, LastWith
<1>6. \A j \in 1..Len(order) : Ring!PointsOf(order[j]) = Elems(points[order[j]])
  BY <1>1
<1>7. i \in has /\ \A j \in has : j <= i
  BY <1>1, <1>5, <1>6
<1> HIDE DEF D
<1>8. \E k \in has : Ring!Get(peers, hash) = order[k] /\ \A j \in has : j <= k
  BY <1>4, <1>5, <1>7
<1>9. QED
  BY <1>1, <1>8 DEF point

LEMMA InvOrderIrrelevant == RingInv => OrderIrrelevant
<1> SUFFICES ASSUME RingInv, order # <<>>, NEW s \in Ring!Orderings, NEW hash \in Ring!Hashes,
                    LET point == Ring!Clockwise(UNION {Ring!PointsOf(p) : p \in Ring!Added}, hash) IN
                    \A p, q \in Ring!Added : point \in Ring!PointsOf(p) /\ point \in Ring!PointsOf(q) => p = q
             PROVE  Ring!Get(Ring!Ring(s, points), hash) = Ring!Get(peers, hash)
  BY DEF OrderIrrelevant, Ring!OrderIrrelevant
<1> DEFINE D == DOMAIN peers.hashmap
           m == Ring!Ring(s, points)
           point == Ring!Clockwise(D, hash)
<1>1. /\ order \in Seq(RingPeers) /\ DOMAIN order = 1..Len(order) /\ Len(order) \in Nat
      /\ points \in [RingPeers -> Seq(Nat)]
      /\ \A p \in RingPeers : Ring!PointsOf(p) = Elems(points[p])
      /\ peers \in Rings /\ Owned(peers, order, points)
      /\ D = UNION {Ring!PointsOf(p) : p \in Ring!Added} /\ D # {}
  BY RingFacts
<1>2. Ring!Added = {order[i] : i \in 1..Len(order)} /\ Ring!Added \subseteq RingPeers
  BY <1>1 DEF Ring!Added
<1>3. /\ s \in Seq(RingPeers) /\ DOMAIN s = 1..Len(s) /\ \A i \in 1..Len(s) : s[i] \in Ring!Added
      /\ \A p \in Ring!Added : \E i \in 1..Len(s) : s[i] = p
  <2>1. s \in [1..Len(order) -> Ring!Added] /\ \A p \in Ring!Added : \E i \in DOMAIN s : s[i] = p
    BY <1>1 DEF Ring!Orderings
  <2>2. s \in [1..Len(order) -> RingPeers]
    BY <1>2, <2>1
  <2>3. s \in Seq(RingPeers)
    <3>1. s \in UNION {[1..n -> RingPeers] : n \in Nat}
      BY <1>1, <2>2
    <3>2. QED
      BY <3>1, SeqDef, Zenon
  <2>4. QED
    BY <2>1, <2>2, <2>3
<1>4. m \in Rings /\ Owned(m, s, points)
  BY <1>1, <1>3, RingOwned
<1> HIDE DEF D, m
<1>5. DOMAIN m.hashmap = D
  <2>1. ASSUME NEW x PROVE x \in PointsIn(points, s) <=> x \in PointsIn(points, order)
    <3>1. x \in PointsIn(points, s) <=> \E i \in 1..Len(s) : x \in Elems(points[s[i]])
      BY DEF PointsIn
    <3>2. x \in PointsIn(points, order) <=> \E i \in 1..Len(order) : x \in Elems(points[order[i]])
      BY DEF PointsIn
    <3>3. QED
      BY <1>2, <1>3, <3>1, <3>2
  <2>2. PointsIn(points, s) = PointsIn(points, order)
    BY <2>1
  <2>3. QED
    BY <1>1, <1>4, <2>2 DEF Owned, D
<1>6. D \subseteq Nat /\ hash \in Nat
  BY <1>1, RingFields, PointsAreSeqs DEF D
<1>7. point \in D
  <2>1. IsNext(point, D, hash)
    BY <1>1, <1>6, ClockwiseIsNext
  <2>2. QED
    BY <2>1 DEF IsNext
<1>8. Ring!Get(peers, hash) = peers.hashmap[point]
  BY <1>1, <1>6, GetFinds DEF D
<1>9. Ring!Get(m, hash) = m.hashmap[point]
  BY <1>1, <1>4, <1>5, <1>6, GetFinds
<1>10. \A p, q \in Ring!Added : point \in Ring!PointsOf(p) /\ point \in Ring!PointsOf(q) => p = q
  BY <1>1 DEF D
<1> HIDE DEF point
<1>11. peers.hashmap[point] \in Ring!Added /\ point \in Ring!PointsOf(peers.hashmap[point])
  BY <1>1, <1>2, <1>7 DEF Owned, LastWith, D
<1>12. m.hashmap[point] \in Ring!Added /\ point \in Ring!PointsOf(m.hashmap[point])
  BY <1>1, <1>2, <1>3, <1>4, <1>5, <1>7 DEF Owned, LastWith
<1>13. QED
  BY <1>8, <1>9, <1>10, <1>11, <1>12 DEF m

(* A new peer takes a key over or leaves it where it was.                   *)
LEMMA OneMoreTakes ==
  ASSUME NEW m \in Rings, NEW p \in RingPeers, NEW pts \in Seq(Nat), NEW hash \in Nat, Elems(pts) # {}
  PROVE  Ring!Get(Ring!Add(m, p, pts), hash) \in {Ring!Get(m, hash), p}
<1> DEFINE q == Ring!Add(m, p, pts)
           X == Elems(pts)
           D == DOMAIN m.hashmap
           E == DOMAIN q.hashmap
           c == Ring!Clockwise(E, hash)
<1>1. q \in Rings /\ Gives(q, m, p, X) /\ E = D \cup X /\ X # {}
  BY PeerAdded DEF Gives
<1>2. D \subseteq Nat /\ E \subseteq Nat
  BY <1>1, RingFields
<1> HIDE DEF q, X
<1>3. Ring!Get(q, hash) = q.hashmap[c]
  BY <1>1, GetFinds
<1> HIDE DEF D, E
<1>4. IsNext(c, E, hash)
  BY <1>1, <1>2, ClockwiseIsNext
<1> HIDE DEF c
<1>5. CASE c \in X
  BY <1>1, <1>3, <1>5 DEF Gives, q
<1>6. CASE c \notin X
  <2>1. IsNext(c, D, hash) /\ c \in D
    BY <1>1, <1>4, <1>6 DEF IsNext
  <2>2. Ring!Clockwise(D, hash) = c
    BY <1>2, <2>1, ClockwiseIs
  <2>3. Ring!Get(m, hash) = m.hashmap[c]
    BY <2>1, <2>2, GetFinds DEF D
  <2>4. q.hashmap[c] = m.hashmap[c]
    BY <1>1, <1>6, <2>1 DEF Gives, D
  <2>5. QED
    BY <1>3, <2>3, <2>4 DEF q
<1>7. QED
  BY <1>5, <1>6

LEMMA InvOthersKeep ==
  ASSUME RingInv, [Ring!Next]_Ring!ringVars, Len(order') > Len(order), NEW hash \in Ring!Hashes
  PROVE  Ring!Get(peers', hash) \in {Ring!Get(peers, hash), order'[Len(order')]}
<1>1. order \in Seq(RingPeers) /\ Len(order) \in Nat /\ peers \in Rings
  BY RingFacts
<1>2. CASE \E p \in RingPeers, hashes \in Ring!Points : Ring!AddPeer(p, hashes)
  <2>1. PICK p \in RingPeers, hashes \in Ring!Points : Ring!AddPeer(p, hashes)
    BY <1>2
  <2>2. peers' = Ring!Add(peers, p, hashes) /\ order' = Append(order, p)
    BY <2>1 DEF Ring!AddPeer
  <2>3. order'[Len(order')] = p
    BY <1>1, <2>2
  <2>4. hashes \in Seq(Nat) /\ Elems(hashes) # {} /\ hash \in Nat
    BY PointsAreSeqs
  <2>5. QED
    BY <1>1, <2>2, <2>3, <2>4, OneMoreTakes
<1>3. CASE Ring!Anew
  BY <1>1, <1>3 DEF Ring!Anew
<1>4. CASE UNCHANGED Ring!ringVars
  BY <1>1, <1>4 DEF Ring!ringVars
<1>5. QED
  BY <1>2, <1>3, <1>4 DEF Ring!Next

(* A key belongs to the peer with the next point clockwise, the last one    *)
(* where several have it (consistenthash.go:51-61).                         *)
THEOREM RingNextClockwise == Ring!Spec => []NextClockwise
  BY RingInvariance, InvNextClockwise, PTL

(* Processes that set the same peers in different orders (main.go:69-72)    *)
(* agree on the owner of every key whose point is one peer's.               *)
THEOREM RingOrderIrrelevant == Ring!Spec => []OrderIrrelevant
  BY RingInvariance, InvOrderIrrelevant, PTL

(* Adding a peer moves no key between the others (consistenthash.go:38-48). *)
THEOREM RingOthersKeep == Ring!Spec => OthersKeep
<1>1. RingInv /\ [Ring!Next]_Ring!ringVars =>
        (Len(order') > Len(order) =>
           \A hash \in Ring!Hashes : Ring!Get(peers', hash) \in {Ring!Get(peers, hash), order'[Len(order')]})
  BY InvOthersKeep
<1>2. QED
  BY <1>1, RingInvariance, PTL DEF Ring!Spec, OthersKeep, Ring!OthersKeep

(* A node runs both: what holds of its cache and of its ring alone holds of *)
(* the node.                                                                *)
THEOREM NodeIsBoth == NodeSpec => Spec /\ Ring!Spec
<1>1. NodeInit => Init /\ Ring!Init
  BY DEF NodeInit
<1>2. [NodeNext]_nodeVars => [Next]_vars /\ [Ring!Next]_Ring!ringVars
  BY DEF NodeNext, nodeVars, Ring!ringVars
<1>3. QED
  BY <1>1, <1>2, PTL DEF NodeSpec, Spec, Ring!Spec
==============================================================================
