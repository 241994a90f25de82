-------------------------- MODULE ObservationsProofs --------------------------
(***************************************************************************)
(* Proofs about Observations, for every set of commands, every limit of the  *)
(* image store, every size of picture and every number of restarts.          *)
(***************************************************************************)
EXTENDS Observations, Recursion, FiniteSetTheorems, SequenceTheorems

(* The bytes of the first entries, for each number of them.                  *)
Sums(entries) ==
  LET sum[i \in 0..Len(entries)] ==
        IF i = 0 THEN 0 ELSE sum[i - 1] + entries[i].picture.bytes
  IN  sum

(* The size of a picture is a number.                                       *)
LEMMA SizeType ==
  ASSUME NEW entry \in Entry
  PROVE  entry.picture.bytes \in Nat
  <1>1. entry.picture \in Picture
    BY DEF Entry
  <1>2. entry.picture.bytes \in Sizes \cup {0}
    BY <1>1 DEF Picture
  <1>3. Sizes \cup {0} \subseteq Nat
    <2>1. Sizes \subseteq Nat
      BY LimitsAssumption
    <2>2. 0 \in Nat
      OBVIOUS
    <2> QED
      BY <2>1, <2>2, Zenon
  <1> QED
    BY <1>2, <1>3, Zenon

(* The sums, one entry at a time.                                           *)
LEMMA SumsUnfold ==
  ASSUME NEW entries \in Seq(Entry)
  PROVE  LET p == Sums(entries) IN
         /\ p \in [0..Len(entries) -> Nat]
         /\ p[0] = 0
         /\ \A i \in 1..Len(entries) : p[i] = p[i - 1] + entries[i].picture.bytes
  <1> DEFINE n == Len(entries)
             Succ == [i \in 1..n |-> [s \in Nat |-> s + entries[i].picture.bytes]]
             Body(f) == [i \in 0..n |-> IF i = 0 THEN 0
                                        ELSE f[i - 1] + entries[i].picture.bytes]
             p == CHOOSE f : f = Body(f)
  <1>1. n \in Nat
    OBVIOUS
  <1>2. \A i \in 1..n : entries[i].picture.bytes \in Nat
    BY SizeType
  <1>3. /\ \A s \in Nat, i \in 1..n : Succ[i][s] = s + entries[i].picture.bytes
        /\ Succ \in [1..n -> [Nat -> Nat]]
    BY <1>2
  <1> HIDE DEF Succ, n
  <1>4. PICK f : Iterates(f, 0, Succ, n, Nat)
    BY <1>1, <1>3, IntervalRecursion
  <1>5. \A i \in 1..n : f[i] = f[i - 1] + entries[i].picture.bytes
    <2> TAKE i \in 1..n
    <2>1. i - 1 \in 0..n
      BY <1>1
    <2>2. f[i - 1] \in Nat
      BY <1>4, <2>1 DEF Iterates
    <2> QED
      BY <1>3, <1>4, <2>2 DEF Iterates
  <1>6. f = Body(f)
    BY <1>1, <1>4, <1>5 DEF Iterates
  <1>7. p = Body(p)
    BY <1>6
  <1> HIDE DEF p
  <1>8. p[0] = 0 /\ \A i \in 1..n : p[i] = p[i - 1] + entries[i].picture.bytes
    BY <1>1, <1>7
  <1>9. p = [i \in 0..n |-> p[i]]
    BY <1>7
  <1>10. \A i \in 0..n : p[i] \in Nat
    <2> DEFINE T == {i \in 0..n : p[i] \in Nat}
    <2>1. 0 \in T
      BY <1>1, <1>8
    <2>2. ASSUME NEW i \in 1..n, i - 1 \in T PROVE i \in T
      BY <1>1, <1>2, <1>8, <2>2
    <2> HIDE DEF T
    <2>3. 0..n \subseteq T
      BY <1>1, <2>1, <2>2, IntervalInduction
    <2> QED
      BY <2>3 DEF T
  <1>11. Sums(entries) = p
    BY DEF Sums, p, n
  <1> QED
    BY <1>8, <1>9, <1>10, <1>11 DEF n

(* The sums over a stretch of a sequence.                                   *)
LEMMA Window ==
  ASSUME NEW s \in Seq(Entry), NEW t \in Seq(Entry), NEW k \in Nat, NEW m \in Nat,
         k + m <= Len(s), m <= Len(t), \A j \in 1..m : t[j] = s[k + j]
  PROVE  Sums(s)[k + m] = Sums(s)[k] + Sums(t)[m]
  <1> DEFINE p == Sums(s)
             q == Sums(t)
             T == {j \in 0..m : p[k + j] = p[k] + q[j]}
  <1>1. /\ p \in [0..Len(s) -> Nat]
        /\ \A i \in 1..Len(s) : p[i] = p[i - 1] + s[i].picture.bytes
    BY SumsUnfold
  <1>2. /\ q \in [0..Len(t) -> Nat] /\ q[0] = 0
        /\ \A i \in 1..Len(t) : q[i] = q[i - 1] + t[i].picture.bytes
    BY SumsUnfold
  <1> HIDE DEF p, q
  <1>3. 0 \in T
    <2>1. k \in 0..Len(s) /\ k + 0 = k /\ 0 \in 0..m
      OBVIOUS
    <2>2. p[k] \in Nat
      BY <1>1, <2>1
    <2>3. p[k + 0] = p[k] + q[0]
      BY <1>2, <2>1, <2>2
    <2> QED
      BY <2>1, <2>3
  <1>4. ASSUME NEW j \in 1..m, j - 1 \in T PROVE j \in T
    <2>1. /\ k + j \in 1..Len(s) /\ (k + j) - 1 = k + (j - 1) /\ k \in 0..Len(s)
          /\ k + (j - 1) \in 0..Len(s) /\ j \in 1..Len(t) /\ j - 1 \in 0..Len(t)
      OBVIOUS
    <2>2. s[k + j].picture.bytes \in Nat /\ t[j] = s[k + j]
      BY <2>1, SizeType
    <2>3. /\ p[k + j] = p[k + (j - 1)] + s[k + j].picture.bytes
          /\ q[j] = q[j - 1] + s[k + j].picture.bytes
          /\ p[k] \in Nat /\ p[k + (j - 1)] \in Nat /\ q[j - 1] \in Nat
      BY <1>1, <1>2, <2>1, <2>2
    <2>4. p[k + (j - 1)] = p[k] + q[j - 1]
      BY <1>4
    <2>5. PICK a \in Nat, b \in Nat, bytes \in Nat :
            a = p[k] /\ b = q[j - 1] /\ bytes = s[k + j].picture.bytes
      BY <2>2, <2>3
    <2>6. (a + b) + bytes = a + (b + bytes)
      OBVIOUS
    <2>7. p[k + j] = p[k] + q[j]
      BY <2>3, <2>4, <2>5, <2>6
    <2> QED
      BY <2>7
  <1> HIDE DEF T
  <1>5. 0..m \subseteq T
    BY <1>3, <1>4, IntervalInduction
  <1>6. m \in T
    BY <1>5
  <1> QED
    BY <1>6 DEF T, p, q

(* The bytes of a sequence are the last of its sums.                        *)
LEMMA BytesIsSum ==
  ASSUME NEW entries
  PROVE  Bytes(entries) = Sums(entries)[Len(entries)]
  BY DEF Bytes, Sums

(* The bytes of a store are a number, none if it is empty.                   *)
LEMMA BytesType ==
  ASSUME NEW entries \in Seq(Entry)
  PROVE  Bytes(entries) \in Nat /\ (entries = << >> => Bytes(entries) = 0)
  <1>1. Len(entries) \in 0..Len(entries) /\ (entries = << >> => Len(entries) = 0)
    OBVIOUS
  <1> QED
    BY <1>1, BytesIsSum, SumsUnfold

(* Cutting a store in two cuts its bytes in two.                            *)
LEMMA BytesSplit ==
  ASSUME NEW s \in Seq(Entry), NEW n \in 0..Len(s)
  PROVE  Bytes(s) = Bytes(SubSeq(s, 1, n)) + Bytes(SubSeq(s, n + 1, Len(s)))
  <1> DEFINE a == SubSeq(s, 1, n)
             b == SubSeq(s, n + 1, Len(s))
             m == Len(s) - n
  <1>1. a \in Seq(Entry) /\ Len(a) = n /\ \A j \in 1..n : a[j] = s[0 + j]
    OBVIOUS
  <1>2. b \in Seq(Entry) /\ Len(b) = m /\ \A j \in 1..m : b[j] = s[n + j]
    OBVIOUS
  <1>3. m \in Nat /\ n \in Nat /\ 0 + n = n /\ n + m = Len(s)
    OBVIOUS
  <1> HIDE DEF a, b, m
  <1>4. Sums(s)[0 + n] = Sums(s)[0] + Sums(a)[n]
    <2>1. 0 + n <= Len(s) /\ n <= Len(a) /\ 0 \in Nat
      BY <1>1, <1>3
    <2> QED
      BY <1>1, <1>3, <2>1, Window
  <1>5. Sums(s)[n + m] = Sums(s)[n] + Sums(b)[m]
    <2>1. n + m <= Len(s) /\ m <= Len(b)
      BY <1>2, <1>3
    <2> QED
      BY <1>2, <1>3, <2>1, Window
  <1>6. Sums(s)[0] = 0 /\ Sums(a)[n] \in Nat
    <2>1. Sums(s)[0] = 0
      BY SumsUnfold
    <2>2. Sums(a) \in [0..Len(a) -> Nat]
      BY <1>1, SumsUnfold
    <2>3. n \in 0..Len(a)
      BY <1>1
    <2> QED
      BY <2>1, <2>2, <2>3
  <1>7. Sums(s)[n] = Sums(a)[n]
    BY <1>3, <1>4, <1>6
  <1>8. Bytes(s) = Sums(s)[n + m] /\ Bytes(a) = Sums(a)[n] /\ Bytes(b) = Sums(b)[m]
    BY <1>1, <1>2, <1>3, BytesIsSum
  <1> QED
    BY <1>5, <1>7, <1>8 DEF a, b

(* A store with one more picture.                                           *)
LEMMA BytesAppend ==
  ASSUME NEW s \in Seq(Entry), NEW entry \in Entry
  PROVE  Bytes(Append(s, entry)) = Bytes(s) + entry.picture.bytes
  <1> DEFINE t == Append(s, entry)
             n == Len(s)
  <1>1. n \in Nat
    OBVIOUS
  <1>2. /\ t \in Seq(Entry) /\ Len(t) = n + 1 /\ t[n + 1] = entry
        /\ \A j \in 1..n : s[j] = t[0 + j]
    OBVIOUS
  <1> HIDE DEF t, n
  <1>3. Sums(t)[0 + n] = Sums(t)[0] + Sums(s)[n]
    <2>1. 0 + n <= Len(t) /\ n <= Len(s) /\ 0 \in Nat
      BY <1>1, <1>2 DEF n
    <2> QED
      BY <1>1, <1>2, <2>1, Window
  <1>4. /\ Sums(t)[0] = 0 /\ Sums(s)[n] \in Nat
        /\ Sums(t)[n + 1] = Sums(t)[(n + 1) - 1] + entry.picture.bytes
    <2>1. n + 1 \in 1..Len(t)
      BY <1>1, <1>2
    <2>2. n \in 0..Len(s)
      BY <1>1 DEF n
    <2> QED
      BY <1>2, <2>1, <2>2, SumsUnfold
  <1>5. 0 + n = n /\ (n + 1) - 1 = n
    BY <1>1
  <1>6. Sums(t)[n] = Sums(s)[n]
    BY <1>3, <1>4, <1>5
  <1>7. Bytes(t) = Sums(t)[n + 1] /\ Bytes(s) = Sums(s)[n]
    BY <1>2, BytesIsSum DEF n
  <1> QED
    BY <1>4, <1>5, <1>6, <1>7 DEF t

-----------------------------------------------------------------------------
(* The entries of a sequence from the i-th on.                                *)
Newest(s, i) == SubSeq(s, i, Len(s))

(* The newest entries, by their places.                                      *)
LEMMA NewestType ==
  ASSUME NEW s \in Seq(Entry), NEW i \in 1..(Len(s) + 1)
  PROVE  /\ Newest(s, i) \in Seq(Entry)
         /\ Len(Newest(s, i)) = (Len(s) + 1) - i
         /\ \A j \in 1..((Len(s) + 1) - i) : Newest(s, i)[j] = s[(i - 1) + j]
  BY DEF Newest

(* Dropping the oldest of the newest leaves the newest.                       *)
LEMMA NewestOfNewest ==
  ASSUME NEW s \in Seq(Entry), NEW i \in 1..(Len(s) + 1), NEW n \in 0..Len(Newest(s, i))
  PROVE  /\ i + n \in 1..(Len(s) + 1)
         /\ Newest(Newest(s, i), n + 1) = Newest(s, i + n)
  <1> DEFINE t == Newest(s, i)
             m == Len(t) - n
  <1>1. /\ t \in Seq(Entry) /\ Len(t) = (Len(s) + 1) - i
        /\ \A j \in 1..((Len(s) + 1) - i) : t[j] = s[(i - 1) + j]
    BY NewestType
  <1>2. /\ i + n \in 1..(Len(s) + 1) /\ n + 1 \in 1..(Len(t) + 1)
        /\ m \in Nat /\ (Len(t) + 1) - (n + 1) = m /\ (Len(s) + 1) - (i + n) = m
    BY <1>1
  <1> HIDE DEF t, m
  <1>3. /\ Newest(t, n + 1) \in Seq(Entry) /\ Len(Newest(t, n + 1)) = m
        /\ \A j \in 1..m : Newest(t, n + 1)[j] = t[((n + 1) - 1) + j]
    <2> DEFINE u == Newest(t, n + 1)
    <2>1. /\ u \in Seq(Entry) /\ Len(u) = (Len(t) + 1) - (n + 1)
          /\ \A j \in 1..((Len(t) + 1) - (n + 1)) : u[j] = t[((n + 1) - 1) + j]
      BY <1>1, <1>2, NewestType
    <2> HIDE DEF u
    <2>2. u \in Seq(Entry) /\ Len(u) = m /\ \A j \in 1..m : u[j] = t[((n + 1) - 1) + j]
      BY <1>2, <2>1
    <2> QED
      BY <2>2 DEF u
  <1>4. /\ Newest(s, i + n) \in Seq(Entry) /\ Len(Newest(s, i + n)) = m
        /\ \A j \in 1..m : Newest(s, i + n)[j] = s[((i + n) - 1) + j]
    BY <1>2, NewestType
  <1>5. ASSUME NEW j \in 1..m PROVE Newest(t, n + 1)[j] = Newest(s, i + n)[j]
    <2>1. /\ n + j \in 1..((Len(s) + 1) - i) /\ ((n + 1) - 1) + j = n + j
          /\ (i - 1) + (n + j) = ((i + n) - 1) + j
      BY <1>1, <1>2 DEF m
    <2> QED
      BY <1>1, <1>3, <1>4, <2>1
  <1>6. Newest(t, n + 1) = Newest(s, i + n)
    BY <1>3, <1>4, <1>5, SeqEqual
  <1> QED
    BY <1>2, <1>6 DEF t

(* A new entry is the newest of all.                                         *)
LEMMA NewestOfLonger ==
  ASSUME NEW s \in Seq(Entry), NEW entry \in Entry, NEW i \in 1..(Len(s) + 1)
  PROVE  Newest(Append(s, entry), i) = Append(Newest(s, i), entry)
  <1> DEFINE t == Append(s, entry)
             m == (Len(s) + 1) - i
  <1>1. /\ t \in Seq(Entry) /\ Len(t) = Len(s) + 1 /\ t[Len(s) + 1] = entry
        /\ \A j \in 1..Len(s) : t[j] = s[j]
    OBVIOUS
  <1>2. m \in Nat /\ i \in 1..(Len(t) + 1) /\ (Len(t) + 1) - i = m + 1
    BY <1>1
  <1> HIDE DEF t
  <1>3. /\ Newest(t, i) \in Seq(Entry) /\ Len(Newest(t, i)) = m + 1
        /\ \A j \in 1..(m + 1) : Newest(t, i)[j] = t[(i - 1) + j]
    <2> HIDE DEF m
    <2>1. /\ Newest(t, i) \in Seq(Entry) /\ Len(Newest(t, i)) = (Len(t) + 1) - i
          /\ \A j \in 1..((Len(t) + 1) - i) : Newest(t, i)[j] = t[(i - 1) + j]
      BY <1>1, <1>2, NewestType
    <2> QED
      BY <1>2, <2>1
  <1> DEFINE v == Newest(s, i)
             u == Append(v, entry)
  <1>4. v \in Seq(Entry) /\ Len(v) = m /\ \A j \in 1..m : v[j] = s[(i - 1) + j]
    BY NewestType
  <1> HIDE DEF v, m
  <1>5. u \in Seq(Entry) /\ Len(u) = m + 1 /\ u[m + 1] = entry /\ \A j \in 1..m : u[j] = v[j]
    BY <1>2, <1>4
  <1> HIDE DEF u
  <1>6. ASSUME NEW j \in 1..(m + 1) PROVE Newest(t, i)[j] = u[j]
    <2>1. CASE j = m + 1
      <3>1. (i - 1) + j = Len(s) + 1
        BY <2>1 DEF m
      <3> QED
        BY <1>1, <1>3, <1>5, <2>1, <3>1
    <2>2. CASE j # m + 1
      <3>1. j \in 1..m /\ (i - 1) + j \in 1..Len(s)
        BY <1>2, <2>2 DEF m
      <3> QED
        BY <1>1, <1>3, <1>4, <1>5, <3>1
    <2> QED
      BY <2>1, <2>2
  <1>7. Newest(t, i) = u
    BY <1>3, <1>5, <1>6, SeqEqual
  <1> QED
    BY <1>7 DEF t, u, v

-----------------------------------------------------------------------------
(* The eviction loop ends: at the latest when the store is empty.             *)
LEMMA EvictionsStop ==
  ASSUME images \in Seq(Entry), NEW bytes
  PROVE  LET n == Evictions(bytes) IN
         /\ n \in 0..Len(images)
         /\ n = Len(images) \/ FitsAfter(n, bytes)
         /\ \A m \in 0..(n - 1) : ~FitsAfter(m, bytes)
  <1> DEFINE T == {n \in 0..Len(images) : n = Len(images) \/ FitsAfter(n, bytes)}
  <1>1. Len(images) \in T /\ T \subseteq Nat
    OBVIOUS
  <1> HIDE DEF T
  <1>2. PICK n \in T : \A m \in T : n <= m
    BY <1>1, Least
  <1>3. n \in 0..Len(images) /\ (n = Len(images) \/ FitsAfter(n, bytes))
    BY <1>2 DEF T
  <1>4. ASSUME NEW m \in 0..(n - 1) PROVE ~FitsAfter(m, bytes)
    <2>1. m \notin T /\ m \in 0..Len(images)
      BY <1>2, <1>3
    <2> QED
      BY <2>1 DEF T
  <1> QED
    BY <1>3, <1>4 DEF Evictions

-----------------------------------------------------------------------------
(* A part of what fits fits.                                                *)
LEMMA FitsShorter ==
  ASSUME NEW s \in Seq(Entry), NEW i \in 1..(Len(s) + 1), Fits(s)
  PROVE  Fits(Newest(s, i))
  <1> DEFINE n == i - 1
  <1>1. n \in 0..Len(s) /\ n + 1 = i
    OBVIOUS
  <1>2. Bytes(s) = Bytes(SubSeq(s, 1, n)) + Bytes(Newest(s, i))
    BY <1>1, BytesSplit DEF Newest
  <1>3. Newest(s, i) \in Seq(Entry) /\ Len(Newest(s, i)) = (Len(s) + 1) - i
    BY NewestType
  <1>4. SubSeq(s, 1, n) \in Seq(Entry)
    BY <1>1
  <1> HIDE DEF n
  <1>5. PICK a \in Nat, b \in Nat : a = Bytes(SubSeq(s, 1, n)) /\ b = Bytes(Newest(s, i))
    BY <1>3, <1>4, BytesType
  <1>6. a + b <= MaxBytes /\ MaxBytes \in Nat /\ MaxImages \in Nat /\ Len(s) <= MaxImages
    BY <1>2, <1>5, LimitsAssumption DEF Fits
  <1>7. b <= MaxBytes
    BY <1>6
  <1>8. (Len(s) + 1) - i <= MaxImages
    BY <1>6
  <1> QED
    BY <1>3, <1>5, <1>7, <1>8 DEF Fits

(* What fits with one more entry fits without it.                            *)
LEMMA FitsWithout ==
  ASSUME NEW s \in Seq(Entry), NEW entry \in Entry, Fits(Append(s, entry))
  PROVE  Fits(s)
  <1>1. PICK a \in Nat, b \in Nat : a = Bytes(s) /\ b = entry.picture.bytes
    BY BytesType, SizeType
  <1>2. a + b <= MaxBytes /\ MaxBytes \in Nat /\ MaxImages \in Nat
    BY <1>1, BytesAppend, LimitsAssumption DEF Fits
  <1>3. Len(s) + 1 <= MaxImages
    BY DEF Fits
  <1> QED
    BY <1>1, <1>2, <1>3 DEF Fits

(* What an insertion makes of the store: room for the new picture by dropping *)
(* the oldest, no more of them than it takes.                                *)
LEMMA RoomIsMade ==
  ASSUME images \in Seq(Entry), total_bytes = Bytes(images), Len(images) <= MaxImages,
         NEW entry \in Entry, entry.picture.bytes <= MaxBytes,
         NEW n, n = Evictions(entry.picture.bytes)
  PROVE  LET kept == Newest(images, n + 1) IN
         /\ n \in 0..Len(images)
         /\ (total_bytes - Bytes(SubSeq(images, 1, n))) + entry.picture.bytes
              = Bytes(Append(kept, entry))
         /\ Fits(Append(kept, entry))
         /\ n > 0 => ~Fits(Append(Newest(images, n), entry))
  <1> DEFINE kept == Newest(images, n + 1)
             size == entry.picture.bytes
  <1>1. /\ n \in 0..Len(images)
        /\ n = Len(images) \/ FitsAfter(n, size)
        /\ \A m \in 0..(n - 1) : ~FitsAfter(m, size)
    BY EvictionsStop
  <1>2. size \in Nat /\ MaxBytes \in Nat /\ MaxImages \in Nat \ {0}
    BY SizeType, LimitsAssumption
  <1> HIDE DEF size
  <1>3. ASSUME NEW m \in 0..Len(images)
        PROVE  LET rest == Newest(images, m + 1) IN
               /\ rest \in Seq(Entry) /\ Len(Append(rest, entry)) = (Len(images) - m) + 1
               /\ Bytes(rest) \in Nat
               /\ total_bytes - Bytes(SubSeq(images, 1, m)) = Bytes(rest)
               /\ Bytes(Append(rest, entry)) = Bytes(rest) + size
    <2> DEFINE rest == Newest(images, m + 1)
               gone == SubSeq(images, 1, m)
    <2>1. m + 1 \in 1..(Len(images) + 1) /\ (Len(images) + 1) - (m + 1) = Len(images) - m
      OBVIOUS
    <2>2. rest \in Seq(Entry) /\ Len(rest) = Len(images) - m
      BY <2>1, NewestType
    <2>3. gone \in Seq(Entry)
      OBVIOUS
    <2>4. Bytes(images) = Bytes(gone) + Bytes(rest)
      BY BytesSplit DEF Newest
    <2> HIDE DEF rest, gone
    <2>5. Bytes(rest) \in Nat /\ Bytes(gone) \in Nat
      BY <2>2, <2>3, BytesType
    <2>6. total_bytes - Bytes(gone) = Bytes(rest)
      BY <2>4, <2>5
    <2>7. Bytes(Append(rest, entry)) = Bytes(rest) + size
      BY <2>2, BytesAppend DEF size
    <2>8. Len(Append(rest, entry)) = (Len(images) - m) + 1
      BY <2>2
    <2> QED
      BY <2>2, <2>5, <2>6, <2>7, <2>8 DEF rest, gone
  <1>4. Fits(Append(kept, entry))
    <2>1. CASE n = Len(images)
      <3>1. kept = << >>
        BY <1>1, <2>1 DEF Newest
      <3>2. Bytes(kept) = 0
        BY <1>1, <1>3, <3>1, BytesType
      <3>3. Len(Append(kept, entry)) = 1 /\ Bytes(Append(kept, entry)) = size
        BY <1>1, <1>2, <1>3, <2>1, <3>2
      <3> QED
        BY <1>2, <3>3 DEF Fits, size
    <2>2. CASE FitsAfter(n, size)
      <3>1. Bytes(Append(kept, entry)) <= MaxBytes
        BY <1>1, <1>3, <2>2 DEF FitsAfter
      <3>2. Len(images) - n < MaxImages
        BY <2>2 DEF FitsAfter
      <3>3. Len(Append(kept, entry)) = (Len(images) - n) + 1
        BY <1>1, <1>3
      <3>4. (Len(images) - n) + 1 <= MaxImages
        BY <1>1, <1>2, <3>2
      <3> QED
        BY <3>1, <3>3, <3>4 DEF Fits
    <2> QED
      BY <1>1, <2>1, <2>2
  <1>5. ASSUME n > 0 PROVE ~Fits(Append(Newest(images, n), entry))
    <2>1. n - 1 \in 0..(n - 1) /\ n - 1 \in 0..Len(images) /\ (n - 1) + 1 = n
      BY <1>1, <1>5
    <2>2. ~FitsAfter(n - 1, size)
      BY <1>1, <2>1
    <2>3. /\ Len(Append(Newest(images, n), entry)) = (Len(images) - (n - 1)) + 1
          /\ Bytes(Append(Newest(images, n), entry))
               = (total_bytes - Bytes(SubSeq(images, 1, n - 1))) + size
      BY <1>3, <2>1
    <2>4. ASSUME ~(Len(images) - (n - 1) < MaxImages)
          PROVE  ~((Len(images) - (n - 1)) + 1 <= MaxImages)
      BY <1>1, <1>2, <2>4
    <2> QED
      BY <2>2, <2>3, <2>4 DEF FitsAfter, Fits
  <1>6. (total_bytes - Bytes(SubSeq(images, 1, n))) + size = Bytes(Append(kept, entry))
    BY <1>1, <1>3
  <1> QED
    BY <1>1, <1>4, <1>5, <1>6 DEF size

-----------------------------------------------------------------------------
(* The credentials of a command are never newer than the service, and while a  *)
(* handler works for it they are the service's.                              *)
TokensInv == \A c \in Clients :
  /\ token[c] <= generation
  /\ pc[c] \in Handling => token[c] = generation

(* A name is given out once for as long as the service runs: to one handler,    *)
(* and then to one entry.                                                    *)
Named == {c \in Clients : pc[c] = "named"}
NamesInv ==
  /\ \A c \in Named : name[c].id <= observation_id
  /\ \A i \in DOMAIN inserted : inserted[i].name.id <= observation_id
  /\ \A c, d \in Named : name[c] = name[d] => c = d
  /\ \A i, j \in DOMAIN inserted : inserted[i].name = inserted[j].name => i = j
  /\ \A c \in Named, i \in DOMAIN inserted : name[c] # inserted[i].name

(* What a command was told was stored, unless the service was started again.   *)
Stored(c) == \E i \in DOMAIN inserted : inserted[i] = observation[c]
ToldInv == \A c \in Clients :
  pc[c] = "told" /\ token[c] = generation /\ c \notin outlived => Stored(c)

(* Every observation id was drawn by a command of its own.                   *)
Past == {c \in Clients : pc[c] \notin {"idle", "loaded", "asked", "captured"}}
DrawnInv == /\ observation_id <= Cardinality(Past)
            /\ generation <= restarts + 1

ImageInv == /\ TokensInv /\ NamesInv /\ ToldInv /\ DrawnInv
            /\ StoreIsNewestFitting /\ FetchedIsObserved

-----------------------------------------------------------------------------
(* What was inserted since the i-th entry, now and after a step.             *)
LEMMA FromNewest ==
  ASSUME NEW i
  PROVE  /\ From(i) = Newest(inserted, i) /\ From(i)' = Newest(inserted', i)
         /\ Fits(From(i)) <=> Fits(Newest(inserted, i))
         /\ Fits(From(i))' <=> Fits(Newest(inserted', i))
  BY DEF From, Newest, Fits, Bytes

(* The store after an insertion is still the newest pictures that fit.        *)
LEMMA InsertStores ==
  ASSUME TypeOK, StoreIsNewestFitting, NEW c \in Clients, Insert(c)
  PROVE  /\ images' \in Seq(Entry) /\ Fits(images')
         /\ inserted' = Append(inserted, [name |-> name[c], picture |-> shot[c]])
         /\ StoreIsNewestFitting'
  <1> DEFINE entry == [name |-> name[c], picture |-> shot[c]]
             n == Evictions(entry.picture.bytes)
  <1>1. /\ images \in Seq(Entry) /\ inserted \in Seq(Entry) /\ Len(images) <= MaxImages
        /\ entry \in Entry /\ total_bytes = Bytes(images)
    BY DEF TypeOK, StoreIsNewestFitting, Entry
  <1>2. /\ entry.picture.bytes <= MaxBytes
        /\ images' = Append(Newest(images, n + 1), entry)
        /\ total_bytes' = (total_bytes - Bytes(SubSeq(images, 1, n))) + entry.picture.bytes
        /\ inserted' = Append(inserted, entry)
    BY DEF Insert, Newest
  <1> HIDE DEF entry
  <1>3. PICK k : k = n
    OBVIOUS
  <1> HIDE DEF n
  <1>4. /\ k \in 0..Len(images)
        /\ total_bytes' = Bytes(images')
        /\ Fits(images')
        /\ k > 0 => ~Fits(Append(Newest(images, k), entry))
    BY <1>1, <1>2, <1>3, RoomIsMade DEF n
  <1>5. PICK i \in 1..(Len(inserted) + 1) :
          images = Newest(inserted, i) /\ (i > 1 => ~Fits(Newest(inserted, i - 1)))
    BY DEF StoreIsNewestFitting, From, Newest
  <1>6. /\ i + k \in 1..(Len(inserted) + 1)
        /\ Newest(images, k + 1) = Newest(inserted, i + k)
    BY <1>1, <1>4, <1>5, NewestOfNewest
  <1>7. /\ inserted' \in Seq(Entry) /\ Len(inserted') = Len(inserted) + 1
        /\ \A j \in 1..(Len(inserted) + 1) :
             Newest(inserted', j) = Append(Newest(inserted, j), entry)
    BY <1>1, <1>2, NewestOfLonger
  <1>8. images' = Newest(inserted', i + k)
    BY <1>2, <1>3, <1>6, <1>7
  <1>9. images' \in Seq(Entry)
    <2>1. i + k \in 1..(Len(inserted') + 1)
      BY <1>6, <1>7
    <2> QED
      BY <1>7, <1>8, <2>1, NewestType
  <1>10. ASSUME i + k > 1 PROVE ~Fits(Newest(inserted', (i + k) - 1))
    <2>1. (i + k) - 1 \in 1..(Len(inserted) + 1)
      BY <1>1, <1>4, <1>6, <1>10
    <2>2. Newest(inserted', (i + k) - 1) = Append(Newest(inserted, (i + k) - 1), entry)
      BY <1>7, <2>1
    <2>3. CASE k > 0
      <3>1. k - 1 \in 0..Len(images) /\ (k - 1) + 1 = k /\ i + (k - 1) = (i + k) - 1
        BY <1>4, <2>3
      <3>2. Newest(images, k) = Newest(inserted, (i + k) - 1)
        BY <1>1, <1>5, <3>1, NewestOfNewest
      <3> QED
        BY <1>4, <2>2, <2>3, <3>2
    <2>4. CASE k = 0
      <3>1. (i + k) - 1 = i - 1 /\ i > 1 /\ i - 1 \in 1..(Len(inserted) + 1)
        BY <1>10, <2>1, <2>4
      <3>2. Newest(inserted, i - 1) \in Seq(Entry)
        BY <1>1, <3>1, NewestType
      <3> QED
        BY <1>1, <1>5, <2>2, <3>1, <3>2, FitsWithout
    <2> QED
      BY <1>4, <2>3, <2>4
  <1>11. StoreIsNewestFitting'
    <2>1. /\ i + k \in 1..(Len(inserted') + 1)
          /\ images' = From(i + k)' /\ Fits(From(i + k))'
          /\ i + k > 1 => ~Fits(From((i + k) - 1))'
      BY <1>4, <1>6, <1>7, <1>8, <1>10, FromNewest
    <2> QED
      BY <1>4, <2>1 DEF StoreIsNewestFitting, Bytes
  <1> QED
    BY <1>2, <1>4, <1>9, <1>11 DEF entry

(* What every step but an insertion and a new start leaves of the store.      *)
StoreKept == UNCHANGED <<images, total_bytes, inserted>>

(* No other step touches the store.                                          *)
LEMMA StoreSteps ==
  ASSUME Next
  PROVE  \/ StoreKept
         \/ \E c \in Clients : Insert(c)
         \/ \E next \in {generation, generation + 1} : Restart(next)
  BY DEF Next, StoreKept, Load, Observe, Capture, NameShot, RefuseLarge, Fail, Fetch,
     FetchNothing, FetchRefused, Finished, client, handler, service, history, vars

(* The store is what it should be after every step.                         *)
LEMMA StoreNext ==
  ASSUME TypeOK, StoreIsNewestFitting, [Next]_vars
  PROVE  /\ images' \in Seq(Entry) /\ Len(images') <= MaxImages
         /\ total_bytes' \in 0..MaxBytes /\ inserted' \in Seq(Entry)
         /\ StoreIsNewestFitting'
  <1>1. CASE StoreKept \/ UNCHANGED vars
    <2>1. UNCHANGED <<images, total_bytes, inserted>>
      BY <1>1 DEF StoreKept, vars, service, history
    <2>2. StoreIsNewestFitting'
      <3>1. PICK i \in 1..(Len(inserted) + 1) :
              /\ images = Newest(inserted, i) /\ Fits(Newest(inserted, i))
              /\ i > 1 => ~Fits(Newest(inserted, i - 1))
        BY FromNewest DEF StoreIsNewestFitting
      <3>2. /\ i \in 1..(Len(inserted') + 1)
            /\ images' = From(i)' /\ Fits(From(i))'
            /\ i > 1 => ~Fits(From(i - 1))'
        BY <2>1, <3>1, FromNewest
      <3>3. total_bytes' = Bytes(images')
        BY <2>1 DEF StoreIsNewestFitting
      <3> QED
        BY <3>2, <3>3 DEF StoreIsNewestFitting, Bytes
    <2> QED
      BY <2>1, <2>2 DEF TypeOK
  <1>2. ASSUME NEW c \in Clients, Insert(c)
        PROVE  /\ images' \in Seq(Entry) /\ Len(images') <= MaxImages
               /\ total_bytes' \in 0..MaxBytes /\ inserted' \in Seq(Entry)
               /\ StoreIsNewestFitting'
    <2>1. /\ images' \in Seq(Entry) /\ Fits(images') /\ StoreIsNewestFitting'
          /\ inserted' = Append(inserted, [name |-> name[c], picture |-> shot[c]])
      BY <1>2, InsertStores
    <2>2. inserted' \in Seq(Entry)
      <3>1. [name |-> name[c], picture |-> shot[c]] \in Entry /\ inserted \in Seq(Entry)
        BY DEF TypeOK, Entry
      <3> QED
        BY <2>1, <3>1
    <2>3. total_bytes' = Bytes(images') /\ Bytes(images') \in Nat
      BY <2>1, BytesType DEF StoreIsNewestFitting, Bytes
    <2>4. Len(images') <= MaxImages /\ Bytes(images') <= MaxBytes
      BY <2>1 DEF Fits
    <2> QED
      BY <2>1, <2>2, <2>3, <2>4, LimitsAssumption
  <1>3. ASSUME NEW next \in {generation, generation + 1}, Restart(next)
        PROVE  /\ images' \in Seq(Entry) /\ Len(images') <= MaxImages
               /\ total_bytes' \in 0..MaxBytes /\ inserted' \in Seq(Entry)
               /\ StoreIsNewestFitting'
    <2>1. images' = << >> /\ total_bytes' = 0 /\ inserted' = << >>
      BY <1>3 DEF Restart
    <2>2. Bytes(<< >>) = 0
      <3>1. << >> \in Seq(Entry)
        OBVIOUS
      <3> QED
        BY <3>1, BytesType
    <2>3. StoreIsNewestFitting'
      <3>1. Newest(inserted', 1) = << >>
        BY <2>1 DEF Newest
      <3>2. Fits(<< >>)
        BY <2>2, LimitsAssumption DEF Fits
      <3>3. total_bytes' = Bytes(images')
        BY <2>1, <2>2
      <3>4. /\ 1 \in 1..(Len(inserted') + 1)
            /\ images' = From(1)' /\ Fits(From(1))'
        BY <2>1, <3>1, <3>2, FromNewest
      <3> QED
        BY <3>3, <3>4 DEF StoreIsNewestFitting, Bytes
    <2> QED
      BY <2>1, <2>3, LimitsAssumption
  <1> QED
    BY <1>1, <1>2, <1>3, StoreSteps

-----------------------------------------------------------------------------
(* The commands drawn for so far are counted: drawing an id adds one.          *)
LEMMA DrawnNext ==
  ASSUME TypeOK, DrawnInv, [Next]_vars
  PROVE  DrawnInv'
  <1>0. /\ pc \in [Clients -> {"idle", "loaded", "told", "seen", "missing", "failed"} \cup Handling]
        /\ observation_id \in Nat /\ generation \in Nat /\ restarts \in Nat
    BY ClientsAssumption, FS_CardinalityType DEF TypeOK
  <1>1. IsFiniteSet(Past) /\ Cardinality(Past) \in Nat
    BY ClientsAssumption, FS_Subset, FS_CardinalityType DEF Past
  <1>2. IsFiniteSet(Past')
    BY ClientsAssumption, FS_Subset DEF Past
  <1>3. Past \subseteq Past' => Cardinality(Past) <= Cardinality(Past')
    BY <1>2, FS_Subset
  <1>4. Cardinality(Past') \in Nat
    BY <1>2, FS_CardinalityType
  <1>5. CASE /\ Past \subseteq Past'
             /\ UNCHANGED <<observation_id, generation, restarts>>
    BY <1>0, <1>1, <1>3, <1>4, <1>5 DEF DrawnInv
  <1>6. ASSUME NEW c \in Clients,
               \/ Load(c) \/ Observe(c) \/ Capture(c) \/ Insert(c) \/ RefuseLarge(c)
               \/ Fail(c) \/ Fetch(c) \/ FetchNothing(c) \/ FetchRefused(c)
        PROVE  Past \subseteq Past' /\ UNCHANGED <<observation_id, generation, restarts>>
    <2>1. UNCHANGED <<observation_id, generation, restarts>>
      BY <1>6 DEF Load, Observe, Capture, Insert, RefuseLarge, Fail, Fetch, FetchNothing,
         FetchRefused, service, history
    <2>2. /\ pc[c] \in {"idle", "loaded", "asked", "named", "told"} \cup Handling
          /\ \E step \in {"loaded", "asked", "captured", "told", "seen", "missing", "failed"} :
               /\ pc' = [pc EXCEPT ![c] = step]
               /\ pc[c] \in {"named", "told"} => step \in {"told", "seen", "missing", "failed"}
      BY <1>6 DEF Load, Observe, Capture, Insert, RefuseLarge, Fail, Fetch, FetchNothing,
         FetchRefused, To, Leave, Handling
    <2> QED
      BY <1>0, <2>1, <2>2 DEF Past, Handling
  <1>7. ASSUME NEW c \in Clients, NameShot(c) PROVE DrawnInv'
    <2>1. /\ pc' = [pc EXCEPT ![c] = "named"] /\ pc[c] = "captured"
          /\ observation_id' = observation_id + 1 /\ UNCHANGED <<generation, restarts>>
      BY <1>7 DEF NameShot, To, history
    <2>2. Past' = Past \cup {c} /\ c \notin Past
      BY <1>0, <2>1 DEF Past
    <2>3. Cardinality(Past') = Cardinality(Past) + 1
      BY <1>1, <2>2, FS_AddElement
    <2> QED
      BY <1>0, <1>1, <2>1, <2>3 DEF DrawnInv
  <1>8. ASSUME NEW next \in {generation, generation + 1}, Restart(next) PROVE DrawnInv'
    <2>1. observation_id' = 0 /\ generation' = next /\ restarts' = restarts + 1
      BY <1>8 DEF Restart
    <2> QED
      BY <1>0, <1>4, <2>1 DEF DrawnInv
  <1>9. CASE UNCHANGED vars
    BY <1>0, <1>5, <1>9 DEF vars, client, service, history, Past
  <1> QED
    BY <1>5, <1>6, <1>7, <1>8, <1>9 DEF Next, Finished

(* Every step keeps the types.                                              *)
LEMMA TypeNext ==
  ASSUME TypeOK, DrawnInv, StoreIsNewestFitting, [Next]_vars
  PROVE  TypeOK'
  <1>0. /\ pc \in [Clients -> {"idle", "loaded", "told", "seen", "missing", "failed"} \cup Handling]
        /\ token \in [Clients -> Nat] /\ shot \in [Clients -> Picture]
        /\ name \in [Clients -> Name] /\ observation \in [Clients -> Entry]
        /\ got \in [Clients -> Picture] /\ outlived \subseteq Clients
        /\ generation \in Nat /\ observation_id \in Nat /\ restarts \in 0..MaxRestarts
        /\ generation \in 1..(MaxRestarts + 1) /\ captures \in Nat /\ MaxRestarts \in Nat
    BY ClientsAssumption, LimitsAssumption, FS_CardinalityType DEF TypeOK
  <1>1. /\ images' \in Seq(Entry) /\ Len(images') <= MaxImages
        /\ total_bytes' \in 0..MaxBytes /\ inserted' \in Seq(Entry)
    BY StoreNext
  <1>2. Blank \in Picture /\ Nameless \in Name
    BY DEF Blank, Nameless, Picture, Name
  <1>3. ASSUME observation_id' \in Nat PROVE observation_id' \in 0..Cardinality(Clients)
    <2>1. observation_id' <= Cardinality(Past')
      BY DrawnNext DEF DrawnInv
    <2>2. Past' \subseteq Clients
      BY DEF Past
    <2>3. /\ Cardinality(Past') <= Cardinality(Clients) /\ IsFiniteSet(Past')
          /\ Cardinality(Past') \in Nat /\ Cardinality(Clients) \in Nat
      BY <2>2, ClientsAssumption, FS_Subset, FS_CardinalityType
    <2> QED
      BY <1>3, <2>1, <2>3
  <1> DEFINE Steps == {"idle", "loaded", "told", "seen", "missing", "failed"} \cup Handling
             Good == /\ pc' \in [Clients -> Steps]
                     /\ token' \in [Clients -> Nat] /\ shot' \in [Clients -> Picture]
                     /\ name' \in [Clients -> Name] /\ observation' \in [Clients -> Entry]
                     /\ got' \in [Clients -> Picture] /\ outlived' \subseteq Clients
                     /\ generation' \in 1..(MaxRestarts + 1) /\ observation_id' \in Nat
                     /\ restarts' \in 0..MaxRestarts /\ captures' \in Nat
  <1>4. SUFFICES Good
    BY <1>1, <1>3 DEF TypeOK
  <1>5. ASSUME NEW c \in Clients,
               Load(c) \/ Observe(c) \/ Fetch(c) \/ FetchNothing(c) \/ FetchRefused(c)
        PROVE  Good
    <2>1. pc' \in [Clients -> Steps]
      <3>1. \E step \in Steps : pc' = [pc EXCEPT ![c] = step]
        BY <1>5 DEF Load, Observe, Fetch, FetchNothing, FetchRefused, To, Handling
      <3> QED
        BY <1>0, <3>1
    <2>2. token' \in [Clients -> Nat]
      BY <1>0, <1>5 DEF Load, Observe, Fetch, FetchNothing, FetchRefused
    <2>3. got' \in [Clients -> Picture]
      <3>1. \A i \in DOMAIN images : images[i].picture \in Picture
        <4>1. \A i \in DOMAIN images : images[i] \in Entry
          BY DEF TypeOK
        <4> QED
          BY <4>1 DEF Entry
      <3> QED
        BY <1>0, <1>5, <3>1 DEF Load, Observe, Fetch, FetchNothing, FetchRefused
    <2>4. UNCHANGED <<observation, handler, service, history>>
      BY <1>5 DEF Load, Observe, Fetch, FetchNothing, FetchRefused
    <2> QED
      BY <1>0, <2>1, <2>2, <2>3, <2>4 DEF handler, service, history
  <1>6. ASSUME NEW c \in Clients, Capture(c) \/ NameShot(c) PROVE Good
    <2>1. \E step \in {"captured", "named"} : pc' = [pc EXCEPT ![c] = step]
      BY <1>6 DEF Capture, NameShot, To
    <2>2. shot' \in [Clients -> Picture] /\ captures' \in Nat
      BY <1>0, <1>6 DEF Capture, NameShot, Picture, history
    <2>3. name' \in [Clients -> Name] /\ observation_id' \in Nat
      <3>1. [generation |-> generation, id |-> observation_id + 1] \in Name
        BY <1>0 DEF Name
      <3>2. \/ UNCHANGED <<name, observation_id>>
            \/ /\ name' = [name EXCEPT ![c] =
                            [generation |-> generation, id |-> observation_id + 1]]
               /\ observation_id' = observation_id + 1
        BY <1>6 DEF Capture, NameShot, service
      <3> QED
        BY <1>0, <3>1, <3>2
    <2>4. UNCHANGED <<token, observation, got, outlived, generation, restarts>>
      BY <1>6 DEF Capture, NameShot, service, history
    <2> QED
      BY <1>0, <2>1, <2>2, <2>3, <2>4 DEF Handling
  <1>7. ASSUME NEW c \in Clients, Insert(c) \/ RefuseLarge(c) \/ Fail(c) PROVE Good
    <2>1. \E step \in {"told", "failed"} : Leave(c, step)
      BY <1>7 DEF Insert, RefuseLarge, Fail
    <2>2. observation' \in [Clients -> Entry]
      <3>1. [name |-> name[c], picture |-> shot[c]] \in Entry
        BY <1>0 DEF Entry
      <3> QED
        BY <1>0, <1>7, <3>1 DEF Insert, RefuseLarge, Fail
    <2>3. UNCHANGED <<token, got, generation, observation_id, captures, restarts, outlived>>
      BY <1>7 DEF Insert, RefuseLarge, Fail, service, history
    <2>4. /\ pc' \in [Clients -> {"idle", "loaded", "told", "seen", "missing", "failed"}
                                  \cup Handling]
          /\ shot' \in [Clients -> Picture] /\ name' \in [Clients -> Name]
      BY <1>0, <1>2, <2>1 DEF Leave, To
    <2> QED
      BY <1>0, <2>2, <2>3, <2>4
  <1>8. ASSUME NEW next \in {generation, generation + 1}, Restart(next) PROVE Good
    <2>1. /\ pc' = [c \in Clients |-> IF pc[c] \in Handling THEN "failed" ELSE pc[c]]
          /\ shot' = [c \in Clients |-> Blank] /\ name' = [c \in Clients |-> Nameless]
          /\ generation' = next /\ observation_id' = 0
          /\ restarts < MaxRestarts /\ restarts' = restarts + 1
          /\ UNCHANGED <<token, observation, got, captures>>
      BY <1>8 DEF Restart, Ends
    <2>2. outlived' \subseteq Clients
      BY <1>0, <1>8 DEF Restart
    <2>3. generation <= restarts + 1
      BY DEF DrawnInv
    <2>4. generation' \in 1..(MaxRestarts + 1) /\ restarts' \in 0..MaxRestarts
      BY <1>0, <2>1, <2>3
    <2> QED
      BY <1>0, <1>2, <2>1, <2>2, <2>4
  <1>9. CASE UNCHANGED vars
    BY <1>0, <1>9 DEF vars, client, handler, service, history
  <1> QED
    BY <1>5, <1>6, <1>7, <1>8, <1>9 DEF Next, Finished

-----------------------------------------------------------------------------
(* A handler works under the generation its command's credentials are of: the  *)
(* end of the service ends its handlers.                                     *)
LEMMA TokensNext ==
  ASSUME TypeOK, TokensInv, [Next]_vars
  PROVE  TokensInv'
  <1>0. /\ pc \in [Clients -> {"idle", "loaded", "told", "seen", "missing", "failed"} \cup Handling]
        /\ token \in [Clients -> Nat] /\ generation \in Nat
    BY DEF TypeOK
  <1> USE DEF TokensInv, Handling
  <1>1. ASSUME NEW c \in Clients, Load(c) \/ Observe(c) PROVE TokensInv'
    BY <1>0, <1>1 DEF Load, Observe, To, handler, service
  <1>2. ASSUME NEW c \in Clients,
               \/ Capture(c) \/ NameShot(c) \/ Insert(c) \/ RefuseLarge(c) \/ Fail(c)
               \/ Fetch(c) \/ FetchNothing(c) \/ FetchRefused(c)
        PROVE  TokensInv'
    <2>1. /\ UNCHANGED <<token, generation>>
          /\ \E step : /\ pc' = [pc EXCEPT ![c] = step]
                       /\ step \in Handling => pc[c] \in Handling
      BY <1>2 DEF Capture, NameShot, Insert, RefuseLarge, Fail, Fetch, FetchNothing,
         FetchRefused, To, Leave, service
    <2> QED
      BY <1>0, <2>1
  <1>3. ASSUME NEW next \in {generation, generation + 1}, Restart(next) PROVE TokensInv'
    <2>1. /\ UNCHANGED token /\ generation' = next
          /\ \A c \in Clients : pc'[c] \notin Handling
      BY <1>0, <1>3 DEF Restart, Ends
    <2> QED
      BY <1>0, <2>1
  <1>4. CASE UNCHANGED vars
    BY <1>4 DEF vars, client, service
  <1> QED
    BY <1>1, <1>2, <1>3, <1>4 DEF Next, Finished

(* Names are drawn one at a time and counted up, whatever the order in which    *)
(* the pictures are stored.                                                  *)
LEMMA NamesNext ==
  ASSUME TypeOK, NamesInv, [Next]_vars
  PROVE  NamesInv'
  <1>0. /\ pc \in [Clients -> {"idle", "loaded", "told", "seen", "missing", "failed"} \cup Handling]
        /\ name \in [Clients -> Name] /\ generation \in Nat /\ observation_id \in Nat
        /\ \A c \in Clients : name[c].id \in Nat
        /\ inserted \in Seq(Entry) /\ \A i \in DOMAIN inserted : inserted[i].name.id \in Nat
    <2>1. \A n \in Name : n.id \in Nat
      BY DEF Name
    <2>2. \A entry \in Entry : entry.name \in Name
      BY DEF Entry
    <2>3. inserted \in Seq(Entry) /\ \A i \in DOMAIN inserted : inserted[i] \in Entry
      BY DEF TypeOK
    <2> QED
      BY <2>1, <2>2, <2>3, ClientsAssumption, FS_CardinalityType DEF TypeOK
  <1>1. ASSUME Named' \subseteq Named, \A c \in Named' : name'[c] = name[c],
               UNCHANGED <<inserted, observation_id>>
        PROVE  NamesInv'
    BY <1>1 DEF NamesInv
  <1>2. ASSUME NEW c \in Clients,
               Load(c) \/ Observe(c) \/ Capture(c) \/ Fetch(c) \/ FetchNothing(c) \/ FetchRefused(c)
        PROVE  NamesInv'
    <2>1. /\ UNCHANGED <<name, inserted, observation_id>>
          /\ \E step : pc' = [pc EXCEPT ![c] = step] /\ step # "named"
      BY <1>2 DEF Load, Observe, Capture, Fetch, FetchNothing, FetchRefused, To, handler,
         service, history
    <2> QED
      BY <1>0, <1>1, <2>1 DEF Named
  <1>3. ASSUME NEW c \in Clients, RefuseLarge(c) \/ Fail(c) PROVE NamesInv'
    <2>1. /\ pc' = [pc EXCEPT ![c] = "failed"] /\ name' = [name EXCEPT ![c] = Nameless]
          /\ UNCHANGED <<inserted, observation_id>>
      BY <1>3 DEF RefuseLarge, Fail, Leave, To, service, history
    <2> QED
      BY <1>0, <1>1, <2>1 DEF Named
  <1>4. ASSUME NEW c \in Clients, NameShot(c) PROVE NamesInv'
    <2> DEFINE new == [generation |-> generation, id |-> observation_id + 1]
    <2>1. /\ pc' = [pc EXCEPT ![c] = "named"] /\ name' = [name EXCEPT ![c] = new]
          /\ observation_id' = observation_id + 1 /\ UNCHANGED inserted /\ pc[c] = "captured"
      BY <1>4 DEF NameShot, To, history
    <2>2. Named' = Named \cup {c} /\ c \notin Named
      BY <1>0, <2>1 DEF Named
    <2>3. name'[c] = new /\ \A d \in Named : name'[d] = name[d] /\ name[d].id <= observation_id
      BY <1>0, <2>1, <2>2 DEF Named, NamesInv
    <2>4. new.id = observation_id + 1
      OBVIOUS
    <2> HIDE DEF new
    <2>5. /\ \A d \in Named : name[d] # new
          /\ \A i \in DOMAIN inserted : /\ inserted[i].name # new
                                        /\ inserted[i].name.id <= observation_id
      BY <1>0, <2>3, <2>4 DEF NamesInv, Named
    <2>6. \A d \in Named' : name'[d].id <= observation_id'
      BY <1>0, <2>1, <2>2, <2>3, <2>4 DEF Named
    <2>7. \A i \in DOMAIN inserted : inserted[i].name.id <= observation_id'
      BY <1>0, <2>1, <2>5
    <2> QED
      BY <2>1, <2>2, <2>3, <2>5, <2>6, <2>7 DEF NamesInv
  <1>5. ASSUME NEW c \in Clients, Insert(c) PROVE NamesInv'
    <2> DEFINE entry == [name |-> name[c], picture |-> shot[c]]
               last  == Len(inserted) + 1
    <2>1. /\ pc' = [pc EXCEPT ![c] = "told"] /\ pc[c] = "named"
          /\ name' = [name EXCEPT ![c] = Nameless] /\ UNCHANGED observation_id
          /\ inserted' = Append(inserted, entry) /\ entry.name = name[c]
      BY <1>5 DEF Insert, Leave, To
    <2>2. c \in Named /\ Named' = Named \ {c} /\ \A d \in Named' : name'[d] = name[d]
      BY <1>0, <2>1 DEF Named
    <2>3. entry \in Entry
      BY DEF TypeOK, Entry
    <2> HIDE DEF entry
    <2>4. /\ DOMAIN inserted' = DOMAIN inserted \cup {last} /\ last \notin DOMAIN inserted
          /\ inserted'[last] = entry /\ \A i \in DOMAIN inserted : inserted'[i] = inserted[i]
      BY <1>0, <2>1, <2>3
    <2> HIDE DEF last
    <2> QED
      BY <2>1, <2>2, <2>4 DEF NamesInv
  <1>6. ASSUME NEW next \in {generation, generation + 1}, Restart(next) PROVE NamesInv'
    <2>1. inserted' = << >> /\ \A c \in Clients : pc'[c] # "named"
      BY <1>0, <1>6 DEF Restart, Ends, Handling
    <2> QED
      BY <2>1 DEF NamesInv, Named
  <1>7. CASE UNCHANGED vars
    BY <1>1, <1>7 DEF vars, client, handler, service, history, Named
  <1> QED
    BY <1>2, <1>3, <1>4, <1>5, <1>6, <1>7 DEF Next, Finished

-----------------------------------------------------------------------------
(* What a command was told stays on record until the service ends.            *)
LEMMA ToldNext ==
  ASSUME TypeOK, TokensInv, ToldInv, [Next]_vars
  PROVE  ToldInv'
  <1>0. /\ pc \in [Clients -> {"idle", "loaded", "told", "seen", "missing", "failed"} \cup Handling]
        /\ token \in [Clients -> Nat] /\ observation \in [Clients -> Entry]
        /\ generation \in Nat /\ inserted \in Seq(Entry)
    BY DEF TypeOK
  <1>1. ASSUME UNCHANGED <<generation, inserted, outlived>>,
               \A d \in Clients : pc'[d] = "told" =>
                 pc[d] = "told" /\ token'[d] = token[d] /\ observation'[d] = observation[d]
        PROVE  ToldInv'
    BY <1>1 DEF ToldInv, Stored
  <1>2. ASSUME NEW c \in Clients,
               \/ Load(c) \/ Observe(c) \/ Capture(c) \/ NameShot(c) \/ RefuseLarge(c)
               \/ Fail(c) \/ Fetch(c) \/ FetchNothing(c) \/ FetchRefused(c)
        PROVE  ToldInv'
    <2>1. UNCHANGED <<generation, inserted, outlived>>
      BY <1>2 DEF Load, Observe, Capture, NameShot, RefuseLarge, Fail, Fetch, FetchNothing,
         FetchRefused, service, history
    <2>2. \E step : pc' = [pc EXCEPT ![c] = step] /\ step # "told"
      BY <1>2 DEF Load, Observe, Capture, NameShot, RefuseLarge, Fail, Fetch, FetchNothing,
         FetchRefused, To, Leave
    <2>3. \A d \in Clients \ {c} : token'[d] = token[d] /\ observation'[d] = observation[d]
      BY <1>0, <1>2 DEF Load, Observe, Capture, NameShot, RefuseLarge, Fail, Fetch,
         FetchNothing, FetchRefused
    <2> QED
      BY <1>0, <1>1, <2>1, <2>2, <2>3
  <1>3. ASSUME NEW c \in Clients, Insert(c) PROVE ToldInv'
    <2> DEFINE entry == [name |-> name[c], picture |-> shot[c]]
    <2>1. /\ pc' = [pc EXCEPT ![c] = "told"] /\ observation' = [observation EXCEPT ![c] = entry]
          /\ inserted' = Append(inserted, entry) /\ UNCHANGED <<token, generation, outlived>>
      BY <1>3 DEF Insert, Leave, To
    <2>2. entry \in Entry
      BY DEF TypeOK, Entry
    <2> HIDE DEF entry
    <2>3. /\ Len(inserted) + 1 \in DOMAIN inserted' /\ inserted'[Len(inserted) + 1] = entry
          /\ \A i \in DOMAIN inserted : i \in DOMAIN inserted' /\ inserted'[i] = inserted[i]
      BY <1>0, <2>1, <2>2
    <2>4. observation'[c] = entry /\ \A d \in Clients \ {c} : /\ observation'[d] = observation[d]
                                                             /\ pc'[d] = pc[d]
      BY <1>0, <2>1
    <2>5. Stored(c)'
      BY <2>3, <2>4 DEF Stored
    <2>6. \A d \in Clients \ {c} : Stored(d) => Stored(d)'
      BY <2>3, <2>4 DEF Stored
    <2> QED
      BY <2>1, <2>4, <2>5, <2>6 DEF ToldInv
  <1>4. ASSUME NEW next \in {generation, generation + 1}, Restart(next) PROVE ToldInv'
    <2>1. /\ generation' = next /\ UNCHANGED token
          /\ \A d \in Clients : pc'[d] = "told" => pc[d] = "told"
      BY <1>0, <1>4 DEF Restart, Ends
    <2>2. CASE next = generation
      <3>1. \A d \in Clients : pc'[d] = "told" => d \in outlived'
        BY <1>4, <2>1, <2>2 DEF Restart
      <3> QED
        BY <3>1 DEF ToldInv
    <2>3. CASE next = generation + 1
      <3>1. \A d \in Clients : token[d] # generation + 1
        BY <1>0 DEF TokensInv
      <3> QED
        BY <2>1, <2>3, <3>1 DEF ToldInv
    <2> QED
      BY <2>2, <2>3
  <1>5. CASE UNCHANGED vars
    BY <1>1, <1>5 DEF vars, client, service, history
  <1> QED
    BY <1>2, <1>3, <1>4, <1>5 DEF Next, Finished

(* The entries in the store are the last of those that were inserted.         *)
LEMMA KeptWasInserted ==
  ASSUME TypeOK, NEW i \in 1..(Len(inserted) + 1), images = From(i)
  PROVE  /\ \A j \in DOMAIN images : /\ (i - 1) + j \in DOMAIN inserted
                                     /\ images[j] = inserted[(i - 1) + j]
         /\ \A k \in DOMAIN inserted : k >= i =>
              /\ (k + 1) - i \in DOMAIN images
              /\ images[(k + 1) - i] = inserted[k]
  <1>1. /\ inserted \in Seq(Entry) /\ images \in Seq(Entry)
        /\ Len(images) = (Len(inserted) + 1) - i
        /\ \A j \in 1..((Len(inserted) + 1) - i) : images[j] = inserted[(i - 1) + j]
    <2>1. inserted \in Seq(Entry) /\ images = Newest(inserted, i)
      BY FromNewest DEF TypeOK
    <2> QED
      BY <2>1, NewestType
  <1>2. ASSUME NEW j \in DOMAIN images
        PROVE  (i - 1) + j \in DOMAIN inserted /\ images[j] = inserted[(i - 1) + j]
    BY <1>1
  <1>3. ASSUME NEW k \in DOMAIN inserted, k >= i
        PROVE  (k + 1) - i \in DOMAIN images /\ images[(k + 1) - i] = inserted[k]
    <2>1. Len(inserted) \in Nat /\ k \in 1..Len(inserted)
      BY <1>1
    <2>2. (k + 1) - i \in 1..((Len(inserted) + 1) - i) /\ (i - 1) + ((k + 1) - i) = k
      BY <1>3, <2>1
    <2>3. (k + 1) - i \in DOMAIN images
      BY <1>1, <2>2
    <2> QED
      BY <1>1, <2>2, <2>3
  <1> QED
    BY <1>2, <1>3

(* A name leads to the picture it was given to: no other has it.               *)
LEMMA FetchedNext ==
  ASSUME TypeOK, NamesInv, ToldInv, StoreIsNewestFitting, FetchedIsObserved, [Next]_vars
  PROVE  FetchedIsObserved'
  <1>0. /\ pc \in [Clients -> {"idle", "loaded", "told", "seen", "missing", "failed"} \cup Handling]
        /\ observation \in [Clients -> Entry] /\ got \in [Clients -> Picture]
    BY DEF TypeOK
  <1>1. ASSUME outlived \subseteq outlived',
               \A d \in Clients : pc'[d] = "seen" =>
                 pc[d] = "seen" /\ got'[d] = got[d] /\ observation'[d] = observation[d]
        PROVE  FetchedIsObserved'
    BY <1>1 DEF FetchedIsObserved
  <1>2. ASSUME NEW c \in Clients, Fetch(c) PROVE FetchedIsObserved'
    <2>1. PICK i \in DOMAIN images : Found(c, i) /\ got' = [got EXCEPT ![c] = images[i].picture]
      BY <1>2 DEF Fetch
    <2>2. /\ pc[c] = "told" /\ token[c] = generation /\ pc' = [pc EXCEPT ![c] = "seen"]
          /\ UNCHANGED <<observation, outlived>>
      BY <1>2 DEF Fetch, To, history
    <2>3. CASE c \notin outlived
      <3>1. PICK k \in DOMAIN inserted : inserted[k] = observation[c]
        BY <2>2, <2>3 DEF ToldInv, Stored
      <3>2. PICK first \in 1..(Len(inserted) + 1) : images = From(first)
        BY DEF StoreIsNewestFitting
      <3>3. (first - 1) + i \in DOMAIN inserted /\ images[i] = inserted[(first - 1) + i]
        BY <2>1, <3>2, KeptWasInserted
      <3>4. images[i] = observation[c]
        BY <2>1, <3>1, <3>3 DEF Found, NamesInv
      <3> QED
        BY <1>0, <2>1, <2>2, <3>4 DEF FetchedIsObserved
    <2>4. CASE c \in outlived
      BY <1>0, <2>1, <2>2, <2>4 DEF FetchedIsObserved
    <2> QED
      BY <2>3, <2>4
  <1>3. ASSUME NEW c \in Clients,
               \/ Load(c) \/ Observe(c) \/ Capture(c) \/ NameShot(c) \/ Insert(c)
               \/ RefuseLarge(c) \/ Fail(c) \/ FetchNothing(c) \/ FetchRefused(c)
        PROVE  FetchedIsObserved'
    <2>1. UNCHANGED <<got, outlived>>
      BY <1>3 DEF Load, Observe, Capture, NameShot, Insert, RefuseLarge, Fail, FetchNothing,
         FetchRefused, history
    <2>2. \E step : pc' = [pc EXCEPT ![c] = step] /\ step # "seen"
      BY <1>3 DEF Load, Observe, Capture, NameShot, Insert, RefuseLarge, Fail, FetchNothing,
         FetchRefused, To, Leave
    <2>3. \A d \in Clients \ {c} : observation'[d] = observation[d]
      BY <1>0, <1>3 DEF Load, Observe, Capture, NameShot, Insert, RefuseLarge, Fail,
         FetchNothing, FetchRefused
    <2> QED
      BY <1>0, <1>1, <2>1, <2>2, <2>3
  <1>4. ASSUME NEW next \in {generation, generation + 1}, Restart(next)
        PROVE  FetchedIsObserved'
    <2>1. /\ UNCHANGED <<got, observation>> /\ outlived \subseteq outlived'
          /\ \A d \in Clients : pc'[d] = "seen" => pc[d] = "seen"
      BY <1>0, <1>4 DEF Restart, Ends
    <2> QED
      BY <1>1, <2>1
  <1>5. CASE UNCHANGED vars
    BY <1>1, <1>5 DEF vars, client, history
  <1> QED
    BY <1>2, <1>3, <1>4, <1>5 DEF Next, Finished

-----------------------------------------------------------------------------
(* Nothing is stored, named or told when the service starts.                  *)
LEMMA ImageInit ==
  ASSUME Init
  PROVE  TypeOK /\ ImageInv
  <1>1. << >> \in Seq(Entry) /\ Len(<< >>) = 0
    OBVIOUS
  <1>2. Bytes(<< >>) = 0
    BY <1>1, BytesType
  <1>3. /\ MaxImages \in Nat \ {0} /\ MaxBytes \in Nat /\ MaxRestarts \in Nat
        /\ Cardinality(Clients) \in Nat
    BY LimitsAssumption, ClientsAssumption, FS_CardinalityType
  <1>4. Blank \in Picture /\ Nameless \in Name /\ NoEntry \in Entry
    BY DEF Blank, Nameless, NoEntry, Picture, Name, Entry
  <1>5. TypeOK
    BY <1>1, <1>3, <1>4 DEF Init, TypeOK
  <1>6. StoreIsNewestFitting
    <2>1. From(1) = << >> /\ 1 \in 1..(Len(inserted) + 1)
      BY DEF Init, From
    <2>2. Fits(From(1))
      BY <1>1, <1>2, <1>3, <2>1 DEF Fits
    <2> QED
      BY <1>2, <2>1, <2>2 DEF Init, StoreIsNewestFitting
  <1>7. TokensInv /\ NamesInv /\ ToldInv /\ FetchedIsObserved
    BY <1>1 DEF Init, TokensInv, NamesInv, Named, ToldInv, FetchedIsObserved, Handling
  <1>8. DrawnInv
    <2>1. Past \subseteq Clients
      BY DEF Past
    <2>2. Cardinality(Past) \in Nat
      BY <2>1, ClientsAssumption, FS_Subset, FS_CardinalityType
    <2> QED
      BY <2>2 DEF Init, DrawnInv
  <1> QED
    BY <1>5, <1>6, <1>7, <1>8 DEF ImageInv

(* The inductive invariant of the image store: what a name, a token and the   *)
(* entries of the store say of each other.                                   *)
THEOREM ImageInvCorrect == Spec => [](TypeOK /\ ImageInv)
  <1>1. Init => TypeOK /\ ImageInv
    BY ImageInit
  <1>2. TypeOK /\ ImageInv /\ [Next]_vars => (TypeOK /\ ImageInv)'
    BY TypeNext, TokensNext, NamesNext, ToldNext, DrawnNext, StoreNext, FetchedNext
       DEF ImageInv
  <1> QED
    BY <1>1, <1>2, PTL DEF Spec

(* No variable leaves its type: in particular the byte count of the store is    *)
(* never negative and never above its limit.                                 *)
THEOREM TypesCorrect == Spec => []TypeOK
  BY ImageInvCorrect, PTL

(* The store always holds the longest run of the newest pictures that fits.    *)
THEOREM StoreCorrect == Spec => []StoreIsNewestFitting
  <1>1. TypeOK /\ ImageInv => StoreIsNewestFitting
    BY DEF ImageInv
  <1> QED
    BY <1>1, ImageInvCorrect, PTL

(* A client is given the picture it was told of, unless the service was started *)
(* again with the generation it had.                                         *)
THEOREM FetchedCorrect == Spec => []FetchedIsObserved
  <1>1. TypeOK /\ ImageInv => FetchedIsObserved
    BY DEF ImageInv
  <1> QED
    BY <1>1, ImageInvCorrect, PTL

-----------------------------------------------------------------------------
(* A name that is in the store is found there.                              *)
LEMMA StoredIsFound ==
  ASSUME TypeOK, NEW c, NEW j \in DOMAIN images, images[j].name = observation[c].name
  PROVE  \E i \in DOMAIN images : Found(c, i)
  <1> DEFINE T == {i \in DOMAIN images : images[i].name = observation[c].name}
  <1>1. DOMAIN images = 1..Len(images) /\ Len(images) \in Nat
    BY DEF TypeOK
  <1>2. T \subseteq Nat /\ j \in T
    BY <1>1
  <1> HIDE DEF T
  <1>3. PICK i \in T : \A m \in T : i <= m
    BY <1>2, Least
  <1>4. i \in 1..Len(images) /\ images[i].name = observation[c].name
    BY <1>1, <1>3 DEF T
  <1>5. ASSUME NEW m \in 1..(i - 1) PROVE images[m].name # observation[c].name
    <2>1. m \in DOMAIN images /\ m \notin T
      BY <1>1, <1>2, <1>3, <1>4
    <2> QED
      BY <2>1 DEF T
  <1> QED
    BY <1>1, <1>4, <1>5 DEF Found

(* A picture that was stored and is not found is older than what fits.         *)
LEMMA MissedDoesNotFit ==
  ASSUME TypeOK, StoreIsNewestFitting, NEW c, NEW k \in DOMAIN inserted,
         inserted[k] = observation[c], \A i \in DOMAIN images : ~Found(c, i)
  PROVE  ~Fits(From(k))
  <1>1. PICK i \in 1..(Len(inserted) + 1) :
          images = From(i) /\ (i > 1 => ~Fits(From(i - 1)))
    BY DEF StoreIsNewestFitting
  <1>2. inserted \in Seq(Entry) /\ k \in 1..Len(inserted) /\ Len(inserted) \in Nat
    BY DEF TypeOK
  <1>3. k < i
    <2>1. ASSUME k >= i PROVE FALSE
      <3>1. (k + 1) - i \in DOMAIN images /\ images[(k + 1) - i] = inserted[k]
        BY <1>1, <2>1, KeptWasInserted
      <3> QED
        BY <3>1, StoredIsFound
    <2> QED
      BY <1>1, <1>2, <2>1
  <1>4. ASSUME Fits(From(k)) PROVE FALSE
    <2> DEFINE n == (i - 1) - k
               newer == Newest(inserted, k)
    <2>1. k \in 1..(Len(inserted) + 1) /\ n \in 0..((Len(inserted) + 1) - k) /\ k + n = i - 1
      BY <1>1, <1>2, <1>3
    <2>2. newer \in Seq(Entry) /\ Len(newer) = (Len(inserted) + 1) - k /\ Fits(newer)
      BY <1>2, <1>4, <2>1, NewestType, FromNewest
    <2> HIDE DEF n
    <2>3. Newest(newer, n + 1) = Newest(inserted, i - 1)
      BY <1>2, <2>1, <2>2, NewestOfNewest
    <2> HIDE DEF newer
    <2>4. n + 1 \in 1..(Len(newer) + 1)
      BY <1>2, <2>1, <2>2
    <2>5. Fits(Newest(newer, n + 1))
      BY <2>2, <2>4, FitsShorter
    <2>6. i > 1
      BY <1>1, <1>2, <1>3
    <2> QED
      BY <1>1, <2>3, <2>5, <2>6, FromNewest
  <1> QED
    BY <1>4

(* The picture a client is refused no longer fits among the newer ones, or the  *)
(* service was started again under the client.                               *)
LEMMA MissingNext ==
  ASSUME TypeOK, ImageInv, [Next]_vars, NEW c \in Clients, pc[c] # "missing",
         pc'[c] = "missing"
  PROVE  \/ c \in outlived
         \/ \E i \in DOMAIN inserted : inserted[i] = observation[c] /\ ~Fits(From(i))
  <1>0. pc \in [Clients -> {"idle", "loaded", "told", "seen", "missing", "failed"} \cup Handling]
    BY DEF TypeOK
  <1>1. ASSUME FetchNothing(c), c \notin outlived
        PROVE  \E i \in DOMAIN inserted : inserted[i] = observation[c] /\ ~Fits(From(i))
    <2>1. pc[c] = "told" /\ token[c] = generation /\ \A i \in DOMAIN images : ~Found(c, i)
      BY <1>1 DEF FetchNothing
    <2>2. PICK k \in DOMAIN inserted : inserted[k] = observation[c]
      BY <1>1, <2>1 DEF ImageInv, ToldInv, Stored
    <2> QED
      BY <2>1, <2>2, MissedDoesNotFit DEF ImageInv
  <1>2. ASSUME NEW d \in Clients, FetchNothing(d) PROVE c = d
    BY <1>0, <1>2 DEF FetchNothing, To
  <1>3. ASSUME NEW d \in Clients,
               \/ Load(d) \/ Observe(d) \/ Capture(d) \/ NameShot(d) \/ Insert(d)
               \/ RefuseLarge(d) \/ Fail(d) \/ Fetch(d) \/ FetchRefused(d)
        PROVE  FALSE
    <2>1. CASE Load(d) \/ Observe(d) \/ Capture(d) \/ NameShot(d)
      BY <1>0, <2>1 DEF Load, Observe, Capture, NameShot, To
    <2>2. CASE Insert(d) \/ RefuseLarge(d) \/ Fail(d)
      BY <1>0, <2>2 DEF Insert, RefuseLarge, Fail, Leave, To
    <2>3. CASE Fetch(d) \/ FetchRefused(d)
      BY <1>0, <2>3 DEF Fetch, FetchRefused, To
    <2> QED
      BY <1>3, <2>1, <2>2, <2>3
  <1>4. ASSUME NEW next, Restart(next) PROVE FALSE
    BY <1>4 DEF Restart, Ends
  <1>5. CASE UNCHANGED vars
    BY <1>5 DEF vars, client
  <1> QED
    BY <1>1, <1>2, <1>3, <1>4, <1>5 DEF Next, Finished

(* No client is refused the picture of its observation for any other reason.    *)
THEOREM MissingCorrect == Spec => MissingWasOvertaken
  <1>1. ASSUME TypeOK, ImageInv, [Next]_vars
        PROVE  [\A c \in Clients : pc[c] # "missing" /\ pc'[c] = "missing" =>
                  \/ c \in outlived
                  \/ \E i \in DOMAIN inserted :
                       inserted[i] = observation[c] /\ ~Fits(From(i))]_vars
    BY <1>1, MissingNext
  <1> QED
    BY <1>1, ImageInvCorrect, PTL DEF Spec, MissingWasOvertaken

=============================================================================
