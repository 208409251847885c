-------------------------- MODULE PrimitiveProofs --------------------------
(***************************************************************************)
(* The two primitives that the services share: the ring of pipes and       *)
(* terminals, and the gate in front of a provider's worker.                *)
(***************************************************************************)
EXTENDS AsyncGate, Ring, TLAPS

(***************************************************************************)
(* lxp_ring_read and lxp_ring_write move bytes in order, for every         *)
(* capacity, position, count and length: TLC checks pipes with a ring of   *)
(* two bytes, these theorems cover the rings of the real configuration.    *)
(***************************************************************************)

\* A ring record, whatever other fields (of a pipe, of a pty) it carries.
RingRecord(r) ==
    /\ r = [f \in DOMAIN r |-> r[f]]
    /\ {"buf", "rpos", "wpos", "count"} \subseteq DOMAIN r

WrapOnce(x, cap) == IF x < cap THEN x ELSE x - cap

\* A position that has moved by at most the capacity wraps at most once.
LEMMA Wrap ==
    ASSUME NEW cap \in Nat \ {0}, NEW x \in 0 .. 2 * cap - 1
    PROVE  x % cap = IF x < cap THEN x ELSE x - cap
<1>1. CASE x < cap BY <1>1, SMT
<1>2. CASE x >= cap BY <1>2, SMT
<1> QED BY <1>1, <1>2

\* Advancing by k of the ct bytes that start at rp.
LEMMA Advance ==
    ASSUME NEW cap \in Nat \ {0}, NEW rp \in 0 .. cap - 1, NEW ct \in 0 .. cap, NEW k \in 0 .. ct
    PROVE  /\ (rp + k) % cap \in 0 .. cap - 1
           /\ (((rp + k) % cap) + (ct - k)) % cap = (rp + ct) % cap
           /\ \A i \in 1 .. ct - k :
                 (((rp + k) % cap) + i - 1) % cap = (rp + (k + i) - 1) % cap
<1> DEFINE q == (rp + k) % cap
           a == rp + k
           b == rp + ct
<1>1. a \in 0 .. 2 * cap - 1 /\ b \in 0 .. 2 * cap - 1 OBVIOUS
<1>2. a = rp + k /\ b = rp + ct /\ q = a % cap OBVIOUS
<1> HIDE DEF a, b, q
<1>3. a % cap = IF a < cap THEN a ELSE a - cap BY <1>1, Wrap, Zenon
<1>4. b % cap = IF b < cap THEN b ELSE b - cap BY <1>1, Wrap, Zenon
<1>5. q \in 0 .. cap - 1 /\ q = IF a < cap THEN a ELSE a - cap
  BY <1>1, <1>2, <1>3
<1>6. (q + (ct - k)) % cap = b % cap
  <2> DEFINE c == q + (ct - k)
  <2>1. c \in 0 .. 2 * cap - 1 BY <1>5
  <2>2. c = q + (ct - k) OBVIOUS
  <2> HIDE DEF c
  <2>3. c % cap = IF c < cap THEN c ELSE c - cap BY <2>1, Wrap, Zenon
  <2>4. c % cap = b % cap BY <2>2, <2>3, <1>2, <1>4, <1>5
  <2> QED BY <2>4 DEF c
<1>7. ASSUME NEW i \in 1 .. ct - k
      PROVE  (q + i - 1) % cap = (rp + (k + i) - 1) % cap
  <2> DEFINE c == q + i - 1
             d == rp + (k + i) - 1
  <2>1. c \in 0 .. 2 * cap - 1 /\ d \in 0 .. 2 * cap - 1 BY <1>5
  <2>2. c = q + i - 1 /\ d = rp + (k + i) - 1 OBVIOUS
  <2> HIDE DEF c, d
  <2>3. c % cap = IF c < cap THEN c ELSE c - cap BY <2>1, Wrap, Zenon
  <2>4. d % cap = IF d < cap THEN d ELSE d - cap BY <2>1, Wrap, Zenon
  <2>5. (IF c < cap THEN c ELSE c - cap) = (IF d < cap THEN d ELSE d - cap)
    <3>1. CASE a < cap BY <3>1, <2>2, <1>1, <1>2, <1>5
    <3>2. CASE ~(a < cap) BY <3>2, <2>2, <1>1, <1>2, <1>5
    <3> QED BY <3>1, <3>2
  <2>6. c % cap = d % cap BY <2>3, <2>4, <2>5
  <2> QED BY <2>6 DEF c, d
<1> QED BY <1>5, <1>6, <1>7 DEF q, a, b

\* Positions stay inside the storage.
LEMMA Inside ==
    ASSUME NEW cap \in Nat \ {0}, NEW rp \in 0 .. cap - 1, NEW i \in 1 .. cap
    PROVE  (rp + i - 1) % cap \in 0 .. cap - 1
<1> DEFINE c == rp + i - 1
<1>1. c \in 0 .. 2 * cap - 1 OBVIOUS
<1> HIDE DEF c
<1>2. c % cap = IF c < cap THEN c ELSE c - cap BY <1>1, Wrap, Zenon
<1>3. c % cap \in 0 .. cap - 1 BY <1>1, <1>2
<1> QED BY <1>3 DEF c

\* The i-th byte from position p, when n1 of k bytes fit before the storage
\* ends: the two memcpys find it where the modulus says.
LEMMA TwoParts ==
    ASSUME NEW cap \in Nat \ {0}, NEW p \in 0 .. cap - 1, NEW k \in 0 .. cap, NEW i \in 1 .. k,
           NEW n1 \in 0 .. k, n1 <= cap - p, n1 = k \/ n1 = cap - p
    PROVE  (p + i - 1) % cap = IF i <= n1 THEN p + i - 1 ELSE i - n1 - 1
<1> DEFINE c == p + i - 1
<1>1. c \in 0 .. 2 * cap - 1 OBVIOUS
<1>2. c = p + i - 1 OBVIOUS
<1> HIDE DEF c
<1>3. c % cap = IF c < cap THEN c ELSE c - cap BY <1>1, Wrap, Zenon
<1>4. (IF c < cap THEN c ELSE c - cap) = IF i <= n1 THEN p + i - 1 ELSE i - n1 - 1
  <2>1. CASE i <= n1 BY <2>1, <1>2
  <2>2. CASE ~(i <= n1) BY <2>2, <1>2
  <2> QED BY <2>1, <2>2
<1>5. c % cap = IF i <= n1 THEN p + i - 1 ELSE i - n1 - 1 BY <1>3, <1>4
<1> QED BY <1>5 DEF c

\* The bytes buffered are where a write does not put any: none of the ct
\* positions from rp is in the two parts written from wp.
LEMMA Untouched ==
    ASSUME NEW cap \in Nat \ {0}, NEW rp \in 0 .. cap - 1, NEW ct \in 0 .. cap,
           NEW wp \in 0 .. cap - 1, wp = WrapOnce(rp + ct, cap),
           NEW k \in 0 .. cap - ct, NEW n1 \in 0 .. k, n1 <= cap - wp,
           n1 = k \/ n1 = cap - wp, NEW i \in 1 .. ct
    PROVE  LET j == (rp + i - 1) % cap
           IN  j \notin wp .. wp + n1 - 1 /\ ~(j < k - n1)
<1> DEFINE c == rp + i - 1
           j == (rp + i - 1) % cap
<1>1. c \in 0 .. 2 * cap - 1 OBVIOUS
<1>2. c = rp + i - 1 /\ j = c % cap OBVIOUS
<1> HIDE DEF c, j
<1>3. j = IF c < cap THEN c ELSE c - cap BY <1>1, <1>2, Wrap, Zenon
<1>4. j \in 0 .. cap - 1 BY <1>1, <1>3
<1>5. n1 \in 0 .. k /\ (n1 = k \/ n1 = cap - wp) /\ n1 <= cap - wp OBVIOUS
<1>6. j \notin wp .. wp + n1 - 1 /\ ~(j < k - n1)
  <2>1. CASE rp + ct < cap BY <2>1, <1>1, <1>2, <1>3, <1>4, <1>5 DEF WrapOnce
  <2>2. CASE ~(rp + ct < cap) BY <2>2, <1>1, <1>2, <1>3, <1>4, <1>5 DEF WrapOnce
  <2> QED BY <2>1, <2>2
<1> QED BY <1>6 DEF j

\* A function from 1 .. n to S is a sequence of length n.
LEMMA IsSequence ==
    ASSUME NEW S, NEW n \in Nat, NEW f, f \in [1 .. n -> S]
    PROVE  f \in Seq(S) /\ Len(f) = n
OBVIOUS

\* Two sequences with the same length and elements are equal.
LEMMA SameSequence ==
    ASSUME NEW S, NEW f \in Seq(S), NEW g \in Seq(S), Len(f) = Len(g),
           \A i \in 1 .. Len(f) : f[i] = g[i]
    PROVE  f = g
OBVIOUS

\* The content of a ring is a sequence of count bytes.
LEMMA ContentIsSequence ==
    ASSUME NEW cap \in Nat \ {0}, NEW Byte, NEW r, RingIsOK(r, cap, Byte)
    PROVE  /\ Content(r, cap) \in Seq(Byte) /\ Len(Content(r, cap)) = r.count
           /\ \A i \in 1 .. r.count : Content(r, cap)[i] = r.buf[(r.rpos + i - 1) % cap]
<1> DEFINE buf == r.buf
           rp == r.rpos
           ct == r.count
           f == [i \in 1 .. ct |-> buf[(rp + i - 1) % cap]]
<1>1. buf \in [0 .. cap - 1 -> Byte] /\ rp \in 0 .. cap - 1 /\ ct \in 0 .. cap
  BY DEF RingIsOK
<1>2. Content(r, cap) = f
  BY DEF Content
<1> HIDE DEF buf, rp, ct
<1>3. ASSUME NEW i \in 1 .. ct PROVE buf[(rp + i - 1) % cap] \in Byte
  <2>1. i \in 1 .. cap BY <1>1
  <2>2. (rp + i - 1) % cap \in 0 .. cap - 1 BY <1>1, <2>1, Inside, SMTT(30)
  <2> DEFINE j == (rp + i - 1) % cap
  <2>3. j \in 0 .. cap - 1 BY <2>2
  <2> HIDE DEF j
  <2>4. buf[j] \in Byte BY <2>3, <1>1
  <2> QED BY <2>4 DEF j
<1>4. f \in [1 .. ct -> Byte]
  BY <1>3
<1>5. f \in Seq(Byte) /\ Len(f) = ct
  <2> HIDE DEF f
  <2>1. ct \in Nat BY <1>1
  <2> QED BY <1>4, <2>1, IsSequence, SMTT(30)
<1>6. \A i \in 1 .. ct : f[i] = buf[(rp + i - 1) % cap]
  OBVIOUS
<1> HIDE DEF f
<1> QED BY <1>2, <1>5, <1>6 DEF buf, rp, ct

\* The fields of the ring that lxp_ring_read leaves.
LEMMA ReadFields ==
    ASSUME NEW r, RingRecord(r), NEW cap, NEW len
    PROVE  /\ ReadRing(r, cap, len).buf = r.buf
           /\ ReadRing(r, cap, len).wpos = r.wpos
           /\ ReadRing(r, cap, len).rpos = (r.rpos + ReadLen(r, len)) % cap
           /\ ReadRing(r, cap, len).count = r.count - ReadLen(r, len)
BY DEF ReadRing, RingRecord

\* lxp_ring_read leaves a well-formed ring.
LEMMA ReadLeavesRing ==
    ASSUME NEW cap \in Nat \ {0}, NEW Byte, NEW r, RingRecord(r), RingIsOK(r, cap, Byte),
           NEW len \in Nat
    PROVE  RingIsOK(ReadRing(r, cap, len), cap, Byte)
<1> DEFINE q == ReadRing(r, cap, len)
           rp == r.rpos
           ct == r.count
           wp == r.wpos
           k == ReadLen(r, len)
<1>1. /\ r.buf \in [0 .. cap - 1 -> Byte] /\ rp \in 0 .. cap - 1
      /\ wp \in 0 .. cap - 1 /\ ct \in 0 .. cap /\ wp = (rp + ct) % cap
  BY DEF RingIsOK
<1>2. k \in 0 .. ct
  BY <1>1 DEF ReadLen, Lesser
<1>3. q.buf = r.buf /\ q.wpos = wp /\ q.rpos = (rp + k) % cap /\ q.count = ct - k
  BY ReadFields, SMTT(30)
<1> HIDE DEF q, rp, ct, wp, k
<1>4. (rp + k) % cap \in 0 .. cap - 1 /\ (((rp + k) % cap) + (ct - k)) % cap = (rp + ct) % cap
  BY <1>1, <1>2, Advance, SMTT(30)
<1>5. ct - k \in 0 .. cap
  BY <1>1, <1>2
<1>6. RingIsOK(q, cap, Byte)
  BY <1>1, <1>3, <1>4, <1>5, Zenon DEF RingIsOK
<1> QED BY <1>6 DEF q

\* The bytes lxp_ring_read copies, by position.
LEMMA ReadBytesAt ==
    ASSUME NEW cap \in Nat \ {0}, NEW Byte, NEW r, RingIsOK(r, cap, Byte), NEW len \in Nat
    PROVE  /\ ReadBytes(r, cap, len) \in Seq(Byte)
           /\ Len(ReadBytes(r, cap, len)) = ReadLen(r, len)
           /\ \A i \in 1 .. ReadLen(r, len) :
                 ReadBytes(r, cap, len)[i] = r.buf[(r.rpos + i - 1) % cap]
<1> DEFINE buf == r.buf
           rp == r.rpos
           ct == r.count
           k == ReadLen(r, len)
           n1 == Lesser(cap - rp, k)
           f == [i \in 1 .. k |-> IF i <= n1 THEN buf[rp + i - 1] ELSE buf[i - n1 - 1]]
<1>1. buf \in [0 .. cap - 1 -> Byte] /\ rp \in 0 .. cap - 1 /\ ct \in 0 .. cap
  BY DEF RingIsOK
<1>2. k \in 0 .. cap /\ n1 \in 0 .. k /\ n1 <= cap - rp /\ (n1 = k \/ n1 = cap - rp)
  BY <1>1 DEF ReadLen, Lesser
<1>3. ReadBytes(r, cap, len) = f
  BY DEF ReadBytes
<1> HIDE DEF buf, rp, ct, k, n1
<1>4. ASSUME NEW i \in 1 .. k
      PROVE  /\ (IF i <= n1 THEN buf[rp + i - 1] ELSE buf[i - n1 - 1]) = buf[(rp + i - 1) % cap]
             /\ buf[(rp + i - 1) % cap] \in Byte
  <2> DEFINE j == (rp + i - 1) % cap
  <2>1. j = IF i <= n1 THEN rp + i - 1 ELSE i - n1 - 1
    BY <1>1, <1>2, TwoParts, SMTT(30)
  <2>2. j \in 0 .. cap - 1
    <3>1. i \in 1 .. cap BY <1>2
    <3> QED BY <1>1, <3>1, Inside, SMTT(30)
  <2> HIDE DEF j
  <2>3. buf[j] \in Byte BY <2>2, <1>1
  <2>4. (IF i <= n1 THEN buf[rp + i - 1] ELSE buf[i - n1 - 1]) = buf[j]
    BY <2>1, Zenon
  <2> QED BY <2>3, <2>4 DEF j
<1>5. f \in [1 .. k -> Byte]
  <2>1. \A i \in 1 .. k : (IF i <= n1 THEN buf[rp + i - 1] ELSE buf[i - n1 - 1]) \in Byte
    BY <1>4, Zenon
  <2> QED BY <2>1, Zenon
<1>6. \A i \in 1 .. k : f[i] = buf[(rp + i - 1) % cap]
  <2>1. \A i \in 1 .. k : f[i] = IF i <= n1 THEN buf[rp + i - 1] ELSE buf[i - n1 - 1]
    BY Zenon
  <2> HIDE DEF f
  <2> QED BY <2>1, <1>4, Zenon
<1>7. f \in Seq(Byte) /\ Len(f) = k
  <2> HIDE DEF f
  <2>1. k \in Nat BY <1>2
  <2> QED BY <1>5, <2>1, IsSequence, SMTT(30)
<1> HIDE DEF f
<1> QED BY <1>3, <1>6, <1>7 DEF buf, rp, k

\* lxp_ring_read returns the oldest bytes, as many as asked for and present,
\* and leaves the others in their order.
THEOREM ReadTakesOldest ==
    ASSUME NEW cap \in Nat \ {0}, NEW Byte, NEW r, RingRecord(r), RingIsOK(r, cap, Byte),
           NEW len \in Nat
    PROVE  /\ RingIsOK(ReadRing(r, cap, len), cap, Byte)
           /\ Content(r, cap) = ReadBytes(r, cap, len) \o Content(ReadRing(r, cap, len), cap)
<1>0. /\ ReadBytes(r, cap, len) \in Seq(Byte)
      /\ Len(ReadBytes(r, cap, len)) = ReadLen(r, len)
      /\ \A i \in 1 .. ReadLen(r, len) :
            ReadBytes(r, cap, len)[i] = r.buf[(r.rpos + i - 1) % cap]
  BY ReadBytesAt, SMTT(30)
<1> DEFINE q == ReadRing(r, cap, len)
           A == ReadBytes(r, cap, len)
           B == Content(q, cap)
           C == Content(r, cap)
           rp == r.rpos
           ct == r.count
           k == ReadLen(r, len)
           buf == r.buf
<1>1. rp \in 0 .. cap - 1 /\ ct \in 0 .. cap /\ k \in 0 .. ct
  BY DEF RingIsOK, ReadLen, Lesser
<1>2. RingIsOK(q, cap, Byte)
  BY ReadLeavesRing, SMTT(30)
<1>3. q.buf = buf /\ q.rpos = (rp + k) % cap /\ q.count = ct - k
  BY ReadFields, SMTT(30)
<1>4. C \in Seq(Byte) /\ Len(C) = ct /\ \A i \in 1 .. ct : C[i] = buf[(rp + i - 1) % cap]
  BY ContentIsSequence, SMTT(30)
<1>5. A \in Seq(Byte) /\ Len(A) = k /\ \A i \in 1 .. k : A[i] = buf[(rp + i - 1) % cap]
  BY <1>0, Zenon
<1> HIDE DEF q
<1>6. /\ B \in Seq(Byte) /\ Len(B) = q.count
      /\ \A i \in 1 .. q.count : B[i] = q.buf[(q.rpos + i - 1) % cap]
  BY <1>2, ContentIsSequence, SMTT(30)
<1> HIDE DEF A, B, C, rp, ct, k, buf
<1>7. B \in Seq(Byte) /\ Len(B) = ct - k
  BY <1>3, <1>6, Zenon
<1>8. \A i \in 1 .. ct - k : B[i] = buf[(rp + (k + i) - 1) % cap]
  <2>1. \A i \in 1 .. ct - k : B[i] = buf[(((rp + k) % cap) + i - 1) % cap]
    BY <1>3, <1>6, Zenon
  <2>2. \A i \in 1 .. ct - k : (((rp + k) % cap) + i - 1) % cap = (rp + (k + i) - 1) % cap
    BY <1>1, Advance, SMTT(30)
  <2> QED BY <2>1, <2>2, Zenon
<1>9. A \o B \in Seq(Byte) /\ Len(A \o B) = ct
  <2>1. A \in Seq(Byte) /\ Len(A) = k BY <1>5, Zenon
  <2> QED BY <2>1, <1>1, <1>7
<1>10. ASSUME NEW i \in 1 .. ct
       PROVE  C[i] = (A \o B)[i]
  <2>1. CASE i <= k
    <3>1. (A \o B)[i] = A[i] BY <2>1, <1>1, <1>5, <1>7
    <3>2. i \in 1 .. k BY <2>1, <1>1
    <3> QED BY <3>1, <3>2, <1>4, <1>5, Zenon
  <2>2. CASE ~(i <= k)
    <3> DEFINE n == i - k
    <3>1. n \in 1 .. ct - k BY <2>2, <1>1
    <3>2. (A \o B)[i] = B[n] BY <2>2, <1>1, <1>5, <1>7
    <3>3. k + n = i BY <1>1
    <3> HIDE DEF n
    <3>4. B[n] = buf[(rp + (k + n) - 1) % cap] BY <3>1, <1>8, Zenon
    <3> QED BY <3>2, <3>3, <3>4, <1>4, Zenon
  <2> QED BY <2>1, <2>2, Zenon
<1>11. C = A \o B
  BY <1>4, <1>9, <1>10, SameSequence, SMTT(30)
<1> QED BY <1>2, <1>11 DEF q, A, B, C

\* The storage lxp_ring_write leaves, after its two memcpys.
Stored(buf, cap, wp, k, n1, src) ==
    [j \in 0 .. cap - 1 |-> IF j \in wp .. wp + n1 - 1 THEN src[j - wp + 1]
                           ELSE IF j < k - n1 THEN src[n1 + j + 1]
                           ELSE buf[j]]

\* The fields of the ring that lxp_ring_write leaves.
LEMMA WriteFields ==
    ASSUME NEW r, RingRecord(r), NEW cap, NEW src, NEW k, k = WriteLen(r, cap, src),
           NEW n1, n1 = Lesser(cap - r.wpos, k)
    PROVE  /\ WriteRing(r, cap, src).buf = Stored(r.buf, cap, r.wpos, k, n1, src)
           /\ WriteRing(r, cap, src).wpos = (r.wpos + k) % cap
           /\ WriteRing(r, cap, src).rpos = r.rpos
           /\ WriteRing(r, cap, src).count = r.count + k
BY DEF WriteRing, RingRecord, Stored

\* The storage keeps its type, and holds the source from the write position.
LEMMA StoredSource ==
    ASSUME NEW cap \in Nat \ {0}, NEW Byte, NEW wp \in 0 .. cap - 1,
           NEW buf \in [0 .. cap - 1 -> Byte], NEW src \in Seq(Byte),
           NEW k \in 0 .. cap, k <= Len(src),
           NEW n1 \in 0 .. k, n1 <= cap - wp, n1 = k \/ n1 = cap - wp
    PROVE  /\ Stored(buf, cap, wp, k, n1, src) \in [0 .. cap - 1 -> Byte]
           /\ \A i \in 1 .. k : Stored(buf, cap, wp, k, n1, src)[(wp + i - 1) % cap] = src[i]
<1>0. ASSUME NEW i \in 1 .. k
      PROVE  (wp + i - 1) % cap = IF i <= n1 THEN wp + i - 1 ELSE i - n1 - 1
  BY TwoParts, SMTT(30)
<1> DEFINE g == Stored(buf, cap, wp, k, n1, src)
           e(j) == IF j \in wp .. wp + n1 - 1 THEN src[j - wp + 1]
                   ELSE IF j < k - n1 THEN src[n1 + j + 1] ELSE buf[j]
<1>1. n1 \in 0 .. k /\ (n1 = k \/ n1 = cap - wp) /\ n1 <= cap - wp
  OBVIOUS
<1>2. g = [j \in 0 .. cap - 1 |-> e(j)]
  BY DEF Stored
<1>3. ASSUME NEW j \in 0 .. cap - 1 PROVE e(j) \in Byte
  <2>1. CASE j \in wp .. wp + n1 - 1
    <3>1. j - wp + 1 \in 1 .. Len(src) BY <2>1, <1>1
    <3>2. src[j - wp + 1] \in Byte BY <3>1
    <3> QED BY <2>1, <3>2
  <2>2. CASE j \notin wp .. wp + n1 - 1 /\ j < k - n1
    <3>1. n1 + j + 1 \in 1 .. Len(src) BY <2>2, <1>1
    <3>2. src[n1 + j + 1] \in Byte BY <3>1
    <3> QED BY <2>2, <3>2
  <2>3. CASE j \notin wp .. wp + n1 - 1 /\ ~(j < k - n1)
    BY <2>3
  <2> QED BY <2>1, <2>2, <2>3
<1>4. \A j \in 0 .. cap - 1 : g[j] = e(j)
  BY <1>2, Zenon
<1>5. g \in [0 .. cap - 1 -> Byte]
  BY <1>2, <1>3, Zenon
<1>6. ASSUME NEW i \in 1 .. k PROVE g[(wp + i - 1) % cap] = src[i]
  <2> DEFINE j == (wp + i - 1) % cap
  <2>1. j = IF i <= n1 THEN wp + i - 1 ELSE i - n1 - 1
    BY <1>0, Zenon
  <2>2. j \in 0 .. cap - 1
    <3>1. i \in 1 .. cap OBVIOUS
    <3> QED BY <3>1, Inside, SMTT(30)
  <2> HIDE DEF j, g
  <2>3. g[j] = e(j) BY <2>2, <1>4, Zenon
  <2>4. e(j) = src[i]
    <3>1. CASE i <= n1
      <4>1. j \in wp .. wp + n1 - 1 /\ j - wp + 1 = i BY <3>1, <2>1, <1>1
      <4> QED BY <4>1, Zenon
    <3>2. CASE ~(i <= n1)
      <4>1. j = i - n1 - 1 BY <3>2, <2>1
      <4>2. j \notin wp .. wp + n1 - 1 /\ j < k - n1 /\ n1 + j + 1 = i BY <3>2, <4>1, <1>1
      <4> QED BY <4>2, Zenon
    <3> QED BY <3>1, <3>2
  <2> HIDE DEF e
  <2>5. g[j] = src[i] BY <2>3, <2>4
  <2> QED BY <2>5 DEF j
<1> QED BY <1>5, <1>6

\* The storage g has the ct bytes from rp where buf has them.
Keeps(g, buf, rp, ct, cap) == \A i \in 1 .. ct : g[(rp + i - 1) % cap] = buf[(rp + i - 1) % cap]

\* The bytes buffered before stay where they were.
LEMMA StoredKeeps ==
    ASSUME NEW cap \in Nat \ {0}, NEW Byte, NEW rp \in 0 .. cap - 1, NEW ct \in 0 .. cap,
           NEW wp \in 0 .. cap - 1, wp = WrapOnce(rp + ct, cap),
           NEW buf, NEW src,
           NEW k \in 0 .. cap - ct, NEW n1 \in 0 .. k, n1 <= cap - wp,
           n1 = k \/ n1 = cap - wp
    PROVE  Keeps(Stored(buf, cap, wp, k, n1, src), buf, rp, ct, cap)
<1> SUFFICES ASSUME NEW i \in 1 .. ct
             PROVE  Stored(buf, cap, wp, k, n1, src)[(rp + i - 1) % cap] = buf[(rp + i - 1) % cap]
  BY Zenon DEF Keeps
<1> DEFINE j == (rp + i - 1) % cap
           g == Stored(buf, cap, wp, k, n1, src)
<1>1. j \in 0 .. cap - 1
  <2>1. i \in 1 .. cap OBVIOUS
  <2> QED BY <2>1, Inside, SMTT(30)
<1>2. j \notin wp .. wp + n1 - 1 /\ ~(j < k - n1)
  BY Untouched, Zenon
<1> HIDE DEF j
<1>3. g[j] = IF j \in wp .. wp + n1 - 1 THEN src[j - wp + 1]
             ELSE IF j < k - n1 THEN src[n1 + j + 1] ELSE buf[j]
  BY <1>1, Zenon DEF Stored
<1> HIDE DEF g
<1>4. g[j] = buf[j]
  BY <1>2, <1>3, Zenon
<1> QED BY <1>4 DEF g, j

\* lxp_ring_write adds what fits of the source behind the bytes buffered.
THEOREM WriteAppends ==
    ASSUME NEW cap \in Nat \ {0}, NEW Byte, NEW r, RingRecord(r), RingIsOK(r, cap, Byte),
           NEW src \in Seq(Byte)
    PROVE  /\ RingIsOK(WriteRing(r, cap, src), cap, Byte)
           /\ Content(WriteRing(r, cap, src), cap)
                  = Content(r, cap) \o SubSeq(src, 1, WriteLen(r, cap, src))
<1> DEFINE k == WriteLen(r, cap, src)
           n1 == Lesser(cap - r.wpos, k)
           rp == r.rpos
           wp == r.wpos
           ct == r.count
           buf == r.buf
           q == WriteRing(r, cap, src)
           g == Stored(buf, cap, wp, k, n1, src)
           C == Content(r, cap)
           D == Content(q, cap)
           E == SubSeq(src, 1, k)
<1>1. /\ rp \in 0 .. cap - 1 /\ wp \in 0 .. cap - 1 /\ ct \in 0 .. cap
      /\ wp = (rp + ct) % cap /\ buf \in [0 .. cap - 1 -> Byte]
  BY DEF RingIsOK
<1>2. /\ k \in 0 .. cap - ct /\ k \in 0 .. cap /\ k <= Len(src)
      /\ n1 \in 0 .. k /\ n1 <= cap - wp /\ (n1 = k \/ n1 = cap - wp)
  BY <1>1, SMTT(30) DEF WriteLen, Lesser
<1>t. /\ rp \in 0 .. cap - 1 /\ wp \in 0 .. cap - 1 /\ ct \in 0 .. cap
      /\ buf \in [0 .. cap - 1 -> Byte]
  BY <1>1, Zenon
<1>3. q.buf = g /\ q.wpos = (wp + k) % cap /\ q.rpos = rp /\ q.count = ct + k
  BY WriteFields, SMTT(30)
<1>4. C \in Seq(Byte) /\ Len(C) = ct /\ \A i \in 1 .. ct : C[i] = buf[(rp + i - 1) % cap]
  BY ContentIsSequence, SMTT(30)
<1>5. E \in Seq(Byte) /\ Len(E) = k /\ \A i \in 1 .. k : E[i] = src[i]
  <2> HIDE DEF k
  <2> QED BY <1>2
<1> HIDE DEF k, n1, rp, wp, ct, buf, q
<1>6. g \in [0 .. cap - 1 -> Byte] /\ \A i \in 1 .. k : g[(wp + i - 1) % cap] = src[i]
  BY <1>t, <1>2, StoredSource, SMTT(60)
<1>7. \A i \in 1 .. ct : g[(rp + i - 1) % cap] = buf[(rp + i - 1) % cap]
  <2> DEFINE b == rp + ct
  <2>1. b \in 0 .. 2 * cap - 1 /\ b = rp + ct BY <1>t
  <2>2. wp = b % cap BY <1>1, Zenon
  <2> HIDE DEF b
  <2>3. b % cap = IF b < cap THEN b ELSE b - cap BY <2>1, Wrap, ZenonT(30)
  <2>4. wp = WrapOnce(b, cap) BY <2>2, <2>3, Zenon DEF WrapOnce
  <2>5. wp = WrapOnce(rp + ct, cap) BY <2>1, <2>4, Zenon
  <2>6. Keeps(g, buf, rp, ct, cap) BY <2>5, <1>t, <1>2, StoredKeeps, SMTT(30)
  <2> QED BY <2>6, Zenon DEF Keeps
<1> HIDE DEF g
<1>8. /\ (wp + k) % cap \in 0 .. cap - 1 /\ (wp + k) % cap = (rp + (ct + k)) % cap
      /\ \A i \in 1 .. k : (wp + i - 1) % cap = (rp + (ct + i) - 1) % cap
  <2> DEFINE t == ct + k
  <2>1. t \in 0 .. cap /\ ct \in 0 .. t /\ t - ct = k BY <1>1, <1>2
  <2> HIDE DEF t
  <2>2. /\ (((rp + ct) % cap) + (t - ct)) % cap = (rp + t) % cap
        /\ \A i \in 1 .. t - ct : (((rp + ct) % cap) + i - 1) % cap = (rp + (ct + i) - 1) % cap
    BY <1>1, <2>1, Advance, ZenonT(60)
  <2>3. (rp + t) % cap \in 0 .. cap - 1
    <3>1. t \in 0 .. t BY <2>1
    <3> QED BY <1>1, <2>1, <3>1, Advance, SMTT(30)
  <2>4. (wp + k) % cap = (rp + t) % cap
    BY <2>1, <2>2, <1>1, Zenon
  <2>5. \A i \in 1 .. k : (wp + i - 1) % cap = (rp + (ct + i) - 1) % cap
    BY <2>1, <2>2, <1>1, Zenon
  <2> QED BY <2>3, <2>4, <2>5, Zenon DEF t
<1>9. ct + k \in 0 .. cap BY <1>1, <1>2
<1>10. RingIsOK(q, cap, Byte)
  BY <1>1, <1>3, <1>6, <1>8, <1>9, Zenon DEF RingIsOK
<1>11. /\ D \in Seq(Byte) /\ Len(D) = q.count
       /\ \A i \in 1 .. q.count : D[i] = q.buf[(q.rpos + i - 1) % cap]
  <2> HIDE DEF C, E
  <2>1. cap \in Nat \ {0} OBVIOUS
  <2> QED BY <1>10, <2>1, ContentIsSequence, SMTT(30)
<1> HIDE DEF C, D, E
<1>12. /\ D \in Seq(Byte) /\ Len(D) = ct + k
       /\ \A i \in 1 .. ct + k : D[i] = g[(rp + i - 1) % cap]
  BY <1>3, <1>11, Zenon
<1>13. C \o E \in Seq(Byte) /\ Len(C \o E) = ct + k
  <2>1. C \in Seq(Byte) /\ Len(C) = ct BY <1>4, Zenon
  <2>2. E \in Seq(Byte) /\ Len(E) = k BY <1>5, Zenon
  <2>3. C \o E \in Seq(Byte) /\ Len(C \o E) = Len(C) + Len(E) BY <2>1, <2>2, SMTT(30)
  <2> QED BY <2>1, <2>2, <2>3, Zenon
<1>14. ASSUME NEW i \in 1 .. ct + k
       PROVE  D[i] = (C \o E)[i]
  <2>0. C \in Seq(Byte) /\ Len(C) = ct /\ E \in Seq(Byte) /\ Len(E) = k BY <1>4, <1>5, Zenon
  <2>1. CASE i <= ct
    <3>1. (C \o E)[i] = C[i] BY <2>0, <2>1, <1>t
    <3>2. i \in 1 .. ct BY <2>1, <1>1
    <3> QED BY <3>1, <3>2, <1>4, <1>7, <1>12, Zenon
  <2>2. CASE ~(i <= ct)
    <3> DEFINE n == i - ct
    <3>1. n \in 1 .. k BY <2>2, <1>1, <1>2
    <3>2. (C \o E)[i] = E[n] BY <2>0, <2>2, <1>t, <3>1, SMTT(60)
    <3>3. ct + n = i BY <1>1
    <3> HIDE DEF n
    <3>4. E[n] = src[n] BY <3>1, <1>5, Zenon
    <3>5. src[n] = g[(wp + n - 1) % cap] BY <3>1, <1>6, Zenon
    <3>6. (wp + n - 1) % cap = (rp + (ct + n) - 1) % cap BY <3>1, <1>8, Zenon
    <3> QED BY <3>2, <3>3, <3>4, <3>5, <3>6, <1>12, Zenon
  <2> QED BY <2>1, <2>2, Zenon
<1>15. D = C \o E
  BY <1>12, <1>13, <1>14, SameSequence, SMTT(30)
<1> QED BY <1>10, <1>15 DEF q, C, D, E, k

-----------------------------------------------------------------------------
(***************************************************************************)
(* The safety of the async gate for any number of owners, tags and         *)
(* requests.  The inductive invariant says, for each value of the state    *)
(* word, which of the two tasks owns the request: this is what the         *)
(* compare-and-swap operations of lxp_async_gate.c hand over.              *)
(***************************************************************************)

\* The coordinator is past the decision to retire the request itself.
CRetires == cpc \in {"cleanup", "dropped", "clear", "publish"}

\* What the coordinator knows at each point of a gate call.
CoordKnows ==
    /\ cpc = "enter" /\ seen = "IDLE" => state = "IDLE" /\ req < MaxReq
    /\ cpc = "enter" /\ seen = "COMPLETE" => state = "COMPLETE"
    /\ cpc \in {"enter", "identify"} => selected # 0 /\ ctag # 0
    /\ cpc = "identify" => state = "IDLE" /\ req < MaxReq /\ owner # 0
    /\ cpc = "submit" => state = "ACTIVE"
    /\ cpc \in {"collect", "collected"} =>
           state = "COMPLETE" /\ owner = selected /\ tag = ctag
    /\ cpc = "cas" => seen \in {"ACTIVE", "COMPLETE"} /\ state \in {seen, "COMPLETE"}
    /\ CRetires => state = "RETIRING"

\* Who owns the request in each state of the gate.
Ownership ==
    /\ state = "IDLE" => job = 0 /\ wpc = "wait"
    /\ state = "ACTIVE" =>
           /\ owner # 0 /\ req \notin dead
           /\ IF cpc = "submit" THEN job = 0 /\ wpc = "wait"
                                ELSE job = req /\ wpc \in {"wait", "work"}
    /\ state = "COMPLETE" =>
           /\ owner # 0 /\ req \notin dead /\ res = req
           /\ job = 0 /\ wpc = "wait"
    /\ state = "RETIRING" =>
           \/ CRetires /\ job = 0 /\ wpc = "wait"
           \/ ~CRetires /\ job = req /\ wpc \in {"wait", "work", "drop"}
           \/ ~CRetires /\ job = 0 /\ wpc \in {"dropped", "clear", "publish"}

Numbering ==
    /\ dead \subseteq 1..req
    /\ state # "IDLE" => req > 0

GateInv == TypeOK /\ CoordKnows /\ Ownership /\ Numbering

\* The gate starts idle, with nothing selected and no worker job.
LEMMA InitGateInv == Init => GateInv
  BY GateAssumption DEF Init, GateInv, TypeOK, CoordKnows, Ownership, Numbering,
     CRetires, States, CPcs, WPcs

\* Every step of the coordinator and of the worker keeps the invariant.
LEMMA NextGateInv == GateInv /\ [Next]_vars => GateInv'
  <1> SUFFICES ASSUME GateInv, [Next]_vars PROVE GateInv'
    OBVIOUS
  <1> USE GateAssumption DEF GateInv, TypeOK, CoordKnows, Ownership, Numbering,
          CRetires, States, CPcs, WPcs, gate, coord, ext, vars, CGoto, WGoto
  <1>1. ASSUME NEW o \in Owners \cup {0}, Select(o) PROVE GateInv'
    BY <1>1 DEF Select
  <1>2. ASSUME NEW t \in Tags, EnterLoad(t) PROVE GateInv'
    BY <1>2 DEF EnterLoad
  <1>3. CASE EnterBlock
    BY <1>3 DEF EnterBlock
  <1>4. CASE EnterCollect
    BY <1>4 DEF EnterCollect
  <1>5. CASE EnterIdentity
    BY <1>5 DEF EnterIdentity
  <1>6. CASE EnterActive
    BY <1>6 DEF EnterActive
  <1>7. CASE Submit
    BY <1>7 DEF Submit
  <1>0. req > 0 => /\ dead \cup {req} \subseteq 1..req
                   /\ dead \cup {req} \subseteq 1..MaxReq
    OBVIOUS
  <1>8. CASE Abort
    <2>1. state = "ACTIVE" /\ req > 0 /\ state' = "RETIRING" /\ dead' = dead \cup {req}
      BY <1>8 DEF Abort
    <2>2. dead' \subseteq 1..req' /\ dead' \subseteq 1..MaxReq
      BY <1>0, <1>8, <2>1 DEF Abort
    <2> QED
      BY <1>8, <2>1, <2>2 DEF Abort
  <1>9. CASE Collect
    BY <1>9 DEF Collect
  <1>10. CASE Collected
    BY <1>10 DEF Collected
  <1>11. ASSUME NEW o \in Owners \cup {0}, CancelLoad(o) PROVE GateInv'
    BY <1>11, SMTT(30) DEF CancelLoad
  <1>12. CASE CancelCas
    <2>1. CASE state = seen
      <3>1. req > 0 /\ state' = "RETIRING" /\ dead' = dead \cup {req}
        BY <1>12, <2>1 DEF CancelCas
      <3>2. dead' \subseteq 1..req' /\ dead' \subseteq 1..MaxReq
        BY <1>0, <1>12, <3>1 DEF CancelCas
      <3> QED
        BY <1>12, <2>1, <3>1, <3>2 DEF CancelCas
    <2>2. CASE state # seen
      BY <1>12, <2>2, Zenon DEF CancelCas
    <2> QED
      BY <2>1, <2>2
  <1>13. CASE CleanUp
    BY <1>13 DEF CleanUp
  <1>14. CASE CDropped
    BY <1>14 DEF CDropped
  <1>15. CASE CClear
    BY <1>15 DEF CClear
  <1>16. CASE CPublish
    BY <1>16 DEF CPublish
  <1>17. CASE Take
    BY <1>17 DEF Take
  <1>18. CASE Complete
    BY <1>18 DEF Complete
  <1>19. CASE Drop
    BY <1>19 DEF Drop
  <1>20. CASE WDropped
    BY <1>20 DEF WDropped
  <1>21. CASE WClear
    BY <1>21 DEF WClear
  <1>22. CASE WPublish
    BY <1>22 DEF WPublish
  <1>23. CASE UNCHANGED vars
    BY <1>23
  <1> QED
    BY <1>1, <1>2, <1>3, <1>4, <1>5, <1>6, <1>7, <1>8, <1>9, <1>10, <1>11, <1>12,
       <1>13, <1>14, <1>15, <1>16, <1>17, <1>18, <1>19, <1>20, <1>21, <1>22, <1>23, ZenonT(60)
       DEF Next, CoordStep, CoordCall, Worker

\* So it holds in every reachable state of the gate.
LEMMA GateInvHolds == Spec => []GateInv
  BY InitGateInv, NextGateInv, PTL DEF Spec

\* The gate's variables keep their types in every behaviour of lxp_async_gate.c.
THEOREM GateTypes == Spec => []TypeOK
  <1>1. GateInv => TypeOK
    BY DEF GateInv
  <1> QED
    BY <1>1, GateInvHolds, PTL

\* lxp_async_gate_enter answers SUBMIT only when the worker is done with the
\* previous request, whatever the order of completion and cancellation was.
THEOREM GateWorkerExclusive == Spec => []WorkerExclusive
  <1>1. GateInv => WorkerExclusive
    BY DEF GateInv, CoordKnows, Ownership, WorkerExclusive
  <1> QED
    BY <1>1, GateInvHolds, PTL

\* COLLECT delivers a result only to the owner and operation that asked for it,
\* and never the result of a cancelled or rolled-back request.
THEOREM GateCollectsOwnResult == Spec => []CollectsOwnResult
  <1>1. GateInv => CollectsOwnResult
    BY DEF GateInv, CoordKnows, Ownership, CollectsOwnResult
  <1> QED
    BY <1>1, GateInvHolds, PTL

\* The two tasks are never both inside gate_retire, nor does one read the
\* identity while the other clears it.
THEOREM GateIdentityExclusive == Spec => []IdentityExclusive
  <1>1. GateInv => IdentityExclusive
    BY DEF GateInv, TypeOK, States, WPcs, CoordKnows, Ownership, CRetires, IdentityExclusive
  <1> QED
    BY <1>1, GateInvHolds, PTL

\* The two together: one user at a time of the buffers and of the identity.
THEOREM GateIsExclusive == Spec => []GateExclusive
  <1>1. WorkerExclusive /\ IdentityExclusive => GateExclusive
    BY DEF GateExclusive
  <1> QED
    BY <1>1, GateWorkerExclusive, GateIdentityExclusive, PTL

\* A published completion, or a request the worker is serving, is live.
THEOREM GateOfferIsLive == Spec => []OfferIsLive
  <1>1. GateInv => OfferIsLive
    BY DEF GateInv, Ownership, OfferIsLive
  <1> QED
    BY <1>1, GateInvHolds, PTL

=============================================================================
