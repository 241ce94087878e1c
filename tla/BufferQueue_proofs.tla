------------------------- MODULE BufferQueue_proofs -------------------------
(***************************************************************************)
(* Proofs about the bytes of a switch_buffer: Buffer implements ByteQueue, *)
(* and what zwrite and slide_write are given is kept.  Buffer_proofs shows *)
(* that buffers are well laid out; here every operation is shown to do to  *)
(* the bytes of a buffer what ByteQueue does to a queue.                   *)
(***************************************************************************)
EXTENDS Buffer_proofs, SequenceTheorems

\* The bytes that will be read and those that were: q and past of ByteQueue.
Unread(b) == Bytes(b, b.used)
Past(b) == SubSeq(b.data, 1, b.head)

-----------------------------------------------------------------------------
(* The two parts of a buffer.                                              *)

LEMMA Members ==
    ASSUME NEW b, Well(b)
    PROVE  /\ b.head \in Nat /\ b.used \in Nat /\ b.actually_used \in Nat
           /\ b.data \in Seq(Content) /\ Len(b.data) \in Nat
           /\ b.head + b.used = b.actually_used /\ b.actually_used <= Len(b.data)
           /\ \A i \in 1 .. Len(b.data) : b.data[i] \in Content
<1>1. b.data \in Seq(Content)
  BY DEF Well, Buffer, Content
<1> QED
  BY <1>1 DEF Well, Buffer

LEMMA PartOf ==
    ASSUME NEW d \in Seq(Content), NEW m \in Nat, NEW n \in Nat, m + n <= Len(d)
    PROVE  /\ SubSeq(d, m + 1, m + n) \in Seq(Content)
           /\ Len(SubSeq(d, m + 1, m + n)) = n
           /\ \A i \in 1 .. n : SubSeq(d, m + 1, m + n)[i] = d[m + i]
<1>1. \A i \in m + 1 .. m + n : d[i] \in Content
  OBVIOUS
<1>2. /\ SubSeq(d, m + 1, m + n) \in Seq(Content)
      /\ Len(SubSeq(d, m + 1, m + n)) = IF m + 1 <= m + n THEN m + n - (m + 1) + 1 ELSE 0
      /\ \A i \in 1 .. m + n - (m + 1) + 1 : SubSeq(d, m + 1, m + n)[i] = d[m + 1 + i - 1]
  <2>1. m + 1 \in Int /\ m + n \in Int
    OBVIOUS
  <2> QED
    BY <1>1, <2>1, SubSeqProperties
<1>3. Len(SubSeq(d, m + 1, m + n)) = n
  BY <1>2
<1>4. ASSUME NEW i \in 1 .. n PROVE SubSeq(d, m + 1, m + n)[i] = d[m + i]
  <2>1. i \in 1 .. m + n - (m + 1) + 1 /\ m + 1 + i - 1 = m + i
    OBVIOUS
  <2> QED
    BY <1>2, <2>1
<1> QED
  BY <1>2, <1>3, <1>4

LEMMA Joined ==
    ASSUME NEW s \in Seq(Content), NEW t \in Seq(Content), NEW m, NEW n, Len(s) = m, Len(t) = n
    PROVE  /\ s \o t \in Seq(Content) /\ Len(s \o t) = m + n
           /\ \A i \in 1 .. m + n : (s \o t)[i] = IF i <= m THEN s[i] ELSE t[i - m]
BY ConcatProperties

\* A place behind the first u of u + n.
LEMMA Behind ==
    ASSUME NEW h \in Nat, NEW u \in Nat, NEW n \in Nat, NEW i \in 1 .. u + n, ~(i <= u)
    PROVE  i - u \in 1 .. n /\ h + i = h + u + (i - u)
OBVIOUS

LEMMA UnreadBytes ==
    ASSUME NEW b, Well(b)
    PROVE  /\ Unread(b) \in Seq(Content) /\ Len(Unread(b)) = b.used
           /\ \A i \in 1 .. b.used : Unread(b)[i] = b.data[b.head + i]
<1>1. b.data \in Seq(Content) /\ b.head \in Nat /\ b.used \in Nat /\ b.head + b.used <= Len(b.data)
  BY Members
<1>2. /\ SubSeq(b.data, b.head + 1, b.head + b.used) \in Seq(Content)
      /\ Len(SubSeq(b.data, b.head + 1, b.head + b.used)) = b.used
      /\ \A i \in 1 .. b.used : SubSeq(b.data, b.head + 1, b.head + b.used)[i] = b.data[b.head + i]
  BY <1>1, PartOf
<1> QED
  BY <1>2 DEF Unread, Bytes

LEMMA PastBytes ==
    ASSUME NEW b, Well(b)
    PROVE  /\ Past(b) \in Seq(Content) /\ Len(Past(b)) = b.head
           /\ \A i \in 1 .. b.head : Past(b)[i] = b.data[i]
<1>1. b.data \in Seq(Content) /\ b.head \in Nat /\ 0 \in Nat /\ 0 + b.head <= Len(b.data)
  BY Members
<1>2. /\ SubSeq(b.data, 0 + 1, 0 + b.head) \in Seq(Content)
      /\ Len(SubSeq(b.data, 0 + 1, 0 + b.head)) = b.head
      /\ \A i \in 1 .. b.head : SubSeq(b.data, 0 + 1, 0 + b.head)[i] = b.data[0 + i]
  BY <1>1, PartOf
<1>3. 0 + 1 = 1 /\ 0 + b.head = b.head /\ \A i \in 1 .. b.head : 0 + i = i
  BY <1>1
<1>4. Past(b) = SubSeq(b.data, 0 + 1, 0 + b.head)
  BY <1>3 DEF Past
<1> QED
  BY <1>2, <1>3, <1>4

\* Nothing to read, nothing that was read.
LEMMA NothingThere ==
    ASSUME NEW b, Well(b)
    PROVE  /\ b.used = 0 => Unread(b) = <<>>
           /\ b.head = 0 => Past(b) = <<>>
<1>1. /\ Unread(b) \in Seq(Content) /\ Len(Unread(b)) = b.used
      /\ Past(b) \in Seq(Content) /\ Len(Past(b)) = b.head
  BY UnreadBytes, PastBytes
<1> QED
  BY <1>1, EmptySeq

\* Two buffers that have the same bytes in the same order.
LEMMA SameUnread ==
    ASSUME NEW b, Well(b), NEW c, Well(c), c.used = b.used,
           \A i \in 1 .. b.used : c.data[c.head + i] = b.data[b.head + i]
    PROVE  Unread(c) = Unread(b)
<1>1. /\ Unread(b) \in Seq(Content) /\ Len(Unread(b)) = b.used
      /\ \A i \in 1 .. b.used : Unread(b)[i] = b.data[b.head + i]
  BY UnreadBytes
<1>2. /\ Unread(c) \in Seq(Content) /\ Len(Unread(c)) = c.used
      /\ \A i \in 1 .. c.used : Unread(c)[i] = c.data[c.head + i]
  BY UnreadBytes
<1>3. \A i \in 1 .. b.used : Unread(c)[i] = Unread(b)[i]
  BY <1>1, <1>2
<1> QED
  BY <1>1, <1>2, <1>3, SeqEqual

-----------------------------------------------------------------------------
(* What the operations do to the two parts.                                *)

\* read and toss: the oldest bytes move from the one part to the other.
LEMMA WithoutBytes ==
    ASSUME NEW b, Well(b), NEW n \in Nat
    PROVE  /\ Bytes(b, Reading(b, n)) = Queue!Front(Unread(b), n)
           /\ Unread(Without(b, n)) = Queue!Rest(Unread(b), n)
           /\ Past(Without(b, n)) = Past(b) \o Queue!Front(Unread(b), n)
<1> DEFINE k == Reading(b, n)
           w == Without(b, n)
           u == Unread(b)
           f == Queue!Front(u, n)
           r == Queue!Rest(u, n)
<1>1. /\ b.head \in Nat /\ b.used \in Nat /\ b.data \in Seq(Content) /\ Len(b.data) \in Nat
      /\ b.head + b.used <= Len(b.data)
  BY Members
<1>2. k \in Nat /\ k <= b.used /\ k = Queue!Least(n, b.used)
  BY <1>1 DEF Reading, Queue!Least
<1>3. Well(w) /\ w.data = b.data /\ w.used = b.used - k /\ w.head = b.head + k
  BY WithoutWell
<1>4. u \in Seq(Content) /\ Len(u) = b.used /\ \A i \in 1 .. b.used : u[i] = b.data[b.head + i]
  BY UnreadBytes
<1>5. f = SubSeq(u, 0 + 1, 0 + k) /\ r = SubSeq(u, k + 1, k + (b.used - k))
  <2>1. 0 + 1 = 1 /\ 0 + k = k /\ k + (b.used - k) = b.used
    BY <1>1, <1>2
  <2> QED
    BY <1>2, <1>4, <2>1, Zenon DEF Queue!Front, Queue!Rest
<1> HIDE DEF k, w, u, f, r
<1>6. f \in Seq(Content) /\ Len(f) = k /\ \A i \in 1 .. k : f[i] = u[i]
  <2>1. 0 \in Nat /\ 0 + k <= Len(u)
    BY <1>2, <1>4
  <2>2. /\ f \in Seq(Content) /\ Len(f) = k /\ \A i \in 1 .. k : f[i] = u[0 + i]
    BY <1>2, <1>4, <1>5, <2>1, PartOf
  <2>3. \A i \in 1 .. k : 0 + i = i
    OBVIOUS
  <2> QED
    BY <2>2, <2>3
<1>7. /\ r \in Seq(Content) /\ Len(r) = b.used - k
      /\ \A i \in 1 .. b.used - k : r[i] = u[k + i]
  <2>1. k \in Nat /\ b.used - k \in Nat /\ k + (b.used - k) <= Len(u)
    BY <1>1, <1>2, <1>4
  <2> QED
    BY <1>4, <1>5, <2>1, PartOf
<1>8. Bytes(b, k) = f
  <2>1. /\ Bytes(b, k) \in Seq(Content) /\ Len(Bytes(b, k)) = k
        /\ \A i \in 1 .. k : Bytes(b, k)[i] = b.data[b.head + i]
    <3>1. b.data \in Seq(Content) /\ b.head \in Nat /\ k \in Nat /\ b.head + k <= Len(b.data)
      BY <1>1, <1>2
    <3>2. /\ SubSeq(b.data, b.head + 1, b.head + k) \in Seq(Content)
          /\ Len(SubSeq(b.data, b.head + 1, b.head + k)) = k
          /\ \A i \in 1 .. k : SubSeq(b.data, b.head + 1, b.head + k)[i] = b.data[b.head + i]
      BY <3>1, PartOf
    <3> QED
      BY <3>2 DEF Bytes
  <2>2. \A i \in 1 .. k : Bytes(b, k)[i] = f[i]
    BY <1>1, <1>2, <1>4, <1>6, <2>1
  <2> QED
    BY <1>6, <2>1, <2>2, SeqEqual
<1>9. Unread(w) = r
  <2>1. /\ Unread(w) \in Seq(Content) /\ Len(Unread(w)) = b.used - k
        /\ \A i \in 1 .. b.used - k : Unread(w)[i] = b.data[(b.head + k) + i]
    BY <1>3, UnreadBytes
  <2>2. ASSUME NEW i \in 1 .. b.used - k PROVE Unread(w)[i] = r[i]
    <3>1. k + i \in 1 .. b.used /\ b.head + (k + i) = (b.head + k) + i
      BY <1>1, <1>2
    <3> QED
      BY <1>4, <1>7, <2>1, <3>1
  <2> QED
    BY <1>7, <2>1, <2>2, SeqEqual
<1>10. Past(w) = Past(b) \o f
  <2>1. /\ Past(w) \in Seq(Content) /\ Len(Past(w)) = b.head + k
        /\ \A i \in 1 .. b.head + k : Past(w)[i] = b.data[i]
    BY <1>3, PastBytes
  <2>2. /\ Past(b) \in Seq(Content) /\ Len(Past(b)) = b.head
        /\ \A i \in 1 .. b.head : Past(b)[i] = b.data[i]
    BY PastBytes
  <2>3. /\ Past(b) \o f \in Seq(Content) /\ Len(Past(b) \o f) = b.head + k
        /\ \A i \in 1 .. b.head + k :
              (Past(b) \o f)[i] = IF i <= b.head THEN Past(b)[i] ELSE f[i - b.head]
    BY <1>6, <2>2, Joined
  <2>4. ASSUME NEW i \in 1 .. b.head + k PROVE Past(w)[i] = (Past(b) \o f)[i]
    <3>1. CASE i <= b.head
      BY <1>1, <2>1, <2>2, <2>3, <3>1
    <3>2. CASE ~(i <= b.head)
      <4>1. i - b.head \in 1 .. k /\ i - b.head \in 1 .. b.used /\ b.head + (i - b.head) = i
        BY <1>1, <1>2, <3>2
      <4>2. (Past(b) \o f)[i] = f[i - b.head] /\ f[i - b.head] = b.data[b.head + (i - b.head)]
        BY <1>4, <1>6, <2>3, <3>2, <4>1
      <4> QED
        BY <2>1, <4>1, <4>2
    <3> QED
      BY <3>1, <3>2
  <2> QED
    BY <2>1, <2>3, <2>4, SeqEqual
<1> QED
  BY <1>8, <1>9, <1>10 DEF k, w, u, f, r

\* read_loop: all bytes since the last compaction are there again.
LEMMA RewoundBytes ==
    ASSUME NEW b, Well(b)
    PROVE  Unread(Rewound(b)) = Past(b) \o Unread(b) /\ Past(Rewound(b)) = <<>>
<1> DEFINE w == Rewound(b)
<1>1. /\ b.head \in Nat /\ b.used \in Nat
      /\ b.head + b.used = b.actually_used
  BY Members
<1>2. Well(w) /\ w.data = b.data /\ w.head = 0 /\ w.used = b.actually_used
  BY RewoundWell
<1> HIDE DEF w
<1>3. /\ Unread(w) \in Seq(Content) /\ Len(Unread(w)) = b.actually_used
      /\ \A i \in 1 .. b.actually_used : Unread(w)[i] = b.data[0 + i]
  BY <1>2, UnreadBytes
<1>4. /\ Past(b) \in Seq(Content) /\ Len(Past(b)) = b.head
      /\ \A i \in 1 .. b.head : Past(b)[i] = b.data[i]
  BY PastBytes
<1>5. /\ Unread(b) \in Seq(Content) /\ Len(Unread(b)) = b.used
      /\ \A i \in 1 .. b.used : Unread(b)[i] = b.data[b.head + i]
  BY UnreadBytes
<1>6. /\ Past(b) \o Unread(b) \in Seq(Content) /\ Len(Past(b) \o Unread(b)) = b.head + b.used
      /\ \A i \in 1 .. b.head + b.used :
            (Past(b) \o Unread(b))[i] = IF i <= b.head THEN Past(b)[i] ELSE Unread(b)[i - b.head]
  BY <1>4, <1>5, Joined
<1>7. ASSUME NEW i \in 1 .. b.head + b.used PROVE Unread(w)[i] = (Past(b) \o Unread(b))[i]
  <2>1. Unread(w)[i] = b.data[i]
    BY <1>1, <1>3
  <2>2. CASE i <= b.head
    BY <1>1, <1>4, <1>6, <2>1, <2>2
  <2>3. CASE ~(i <= b.head)
    <3>1. i - b.head \in 1 .. b.used /\ b.head + (i - b.head) = i
      BY <1>1, <2>3
    <3>2. (Past(b) \o Unread(b))[i] = Unread(b)[i - b.head]
      BY <1>6, <2>3
    <3> QED
      BY <1>5, <2>1, <3>1, <3>2
  <2> QED
    BY <2>2, <2>3
<1>8. Unread(w) = Past(b) \o Unread(b)
  BY <1>1, <1>3, <1>6, <1>7, SeqEqual
<1> QED
  BY <1>2, <1>8, NothingThere DEF w

\* What write finds: the same bytes, and those that were read are gone if the
\* room behind the used ones did not suffice.
LEMMA ReadyBytes ==
    ASSUME NEW b, Well(b), NEW n \in Nat, NEW ok, blocksize \in Nat
    PROVE  LET c == Ready(b, n, ok) IN
           /\ Unread(c) = Unread(b)
           /\ Past(c) = IF actual_freespace(b) < n THEN <<>> ELSE Past(b)
           /\ Len(c.data) >= Len(b.data)
<1> DEFINE c == IF actual_freespace(b) < n THEN Compacted(b) ELSE b
<1>0. /\ Len(b.data) \in Nat /\ b.used \in Nat /\ b.head \in Nat
      /\ b.actually_used = b.head + b.used /\ b.actually_used <= Len(b.data)
  BY Members
<1>1. /\ Well(Compacted(b)) /\ Len(Compacted(b).data) = Len(b.data)
      /\ Compacted(b).used = b.used /\ Compacted(b).head = 0
      /\ \A i \in 1 .. b.used : Compacted(b).data[0 + i] = b.data[b.head + i]
  BY CompactedWell
<1>2. Unread(Compacted(b)) = Unread(b) /\ Past(Compacted(b)) = <<>>
  BY <1>1, SameUnread, NothingThere
<1>3. /\ Well(c) /\ c.used = b.used /\ Len(c.data) = Len(b.data) /\ Unread(c) = Unread(b)
      /\ Past(c) = IF actual_freespace(b) < n THEN <<>> ELSE Past(b)
      /\ actual_freespace(b) < n => c.head = 0
  BY <1>1, <1>2
<1> HIDE DEF c
<1>4. Ready(b, n, ok) = IF freespace(c) < n /\ MayGrow(c, n) /\ ok /\ new_size(c, n) <= Memory
                           THEN Grown(c, n) ELSE c
  BY DEF Ready, c
<1>5. CASE Ready(b, n, ok) = c
  BY <1>0, <1>3, <1>5
<1>6. CASE freespace(c) < n /\ Ready(b, n, ok) = Grown(c, n)
  <2>1. actual_freespace(b) < n
    BY <1>0, <1>3, <1>6 DEF freespace, actual_freespace
  <2>2. c.head = 0 /\ Past(c) = <<>>
    BY <1>3, <2>1
  <2>3. /\ Well(Grown(c, n)) /\ Len(Grown(c, n).data) = new_size(c, n)
        /\ Grown(c, n).used = c.used /\ Grown(c, n).head = 0
        /\ \A i \in 1 .. Len(c.data) : Grown(c, n).data[i] = c.data[i]
    BY <1>3, <2>2, GrownWell
  <2>4. new_size(c, n) >= Len(b.data) + n /\ new_size(c, n) \in Nat
    BY <1>0, <1>3, NewSize
  <2>5. \A i \in 1 .. c.used : Grown(c, n).data[0 + i] = c.data[0 + i]
    BY <1>0, <1>3, <2>3
  <2>6. Unread(Grown(c, n)) = Unread(c)
    BY <1>3, <2>2, <2>3, <2>5, SameUnread
  <2>7. Past(Grown(c, n)) = <<>>
    BY <2>3, NothingThere
  <2>8. new_size(c, n) >= Len(b.data)
    BY <1>0, <2>4
  <2> QED
    BY <1>3, <1>6, <2>1, <2>3, <2>6, <2>7, <2>8
<1> QED
  BY <1>4, <1>5, <1>6

LEMMA CopiedBytes ==
    ASSUME NEW b, Well(b), NEW s \in Seq(Byte), b.actually_used + Len(s) <= Len(b.data)
    PROVE  /\ Unread(Copied(b, s)) = Unread(b) \o s
           /\ Past(Copied(b, s)) = Past(b)
<1> DEFINE c == Copied(b, s)
           n == Len(s)
<1>0. /\ Len(b.data) \in Nat /\ b.used \in Nat /\ b.head \in Nat /\ b.actually_used \in Nat
      /\ b.actually_used = b.head + b.used
  BY Members
<1>1. s \in Seq(Content) /\ n \in Nat
  BY DEF Content
<1>2. /\ Well(c) /\ c.head = b.head /\ c.used = b.used + n
      /\ \A i \in 1 .. b.actually_used : c.data[i] = b.data[i]
      /\ \A i \in 1 .. n : c.data[b.actually_used + i] = s[i]
  BY CopiedWell
<1> HIDE DEF c, n
<1>3. /\ Unread(c) \in Seq(Content) /\ Len(Unread(c)) = b.used + n
      /\ \A i \in 1 .. b.used + n : Unread(c)[i] = c.data[b.head + i]
  BY <1>2, UnreadBytes
<1>4. /\ Unread(b) \in Seq(Content) /\ Len(Unread(b)) = b.used
      /\ \A i \in 1 .. b.used : Unread(b)[i] = b.data[b.head + i]
  BY UnreadBytes
<1>5. /\ Unread(b) \o s \in Seq(Content) /\ Len(Unread(b) \o s) = b.used + n
      /\ \A i \in 1 .. b.used + n :
            (Unread(b) \o s)[i] = IF i <= b.used THEN Unread(b)[i] ELSE s[i - b.used]
  BY <1>1, <1>4, Joined DEF n
<1>6. ASSUME NEW i \in 1 .. b.used + n PROVE Unread(c)[i] = (Unread(b) \o s)[i]
  <2>1. CASE i <= b.used
    <3>1. i \in 1 .. b.used /\ b.head + i \in 1 .. b.actually_used
      BY <1>0, <1>1, <2>1
    <3>2. (Unread(b) \o s)[i] = Unread(b)[i]
      BY <1>5, <2>1
    <3>3. Unread(c)[i] = c.data[b.head + i] /\ c.data[b.head + i] = b.data[b.head + i]
      BY <1>2, <1>3, <3>1
    <3>4. Unread(b)[i] = b.data[b.head + i]
      BY <1>4, <3>1
    <3> QED
      BY <3>2, <3>3, <3>4
  <2>2. CASE ~(i <= b.used)
    <3>1. i - b.used \in 1 .. n /\ b.head + i = b.actually_used + (i - b.used)
      <4>1. b.head \in Nat /\ b.used \in Nat /\ n \in Nat
        BY <1>0, <1>1
      <4>2. i - b.used \in 1 .. n /\ b.head + i = b.head + b.used + (i - b.used)
        BY <2>2, <4>1, Behind
      <4> QED
        BY <1>0, <4>2
    <3>2. (Unread(b) \o s)[i] = s[i - b.used]
      BY <1>5, <2>2
    <3> QED
      BY <1>2, <1>3, <3>1, <3>2
  <2> QED
    BY <2>1, <2>2
<1>7. Unread(c) = Unread(b) \o s
  BY <1>3, <1>5, <1>6, SeqEqual
<1>8. Past(c) = Past(b)
  <2>1. /\ Past(b) \in Seq(Content) /\ Len(Past(b)) = b.head
        /\ \A i \in 1 .. b.head : Past(b)[i] = b.data[i]
    BY PastBytes
  <2>2. /\ Past(c) \in Seq(Content) /\ Len(Past(c)) = b.head
        /\ \A i \in 1 .. b.head : Past(c)[i] = c.data[i]
    BY <1>2, PastBytes
  <2>3. \A i \in 1 .. b.head : Past(c)[i] = Past(b)[i]
    BY <1>0, <1>2, <2>1, <2>2
  <2> QED
    BY <2>1, <2>2, <2>3, SeqEqual
<1> QED
  BY <1>7, <1>8 DEF c

\* write: all of the bytes are added, or none.
LEMMA WrittenBytes ==
    ASSUME NEW b, Well(b), NEW s \in Strings, NEW ok, blocksize \in Nat
    PROVE  LET w == Written(b, s, ok) IN
           /\ Well(w) /\ Len(w.data) >= Len(b.data)
           /\ Unread(w) = IF Fits(b, s, ok) THEN Unread(b) \o s ELSE Unread(b)
           /\ w.used = IF Fits(b, s, ok) THEN b.used + Len(s) ELSE b.used
           /\ Past(w) = IF actual_freespace(b) < Len(s) THEN <<>> ELSE Past(b)
           /\ ~Fits(b, s, ok) => w.used + Len(s) > Len(w.data)
<1> DEFINE n == Len(s)
           c == Ready(b, n, ok)
<1>0. s \in Seq(Byte) /\ s \in Seq(Content) /\ n \in Nat
  BY Writable DEF Content
<1>1. /\ Well(c) /\ c.used = b.used
      /\ freespace(c) >= n => c.actually_used + n <= Len(c.data)
      /\ freespace(c) < n => b.used + n > Len(b.data)
  BY <1>0, ReadyWell
<1>2. /\ Unread(c) = Unread(b)
      /\ Past(c) = IF actual_freespace(b) < n THEN <<>> ELSE Past(b)
      /\ Len(c.data) >= Len(b.data)
  BY <1>0, ReadyBytes
<1>3. /\ Len(b.data) \in Nat /\ b.used \in Nat /\ b.actually_used \in Nat
      /\ b.used <= b.actually_used /\ b.actually_used <= Len(b.data)
  BY Members
<1>4. /\ Len(c.data) \in Nat /\ c.actually_used \in Nat
      /\ c.used <= c.actually_used /\ c.actually_used <= Len(c.data) /\ c.used \in Nat
  BY <1>1, Members
<1>5. freespace(c) = Len(c.data) - c.used /\ freespace(c) \in Nat
  BY <1>4 DEF freespace
<1>6. actual_freespace(b) = Len(b.data) - b.actually_used
  BY DEF actual_freespace
<1>7. Fits(b, s, ok) <=> freespace(c) >= n
  BY DEF Fits
<1> HIDE DEF c
<1>8. CASE s = <<>>
  <2>1. n = 0 /\ Written(b, s, ok) = b
    BY <1>8 DEF Written
  <2>2. Fits(b, s, ok) /\ ~(actual_freespace(b) < n)
    BY <1>3, <1>5, <1>6, <1>7, <2>1
  <2>3. Unread(b) \o s = Unread(b)
    BY <1>8, UnreadBytes, ConcatEmptySeq
  <2> QED
    BY <1>3, <2>1, <2>2, <2>3
<1>9. CASE s # <<>> /\ Fits(b, s, ok)
  <2>1. c.actually_used + n <= Len(c.data)
    BY <1>1, <1>7, <1>9
  <2>2. /\ Well(Copied(c, s)) /\ Len(Copied(c, s).data) = Len(c.data)
        /\ Copied(c, s).used = c.used + n
    BY <1>0, <1>1, <2>1, CopiedWell
  <2>3. Unread(Copied(c, s)) = Unread(c) \o s /\ Past(Copied(c, s)) = Past(c)
    BY <1>0, <1>1, <2>1, CopiedBytes
  <2>4. Written(b, s, ok) = Copied(c, s)
    BY <1>9 DEF Written, c
  <2> QED
    BY <1>1, <1>2, <1>9, <2>2, <2>3, <2>4
<1>10. CASE s # <<>> /\ ~Fits(b, s, ok)
  <2>1. Written(b, s, ok) = c
    BY <1>10 DEF Written, c
  <2>2. c.used + n > Len(c.data)
    BY <1>0, <1>4, <1>5, <1>7, <1>10
  <2> QED
    BY <1>1, <1>2, <1>10, <2>1, <2>2
<1> QED
  BY <1>8, <1>9, <1>10

-----------------------------------------------------------------------------
(* zwrite and slide_write.                                                 *)

\* The buffer of a write that returned zero has the bytes it had.
LEMMA NothingWritten ==
    ASSUME NEW b, Well(b), NEW s \in Strings, NEW ok, blocksize \in Nat, NoWrite(b, s, ok)
    PROVE  /\ Unread(Written(b, s, ok)) = Unread(b)
           /\ s # <<>> => ~Fits(b, s, ok)
<1> DEFINE w == Written(b, s, ok)
<1>0. s \in Seq(Byte) /\ Len(s) \in Nat /\ b.used \in Nat
  BY Writable, Members
<1>1. /\ Unread(w) = IF Fits(b, s, ok) THEN Unread(b) \o s ELSE Unread(b)
      /\ w.used = IF Fits(b, s, ok) THEN b.used + Len(s) ELSE b.used
  BY WrittenBytes
<1>2. CASE ~Fits(b, s, ok)
  BY <1>1, <1>2
<1>3. CASE Fits(b, s, ok) /\ w.used = 0
  <2>1. Len(s) = 0
    BY <1>0, <1>1, <1>3
  <2>2. s = <<>>
    BY <1>0, <2>1, EmptySeq
  <2>3. Unread(b) \o s = Unread(b)
    BY <2>2, UnreadBytes, ConcatEmptySeq
  <2> QED
    BY <1>1, <2>2, <2>3
<1> QED
  BY <1>2, <1>3 DEF NoWrite

\* The last bytes of a buffer are those that were put behind the others.
LEMMA NewestBytes ==
    ASSUME NEW b, Well(b), NEW p \in Seq(Content), NEW s \in Seq(Content), Unread(b) = p \o s
    PROVE  /\ b.used >= Len(s)
           /\ SubSeq(b.data, b.actually_used - Len(s) + 1, b.actually_used) = s
<1> DEFINE n == Len(s)
           m == b.actually_used - n
           t == SubSeq(b.data, m + 1, m + n)
<1>0. /\ b.head \in Nat /\ b.used \in Nat /\ b.actually_used \in Nat
      /\ b.data \in Seq(Content) /\ Len(b.data) \in Nat
      /\ b.head + b.used = b.actually_used /\ b.actually_used <= Len(b.data)
  BY Members
<1>1. Len(p) \in Nat /\ n \in Nat
  OBVIOUS
<1>2. /\ Len(Unread(b)) = b.used
      /\ \A i \in 1 .. b.used : Unread(b)[i] = b.data[b.head + i]
  BY UnreadBytes
<1>3. /\ Len(p \o s) = Len(p) + n
      /\ \A i \in 1 .. Len(p) + n : (p \o s)[i] = IF i <= Len(p) THEN p[i] ELSE s[i - Len(p)]
  BY Joined
<1>4. b.used = Len(p) + n /\ b.used >= n /\ m \in Nat /\ m = b.head + Len(p) /\ m + n = b.actually_used
  BY <1>0, <1>1, <1>2, <1>3
<1> HIDE DEF n, m
<1>5. t \in Seq(Content) /\ Len(t) = n /\ \A i \in 1 .. n : t[i] = b.data[m + i]
  <2>1. m + n <= Len(b.data) /\ m \in Nat /\ n \in Nat
    BY <1>0, <1>1, <1>4
  <2> QED
    BY <1>0, <2>1, PartOf
<1>6. ASSUME NEW i \in 1 .. n PROVE t[i] = s[i]
  <2>1. Len(p) + i \in 1 .. b.used /\ ~(Len(p) + i <= Len(p)) /\ (Len(p) + i) - Len(p) = i
    BY <1>1, <1>4
  <2>2. m + i = b.head + (Len(p) + i)
    BY <1>0, <1>1, <1>4, SMTT(30)
  <2>3. t[i] = Unread(b)[Len(p) + i]
    BY <1>2, <1>5, <2>1, <2>2
  <2>4. (p \o s)[Len(p) + i] = s[(Len(p) + i) - Len(p)]
    BY <1>3, <1>4, <2>1
  <2> QED
    BY <2>1, <2>3, <2>4
<1>7. t = s
  BY <1>5, <1>6, SeqEqual DEF n
<1> QED
  BY <1>4, <1>7 DEF n, m

\* The second attempt of zwrite and of slide_write fits, if the memory is as
\* large as what is written.
LEMMA SecondAttempt ==
    ASSUME NEW b, Well(b), NEW s \in Strings, NEW ok, blocksize \in Nat,
           b.used + Len(s) <= Len(b.data)
    PROVE  Fits(b, s, ok)
<1>1. Len(s) \in Nat /\ b.used \in Nat /\ Len(b.data) \in Nat
  BY Writable, Members
<1>2. Well(Ready(b, Len(s), ok)) /\
      (freespace(Ready(b, Len(s), ok)) < Len(s) => b.used + Len(s) > Len(b.data))
  BY <1>1, ReadyWell
<1>3. freespace(Ready(b, Len(s), ok)) \in Int
  BY <1>2, Members DEF freespace
<1> QED
  BY <1>1, <1>2, <1>3 DEF Fits

\* zwrite and slide_write always keep what they are given last, if the memory is
\* large enough for that alone.
THEOREM NewestAlwaysKept == Spec => []NewestKept
<1>1. Layout => NewestKept
  <2> SUFFICES ASSUME Layout, NEW s \in Strings, NEW ok \in BOOLEAN, NEW again \in BOOLEAN,
                      Len(s) <= Len(buffer.data),
                      NEW b \in {ZWritten(buffer, s, ok, again), SlideWritten(buffer, s, ok, again)}
               PROVE  /\ b.used >= Len(s)
                      /\ SubSeq(b.data, b.actually_used - Len(s) + 1, b.actually_used) = s
    BY DEF NewestKept
  <2> DEFINE w == Written(buffer, s, ok)
             n == Len(s)
  <2>0. Well(buffer) /\ blocksize \in Nat /\ n \in Nat /\ s \in Seq(Content)
    BY InvWell, Writable DEF Content
  <2>1. /\ Well(w) /\ Len(w.data) >= Len(buffer.data)
        /\ Fits(buffer, s, ok) => Unread(w) = Unread(buffer) \o s
    BY <2>0, WrittenBytes
  <2>2. Len(w.data) \in Nat /\ w.used \in Nat /\ w.used <= Len(w.data) /\ n <= Len(w.data)
    BY <2>0, <2>1, Members
  <2>3. ASSUME NEW v, Well(v), v.used + n <= Len(v.data), b = Written(v, s, again)
        PROVE  Well(b) /\ \E p \in Seq(Content) : Unread(b) = p \o s
    <3>1. Fits(v, s, again)
      BY <2>0, <2>3, SecondAttempt
    <3> QED
      BY <2>0, <2>3, <3>1, WrittenBytes, UnreadBytes
  <2> HIDE DEF w
  <2>4. Well(b) /\ \E p \in Seq(Content) : Unread(b) = p \o s
    <3>1. CASE ~NoWrite(buffer, s, ok)
      <4>1. b = w /\ Fits(buffer, s, ok)
        BY <3>1 DEF ZWritten, SlideWritten, w, NoWrite
      <4> QED
        BY <2>0, <2>1, <4>1, UnreadBytes
    <3>2. CASE b = Written(Zeroed(w), s, again)
      <4>1. Well(Zeroed(w)) /\ Zeroed(w).data = w.data /\ Zeroed(w).used = 0
        BY <2>1, ZeroedWell
      <4>2. Zeroed(w).used + n <= Len(Zeroed(w).data)
        BY <2>0, <2>2, <4>1
      <4> QED
        BY <2>3, <3>2, <4>1, <4>2
    <3>3. CASE b = Written(Without(w, n), s, again)
      <4>1. /\ Well(Without(w, n)) /\ Without(w, n).data = w.data
            /\ Without(w, n).used = w.used - Reading(w, n)
        BY <2>0, <2>1, WithoutWell
      <4>2. Without(w, n).used + n <= Len(Without(w, n).data)
        BY <2>0, <2>2, <4>1 DEF Reading
      <4> QED
        BY <2>3, <3>3, <4>1, <4>2
    <3> QED
      BY <3>1, <3>2, <3>3 DEF ZWritten, SlideWritten, w
  <2> QED
    BY <2>0, <2>4, NewestBytes
<1> QED
  BY <1>1, LayoutKept, PTL

-----------------------------------------------------------------------------
(* Buffer implements ByteQueue.                                            *)

\* The steps of ByteQueue under the refinement mapping.
LEMMA MappedSteps ==
    /\ \A s : Queue!Write(s) <=> /\ Unread(buffer') \in {Unread(buffer), Unread(buffer) \o s}
                                 /\ Past(buffer') \in {Past(buffer), <<>>}
                                 /\ out' = <<>>
    /\ \A n, s : Queue!Overwrite(n, s) <=>
          /\ Unread(buffer') \in {Queue!Rest(Unread(buffer), n), Queue!Rest(Unread(buffer), n) \o s}
          /\ Past(buffer') \in {Past(buffer) \o Queue!Front(Unread(buffer), n), <<>>}
          /\ out' = <<>>
    /\ \A n : Queue!Read(n) <=> /\ out' = Queue!Front(Unread(buffer), n)
                                /\ Unread(buffer') = Queue!Rest(Unread(buffer), n)
                                /\ Past(buffer') = Past(buffer) \o Queue!Front(Unread(buffer), n)
    /\ \A n : Queue!ReadAgain(n) <=>
          /\ Unread(buffer) = <<>> \/ n = 0
          /\ out' = Queue!Front(Past(buffer) \o Unread(buffer), n)
          /\ Unread(buffer') = Queue!Rest(Past(buffer) \o Unread(buffer), n)
          /\ Past(buffer') = Queue!Front(Past(buffer) \o Unread(buffer), n)
    /\ \A n : Queue!Peek(n) <=> /\ out' = Queue!Front(Unread(buffer), n)
                                /\ Unread(buffer') = Unread(buffer)
                                /\ Past(buffer') = Past(buffer)
    /\ \A n : Queue!Toss(n) <=> /\ out' = <<>>
                                /\ Unread(buffer') = Queue!Rest(Unread(buffer), n)
                                /\ Past(buffer') = Past(buffer) \o Queue!Front(Unread(buffer), n)
    /\ \A s : Queue!Replace(s) <=> /\ Unread(buffer') = s /\ Past(buffer') = <<>>
                                   /\ out' = <<>>
<1>1. /\ Bytes(buffer, buffer.used) = Unread(buffer)
      /\ SubSeq(buffer.data, 1, buffer.head) = Past(buffer)
      /\ Bytes(buffer, buffer.used)' = Unread(buffer')
      /\ SubSeq(buffer.data, 1, buffer.head)' = Past(buffer')
  BY DEF Unread, Past, Bytes
<1> QED
  BY <1>1, Zenon DEF Queue!Write, Queue!Overwrite, Queue!Read, Queue!ReadAgain, Queue!Peek,
     Queue!Toss, Queue!Replace

LEMMA FrontAndRest ==
    ASSUME NEW u \in Seq(Content)
    PROVE  /\ Queue!Front(u, 0) = <<>> /\ Queue!Rest(u, 0) = u
           /\ Queue!Front(u, Len(u)) = u /\ Queue!Rest(u, Len(u)) = <<>>
<1>1. Len(u) \in Nat /\ Queue!Least(0, Len(u)) = 0 /\ Queue!Least(Len(u), Len(u)) = Len(u)
  BY DEF Queue!Least
<1>2. SubSeq(u, 1, Len(u)) = u
  BY SubSeqFull
<1>3. SubSeq(u, 1, 0) = <<>> /\ SubSeq(u, Len(u) + 1, Len(u)) = <<>>
  BY <1>1, SubSeqEmpty
<1>4. 0 + 1 = 1
  OBVIOUS
<1> QED
  BY <1>1, <1>2, <1>3, <1>4, Zenon DEF Queue!Front, Queue!Rest

\* A buffer whose bytes are all unread, or that has none.
LEMMA NewBytes ==
    /\ \A s \in Seq(Content) : Unread(Full(s)) = s /\ Past(Full(s)) = <<>>
    /\ \A n \in Nat : Unread(Empty(n)) = <<>> /\ Past(Empty(n)) = <<>>
<1>1. ASSUME NEW s \in Seq(Content) PROVE Unread(Full(s)) = s /\ Past(Full(s)) = <<>>
  <2>1. Well(Full(s)) /\ Full(s).data = s /\ Full(s).head = 0 /\ Full(s).used = Len(s)
    BY FullWell DEF Full
  <2>2. /\ Unread(Full(s)) \in Seq(Content) /\ Len(Unread(Full(s))) = Len(s)
        /\ \A i \in 1 .. Len(s) : Unread(Full(s))[i] = s[0 + i]
    BY <2>1, UnreadBytes
  <2>3. \A i \in 1 .. Len(s) : Unread(Full(s))[i] = s[i]
    BY <2>2
  <2> QED
    BY <2>1, <2>2, <2>3, NothingThere, SeqEqual
<1>2. ASSUME NEW n \in Nat PROVE Unread(Empty(n)) = <<>> /\ Past(Empty(n)) = <<>>
  <2>1. Well(Empty(n)) /\ Empty(n).head = 0 /\ Empty(n).used = 0
    BY EmptyWell DEF Empty
  <2> QED
    BY <2>1, NothingThere
<1> QED
  BY <1>1, <1>2

\* The memory of a partition is a string that its user has provided.
Partition == kind = "partition" => buffer.data \in Strings

LEMMA StepPartition == ASSUME Layout, Partition, [Next]_vars PROVE Partition'
<1>0. Well(buffer)
  BY InvWell
<1>1. ASSUME UNCHANGED kind, buffer'.data = buffer.data PROVE Partition'
  BY <1>1 DEF Partition
<1>2. CASE Life
  BY <1>1, <1>2 DEF Life, create, create_dynamic, destroy, reset_partition_data,
     create_partition, set_partition_data, Partition, Full, limits
<1>3. ASSUME NEW n \in Nat PROVE Without(buffer, n).data = buffer.data
                                 /\ Without(Rewound(buffer), n).data = buffer.data
  BY <1>0, WithoutWell, RewoundWell
<1>4. ASSUME NEW n \in Amounts, read(n) \/ toss(n) \/ peek(n) \/ read_loop(n) PROVE Partition'
  <2>1. n \in Nat
    BY BufferAssumption DEF Amounts
  <2> QED
    BY <1>1, <1>3, <1>4, <2>1 DEF read, toss, peek, read_loop, limits
<1>5. CASE Reads
  BY <1>1, <1>4, <1>5 DEF Reads, set_loops, peek_zerocopy, limits
<1>6. CASE zero
  BY <1>0, <1>1, <1>6, ZeroedWell DEF zero, limits
<1>7. CASE Writes /\ kind # "partition" /\ UNCHANGED kind
  BY <1>7 DEF Partition
<1>8. CASE UNCHANGED vars
  BY <1>1, <1>8 DEF vars, limits
<1> QED
  BY <1>2, <1>5, <1>6, <1>7, <1>8 DEF Next, Writes, write, zwrite, slide_write, limits

LEMMA AlwaysPartition == Spec => []Partition
<1>1. Init => Partition
  BY DEF Init, Partition
<1>2. Layout /\ Partition /\ [Next]_vars => Partition'
  BY StepPartition
<1> QED
  BY <1>1, <1>2, LayoutKept, PTL DEF Spec

\* zwrite writes, or gives up all bytes and writes.
LEMMA ZWriteStep ==
    ASSUME Well(buffer), blocksize \in Nat, NEW s \in Strings, NEW ok, NEW again,
           zwrite(s, ok, again)
    PROVE  Queue!Write(s) \/ Queue!Overwrite(Len(Unread(buffer)), s)
<1> DEFINE b == buffer
           w == Written(b, s, ok)
           z == Zeroed(w)
<1>1. out' = <<>> /\ buffer' = IF NoWrite(b, s, ok) THEN Written(z, s, again) ELSE w
  BY DEF zwrite, ZWritten
<1>2. /\ Well(w)
      /\ Unread(w) = IF Fits(b, s, ok) THEN Unread(b) \o s ELSE Unread(b)
      /\ Past(w) = IF actual_freespace(b) < Len(s) THEN <<>> ELSE Past(b)
  BY WrittenBytes
<1> HIDE DEF w
<1>3. CASE ~NoWrite(b, s, ok)
  BY <1>1, <1>2, <1>3, MappedSteps
<1>4. CASE NoWrite(b, s, ok)
  <2>1. Well(z) /\ Unread(z) = <<>> /\ Past(z) = <<>>
    BY <1>2, ZeroedWell, NothingThere
  <2>2. /\ Unread(buffer') = IF Fits(z, s, again) THEN Unread(z) \o s ELSE Unread(z)
        /\ Past(buffer') = IF actual_freespace(z) < Len(s) THEN <<>> ELSE Past(z)
    BY <1>1, <1>4, <2>1, WrittenBytes
  <2>3. Queue!Rest(Unread(b), Len(Unread(b))) = <<>>
    BY FrontAndRest, UnreadBytes
  <2> QED
    BY <1>1, <2>1, <2>2, <2>3, MappedSteps
<1> QED
  BY <1>3, <1>4

\* slide_write writes, or gives up as many bytes as it writes, and writes.
LEMMA SlideWriteStep ==
    ASSUME Well(buffer), blocksize \in Nat, NEW s \in Strings, NEW ok, NEW again,
           slide_write(s, ok, again)
    PROVE  Queue!Write(s) \/ Queue!Overwrite(Len(s), s)
<1> DEFINE b == buffer
           n == Len(s)
           w == Written(b, s, ok)
           v == Without(w, n)
<1>0. n \in Nat
  BY Writable
<1>1. out' = <<>> /\ buffer' = IF NoWrite(b, s, ok) THEN Written(v, s, again) ELSE w
  BY DEF slide_write, SlideWritten
<1>2. /\ Well(w)
      /\ Unread(w) = IF Fits(b, s, ok) THEN Unread(b) \o s ELSE Unread(b)
      /\ Past(w) = IF actual_freespace(b) < n THEN <<>> ELSE Past(b)
      /\ ~Fits(b, s, ok) => w.used + n > Len(w.data)
  BY WrittenBytes
<1>3. NoWrite(b, s, ok) => Unread(w) = Unread(b) /\ (s # <<>> => ~Fits(b, s, ok))
  BY NothingWritten
<1> HIDE DEF w
<1>4. CASE ~NoWrite(b, s, ok)
  BY <1>1, <1>2, <1>4, MappedSteps
<1>5. CASE NoWrite(b, s, ok)
  <2>1. Well(v) /\ v.data = w.data /\ v.actually_used = w.actually_used
    BY <1>0, <1>2, WithoutWell
  <2>2. /\ Unread(v) = Queue!Rest(Unread(b), n)
        /\ Past(v) = Past(w) \o Queue!Front(Unread(b), n)
    BY <1>0, <1>2, <1>3, <1>5, WithoutBytes
  <2>3. /\ Unread(buffer') = IF Fits(v, s, again) THEN Unread(v) \o s ELSE Unread(v)
        /\ Past(buffer') = IF actual_freespace(v) < n THEN <<>> ELSE Past(v)
    BY <1>1, <1>5, <2>1, WrittenBytes
  <2>4. Past(buffer') \in {Past(b) \o Queue!Front(Unread(b), n), <<>>}
    <3>1. CASE s # <<>>
      <4>1. w.used + n > Len(w.data)
        BY <1>2, <1>3, <1>5, <3>1
      <4>2. w.used \in Nat /\ Len(w.data) \in Nat /\ w.actually_used \in Nat
            /\ w.used <= w.actually_used
        BY <1>2, Members
      <4>3. actual_freespace(v) < n
        BY <1>0, <2>1, <4>1, <4>2 DEF actual_freespace
      <4> QED
        BY <2>3, <4>3
    <3>2. CASE s = <<>>
      <4>1. n = 0 /\ w = b
        BY <3>2 DEF Written, w
      <4> QED
        BY <2>2, <2>3, <4>1
    <3> QED
      BY <3>1, <3>2
  <2> QED
    BY <1>1, <2>2, <2>3, <2>4, MappedSteps
<1> QED
  BY <1>4, <1>5

\* Every operation does to the bytes of the buffer what one of the steps of
\* ByteQueue does to its queue.
LEMMA QueueStep == ASSUME Layout, Partition, [Next]_vars PROVE [Queue!Next]_(Queue!vars)
<1> DEFINE u == Unread(buffer)
<1>0. /\ Well(buffer) /\ blocksize \in Nat
      /\ u \in Seq(Content) /\ Past(buffer) \in Seq(Content)
  BY InvWell, UnreadBytes, PastBytes
<1>1. /\ \A s \in Strings : Queue!Write(s) \/ Queue!Replace(s) => Queue!Next
      /\ \A s \in Strings : Queue!Overwrite(Len(s), s) \/ Queue!Overwrite(Len(u), s) => Queue!Next
      /\ \A n \in Amounts : Queue!Read(n) \/ Queue!ReadAgain(n) \/ Queue!Peek(n) \/ Queue!Toss(n)
                               => Queue!Next
      /\ Queue!Replace(<<>>) => Queue!Next
      /\ Queue!Peek(Len(u)) => Queue!Next
  BY Zenon DEF Queue!Next, Unread
<1>2. 0 \in Amounts /\ \A n \in Amounts : n \in Nat
  BY BufferAssumption DEF Amounts
<1>3. \A s \in Strings : s \in Seq(Content)
  BY Writable DEF Content
<1> HIDE DEF u
<1>4. ASSUME UNCHANGED buffer, out' = <<>> PROVE Queue!Peek(0)
  <2>1. Queue!Front(Unread(buffer), 0) = <<>>
    BY <1>0, FrontAndRest DEF u
  <2>2. Unread(buffer') = Unread(buffer) /\ Past(buffer') = Past(buffer)
    BY <1>4
  <2> QED
    BY <1>4, <2>1, <2>2, MappedSteps
<1>5. CASE create \/ create_dynamic \/ destroy
  <2>1. START_LEN \in Nat /\ 0 \in Nat
    BY BufferAssumption
  <2>2. out' = <<>> /\ (buffer' = Empty(0) \/ buffer' = Empty(START_LEN))
    BY <1>5 DEF create, create_dynamic, destroy
  <2>3. Queue!Replace(<<>>)
    BY <2>1, <2>2, NewBytes, MappedSteps
  <2> QED
    BY <1>1, <2>3
<1>6. ASSUME NEW s \in Strings, create_partition(s) \/ set_partition_data(s) PROVE Queue!Next
  <2>1. Queue!Replace(s)
    BY <1>3, <1>6, NewBytes, MappedSteps DEF create_partition, set_partition_data
  <2> QED
    BY <1>1, <2>1
<1>7. CASE reset_partition_data
  <2>1. buffer.data \in Strings /\ buffer' = Full(buffer.data) /\ out' = <<>>
    BY <1>7 DEF reset_partition_data, Partition
  <2>2. Queue!Replace(buffer.data)
    BY <1>3, <2>1, NewBytes, MappedSteps
  <2> QED
    BY <1>1, <2>1, <2>2
<1>8. ASSUME NEW n \in Amounts, read(n) PROVE Queue!Next
  <2>1. Queue!Read(n)
    BY <1>0, <1>2, <1>8, WithoutBytes, MappedSteps DEF read
  <2> QED
    BY <1>1, <2>1
<1>9. ASSUME NEW n \in Amounts, toss(n) PROVE Queue!Next
  <2>1. Queue!Toss(n)
    BY <1>0, <1>2, <1>9, WithoutBytes, MappedSteps DEF toss
  <2> QED
    BY <1>1, <2>1
<1>10. ASSUME NEW n \in Amounts, peek(n) PROVE Queue!Next
  <2>1. Queue!Peek(n)
    BY <1>0, <1>2, <1>10, WithoutBytes, MappedSteps DEF peek
  <2> QED
    BY <1>1, <2>1
<1>11. ASSUME NEW n \in Amounts, read_loop(n) PROVE Queue!Next
  <2>1. CASE Reading(buffer, n) > 0
    BY <1>8, <1>11, <2>1 DEF read_loop
  <2>2. CASE ~(Reading(buffer, n) > 0) /\ LoopsLeft = 0
    BY <1>1, <1>2, <1>4, <1>11, <2>2 DEF read_loop
  <2>3. CASE ~(Reading(buffer, n) > 0) /\ LoopsLeft # 0
    <3> DEFINE b == Rewound(buffer)
    <3>1. out' = Bytes(b, Reading(b, n)) /\ buffer' = Without(b, n)
      BY <1>11, <2>3 DEF read_loop
    <3>2. Well(b) /\ Unread(b) = Past(buffer) \o u /\ Past(b) = <<>>
      BY <1>0, RewoundWell, RewoundBytes DEF u
    <3> HIDE DEF b
    <3>3. /\ out' = Queue!Front(Unread(b), n)
          /\ Unread(buffer') = Queue!Rest(Unread(b), n)
          /\ Past(buffer') = <<>> \o Queue!Front(Unread(b), n)
      BY <1>2, <3>1, <3>2, WithoutBytes
    <3>4. Queue!Front(Unread(b), n) \in Seq(Content)
      <4>1. b.data \in Seq(Content) /\ b.head \in Nat /\ b.used \in Nat /\ b.head + b.used <= Len(b.data)
        BY <3>2, Members
      <4>2. Reading(b, n) \in Nat /\ Reading(b, n) <= b.used
        BY <1>2, <4>1 DEF Reading
      <4>3. b.head + Reading(b, n) <= Len(b.data)
        BY <4>1, <4>2
      <4>4. Bytes(b, Reading(b, n)) \in Seq(Content)
        BY <4>1, <4>2, <4>3, PartOf DEF Bytes
      <4> QED
        BY <3>1, <3>3, <4>4
    <3>5. Past(buffer') = Queue!Front(Unread(b), n)
      BY <3>3, <3>4, ConcatEmptySeq
    <3>6. u = <<>> \/ n = 0
      <4>1. buffer.used \in Nat /\ n \in Nat
        BY <1>0, <1>2, Members
      <4>2. buffer.used = 0 \/ n = 0
        BY <2>3, <4>1 DEF Reading
      <4> QED
        BY <1>0, <4>2, NothingThere DEF u
    <3>7. Queue!ReadAgain(n)
      BY <3>2, <3>3, <3>5, <3>6, MappedSteps DEF u
    <3> QED
      BY <1>1, <3>7
  <2> QED
    BY <2>1, <2>2, <2>3
<1>12. ASSUME NEW n \in {-1, 0, 1}, set_loops(n) PROVE Queue!Next
  BY <1>1, <1>2, <1>4, <1>12 DEF set_loops
<1>13. CASE peek_zerocopy
  <2>1. out' = u /\ Queue!Front(u, Len(u)) = u /\ UNCHANGED buffer
    BY <1>0, <1>13, FrontAndRest DEF peek_zerocopy, u, Unread
  <2>2. Queue!Peek(Len(u))
    BY <2>1, MappedSteps DEF u
  <2> QED
    BY <1>1, <2>2
<1>14. CASE zero
  <2>1. Well(buffer') /\ buffer'.head = 0 /\ buffer'.used = 0 /\ out' = <<>>
    BY <1>0, <1>14, ZeroedWell DEF zero
  <2>2. Queue!Replace(<<>>)
    BY <2>1, NothingThere, MappedSteps
  <2> QED
    BY <1>1, <2>2
<1>15. ASSUME NEW s \in Strings, NEW ok \in BOOLEAN, NEW again \in BOOLEAN,
              write(s, ok) \/ zwrite(s, ok, again) \/ slide_write(s, ok, again)
       PROVE  Queue!Next
  <2>1. CASE write(s, ok)
    <3>1. Queue!Write(s)
      BY <1>0, <2>1, WrittenBytes, MappedSteps, SMTT(30) DEF write
    <3> QED
      BY <1>1, <3>1
  <2>2. CASE zwrite(s, ok, again)
    BY <1>0, <1>1, <2>2, ZWriteStep DEF u
  <2>3. CASE slide_write(s, ok, again)
    BY <1>0, <1>1, <2>3, SlideWriteStep
  <2> QED
    BY <1>15, <2>1, <2>2, <2>3
<1>16. CASE UNCHANGED vars
  BY <1>16 DEF vars, Queue!vars, Bytes
<1> QED
  BY <1>5, <1>6, <1>7, <1>8, <1>9, <1>10, <1>11, <1>12, <1>13, <1>14, <1>15, <1>16
  DEF Next, Life, Reads, Writes

\* A switch_buffer is a queue of bytes: whatever is compacted, reallocated, tossed,
\* overwritten or read over again, bytes come out once per loop, in the order in
\* which they were written, and a write is taken as a whole or not at all.
THEOREM BufferIsQueue == Spec => IsQueue
<1>1. Init => Queue!Init
  <2> SUFFICES ASSUME Init PROVE Queue!Init
    OBVIOUS
  <2>1. Unread(buffer) = <<>> /\ Past(buffer) = <<>> /\ out = <<>>
    BY NewBytes DEF Init
  <2> QED
    BY <2>1 DEF Queue!Init, Unread, Past
<1>2. Layout /\ Partition /\ [Next]_vars => [Queue!Next]_(Queue!vars)
  BY QueueStep
<1> QED
  BY <1>1, <1>2, LayoutKept, AlwaysPartition, PTL DEF Spec, IsQueue, Queue!Spec

=============================================================================
