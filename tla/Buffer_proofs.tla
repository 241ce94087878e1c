--------------------------- MODULE Buffer_proofs ---------------------------
(***************************************************************************)
(* Proofs about switch_buffer.c for buffers, writes and block sizes of any *)
(* length.  Every operation is followed on buffers that are laid out as    *)
(* Layout says, with the bytes it leaves where; BufferQueue_proofs builds  *)
(* on this.                                                                *)
(***************************************************************************)
EXTENDS Buffer, TLAPS

Content == Byte \cup {Junk}

\* A buffer whose used bytes end where the used memory ends, inside the memory.
Well(b) == /\ b \in Buffer
           /\ b.head + b.used = b.actually_used
           /\ b.actually_used <= Len(b.data)

-----------------------------------------------------------------------------
(* What the operations do to a buffer.                                     *)

LEMMA NewSize ==
    ASSUME NEW b, Len(b.data) \in Nat, NEW n \in Nat, blocksize \in Nat
    PROVE  new_size(b, n) \in Nat /\ new_size(b, n) >= Len(b.data) + n
<1>1. CASE blocksize > n
  BY <1>1 DEF new_size
<1>2. CASE ~(blocksize > n)
  BY <1>2 DEF new_size
<1> QED
  BY <1>1, <1>2

LEMMA EmptyWell ==
    ASSUME NEW n \in Nat
    PROVE  Well(Empty(n)) /\ Len(Empty(n).data) = n
<1>1. [i \in 1 .. n |-> Junk] \in Seq(Content) /\ Len([i \in 1 .. n |-> Junk]) = n
  BY DEF Content
<1> QED
  BY <1>1 DEF Well, Empty, Buffer, Content

LEMMA FullWell ==
    ASSUME NEW s \in Seq(Content)
    PROVE  Well(Full(s))
BY DEF Well, Full, Buffer, Content

LEMMA WithoutWell ==
    ASSUME NEW b, Well(b), NEW n \in Nat
    PROVE  /\ Well(Without(b, n))
           /\ Without(b, n).data = b.data
           /\ Without(b, n).used = b.used - Reading(b, n)
           /\ Without(b, n).head = b.head + Reading(b, n)
           /\ Without(b, n).actually_used = b.actually_used
<1> DEFINE k == Reading(b, n)
<1>1. b \in Buffer /\ b.used \in Nat /\ b.head \in Nat /\ b.actually_used \in Nat
  BY DEF Well, Buffer
<1>2. k \in Nat /\ k <= b.used /\ b.used - k \in Nat /\ b.head + k \in Nat
  BY <1>1 DEF Reading
<1>3. Without(b, n) = [b EXCEPT !.used = @ - k, !.head = @ + k]
  BY DEF Without
<1> HIDE DEF k
<1>4. /\ Without(b, n) \in Buffer /\ Without(b, n).data = b.data
      /\ Without(b, n).used = b.used - k /\ Without(b, n).head = b.head + k
      /\ Without(b, n).actually_used = b.actually_used
  BY <1>1, <1>2, <1>3, ZenonT(30) DEF Buffer
<1> QED
  BY <1>1, <1>2, <1>4 DEF Well, k

LEMMA RewoundWell ==
    ASSUME NEW b, Well(b)
    PROVE  /\ Well(Rewound(b)) /\ Rewound(b).data = b.data
           /\ Rewound(b).head = 0 /\ Rewound(b).used = b.actually_used
<1>1. b \in Buffer /\ b.actually_used \in Nat
  BY DEF Well, Buffer
<1>2. /\ Rewound(b) \in Buffer /\ Rewound(b).data = b.data
      /\ Rewound(b).head = 0 /\ Rewound(b).used = b.actually_used
      /\ Rewound(b).actually_used = b.actually_used
  BY <1>1 DEF Rewound, Buffer
<1> QED
  BY <1>1, <1>2 DEF Well

LEMMA ZeroedWell ==
    ASSUME NEW b, Well(b)
    PROVE  /\ Well(Zeroed(b)) /\ Zeroed(b).data = b.data
           /\ Zeroed(b).head = 0 /\ Zeroed(b).used = 0
<1>1. b \in Buffer /\ Len(b.data) \in Nat
  BY DEF Well, Buffer
<1>2. /\ Zeroed(b) \in Buffer /\ Zeroed(b).data = b.data
      /\ Zeroed(b).head = 0 /\ Zeroed(b).used = 0 /\ Zeroed(b).actually_used = 0
  BY <1>1 DEF Zeroed, Buffer
<1> QED
  BY <1>1, <1>2 DEF Well

LEMMA CompactedWell ==
    ASSUME NEW b, Well(b)
    PROVE  /\ Well(Compacted(b))
           /\ Len(Compacted(b).data) = Len(b.data)
           /\ Compacted(b).used = b.used /\ Compacted(b).head = 0
           /\ \A i \in 1 .. b.used : Compacted(b).data[i] = b.data[b.head + i]
<1> DEFINE d == [i \in 1 .. Len(b.data) |->
                    IF i <= b.used THEN b.data[b.head + i] ELSE b.data[i]]
<1>1. Len(b.data) \in Nat /\ b.data \in Seq(Content) /\ b.head \in Nat /\ b.used \in Nat
  BY DEF Well, Buffer, Content
<1>2. \A i \in 1 .. Len(b.data) : b.data[i] \in Content
  BY <1>1
<1>3. \A i \in 1 .. Len(b.data) : i <= b.used => b.head + i \in 1 .. Len(b.data)
  BY <1>1 DEF Well
<1>4. d \in Seq(Content) /\ Len(d) = Len(b.data)
  BY <1>1, <1>2, <1>3
<1> DEFINE u == b.used
<1>5. Compacted(b) = [b EXCEPT !.data = d, !.head = 0, !.actually_used = u]
  BY DEF Compacted
<1> HIDE DEF d
<1>6. b \in Buffer
  BY DEF Well
<1>7. /\ Compacted(b) \in Buffer /\ Compacted(b).data = d
      /\ Compacted(b).head = 0 /\ Compacted(b).used = b.used
      /\ Compacted(b).actually_used = b.used
  <2>1. d \in Seq(Byte \cup {Junk}) /\ u \in Nat /\ b \in Buffer /\ 0 \in Nat
    BY <1>1, <1>4, <1>6 DEF Content
  <2>2. u = b.used
    OBVIOUS
  <2> HIDE DEF u
  <2>3. /\ Compacted(b) \in Buffer /\ Compacted(b).data = d
        /\ Compacted(b).head = 0 /\ Compacted(b).used = b.used
        /\ Compacted(b).actually_used = u
    BY <1>5, <2>1 DEF Buffer
  <2> QED
    BY <2>2, <2>3
<1>8. b.used <= Len(b.data)
  BY <1>1 DEF Well
<1>9. \A i \in 1 .. b.used : d[i] = b.data[b.head + i]
  BY <1>1, <1>8 DEF d
<1> QED
  BY <1>1, <1>4, <1>7, <1>8, <1>9 DEF Well

LEMMA GrownWell ==
    ASSUME NEW b, Well(b), b.head = 0, NEW n \in Nat, blocksize \in Nat
    PROVE  /\ Well(Grown(b, n))
           /\ Len(Grown(b, n).data) = new_size(b, n)
           /\ Grown(b, n).used = b.used /\ Grown(b, n).head = 0
           /\ \A i \in 1 .. Len(b.data) : Grown(b, n).data[i] = b.data[i]
<1> DEFINE m == new_size(b, n) - Len(b.data)
           d == b.data \o [i \in 1 .. m |-> Junk]
<1>1. Len(b.data) \in Nat /\ b.data \in Seq(Content) /\ m \in Nat
  BY DEF Well, Buffer, Content, new_size
<1>2. new_size(b, n) = Len(b.data) + m
  BY <1>1 DEF new_size
<1> HIDE DEF m
<1>3. [i \in 1 .. m |-> Junk] \in Seq(Content) /\ Len([i \in 1 .. m |-> Junk]) = m
  BY <1>1 DEF Content
<1>4. d \in Seq(Content) /\ Len(d) = Len(b.data) + m
  BY <1>1, <1>3
<1>5. Grown(b, n) = [b EXCEPT !.data = d, !.head = 0]
  BY DEF Grown, m
<1>8. \A i \in 1 .. Len(b.data) : d[i] = b.data[i]
  BY <1>1, <1>3
<1> HIDE DEF d
<1>6. b \in Buffer /\ b.used \in Nat /\ b.actually_used \in Nat
  BY DEF Well, Buffer
<1>7. /\ Grown(b, n) \in Buffer /\ Grown(b, n).data = d
      /\ Grown(b, n).head = 0 /\ Grown(b, n).used = b.used
      /\ Grown(b, n).actually_used = b.actually_used
  BY <1>4, <1>5, <1>6 DEF Buffer, Content
<1> QED
  BY <1>1, <1>2, <1>4, <1>6, <1>7, <1>8 DEF Well

LEMMA CopiedWell ==
    ASSUME NEW b, Well(b), NEW s \in Seq(Byte), b.actually_used + Len(s) <= Len(b.data)
    PROVE  /\ Well(Copied(b, s)) /\ Len(Copied(b, s).data) = Len(b.data)
           /\ Copied(b, s).head = b.head /\ Copied(b, s).used = b.used + Len(s)
           /\ Copied(b, s).actually_used = b.actually_used + Len(s)
           /\ \A i \in 1 .. b.actually_used : Copied(b, s).data[i] = b.data[i]
           /\ \A i \in 1 .. Len(s) : Copied(b, s).data[b.actually_used + i] = s[i]
<1> DEFINE from == b.head + b.used
           d == [i \in 1 .. Len(b.data) |-> IF i \in from + 1 .. from + Len(s)
                                               THEN s[i - from] ELSE b.data[i]]
<1>1. /\ Len(b.data) \in Nat /\ b.data \in Seq(Content) /\ from \in Nat /\ Len(s) \in Nat
      /\ from = b.actually_used
  BY DEF Well, Buffer, Content
<1> HIDE DEF from
<1>2. \A i \in 1 .. Len(b.data) : b.data[i] \in Content
  BY <1>1
<1>3. \A i \in from + 1 .. from + Len(s) : s[i - from] \in Content
  BY <1>1 DEF Content
<1>4. d \in Seq(Content) /\ Len(d) = Len(b.data)
  BY <1>1, <1>2, <1>3
<1>5. Copied(b, s) = [b EXCEPT !.data = d, !.used = @ + Len(s), !.actually_used = @ + Len(s)]
  BY DEF Copied, from
<1> HIDE DEF d
<1>6. b \in Buffer /\ b.used \in Nat /\ b.head \in Nat /\ b.actually_used \in Nat
  BY DEF Well, Buffer
<1>7. /\ Copied(b, s) \in Buffer /\ Copied(b, s).data = d
      /\ Copied(b, s).head = b.head /\ Copied(b, s).used = b.used + Len(s)
      /\ Copied(b, s).actually_used = b.actually_used + Len(s)
  <2>1. b.used + Len(s) \in Nat /\ b.actually_used + Len(s) \in Nat
    BY <1>1, <1>6
  <2>2. d \in Seq(Byte \cup {Junk}) /\ b \in Buffer
    BY <1>4, <1>6 DEF Content
  <2> QED
    BY <1>5, <2>1, <2>2 DEF Buffer
<1>8. ASSUME NEW i \in 1 .. b.actually_used PROVE d[i] = b.data[i]
  <2>1. b.actually_used <= Len(b.data)
    BY DEF Well
  <2>2. i \in 1 .. Len(b.data) /\ i \notin from + 1 .. from + Len(s)
    BY <1>1, <1>6, <2>1
  <2> QED
    BY <2>2 DEF d
<1>9. ASSUME NEW i \in 1 .. Len(s) PROVE d[b.actually_used + i] = s[i]
  <2>1. from + i \in 1 .. Len(b.data) /\ from + i \in from + 1 .. from + Len(s)
    BY <1>1
  <2>2. (from + i) - from = i
    BY <1>1
  <2>3. d[from + i] = s[(from + i) - from]
    BY <2>1, Zenon DEF d
  <2>4. from = b.actually_used
    BY <1>1
  <2> QED
    BY <2>2, <2>3, <2>4, Zenon
<1> QED
  BY <1>1, <1>4, <1>6, <1>7, <1>8, <1>9 DEF Well

\* The room behind the used bytes suffices, or all there is has been used up; and
\* if the buffer has grown it was for bytes that max_len allows.
LEMMA ReadyWell ==
    ASSUME NEW b, Well(b), NEW n \in Nat, NEW ok, blocksize \in Nat
    PROVE  LET c == Ready(b, n, ok) IN
           /\ Well(c) /\ c.used = b.used
           /\ freespace(c) >= n => c.actually_used + n <= Len(c.data)
           /\ \/ Len(c.data) = Len(b.data)
              \/ /\ b.used + n > Len(b.data) /\ MayGrow(b, n)
                 /\ Len(c.data) = new_size(b, n)
           /\ freespace(c) < n =>
                 /\ b.used + n > Len(b.data)
                 /\ ~MayGrow(b, n) \/ ~ok \/ new_size(b, n) > Memory
<1> DEFINE c == IF actual_freespace(b) < n THEN Compacted(b) ELSE b
<1>0. /\ Len(b.data) \in Nat /\ b.used \in Nat /\ b.head \in Nat /\ b.actually_used \in Nat
      /\ b.actually_used = b.head + b.used
  BY DEF Well, Buffer
<1>1. /\ Well(c) /\ c.used = b.used /\ Len(c.data) = Len(b.data)
      /\ actual_freespace(b) < n => c.head = 0
      /\ actual_freespace(b) >= n => c = b
  BY <1>0, CompactedWell DEF actual_freespace
<1> HIDE DEF c
<1>2. Ready(b, n, ok) = IF freespace(c) < n /\ MayGrow(c, n) /\ ok /\ new_size(c, n) <= Memory
                           THEN Grown(c, n) ELSE c
  BY DEF Ready, c
<1>3. /\ Len(c.data) \in Nat /\ c.head \in Nat /\ c.actually_used \in Nat
      /\ c.actually_used = c.head + c.used
      /\ MayGrow(c, n) = MayGrow(b, n) /\ new_size(c, n) = new_size(b, n)
      /\ freespace(c) = freespace(b) /\ freespace(b) = Len(b.data) - b.used
      /\ actual_freespace(b) = Len(b.data) - b.actually_used
  BY <1>1 DEF Well, Buffer, MayGrow, new_size, freespace, actual_freespace
<1>4. CASE freespace(c) < n /\ MayGrow(c, n) /\ ok /\ new_size(c, n) <= Memory
  <2>1. c.head = 0
    BY <1>0, <1>1, <1>3, <1>4
  <2>2. /\ Well(Grown(c, n)) /\ Len(Grown(c, n).data) = new_size(c, n)
        /\ Grown(c, n).used = c.used /\ Grown(c, n).head = 0
    BY <1>1, <2>1, GrownWell
  <2>3. Ready(b, n, ok) = Grown(c, n)
    BY <1>2, <1>4
  <2>4. new_size(c, n) >= Len(b.data) + n /\ new_size(c, n) \in Nat
    BY <1>1, <1>3, NewSize
  <2>5. /\ Grown(c, n).actually_used = b.used
        /\ freespace(Grown(c, n)) = new_size(c, n) - b.used
    BY <1>0, <1>1, <2>2 DEF Well, Buffer, freespace
  <2>6. b.used <= Len(b.data)
    BY <1>0 DEF Well
  <2>7. freespace(Grown(c, n)) >= n /\ b.used + n <= new_size(c, n)
    BY <1>0, <2>4, <2>5, <2>6
  <2>8. b.used + n > Len(b.data)
    BY <1>0, <1>3, <1>4
  <2>9. ~(freespace(Grown(c, n)) < n)
    BY <1>0, <2>4, <2>5, <2>7
  <2> QED
    BY <1>1, <1>3, <1>4, <2>2, <2>3, <2>5, <2>7, <2>8, <2>9
<1>5. CASE ~(freespace(c) < n /\ MayGrow(c, n) /\ ok /\ new_size(c, n) <= Memory)
  <2>1. Ready(b, n, ok) = c
    BY <1>2, <1>5
  <2>2. new_size(b, n) \in Nat
    BY <1>0, NewSize
  <2>3. freespace(c) < n \/ freespace(c) >= n
    BY <1>0, <1>3
  <2>4. ASSUME freespace(c) >= n PROVE c.actually_used + n <= Len(c.data)
    BY <1>0, <1>1, <1>3, <2>4, SMTT(30)
  <2>5. ASSUME freespace(c) < n
        PROVE  /\ b.used + n > Len(b.data)
               /\ ~MayGrow(b, n) \/ ~ok \/ ~(new_size(b, n) <= Memory)
    BY <1>0, <1>3, <1>5, <2>5
  <2> QED
    BY <1>1, <2>1, <2>2, <2>4, <2>5, BufferAssumption
<1> QED
  BY <1>4, <1>5

-----------------------------------------------------------------------------
(* Writes.                                                                 *)

LEMMA Writable ==
    ASSUME NEW s \in Strings
    PROVE  s \in Seq(Byte) /\ Len(s) \in Nat /\ Len(s) <= MaxWrite
<1>1. PICK n \in 0 .. MaxWrite : s \in [1 .. n -> Byte]
  BY DEF Strings
<1>2. n \in Nat /\ n <= MaxWrite
  BY BufferAssumption
<1>3. s \in Seq(Byte) /\ Len(s) = n
  BY <1>1, <1>2
<1> QED
  BY <1>2, <1>3

LEMMA WrittenWell ==
    ASSUME NEW b, Well(b), NEW s \in Strings, NEW ok, blocksize \in Nat, max_len \in Nat
    PROVE  Well(Written(b, s, ok))
<1> DEFINE n == Len(s)
           c == Ready(b, n, ok)
<1>0. s \in Seq(Byte) /\ n \in Nat /\ n <= MaxWrite
  BY Writable
<1>1. /\ Well(c)
      /\ freespace(c) >= n => c.actually_used + n <= Len(c.data)
  BY <1>0, ReadyWell
<1>3. CASE s = <<>>
  BY <1>3 DEF Written
<1>4. CASE s # <<>> /\ ~Fits(b, s, ok)
  BY <1>1, <1>4 DEF Written
<1>5. CASE s # <<>> /\ Fits(b, s, ok)
  <2>1. c.actually_used + n <= Len(c.data)
    BY <1>1, <1>5 DEF Fits
  <2>2. Well(Copied(c, s))
    BY <1>0, <1>1, <2>1, CopiedWell
  <2>3. Written(b, s, ok) = Copied(c, s)
    BY <1>5 DEF Written
  <2> QED
    BY <2>2, <2>3
<1> QED
  BY <1>3, <1>4, <1>5

-----------------------------------------------------------------------------
(* The theorems.                                                           *)

LEMMA InvWell == Layout => Well(buffer) /\ blocksize \in Nat /\ max_len \in Nat
BY BufferAssumption DEF Layout, Well

LEMMA StepInv == ASSUME Layout, [Next]_vars PROVE Layout'
<1>0. Well(buffer) /\ blocksize \in Nat /\ max_len \in Nat
  BY InvWell
<1>1. ASSUME UNCHANGED limits, Well(buffer'), loops' \in -1 .. 1
      PROVE  Layout'
  BY <1>1 DEF Layout, Well, limits
<1>2. loops \in -1 .. 1
  BY DEF Layout
<1>3. ASSUME Well(buffer'), kind' \in {"none", "fixed", "partition"}, loops' = 0,
             max_len' \in MaxLens \cup {0}, blocksize' \in BlockSizes \cup {0}
      PROVE  Layout'
  BY <1>3 DEF Layout, Well
<1>4. \A s \in Strings : Well(Full(s))
  <2> SUFFICES ASSUME NEW s \in Strings PROVE Well(Full(s))
    OBVIOUS
  <2>1. s \in Seq(Content)
    BY Writable DEF Content
  <2> QED
    BY <2>1, FullWell
<1>5. max_len \in MaxLens \cup {0} /\ blocksize \in BlockSizes \cup {0}
  BY DEF Layout
<1>6. CASE create
  BY <1>3, <1>5, <1>6, EmptyWell, BufferAssumption DEF create
<1>7. CASE create_dynamic
  <2>1. Well(buffer') /\ Len(buffer'.data) = START_LEN
    BY <1>7, EmptyWell, BufferAssumption DEF create_dynamic
  <2> QED
    BY <1>7, <2>1 DEF create_dynamic, Layout, Well
<1>8. ASSUME NEW s \in Strings, create_partition(s) PROVE Layout'
  BY <1>3, <1>4, <1>5, <1>8 DEF create_partition
<1>9. CASE destroy
  BY <1>3, <1>9, EmptyWell DEF destroy
<1>10. ASSUME kind = "partition", UNCHANGED <<limits, loops>>, Well(buffer') PROVE Layout'
  BY <1>1, <1>2, <1>10 DEF limits
<1>11. ASSUME NEW s \in Strings, set_partition_data(s) PROVE Layout'
  BY <1>4, <1>10, <1>11 DEF set_partition_data
<1>12. CASE reset_partition_data
  <2>1. buffer.data \in Seq(Content)
    BY <1>0 DEF Well, Buffer, Content
  <2> QED
    BY <1>10, <1>12, <2>1, FullWell DEF reset_partition_data
<1>13. ASSUME NEW n \in Nat, buffer' = Without(buffer, n), UNCHANGED <<limits, loops>> PROVE Layout'
  BY <1>0, <1>1, <1>2, <1>13, WithoutWell
<1>14. ASSUME UNCHANGED <<limits, buffer>>, loops' \in -1 .. 1 PROVE Layout'
  BY <1>0, <1>1, <1>14
<1>15. ASSUME NEW n \in Amounts, read(n) \/ toss(n) \/ peek(n) \/ read_loop(n) PROVE Layout'
  <2>0. n \in Nat
    BY BufferAssumption DEF Amounts
  <2>1. CASE read(n) \/ toss(n)
    BY <1>13, <2>0, <2>1 DEF read, toss
  <2>2. CASE peek(n)
    BY <1>2, <1>14, <2>2 DEF peek
  <2>3. CASE read_loop(n) /\ ~(Reading(buffer, n) > 0)
    <3>1. loops' \in -1 .. 1 /\ UNCHANGED limits
      BY <1>2, <2>3 DEF read_loop, LoopsLeft
    <3>2. CASE UNCHANGED buffer
      BY <1>14, <3>1, <3>2
    <3>3. CASE buffer' = Without(Rewound(buffer), n)
      <4>1. Well(Rewound(buffer)) /\ Rewound(buffer).data = buffer.data
        BY <1>0, RewoundWell
      <4>2. Well(buffer') /\ buffer'.data = buffer.data
        BY <2>0, <3>3, <4>1, WithoutWell
      <4> QED
        BY <1>0, <1>1, <3>1, <4>2
    <3> QED
      BY <2>3, <3>2, <3>3 DEF read_loop
  <2> QED
    BY <1>15, <2>1, <2>2, <2>3 DEF read_loop
<1>16. ASSUME NEW n \in {-1, 0, 1}, set_loops(n) PROVE Layout'
  BY <1>14, <1>16 DEF set_loops
<1>17. CASE peek_zerocopy
  BY <1>2, <1>14, <1>17 DEF peek_zerocopy
<1>18. CASE zero
  BY <1>0, <1>1, <1>2, <1>18, ZeroedWell DEF zero
<1>19. ASSUME NEW s \in Strings, NEW ok \in BOOLEAN, NEW again \in BOOLEAN,
              write(s, ok) \/ zwrite(s, ok, again) \/ slide_write(s, ok, again)
       PROVE  Layout'
  <2> DEFINE w == Written(buffer, s, ok)
  <2>1. Well(w)
    BY <1>0, WrittenWell
  <2> HIDE DEF w
  <2>2. UNCHANGED <<limits, loops>>
    BY <1>19 DEF write, zwrite, slide_write
  <2>3. CASE buffer' = w
    BY <1>1, <1>2, <2>1, <2>2, <2>3
  <2>4. CASE buffer' = Written(Zeroed(w), s, again)
    <3>1. Well(Zeroed(w))
      BY <2>1, ZeroedWell
    <3>2. Well(buffer')
      BY <1>0, <2>4, <3>1, WrittenWell
    <3> QED
      BY <1>1, <1>2, <2>2, <3>2
  <2>5. CASE buffer' = Written(Without(w, Len(s)), s, again)
    <3>1. Well(Without(w, Len(s)))
      BY <2>1, WithoutWell, Writable
    <3>2. Well(buffer')
      BY <1>0, <2>5, <3>1, WrittenWell
    <3> QED
      BY <1>1, <1>2, <2>2, <3>2
  <2> QED
    BY <1>19, <2>3, <2>4, <2>5 DEF write, zwrite, slide_write, ZWritten, SlideWritten, w
<1>20. CASE UNCHANGED vars
  BY <1>2, <1>14, <1>20 DEF vars
<1> QED
  BY <1>6, <1>7, <1>8, <1>9, <1>11, <1>12, <1>15, <1>16, <1>17, <1>18, <1>19, <1>20
  DEF Next, Life, Reads, Writes

\* No sequence of operations makes a buffer whose used bytes leave its memory, or
\* end before the last byte that was written: every copy stays inside.
THEOREM LayoutKept == Spec => []Layout
<1>1. Init => Layout
  <2> SUFFICES ASSUME Init PROVE Layout
    OBVIOUS
  <2>1. Well(buffer)
    BY EmptyWell DEF Init
  <2> QED
    BY <2>1 DEF Init, Layout, Well
<1>2. Layout /\ [Next]_vars => Layout'
  BY StepInv
<1> QED
  BY <1>1, <1>2, PTL DEF Spec

\* A write fails only if the buffer is full and may not, or cannot, grow.
THEOREM RefusalsJustified == Spec => []RefusedOnlyWhenFull
<1>1. Layout => RefusedOnlyWhenFull
  <2> SUFFICES ASSUME Layout, kind \in {"fixed", "dynamic"}, NEW s \in Strings,
                      NEW ok \in BOOLEAN, ~Fits(buffer, s, ok)
               PROVE  /\ buffer.used + Len(s) > Len(buffer.data)
                      /\ \/ kind = "fixed" \/ ~ok
                         \/ max_len # 0 /\ buffer.used + Len(s) > max_len
                         \/ new_size(buffer, Len(s)) > Memory
    BY DEF RefusedOnlyWhenFull
  <2> DEFINE c == Ready(buffer, Len(s), ok)
  <2>0. Well(buffer) /\ blocksize \in Nat /\ max_len \in Nat /\ Len(s) \in Nat
    BY InvWell, Writable
  <2>1. buffer.used \in Nat /\ Len(buffer.data) \in Nat
    BY <2>0 DEF Well, Buffer
  <2>2. /\ Well(c)
        /\ freespace(c) < Len(s) =>
              /\ buffer.used + Len(s) > Len(buffer.data)
              /\ ~MayGrow(buffer, Len(s)) \/ ~ok \/ new_size(buffer, Len(s)) > Memory
    BY <2>0, ReadyWell
  <2>3. freespace(c) \in Int
    BY <2>2 DEF Well, Buffer, freespace
  <2>4. freespace(c) < Len(s)
    BY <2>0, <2>3 DEF Fits
  <2> QED
    BY <2>0, <2>1, <2>2, <2>4 DEF MayGrow
<1> QED
  BY <1>1, LayoutKept, PTL

=============================================================================
