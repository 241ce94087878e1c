------------------------------- MODULE Buffer -------------------------------
(***************************************************************************)
(* switch_buffer.c: one buffer after another, of each of the three kinds.  *)
(* A fixed buffer has its memory from a pool, a dynamic one grows, and a   *)
(* partition reads memory that its user provides.  Operations are atomic:  *)
(* those who share a buffer hold its mutex (switch_buffer_lock).           *)
(***************************************************************************)
EXTENDS Integers, Sequences

CONSTANTS
    Byte,       \* the values of a byte
    Junk,       \* a byte of memory that nobody has written
    MaxWrite,   \* bound: the longest write or read
    START_LEN,  \* start_len of a dynamic buffer, max_len of a fixed one
    MaxLens,    \* values of max_len, 0 is no limit
    BlockSizes, \* values of blocksize
    Memory      \* bound: the largest block realloc can give

ASSUME BufferAssumption ==
    /\ Junk \notin Byte
    /\ MaxWrite \in Nat
    /\ START_LEN \in Nat \ {0}
    /\ MaxLens \subseteq Nat
    /\ BlockSizes \subseteq Nat
    /\ Memory \in Nat

Strings == UNION {[1 .. n -> Byte] : n \in 0 .. MaxWrite}
Amounts == 0 .. MaxWrite

VARIABLES
    kind,       \* the flags; none if there is no buffer
    max_len, blocksize,
    buffer,     \* the memory and the places in it
    loops,
    out         \* the bytes that the last operation returned to its caller

limits == <<kind, max_len, blocksize>>
vars == <<limits, buffer, loops, out>>

\* data is all datalen bytes of memory, head an offset in it.
Buffer == [data : Seq(Byte \cup {Junk}), head : Nat, used : Nat, actually_used : Nat]

\* n bytes that are all used, or none.
Full(s) == [data |-> s, head |-> 0, used |-> Len(s), actually_used |-> Len(s)]
Empty(n) == [data |-> [i \in 1 .. n |-> Junk], head |-> 0, used |-> 0, actually_used |-> 0]

Init ==
    /\ kind = "none" /\ max_len = 0 /\ blocksize = 0
    /\ buffer = Empty(0)
    /\ loops = 0 /\ out = <<>>

-----------------------------------------------------------------------------
(* Creation and destruction.                                               *)

create ==
    /\ kind = "none"
    /\ kind' = "fixed" /\ UNCHANGED <<max_len, blocksize>>
    /\ buffer' = Empty(START_LEN)
    /\ loops' = 0 /\ out' = <<>>

create_dynamic ==
    /\ kind = "none"
    /\ kind' = "dynamic" /\ max_len' \in MaxLens /\ blocksize' \in BlockSizes
    /\ buffer' = Empty(START_LEN)
    /\ loops' = 0 /\ out' = <<>>

create_partition(s) ==
    /\ kind = "none"
    /\ kind' = "partition" /\ UNCHANGED <<max_len, blocksize>>
    /\ buffer' = Full(s)
    /\ loops' = 0 /\ out' = <<>>

set_partition_data(s) ==
    /\ kind = "partition"
    /\ buffer' = Full(s)
    /\ out' = <<>>
    /\ UNCHANGED <<limits, loops>>

reset_partition_data ==
    /\ kind = "partition"
    /\ buffer' = Full(buffer.data)
    /\ out' = <<>>
    /\ UNCHANGED <<limits, loops>>

destroy ==
    /\ kind # "none"
    /\ kind' = "none" /\ max_len' = 0 /\ blocksize' = 0
    /\ buffer' = Empty(0)
    /\ loops' = 0 /\ out' = <<>>

-----------------------------------------------------------------------------
(* Reading.                                                                *)

\* How much of n bytes there is.
Reading(b, n) == IF b.used >= n THEN n ELSE b.used

\* The n bytes at head.
Bytes(b, n) == SubSeq(b.data, b.head + 1, b.head + n)

Without(b, n) == [b EXCEPT !.used = @ - Reading(b, n), !.head = @ + Reading(b, n)]

\* A new loop begins with everything that is in the memory.
Rewound(b) == [b EXCEPT !.head = 0, !.used = b.actually_used]

read(n) ==
    /\ kind # "none"
    /\ out' = Bytes(buffer, Reading(buffer, n))
    /\ buffer' = Without(buffer, n)
    /\ UNCHANGED <<limits, loops>>

toss(n) ==
    /\ kind # "none"
    /\ buffer' = Without(buffer, n)
    /\ out' = <<>>
    /\ UNCHANGED <<limits, loops>>

peek(n) ==
    /\ kind # "none"
    /\ out' = Bytes(buffer, Reading(buffer, n))
    /\ UNCHANGED <<limits, buffer, loops>>

\* The bytes at the pointer, before the next operation can move them.
peek_zerocopy ==
    /\ kind # "none"
    /\ out' = Bytes(buffer, buffer.used)
    /\ UNCHANGED <<limits, buffer, loops>>

set_loops(n) ==
    /\ kind # "none"
    /\ loops' = n
    /\ out' = <<>>
    /\ UNCHANGED <<limits, buffer>>

LoopsLeft == IF loops > 0 THEN loops - 1 ELSE loops

\* Reading gives nothing: the next loop begins, unless it was the last one.
read_loop(n) ==
    /\ kind # "none"
    /\ IF Reading(buffer, n) > 0
          THEN read(n)
          ELSE /\ loops' = LoopsLeft
               /\ IF LoopsLeft = 0
                     THEN out' = <<>> /\ UNCHANGED buffer
                     ELSE LET b == Rewound(buffer) IN
                             /\ out' = Bytes(b, Reading(b, n))
                             /\ buffer' = Without(b, n)
               /\ UNCHANGED limits

-----------------------------------------------------------------------------
(* Writing.                                                                *)

\* Bytes that can be used and are not; bytes behind the last used one.
freespace(b) == Len(b.data) - b.used
actual_freespace(b) == Len(b.data) - b.actually_used

\* Mutant of Compacted: the used bytes stay where they are.
CompactedUnmoved(b) == [b EXCEPT !.head = 0, !.actually_used = b.used]

\* Mutant of Compacted: the bytes that were read count as used memory.
CompactedUncounted(b) ==
    [b EXCEPT !.data = [i \in 1 .. Len(@) |-> IF i <= b.used THEN @[b.head + i] ELSE @[i]],
              !.head = 0]

\* memmove of the used bytes to the beginning.
Compacted(b) ==
    [b EXCEPT !.data = [i \in 1 .. Len(@) |-> IF i <= b.used THEN @[b.head + i] ELSE @[i]],
              !.head = 0,
              !.actually_used = b.used]

MayGrow(b, n) == kind = "dynamic" /\ (max_len = 0 \/ b.used + n <= max_len)

new_size(b, n) == Len(b.data) + (IF blocksize > n THEN blocksize ELSE n)

\* realloc.
Grown(b, n) == [b EXCEPT !.data = @ \o [i \in 1 .. new_size(b, n) - Len(@) |-> Junk],
                         !.head = 0]

\* memcpy behind the used bytes.
Copied(b, s) ==
    LET from == b.head + b.used IN
    [b EXCEPT !.data = [i \in 1 .. Len(@) |-> IF i \in from + 1 .. from + Len(s)
                                                 THEN s[i - from] ELSE @[i]],
              !.used = @ + Len(s),
              !.actually_used = @ + Len(s)]

\* The buffer when n bytes are about to be written: compacted if they do not fit
\* behind the last used byte, and larger if that was not enough.  ok is whether
\* realloc succeeds.
Ready(b, n, ok) ==
    LET c == IF actual_freespace(b) < n THEN Compacted(b) ELSE b
    IN  IF freespace(c) < n /\ MayGrow(c, n) /\ ok /\ new_size(c, n) <= Memory
           THEN Grown(c, n) ELSE c

\* Mutant of Fits: the room is measured before the bytes are moved.
FitsBehind(b, s, ok) == actual_freespace(b) >= Len(s)

Fits(b, s, ok) == freespace(Ready(b, Len(s), ok)) >= Len(s)

Written(b, s, ok) ==
    IF s = <<>> THEN b
    ELSE IF Fits(b, s, ok) THEN Copied(Ready(b, Len(s), ok), s)
    ELSE Ready(b, Len(s), ok)

\* switch_buffer_write returns zero: nothing fits, or nothing was there and wanted.
NoWrite(b, s, ok) == ~Fits(b, s, ok) \/ Written(b, s, ok).used = 0

write(s, ok) ==
    /\ kind \notin {"none", "partition"}
    /\ buffer' = Written(buffer, s, ok)
    /\ out' = <<>>
    /\ UNCHANGED <<limits, loops>>

Zeroed(b) == [b EXCEPT !.used = 0, !.actually_used = 0, !.head = 0]

zero ==
    /\ kind # "none"
    /\ buffer' = Zeroed(buffer)
    /\ out' = <<>>
    /\ UNCHANGED <<limits, loops>>

\* zwrite gives up everything for what it writes.
ZWritten(b, s, ok, again) ==
    LET w == Written(b, s, ok)
    IN  IF NoWrite(b, s, ok) THEN Written(Zeroed(w), s, again) ELSE w

\* Mutant of SlideWritten: makes room and does not try again.
SlideOnly(b, s, ok, again) ==
    LET w == Written(b, s, ok)
    IN  IF NoWrite(b, s, ok) THEN Without(w, Len(s)) ELSE w

\* slide_write gives up as many of the oldest bytes as it writes.
SlideWritten(b, s, ok, again) ==
    LET w == Written(b, s, ok)
    IN  IF NoWrite(b, s, ok) THEN Written(Without(w, Len(s)), s, again) ELSE w

zwrite(s, ok, again) ==
    /\ kind \notin {"none", "partition"}
    /\ buffer' = ZWritten(buffer, s, ok, again)
    /\ out' = <<>>
    /\ UNCHANGED <<limits, loops>>

slide_write(s, ok, again) ==
    /\ kind \notin {"none", "partition"}
    /\ buffer' = SlideWritten(buffer, s, ok, again)
    /\ out' = <<>>
    /\ UNCHANGED <<limits, loops>>

-----------------------------------------------------------------------------

Life == \/ create \/ create_dynamic \/ destroy \/ reset_partition_data
        \/ \E s \in Strings : create_partition(s) \/ set_partition_data(s)

Reads == \/ \E n \in Amounts : read(n) \/ toss(n) \/ peek(n) \/ read_loop(n)
         \/ \E n \in {-1, 0, 1} : set_loops(n)
         \/ peek_zerocopy

Writes == \/ \E s \in Strings, ok, again \in BOOLEAN :
                write(s, ok) \/ zwrite(s, ok, again) \/ slide_write(s, ok, again)
          \/ zero

Next == Life \/ Reads \/ Writes

Spec == Init /\ [][Next]_vars

-----------------------------------------------------------------------------
(* Properties.                                                             *)

\* Every member keeps its type, and the used bytes end where the used memory ends,
\* inside the memory: no copy of write, read or peek leaves it, and a new loop
\* finds all that was written.
Layout == /\ kind \in {"none", "fixed", "dynamic", "partition"} /\ loops \in -1 .. 1
          /\ max_len \in MaxLens \cup {0} /\ blocksize \in BlockSizes \cup {0}
          /\ buffer \in Buffer
          /\ buffer.head + buffer.used = buffer.actually_used
          /\ buffer.actually_used <= Len(buffer.data)

\* Whatever is compacted, reallocated, tossed or read over again, bytes come out
\* as they went in: see ByteQueue.
Queue == INSTANCE ByteQueue WITH q <- Bytes(buffer, buffer.used),
                                 past <- SubSeq(buffer.data, 1, buffer.head)
IsQueue == Queue!Spec

\* A write is refused only if it does not fit and the buffer may not grow for it,
\* or realloc fails: room that reading has made is found again.
RefusedOnlyWhenFull ==
    kind \in {"fixed", "dynamic"} =>
        \A s \in Strings, ok \in BOOLEAN :
            ~Fits(buffer, s, ok) =>
                /\ buffer.used + Len(s) > Len(buffer.data)
                /\ \/ kind = "fixed" \/ ~ok
                   \/ max_len # 0 /\ buffer.used + Len(s) > max_len
                   \/ new_size(buffer, Len(s)) > Memory

\* zwrite and slide_write keep the bytes they are given, if the buffer is large
\* enough for these alone.
NewestKept ==
    kind \in {"fixed", "dynamic"} =>
        \A s \in Strings, ok, again \in BOOLEAN :
            Len(s) <= Len(buffer.data) =>
                \A b \in {ZWritten(buffer, s, ok, again), SlideWritten(buffer, s, ok, again)} :
                    /\ b.used >= Len(s)
                    /\ SubSeq(b.data, b.actually_used - Len(s) + 1, b.actually_used) = s

=============================================================================
