----------------------------- MODULE ByteQueue -----------------------------
(***************************************************************************)
(* What the users of a switch_buffer rely on: bytes come out in the order  *)
(* they went in, once.  The bytes that were read stay behind the queue     *)
(* until something is written; until then reading can start over.          *)
(***************************************************************************)
EXTENDS Naturals, Sequences

CONSTANTS Strings,  \* what is written at a time
          Amounts   \* how much is asked for at a time

VARIABLES q,     \* the bytes that will be read
          past,  \* the bytes that reading over again gives before q
          out    \* what the last operation returned

vars == <<q, past, out>>

Least(m, n) == IF m <= n THEN m ELSE n
Front(s, n) == SubSeq(s, 1, Least(n, Len(s)))
Rest(s, n) == SubSeq(s, Least(n, Len(s)) + 1, Len(s))

Init == q = <<>> /\ past = <<>> /\ out = <<>>

\* A write is accepted or refused as a whole.
Write(s) == /\ q' \in {q, q \o s}
             /\ past' \in {past, <<>>}
             /\ out' = <<>>

\* Make room by giving up the n oldest bytes, and write.
Overwrite(n, s) == /\ q' \in {Rest(q, n), Rest(q, n) \o s}
                   /\ past' \in {past \o Front(q, n), <<>>}
                   /\ out' = <<>>

Read(n) == /\ out' = Front(q, n)
           /\ q' = Rest(q, n)
           /\ past' = past \o Front(q, n)

\* Nothing is left (or wanted): start over.
ReadAgain(n) == /\ q = <<>> \/ n = 0
                /\ LET all == past \o q IN
                      /\ out' = Front(all, n)
                      /\ q' = Rest(all, n)
                      /\ past' = Front(all, n)

Peek(n) == out' = Front(q, n) /\ UNCHANGED <<q, past>>

Toss(n) == out' = <<>> /\ q' = Rest(q, n) /\ past' = past \o Front(q, n)

\* Other bytes take the place of all (partitions; zero; a new buffer).
Replace(s) == q' = s /\ past' = <<>> /\ out' = <<>>

\* A partition is read from its beginning again.
Rewind == q' = past \o q /\ past' = <<>> /\ out' = <<>>

Next ==
    \/ \E s \in Strings : \/ Write(s) \/ Replace(s)
                          \/ \E n \in {Len(s), Len(q)} : Overwrite(n, s)
    \/ \E n \in Amounts : Read(n) \/ ReadAgain(n) \/ Peek(n) \/ Toss(n)
    \/ Replace(<<>>)
    \/ Peek(Len(q))
    \/ Rewind

Spec == Init /\ [][Next]_vars

=============================================================================
