---------------------------- MODULE ReplayWindow ----------------------------
(***************************************************************************)
(* ReplayWindow256 as it is coded: a bitmap of bytes that shift_right      *)
(* moves in two passes, first by whole bytes, then by bits with a carry.   *)
(* A byte is the set of its bits that are 1: the code only shifts, joins   *)
(* and tests bytes.  The window is run on any sequence of sequence numbers *)
(* and compared with the set of numbers accepted so far.                   *)
(***************************************************************************)
EXTENDS Integers

CONSTANTS
    ByteBits, \* bits of a byte (8 in the code)
    Bytes,    \* bytes of the bitmap (32 in the code)
    MaxSeq    \* bound on sequence numbers

TotalBits == ByteBits * Bytes

VARIABLES
    max_seq,
    bitmap,  \* bitmap[i], for i \in 0 .. Bytes - 1
    valid,
    seen     \* history: the numbers accepted so far

vars == <<max_seq, bitmap, valid, seen>>

Byte == SUBSET (0 .. ByteBits - 1)

Bitmaps == [0 .. Bytes - 1 -> Byte]

Init ==
    /\ max_seq = 0
    /\ bitmap = [i \in 0 .. Bytes - 1 |-> {}]
    /\ valid = FALSE
    /\ seen = {}

\* The shifts of a byte: x << n and x >> n.
Shl(x, n) == {j \in 0 .. ByteBits - 1 : j - n \in x}
Shr(x, n) == {j \in 0 .. ByteBits - 1 : j + n \in x}

test_bit(b, idx) == idx % ByteBits \in b[idx \div ByteBits]

set_bit(b, idx) == [b EXCEPT ![idx \div ByteBits] = @ \cup {idx % ByteBits}]

\* The first pass of shift_right.
ByteShift(b, n) ==
    [i \in 0 .. Bytes - 1 |-> IF i >= n THEN b[i - n] ELSE {}]

\* Fault: the bits that leave a byte are lost.
BitShiftNoCarry(b, n) ==
    [i \in 0 .. Bytes - 1 |-> Shl(b[i], n)]

\* The second pass: every byte moves by n < ByteBits bits and takes in the high
\* bits of the byte below.
BitShift(b, n) ==
    [i \in 0 .. Bytes - 1 |->
       Shl(b[i], n) \cup (IF i = 0 THEN {} ELSE Shr(b[i - 1], ByteBits - n))]

shift_right(b, shift) ==
    IF shift >= TotalBits THEN [i \in 0 .. Bytes - 1 |-> {}]
    ELSE BitShift(ByteShift(b, shift \div ByteBits), shift % ByteBits)

\* Fault: the lower edge of the window is one too low.
can_accept_late(seq) ==
    \/ ~ valid
    \/ seq > max_seq
    \/ max_seq - seq = TotalBits
    \/ max_seq - seq < TotalBits /\ ~ test_bit(bitmap, max_seq - seq)

can_accept(seq) ==
    \/ ~ valid
    \/ seq > max_seq
    \/ max_seq - seq < TotalBits /\ ~ test_bit(bitmap, max_seq - seq)

\* accept, for the first number.
AcceptFirst(seq) ==
    /\ ~ valid
    /\ valid' = TRUE
    /\ max_seq' = seq
    /\ bitmap' = set_bit(bitmap, 0)
    /\ seen' = seen \cup {seq}

\* accept, for a number above all so far.
AcceptNew(seq) ==
    /\ valid
    /\ seq > max_seq
    /\ bitmap' = set_bit(shift_right(bitmap, seq - max_seq), 0)
    /\ max_seq' = seq
    /\ seen' = seen \cup {seq}
    /\ UNCHANGED valid

\* accept, for a late number inside the window.
AcceptLate(seq) ==
    /\ valid
    /\ seq <= max_seq
    /\ max_seq - seq < TotalBits
    /\ ~ test_bit(bitmap, max_seq - seq)
    /\ bitmap' = set_bit(bitmap, max_seq - seq)
    /\ seen' = seen \cup {seq}
    /\ UNCHANGED <<max_seq, valid>>

Next ==
    \E seq \in 0 .. MaxSeq : AcceptFirst(seq) \/ AcceptNew(seq) \/ AcceptLate(seq)

Spec == Init /\ [][Next]_vars

----------------------------------------------------------------------------

\* The bitmap as the set of its bits.
Bits == {i \in 0 .. TotalBits - 1 : test_bit(bitmap, i)}

\* What SeqWindow makes of the window.
W == INSTANCE SeqWindow WITH Window <- TotalBits

AsSet == [valid |-> valid, max |-> max_seq, bits |-> Bits]

\* Every variable stays in its set.
TypeOK ==
    /\ max_seq \in 0 .. MaxSeq
    /\ bitmap \in Bitmaps
    /\ valid \in BOOLEAN
    /\ seen \subseteq 0 .. MaxSeq

\* can_accept agrees with the numbers accepted so far: a number is refused
\* exactly when it was accepted before or is TotalBits or more behind the
\* largest, although the code looks only at its bitmap.
RefusesExactly ==
    \A seq \in 0 .. MaxSeq :
        can_accept(seq) <=> seq \notin seen /\ (valid => max_seq - seq < TotalBits)

AcceptStep == \E seq \in 0 .. MaxSeq : W!CanAccept(AsSet, seq) /\ AsSet' = W!Marked(AsSet, seq)

\* accept changes the bitmap as the set operators of SeqWindow say, whatever
\* the distance the window moves.
AcceptsAsSet == [][AcceptStep]_vars
=============================================================================
