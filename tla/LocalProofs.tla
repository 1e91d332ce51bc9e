---------------------------- MODULE LocalProofs ----------------------------
(***************************************************************************)
(* Proofs about what a node keeps by itself: the bitmap of its replay      *)
(* windows, the token bucket of its relay, the root key it is handed, the  *)
(* credentials it issues, the tables of its TCP proxy, the pinger that     *)
(* decides when a connection is dead, and the urls it connects to.  The    *)
(* components share no state: each section but that of TokenBucket         *)
(* declares the constants and the variables of its component, and a name   *)
(* that occurs in two sections is the same only by accident.               *)
(***************************************************************************)
EXTENDS TokenBucket, Sequences, FiniteSets, TLAPS

----------------------------------------------------------------------------
(* ReplayWindow: for any number of bits in a byte and of bytes in the      *)
(* bitmap, the two passes of shift_right move every bit by the distance    *)
(* asked for, so the bitmap is the set that SeqWindow makes of it.         *)
(*                                                                         *)
(* RefusesExactly is not inductive: the bitmap says nothing of the numbers *)
(* it refused.  The inductive invariant Remembers says of every bit that   *)
(* it is set when its number was accepted.                                 *)

CONSTANTS ByteBits, Bytes, MaxSeq
VARIABLES max_seq, bitmap, valid, seen

\* The window of one direction.
B == INSTANCE ReplayWindow

\* What the proofs assume of the constants: a byte has a bit, the bitmap a byte.
BytesAssumed == ByteBits \in Nat \ {0} /\ Bytes \in Nat \ {0} /\ MaxSeq \in Nat

\* TOTAL_BITS.
Total == B!TotalBits

\* The index of a bit splits into its byte and its place there.
LEMMA Split ==
    ASSUME BytesAssumed, NEW i \in 0 .. Total - 1
    PROVE  /\ i \div ByteBits \in 0 .. Bytes - 1
           /\ i % ByteBits \in 0 .. ByteBits - 1
           /\ i = ByteBits * (i \div ByteBits) + (i % ByteBits)
<1> DEFINE q == i \div ByteBits
           r == i % ByteBits
<1>1. i \in Nat /\ ByteBits \in Nat \ {0} /\ Bytes \in Nat \ {0} /\ i < ByteBits * Bytes
  BY DEF BytesAssumed, Total, B!TotalBits
<1>2. q \in Nat /\ r \in 0 .. ByteBits - 1 /\ i = ByteBits * q + r
  BY <1>1
<1> HIDE DEF q, r
<1>3. q < Bytes
  <2> SUFFICES ASSUME q >= Bytes PROVE FALSE
    BY <1>1, <1>2
  <2>1. ByteBits * q >= ByteBits * Bytes
    BY <1>1, <1>2
  <2> QED BY <1>1, <1>2, <2>1
<1>4. q \in 0 .. Bytes - 1
  BY <1>1, <1>2, <1>3
<1> QED BY <1>2, <1>4 DEF q, r

\* An index has only one such split.
LEMMA SplitOnce ==
    ASSUME BytesAssumed, NEW q \in Int, NEW r \in 0 .. ByteBits - 1,
           NEW i \in Nat, i = ByteBits * q + r
    PROVE  q \in Nat /\ i \div ByteBits = q /\ i % ByteBits = r
<1>1. ByteBits \in Nat \ {0} /\ r \in Nat /\ r < ByteBits
  BY DEF BytesAssumed
<1>2. q >= 0
  <2> SUFFICES ASSUME q <= -1 PROVE FALSE
    BY <1>1
  <2>1. ByteBits * q <= - ByteBits
    BY <1>1
  <2> QED BY <1>1, <2>1
<1> DEFINE p == i \div ByteBits
           s == i % ByteBits
<1>3. p \in Int /\ s \in 0 .. ByteBits - 1 /\ i = ByteBits * p + s
  BY <1>1
<1> HIDE DEF p, s
<1>4. ByteBits * (p - q) = r - s
  BY <1>1, <1>3
<1>5. ~ (p - q >= 1)
  <2> SUFFICES ASSUME p - q >= 1 PROVE FALSE
    OBVIOUS
  <2>1. ByteBits * (p - q) >= ByteBits
    BY <1>1, <1>3
  <2> QED BY <1>1, <1>3, <1>4, <2>1
<1>6. ~ (p - q <= -1)
  <2> SUFFICES ASSUME p - q <= -1 PROVE FALSE
    OBVIOUS
  <2>1. ByteBits * (p - q) <= - ByteBits
    BY <1>1, <1>3
  <2> QED BY <1>1, <1>3, <1>4, <2>1
<1>7. p = q
  BY <1>3, <1>5, <1>6
<1>8. s = r
  BY <1>1, <1>3, <1>4, <1>7
<1> QED BY <1>2, <1>7, <1>8 DEF p, s

\* set_bit sets one bit and leaves the others.
LEMMA TestSet ==
    ASSUME BytesAssumed, NEW b \in B!Bitmaps, NEW i \in 0 .. Total - 1, NEW j \in 0 .. Total - 1
    PROVE  /\ B!set_bit(b, j) \in B!Bitmaps
           /\ B!test_bit(B!set_bit(b, j), i) <=> i = j \/ B!test_bit(b, i)
<1> DEFINE q == i \div ByteBits
           r == i % ByteBits
           p == j \div ByteBits
           s == j % ByteBits
<1>1. q \in 0 .. Bytes - 1 /\ r \in 0 .. ByteBits - 1 /\ i = ByteBits * q + r
  BY Split, Zenon
<1>2. p \in 0 .. Bytes - 1 /\ s \in 0 .. ByteBits - 1 /\ j = ByteBits * p + s
  BY Split, Zenon
<1>3. i = j <=> q = p /\ r = s
  BY <1>1, <1>2, Zenon
<1>4. B!set_bit(b, j) = [b EXCEPT ![p] = @ \cup {s}]
  BY DEF B!set_bit
<1>5. /\ B!test_bit(b, i) <=> r \in b[q]
      /\ B!test_bit(B!set_bit(b, j), i) <=> r \in B!set_bit(b, j)[q]
  BY DEF B!test_bit
<1> HIDE DEF q, r, p, s
<1>6. B!set_bit(b, j) \in B!Bitmaps
  BY <1>2, <1>4 DEF B!Bitmaps, B!Byte
<1>7. r \in B!set_bit(b, j)[q] <=> (q = p /\ r = s) \/ r \in b[q]
  BY <1>1, <1>2, <1>4 DEF B!Bitmaps, B!Byte
<1> QED BY <1>3, <1>5, <1>6, <1>7

\* What the two passes of shift_right leave in a byte.
LEMMA ShiftedByte ==
    ASSUME BytesAssumed, NEW b \in B!Bitmaps, NEW p \in Nat, NEW n \in 0 .. ByteBits - 1,
           NEW q \in 0 .. Bytes - 1, NEW r \in 0 .. ByteBits - 1
    PROVE  r \in B!BitShift(B!ByteShift(b, p), n)[q] <=>
             \/ r >= n /\ q >= p /\ r - n \in b[q - p]
             \/ r < n /\ q >= p + 1 /\ r + ByteBits - n \in b[q - 1 - p]
<1> DEFINE c == B!ByteShift(b, p)
<1>0. ByteBits \in Nat \ {0} /\ Bytes \in Nat \ {0}
  BY DEF BytesAssumed
<1>1. ASSUME NEW x \in 0 .. Bytes - 1, NEW j \in Int
      PROVE  j \in c[x] <=> x >= p /\ j \in b[x - p]
  BY DEF B!ByteShift
<1>2. ASSUME NEW x \in 0 .. Bytes - 1, x >= p, NEW j \in b[x - p]
      PROVE  j \in 0 .. ByteBits - 1
  <2>1. x - p \in 0 .. Bytes - 1
    BY <1>0, <1>2
  <2> QED BY <1>2, <2>1 DEF B!Bitmaps, B!Byte
<1>3. B!BitShift(c, n)[q] =
        B!Shl(c[q], n) \cup (IF q = 0 THEN {} ELSE B!Shr(c[q - 1], ByteBits - n))
  BY DEF B!BitShift
<1> HIDE DEF c
<1>4. r \in B!Shl(c[q], n) <=> r >= n /\ q >= p /\ r - n \in b[q - p]
  <2>1. r \in B!Shl(c[q], n) <=> r - n \in c[q]
    BY DEF B!Shl
  <2>2. r - n \in c[q] <=> q >= p /\ r - n \in b[q - p]
    BY <1>0, <1>1
  <2>3. q >= p /\ r - n \in b[q - p] => r >= n
    BY <1>0, <1>2
  <2> QED BY <2>1, <2>2, <2>3
<1>5. q # 0 => (r \in B!Shr(c[q - 1], ByteBits - n)
                 <=> r < n /\ q >= p + 1 /\ r + ByteBits - n \in b[q - 1 - p])
  <2> SUFFICES ASSUME q # 0
               PROVE  r \in B!Shr(c[q - 1], ByteBits - n)
                        <=> r < n /\ q >= p + 1 /\ r + ByteBits - n \in b[q - 1 - p]
    OBVIOUS
  <2>0. q - 1 \in 0 .. Bytes - 1
    BY <1>0
  <2>1. r \in B!Shr(c[q - 1], ByteBits - n) <=> r + (ByteBits - n) \in c[q - 1]
    BY DEF B!Shr
  <2>2. r + (ByteBits - n) = r + ByteBits - n /\ r + ByteBits - n \in Int
    BY <1>0
  <2>3. r + ByteBits - n \in c[q - 1] <=> q - 1 >= p /\ r + ByteBits - n \in b[q - 1 - p]
    BY <1>1, <2>0, <2>2
  <2>4. q - 1 >= p /\ r + ByteBits - n \in b[q - 1 - p] => r < n
    <3> SUFFICES ASSUME q - 1 >= p, r + ByteBits - n \in b[q - 1 - p] PROVE r < n
      OBVIOUS
    <3>1. r + ByteBits - n \in 0 .. ByteBits - 1
      BY <1>2, <2>0
    <3> QED BY <1>0, <3>1
  <2>5. q - 1 >= p <=> q >= p + 1
    OBVIOUS
  <2> QED BY <2>1, <2>2, <2>3, <2>4, <2>5
<1>6. q = 0 => ~ (q >= p + 1)
  OBVIOUS
<1> QED BY <1>3, <1>4, <1>5, <1>6 DEF c

\* shift_right moves every bit by the same distance, whatever borders of bytes
\* it crosses.
LEMMA TestShift ==
    ASSUME BytesAssumed, NEW b \in B!Bitmaps, NEW k \in Nat, NEW i \in 0 .. Total - 1
    PROVE  /\ B!shift_right(b, k) \in B!Bitmaps
           /\ B!test_bit(B!shift_right(b, k), i) <=> i >= k /\ B!test_bit(b, i - k)
<1>0. /\ ByteBits \in Nat \ {0} /\ Bytes \in Nat \ {0} /\ i \in Nat
      /\ Total \in Nat /\ Total = B!TotalBits
  <2>1. ByteBits * Bytes \in Nat
    BY DEF BytesAssumed
  <2> QED BY <2>1 DEF BytesAssumed, Total, B!TotalBits
<1> DEFINE q == i \div ByteBits
           r == i % ByteBits
<1>1. q \in 0 .. Bytes - 1 /\ r \in 0 .. ByteBits - 1 /\ i = ByteBits * q + r
  BY Split, Zenon
<1>2. CASE k >= B!TotalBits
  <2>1. B!shift_right(b, k) = [x \in 0 .. Bytes - 1 |-> {}]
    BY <1>2 DEF B!shift_right
  <2>2. B!shift_right(b, k) \in B!Bitmaps
    BY <2>1 DEF B!Bitmaps, B!Byte
  <2>3. ~ B!test_bit(B!shift_right(b, k), i)
    BY <1>1, <2>1 DEF B!test_bit
  <2>4. ~ (i >= k)
    BY <1>0, <1>2
  <2> QED BY <2>2, <2>3, <2>4
<1>3. CASE ~ (k >= B!TotalBits)
  <2> DEFINE p == k \div ByteBits
             n == k % ByteBits
             d == B!BitShift(B!ByteShift(b, p), n)
  <2>1. k \in 0 .. Total - 1
    BY <1>0, <1>3
  <2>2. p \in 0 .. Bytes - 1 /\ n \in 0 .. ByteBits - 1 /\ k = ByteBits * p + n
    BY <2>1, Split, Zenon
  <2>3. B!shift_right(b, k) = d
    BY <1>3 DEF B!shift_right
  <2>4. d \in B!Bitmaps
    <3>1. ASSUME NEW x, NEW m PROVE B!Shl(x, m) \in B!Byte /\ B!Shr(x, m) \in B!Byte
      BY DEF B!Shl, B!Shr, B!Byte
    <3> QED BY <3>1 DEF B!BitShift, B!Bitmaps, B!Byte
  <2>5. B!test_bit(d, i) <=> r \in d[q]
    BY DEF B!test_bit
  <2>6. ASSUME i >= k PROVE B!test_bit(b, i - k) <=> (i - k) % ByteBits \in b[(i - k) \div ByteBits]
    BY DEF B!test_bit
  <2>7. p \in Nat
    BY <1>0, <2>2
  <2>8. r \in d[q] <=>
             \/ r >= n /\ q >= p /\ r - n \in b[q - p]
             \/ r < n /\ q >= p + 1 /\ r + ByteBits - n \in b[q - 1 - p]
    BY <1>1, <2>2, <2>7, ShiftedByte
  <2> HIDE DEF q, r, p, n, d
  <2>9. CASE r >= n
    <3>1. r - n \in 0 .. ByteBits - 1 /\ i - k = ByteBits * (q - p) + (r - n) /\ q - p \in Int
      BY <1>0, <1>1, <2>2, <2>9
    <3>2. i >= k => q >= p
      <4> SUFFICES ASSUME i >= k PROVE q - p \in Nat
        BY <1>1, <2>7
      <4> QED BY <1>0, <2>2, <3>1, SplitOnce
    <3>3. q >= p => i >= k
      <4> SUFFICES ASSUME q >= p PROVE i - k >= 0
        BY <1>0
      <4>1. ByteBits * (q - p) >= 0
        BY <1>0, <1>1, <2>7
      <4> QED BY <1>0, <1>1, <2>2, <3>1, <4>1
    <3>4. i >= k => (i - k) \div ByteBits = q - p /\ (i - k) % ByteBits = r - n
      <4> SUFFICES ASSUME i >= k PROVE (i - k) \div ByteBits = q - p /\ (i - k) % ByteBits = r - n
        OBVIOUS
      <4>1. i - k \in Nat
        BY <1>0
      <4> QED BY <3>1, <4>1, SplitOnce
    <3>5. ~ (r < n)
      BY <1>1, <2>2, <2>9
    <3> QED BY <2>3, <2>4, <2>5, <2>6, <2>8, <2>9, <3>2, <3>3, <3>4, <3>5
  <2>10. CASE r < n
    <3>1. /\ r + ByteBits - n \in 0 .. ByteBits - 1 /\ q - 1 - p \in Int
          /\ i - k = ByteBits * (q - 1 - p) + (r + ByteBits - n)
      <4>1. ByteBits * (q - 1 - p) = ByteBits * q - ByteBits - ByteBits * p
        BY <1>0, <1>1, <2>7
      <4> QED BY <1>0, <1>1, <2>2, <2>10, <4>1
    <3>2. i >= k => q >= p + 1
      <4> SUFFICES ASSUME i >= k PROVE q - 1 - p \in Nat
        BY <1>1, <2>7
      <4> QED BY <1>0, <2>2, <3>1, SplitOnce
    <3>3. q >= p + 1 => i >= k
      <4> SUFFICES ASSUME q >= p + 1 PROVE i - k >= 0
        BY <1>0
      <4>1. ByteBits * (q - 1 - p) >= 0
        BY <1>0, <1>1, <2>7
      <4> QED BY <1>0, <1>1, <2>2, <3>1, <4>1
    <3>4. i >= k => (i - k) \div ByteBits = q - 1 - p /\ (i - k) % ByteBits = r + ByteBits - n
      <4> SUFFICES ASSUME i >= k
                   PROVE  (i - k) \div ByteBits = q - 1 - p /\ (i - k) % ByteBits = r + ByteBits - n
        OBVIOUS
      <4>1. i - k \in Nat
        BY <1>0
      <4> QED BY <3>1, <4>1, SplitOnce
    <3>5. ~ (r >= n)
      BY <1>1, <2>2, <2>10
    <3> QED BY <2>3, <2>4, <2>5, <2>6, <2>8, <2>10, <3>2, <3>3, <3>4, <3>5
  <2> QED BY <1>1, <2>2, <2>9, <2>10
<1> QED BY <1>2, <1>3

\* The bits are the accepted numbers, counted back from the largest.
Remembers ==
    /\ B!TypeOK
    /\ valid => max_seq \in seen /\ \A s \in seen : s <= max_seq
    /\ ~ valid => seen = {}
    /\ \A i \in 0 .. Total - 1 : B!test_bit(bitmap, i) <=> valid /\ max_seq - i \in seen

\* The numbers a window counts with.
LEMMA Numbers ==
    ASSUME BytesAssumed, B!TypeOK
    PROVE  /\ Total \in Nat \ {0} /\ Total = B!TotalBits /\ 0 \in 0 .. Total - 1
           /\ max_seq \in Nat /\ bitmap \in B!Bitmaps
<1>1. ByteBits * Bytes \in Nat \ {0}
  BY DEF BytesAssumed
<1>2. Total \in Nat \ {0} /\ Total = B!TotalBits
  BY <1>1 DEF Total, B!TotalBits
<1> QED BY <1>2 DEF B!TypeOK, BytesAssumed

\* At first there is nothing to remember.
LEMMA InitRemembers == ASSUME BytesAssumed, B!Init PROVE Remembers
<1>1. B!TypeOK
  <2>1. bitmap \in B!Bitmaps
    BY DEF B!Init, B!Bitmaps, B!Byte
  <2>2. max_seq \in 0 .. MaxSeq
    BY DEF BytesAssumed, B!Init
  <2> QED BY <2>1, <2>2 DEF B!Init, B!TypeOK
<1>2. ASSUME NEW i \in 0 .. Total - 1 PROVE ~ B!test_bit(bitmap, i)
  <2>1. i \div ByteBits \in 0 .. Bytes - 1
    BY Split
  <2> QED BY <2>1 DEF B!Init, B!test_bit
<1> QED BY <1>1, <1>2 DEF B!Init, Remembers

\* What accept does to the bits, in each of its cases.
LEMMA AcceptBits ==
    ASSUME BytesAssumed, Remembers, NEW seq \in 0 .. MaxSeq, NEW i \in 0 .. Total - 1
    PROVE  /\ B!AcceptFirst(seq) => (B!test_bit(bitmap', i) <=> i = 0)
           /\ B!AcceptNew(seq) =>
                (B!test_bit(bitmap', i) <=>
                   i = 0 \/ (i >= seq - max_seq /\ B!test_bit(bitmap, i - (seq - max_seq))))
           /\ B!AcceptLate(seq) =>
                (B!test_bit(bitmap', i) <=> i = max_seq - seq \/ B!test_bit(bitmap, i))
<1>0. /\ Total \in Nat \ {0} /\ Total = B!TotalBits /\ 0 \in 0 .. Total - 1
      /\ max_seq \in Nat /\ bitmap \in B!Bitmaps /\ seq \in Nat
  BY Numbers DEF Remembers, BytesAssumed
<1>1. ASSUME B!AcceptFirst(seq) PROVE B!test_bit(bitmap', i) <=> i = 0
  <2>1. bitmap' = B!set_bit(bitmap, 0)
    BY <1>1 DEF B!AcceptFirst
  <2>2. B!test_bit(bitmap', i) <=> i = 0 \/ B!test_bit(bitmap, i)
    BY <1>0, <2>1, TestSet
  <2>3. ~ B!test_bit(bitmap, i)
    BY <1>1 DEF Remembers, B!AcceptFirst
  <2> QED BY <2>2, <2>3
<1>2. ASSUME B!AcceptNew(seq)
      PROVE  B!test_bit(bitmap', i) <=>
               i = 0 \/ (i >= seq - max_seq /\ B!test_bit(bitmap, i - (seq - max_seq)))
  <2> DEFINE k == seq - max_seq
             c == B!shift_right(bitmap, k)
  <2>1. k \in Nat /\ bitmap' = B!set_bit(c, 0)
    BY <1>0, <1>2 DEF B!AcceptNew
  <2>2. c \in B!Bitmaps /\ (B!test_bit(c, i) <=> i >= k /\ B!test_bit(bitmap, i - k))
    BY <1>0, <2>1, TestShift
  <2> HIDE DEF c, k
  <2>3. B!test_bit(bitmap', i) <=> i = 0 \/ B!test_bit(c, i)
    BY <1>0, <2>1, <2>2, TestSet
  <2> QED BY <2>2, <2>3 DEF k
<1>3. ASSUME B!AcceptLate(seq)
      PROVE  B!test_bit(bitmap', i) <=> i = max_seq - seq \/ B!test_bit(bitmap, i)
  <2>1. max_seq - seq \in 0 .. Total - 1 /\ bitmap' = B!set_bit(bitmap, max_seq - seq)
    BY <1>0, <1>3 DEF B!AcceptLate
  <2> QED BY <1>0, <2>1, TestSet
<1> QED BY <1>1, <1>2, <1>3

\* accept keeps the bits true to the accepted numbers.
LEMMA StepRemembers ==
    ASSUME BytesAssumed, Remembers, [B!Next]_B!vars
    PROVE  Remembers'
<1>0. /\ Total \in Nat \ {0} /\ Total = B!TotalBits /\ 0 \in 0 .. Total - 1
      /\ max_seq \in Nat /\ bitmap \in B!Bitmaps /\ MaxSeq \in Nat
      /\ seen \subseteq 0 .. MaxSeq /\ max_seq \in 0 .. MaxSeq
  BY Numbers DEF Remembers, BytesAssumed, B!TypeOK
<1>1. CASE UNCHANGED B!vars
  BY <1>1 DEF B!vars, Remembers, B!TypeOK, B!test_bit
<1>2. ASSUME NEW seq \in 0 .. MaxSeq, B!AcceptFirst(seq) PROVE Remembers'
  <2>1. bitmap' \in B!Bitmaps
    BY <1>0, <1>2, TestSet DEF B!AcceptFirst
  <2>2. valid' /\ max_seq' = seq /\ seen' = {seq}
    BY <1>2 DEF B!AcceptFirst, Remembers
  <2>3. \A i \in 0 .. Total - 1 : B!test_bit(bitmap', i) <=> seq - i \in {seq}
    BY <1>0, <1>2, AcceptBits
  <2> QED BY <1>0, <2>1, <2>2, <2>3 DEF Remembers, B!TypeOK, B!test_bit
<1>3. ASSUME NEW seq \in 0 .. MaxSeq, B!AcceptNew(seq) PROVE Remembers'
  <2>0. seq \in Nat /\ seq > max_seq /\ valid
    BY <1>0, <1>3 DEF B!AcceptNew
  <2>1. bitmap' \in B!Bitmaps
    <3>1. B!shift_right(bitmap, seq - max_seq) \in B!Bitmaps
      BY <1>0, <2>0, TestShift
    <3> QED BY <1>0, <1>3, <3>1, TestSet DEF B!AcceptNew
  <2>2. valid' /\ max_seq' = seq /\ seen' = seen \cup {seq}
    BY <1>3, <2>0 DEF B!AcceptNew
  <2>3. ASSUME NEW i \in 0 .. Total - 1
        PROVE  B!test_bit(bitmap', i) <=> seq - i \in seen \cup {seq}
    <3>1. B!test_bit(bitmap', i) <=>
            i = 0 \/ (i >= seq - max_seq /\ B!test_bit(bitmap, i - (seq - max_seq)))
      BY <1>3, AcceptBits
    <3>2. CASE i >= seq - max_seq
      <4>1. i - (seq - max_seq) \in 0 .. Total - 1
        BY <1>0, <2>0, <3>2
      <4>2. max_seq - (i - (seq - max_seq)) = seq - i
        BY <1>0, <2>0
      <4>3. B!test_bit(bitmap, i - (seq - max_seq)) <=> seq - i \in seen
        BY <2>0, <4>1, <4>2 DEF Remembers
      <4>4. i = 0 <=> seq - i = seq
        BY <1>0, <2>0
      <4> QED BY <3>1, <3>2, <4>3, <4>4
    <3>3. CASE ~ (i >= seq - max_seq)
      <4>1. seq - i > max_seq
        BY <1>0, <2>0, <3>3
      <4>2. seq - i \notin seen
        BY <1>0, <2>0, <4>1 DEF Remembers
      <4>3. i = 0 <=> seq - i = seq
        BY <1>0, <2>0
      <4> QED BY <3>1, <3>3, <4>2, <4>3
    <3> QED BY <3>2, <3>3
  <2>4. \A s \in seen \cup {seq} : s <= seq
    BY <1>0, <2>0 DEF Remembers
  <2> QED BY <1>0, <2>1, <2>2, <2>3, <2>4 DEF Remembers, B!TypeOK, B!test_bit
<1>4. ASSUME NEW seq \in 0 .. MaxSeq, B!AcceptLate(seq) PROVE Remembers'
  <2>0. seq \in Nat /\ seq <= max_seq /\ valid /\ max_seq - seq \in 0 .. Total - 1
    BY <1>0, <1>4 DEF B!AcceptLate
  <2>1. bitmap' \in B!Bitmaps
    BY <1>0, <1>4, <2>0, TestSet DEF B!AcceptLate
  <2>2. valid' = valid /\ max_seq' = max_seq /\ seen' = seen \cup {seq}
    BY <1>4 DEF B!AcceptLate
  <2>3. ASSUME NEW i \in 0 .. Total - 1
        PROVE  B!test_bit(bitmap', i) <=> max_seq - i \in seen \cup {seq}
    <3>1. B!test_bit(bitmap', i) <=> i = max_seq - seq \/ B!test_bit(bitmap, i)
      BY <1>4, AcceptBits
    <3>2. B!test_bit(bitmap, i) <=> max_seq - i \in seen
      BY <2>0 DEF Remembers
    <3>3. i = max_seq - seq <=> max_seq - i = seq
      BY <1>0, <2>0
    <3> QED BY <3>1, <3>2, <3>3
  <2>4. max_seq \in seen \cup {seq} /\ \A s \in seen \cup {seq} : s <= max_seq
    BY <2>0 DEF Remembers
  <2> QED BY <1>0, <2>0, <2>1, <2>2, <2>3, <2>4 DEF Remembers, B!TypeOK, B!test_bit
<1> QED BY <1>1, <1>2, <1>3, <1>4 DEF B!Next

\* The bits are always true to the accepted numbers.
LEMMA AlwaysRemembers == ASSUME BytesAssumed PROVE B!Spec => []Remembers
<1>1. B!Init => Remembers
  BY InitRemembers
<1>2. Remembers /\ [B!Next]_B!vars => Remembers'
  BY StepRemembers
<1> QED BY <1>1, <1>2, PTL DEF B!Spec

\* can_accept, which looks only at the bytes, refuses exactly the numbers that
\* were accepted before or are too old, for every size of bytes and bitmap.
THEOREM WindowRefusesExactly == ASSUME BytesAssumed PROVE B!Spec => []B!RefusesExactly
<1>1. ASSUME Remembers PROVE B!RefusesExactly
  <2>0. /\ Total \in Nat \ {0} /\ Total = B!TotalBits /\ max_seq \in Nat /\ MaxSeq \in Nat
    BY <1>1, Numbers DEF Remembers, BytesAssumed
  <2> SUFFICES ASSUME NEW seq \in 0 .. MaxSeq
               PROVE  B!can_accept(seq) <=>
                        seq \notin seen /\ (valid => max_seq - seq < B!TotalBits)
    BY DEF B!RefusesExactly
  <2>1. CASE ~ valid
    BY <1>1, <2>1 DEF Remembers, B!can_accept
  <2>2. CASE valid /\ seq > max_seq
    <3>1. seq \notin seen /\ max_seq - seq < B!TotalBits
      BY <1>1, <2>0, <2>2 DEF Remembers
    <3> QED BY <2>2, <3>1 DEF B!can_accept
  <2>3. CASE valid /\ ~ (seq > max_seq)
    <3>1. CASE max_seq - seq < B!TotalBits
      <4>1. max_seq - seq \in 0 .. Total - 1 /\ max_seq - (max_seq - seq) = seq
        BY <2>0, <2>3, <3>1
      <4>2. B!test_bit(bitmap, max_seq - seq) <=> seq \in seen
        BY <1>1, <2>3, <4>1 DEF Remembers
      <4> QED BY <2>3, <3>1, <4>2 DEF B!can_accept
    <3>2. CASE ~ (max_seq - seq < B!TotalBits)
      BY <2>3, <3>2 DEF B!can_accept
    <3> QED BY <3>1, <3>2
  <2> QED BY <1>1, <2>1, <2>2, <2>3 DEF Remembers, B!TypeOK
<1>2. Remembers => B!RefusesExactly
  BY <1>1
<1> QED BY <1>2, AlwaysRemembers, PTL

\* Every step of the window of bytes is a step of the window as a set.
THEOREM WindowAcceptsAsSet == ASSUME BytesAssumed PROVE B!Spec => B!AcceptsAsSet
<1>1. ASSUME Remembers, B!Next PROVE B!AcceptStep
  <2>0. /\ Total \in Nat \ {0} /\ Total = B!TotalBits /\ 0 \in 0 .. Total - 1
        /\ max_seq \in Nat /\ MaxSeq \in Nat
    BY <1>1, Numbers DEF Remembers, BytesAssumed
  <2>1. /\ B!AsSet = [valid |-> valid, max |-> max_seq, bits |-> B!Bits]
        /\ B!AsSet' = [valid |-> valid', max |-> max_seq', bits |-> B!Bits']
        /\ B!Bits = {i \in 0 .. Total - 1 : B!test_bit(bitmap, i)}
        /\ B!Bits' = {i \in 0 .. Total - 1 : B!test_bit(bitmap', i)}
    BY <2>0 DEF B!AsSet, B!Bits, B!test_bit, Total, B!TotalBits
  <2>2. ASSUME NEW seq \in 0 .. MaxSeq, B!AcceptFirst(seq)
        PROVE  B!W!CanAccept(B!AsSet, seq) /\ B!AsSet' = B!W!Marked(B!AsSet, seq)
    <3>1. ~ valid /\ valid' = TRUE /\ max_seq' = seq
      BY <2>2 DEF B!AcceptFirst
    <3>2. B!Bits' = {0}
      BY <1>1, <2>0, <2>1, <2>2, AcceptBits
    <3> QED BY <2>1, <3>1, <3>2 DEF B!W!CanAccept, B!W!Marked
  <2>3. ASSUME NEW seq \in 0 .. MaxSeq, B!AcceptNew(seq)
        PROVE  B!W!CanAccept(B!AsSet, seq) /\ B!AsSet' = B!W!Marked(B!AsSet, seq)
    <3>1. valid /\ valid' = valid /\ max_seq' = seq /\ seq > max_seq /\ seq \in Nat
      BY <2>0, <2>3 DEF B!AcceptNew
    <3>2. valid' = TRUE
      BY <1>1, <3>1 DEF Remembers, B!TypeOK
    <3>3. B!Bits' = B!W!Shift(B!Bits, seq - max_seq) \cup {0}
      <4>1. ASSUME NEW i \in 0 .. Total - 1
            PROVE  i \in B!Bits' <=> i - (seq - max_seq) \in B!Bits \/ i = 0
        <5>1. B!test_bit(bitmap', i) <=>
                i = 0 \/ (i >= seq - max_seq /\ B!test_bit(bitmap, i - (seq - max_seq)))
          BY <1>1, <2>3, AcceptBits
        <5>2. i >= seq - max_seq <=> i - (seq - max_seq) \in 0 .. Total - 1
          BY <2>0, <3>1
        <5> QED BY <2>1, <5>1, <5>2
      <4>2. B!W!Shift(B!Bits, seq - max_seq) = {i \in 0 .. Total - 1 : i - (seq - max_seq) \in B!Bits}
        BY <2>0 DEF B!W!Shift
      <4> QED BY <2>0, <2>1, <4>1, <4>2
    <3> QED BY <2>1, <3>1, <3>2, <3>3 DEF B!W!CanAccept, B!W!Marked
  <2>4. ASSUME NEW seq \in 0 .. MaxSeq, B!AcceptLate(seq)
        PROVE  B!W!CanAccept(B!AsSet, seq) /\ B!AsSet' = B!W!Marked(B!AsSet, seq)
    <3>1. /\ valid /\ valid' = valid /\ max_seq' = max_seq /\ ~ (seq > max_seq)
          /\ max_seq - seq \in 0 .. Total - 1 /\ max_seq - seq < Total
          /\ ~ B!test_bit(bitmap, max_seq - seq)
      BY <2>0, <2>4 DEF B!AcceptLate
    <3>2. max_seq - seq \notin B!Bits
      BY <2>1, <3>1
    <3>3. B!Bits' = B!Bits \cup {max_seq - seq}
      BY <1>1, <2>1, <2>4, <3>1, AcceptBits
    <3> QED BY <2>0, <2>1, <3>1, <3>2, <3>3 DEF B!W!CanAccept, B!W!Marked
  <2> QED BY <1>1, <2>2, <2>3, <2>4 DEF B!Next, B!AcceptStep
<1>2. Remembers /\ [B!Next]_B!vars => [B!AcceptStep]_B!vars
  BY <1>1
<1> QED BY <1>2, AlwaysRemembers, PTL DEF B!Spec, B!AcceptsAsSet

----------------------------------------------------------------------------
(* TokenBucket: for any capacity, rate and packet sizes and any number of  *)
(* consumers, available_tokens stays between zero and the capacity, and    *)
(* the consumers together stay within the burst and the rate.              *)
(*                                                                         *)
(* The limit is not inductive by itself: tokens that are due and not yet   *)
(* added count as well, and only time up to the last refill has been paid  *)
(* out.  The inductive invariant says so.                                  *)

\* What a refill has computed and not yet added.
Pending == IF refill.pc = "cas" THEN refill.add ELSE 0

\* Tokens in the bucket, consumed or about to be added are within the burst and
\* what was due up to the last refill.
Conserved == Unit * (tokens + consumed + Pending) <= Unit * Capacity + Rate * last

\* The inductive invariant.
IInv == TypeOK /\ Conserved

----------------------------------------------------------------------------

\* What is due is a count, and rounding never favours the consumers.
LEMMA DueBounded == ASSUME NEW e \in Nat PROVE Due(e) \in Nat /\ Unit * Due(e) <= Rate * e
<1>1. Rate * e \in Nat
  BY BucketAssumption
<1>2. ASSUME NEW x \in Nat PROVE x \div Unit \in Nat /\ Unit * (x \div Unit) <= x
  BY BucketAssumption
<1>3. QED
  BY <1>1, <1>2 DEF Due

\* Fewer tokens are never worth more.
LEMMA UnitMonotone == ASSUME NEW d \in Nat, NEW e \in Nat, d <= e PROVE Unit * d <= Unit * e
  BY BucketAssumption

\* More time is never worth fewer tokens.
LEMMA RateMonotone == ASSUME NEW d \in Nat, NEW e \in Nat, d <= e PROVE Rate * d <= Rate * e
  BY BucketAssumption

\* The initial bucket is well typed.
LEMMA InitType == Init => TypeOK
  BY BucketAssumption DEF Init, TypeOK

\* Every step of the refill task, of a consumer and of the clock keeps the
\* tokens between zero and the capacity, failed exchanges included.
LEMMA StepType == ASSUME TypeOK, [Next]_vars PROVE TypeOK'
<1> USE BucketAssumption DEF TypeOK
<1>1. CASE Tick
  BY <1>1 DEF Tick
<1>2. CASE StartRefill
  <2>1. now - last \in Nat
    OBVIOUS
  <2>2. Due(now - last) \in Nat
    BY <2>1, DueBounded
  <2>3. QED
    BY <1>2, <2>2 DEF StartRefill
<1>3. CASE Refill
  BY <1>3 DEF Refill, Lesser
<1>4. CASE Notify
  BY <1>4 DEF Notify
<1>5. ASSUME NEW c \in Consumer, Consume(c) PROVE TypeOK'
  BY <1>5 DEF Consume, Step
<1>6. ASSUME NEW c \in Consumer, Load(c) PROVE TypeOK'
  BY <1>6 DEF Load, Step
<1>7. ASSUME NEW c \in Consumer, TryConsume(c) PROVE TypeOK'
  BY <1>7 DEF TryConsume, Step
<1>8. ASSUME NEW c \in Consumer, Wait(c) PROVE TypeOK'
  BY <1>8 DEF Wait, Step
<1>9. CASE UNCHANGED vars
  BY <1>9 DEF vars
<1>10. QED
  BY <1>1, <1>2, <1>3, <1>4, <1>5, <1>6, <1>7, <1>8, <1>9 DEF Next

\* available_tokens neither wraps below zero nor exceeds the capacity.
THEOREM TypeCorrect == Spec => []TypeOK
  BY InitType, StepType, PTL DEF Spec

----------------------------------------------------------------------------

\* Every step conserves the account of tokens.
LEMMA StepConserves == ASSUME IInv, [Next]_vars PROVE Conserved'
<1> USE BucketAssumption DEF IInv, TypeOK
<1>0. TypeOK'
  BY StepType
<1>1. CASE UNCHANGED <<tokens, consumed, refill, last>>
  BY <1>1 DEF Conserved, Pending
<1>2. CASE StartRefill
  <2>1. now - last \in Nat
    OBVIOUS
  <2>2. PICK due \in Nat : due = Due(now - last) /\ Unit * due <= Rate * (now - last)
    BY <2>1, DueBounded
  <2>3. Pending' = due /\ tokens' = tokens /\ consumed' = consumed /\ last' = now
    BY <1>2, <2>2 DEF StartRefill, Pending
  <2>4. Pending \in Nat
    BY DEF Pending
  <2>5. Unit * (tokens + consumed) <= Unit * (tokens + consumed + Pending)
    BY <2>4
  <2>6. Unit * (tokens + consumed + due) = Unit * (tokens + consumed) + Unit * due
    BY <2>2
  <2>7. Rate * (now - last) = Rate * now - Rate * last
    OBVIOUS
  <2>8. QED
    BY <2>2, <2>3, <2>4, <2>5, <2>6, <2>7 DEF Conserved
<1>3. CASE Refill
  <2>1. tokens' + consumed' + Pending' <= tokens + consumed + Pending /\ last' = last
    BY <1>3, <1>0 DEF Refill, Pending, Lesser
  <2>2. /\ tokens \in Nat /\ consumed \in Nat /\ Pending \in Nat
        /\ tokens' \in Nat /\ consumed' \in Nat /\ Pending' \in Nat
    BY <1>0 DEF Pending
  <2> HIDE DEF IInv, TypeOK
  <2>3. tokens + consumed + Pending \in Nat /\ tokens' + consumed' + Pending' \in Nat
    <3>1. ASSUME NEW k \in Nat, NEW m \in Nat, NEW n \in Nat PROVE k + m + n \in Nat
      OBVIOUS
    <3>2. QED
      BY <2>2, <3>1, Zenon
  <2>4. Unit * (tokens' + consumed' + Pending') <= Unit * (tokens + consumed + Pending)
    BY <2>1, <2>3, UnitMonotone
  <2>5. /\ Unit * (tokens + consumed + Pending) \in Nat
        /\ Unit * (tokens' + consumed' + Pending') \in Nat
    BY <2>3
  <2>6. Unit * Capacity \in Nat /\ Rate * last \in Nat
    BY DEF IInv, TypeOK
  <2>7. QED
    BY <2>1, <2>4, <2>5, <2>6 DEF IInv, Conserved
<1>4. CASE Notify
  BY <1>4 DEF Notify, Conserved, Pending
<1>5. ASSUME NEW c \in Consumer, TryConsume(c) PROVE Conserved'
  <2>1. tokens' + consumed' = tokens + consumed /\ last' = last /\ Pending' = Pending
    BY <1>5 DEF TryConsume, Pending
  <2>2. QED
    BY <2>1 DEF Conserved
<1>6. QED
  <2>1. ASSUME NEW c \in Consumer, Consume(c) \/ Load(c) \/ Wait(c)
        PROVE UNCHANGED <<tokens, consumed, refill, last>>
    BY <2>1 DEF Consume, Load, Wait
  <2>2. CASE Tick
    BY <2>2, <1>1 DEF Tick
  <2>3. CASE UNCHANGED vars
    BY <2>3, <1>1 DEF vars
  <2>4. QED
    BY <1>1, <1>2, <1>3, <1>4, <1>5, <2>1, <2>2, <2>3 DEF Next

\* The limit of TokenBucket: the consumers never take more than the burst and
\* the rate allow, for every capacity and rate and any number of consumers.
THEOREM WithinHolds == Spec => []Within
<1>1. Init => IInv
  <2> SUFFICES ASSUME Init PROVE IInv
    OBVIOUS
  <2>1. tokens + consumed + Pending = Capacity /\ last = 0
    BY BucketAssumption DEF Init, Pending
  <2>2. QED
    BY <2>1, InitType, BucketAssumption DEF IInv, Conserved
<1>2. IInv /\ [Next]_vars => IInv'
  BY StepType, StepConserves DEF IInv
<1>3. IInv => Within
  <2> SUFFICES ASSUME IInv PROVE Within
    OBVIOUS
  <2>1. Rate * last <= Rate * now
    BY RateMonotone DEF IInv, TypeOK
  <2>2. Pending \in Nat /\ tokens \in Nat /\ consumed \in Nat
    BY BucketAssumption DEF IInv, TypeOK, Pending
  <2>3. Unit * consumed <= Unit * (tokens + consumed + Pending)
    BY <2>2, BucketAssumption
  <2>4. Rate * last \in Nat /\ Rate * now \in Nat /\ Unit * Capacity \in Nat
    BY BucketAssumption DEF IInv, TypeOK
  <2>5. QED
    BY <2>1, <2>2, <2>3, <2>4, BucketAssumption DEF IInv, Conserved, Within
<1>4. QED
  BY <1>1, <1>2, <1>3, PTL DEF Spec

----------------------------------------------------------------------------
(* RootUpgrade: for any number of pushes, tokens and failing writes, a     *)
(* device that acknowledged a root upgrade stays a root, provided that no  *)
(* token is armed while a push is being handled.                           *)
(*                                                                         *)
(* AckedIsRoot is not inductive: that the check of a handler still holds   *)
(* when it writes needs that no other handler is between the two, and that *)
(* in turn needs that the token is gone while a handler is there.          *)

CONSTANTS Request, Ttl, Waiting, MaxArms, MaxFailed
VARIABLES arms, armed, handler, file, pool, failed

U == INSTANCE RootUpgrade

\* What the proofs assume of the constants.
UpgradeConstants ==
    /\ Ttl \in Nat /\ MaxArms \in Nat /\ MaxTime \in Nat /\ MaxFailed \in Nat
    /\ Waiting \in BOOLEAN

\* A handler that has the token's passphrase and has not written yet.
Busy(r) == handler[r].pc \in {"check", "write"}

\* The inductive invariant.
UpgradeInv ==
    /\ U!TypeOK
    /\ armed # U!NoToken => armed.pass > 0
    /\ \A r \in Request :
        /\ Busy(r) => armed = U!NoToken /\ handler[r].pass > 0
        /\ handler[r].pc = "write" => file = U!None
        /\ handler[r].pc \in {"register", "acked"} => handler[r].pass > 0 /\ file = handler[r].pass
        /\ handler[r].pc = "acked" => pool
    /\ \A r, s \in Request : Busy(r) /\ Busy(s) => r = s

\* The initial states are well typed.
LEMMA UpgradeInitType == ASSUME UpgradeConstants PROVE U!Init => U!TypeOK
<1> SUFFICES ASSUME U!Init PROVE U!TypeOK
  OBVIOUS
<1>1. now \in 0 .. MaxTime /\ arms \in 0 .. MaxArms /\ failed \in 0 .. MaxFailed /\ file \in U!Torn .. arms
  BY DEF UpgradeConstants, U!Init, U!None, U!Torn
<1>2. armed \in [pass : 0 .. arms, expires : 0 .. MaxTime + Ttl]
  BY DEF UpgradeConstants, U!Init, U!NoToken
<1>3. handler \in [Request -> [pc : {"sent", "check", "write", "register", "acked", "refused"},
                              pass : 0 .. arms]]
  BY DEF U!Init
<1>4. QED
  BY <1>1, <1>2, <1>3, Zenon DEF U!Init, U!TypeOK

\* Every step of a handler, of the user and of the clock keeps every variable
\* in its set.
LEMMA UpgradeStepType == ASSUME UpgradeConstants, U!TypeOK, [U!Next]_U!vars PROVE U!TypeOK'
<1> USE DEF UpgradeConstants, U!TypeOK, U!None, U!Torn
<1>1. CASE U!Tick
  BY <1>1 DEF U!Tick
<1>2. CASE U!ArmRootUpgrade
  BY <1>2 DEF U!ArmRootUpgrade
<1>3. ASSUME NEW r \in Request, U!TakeArmedPassphrase(r) PROVE U!TypeOK'
  BY <1>3 DEF U!TakeArmedPassphrase, U!Goto, U!NoToken
<1>4. ASSUME NEW r \in Request, U!CheckExists(r) PROVE U!TypeOK'
  BY <1>4 DEF U!CheckExists, U!Goto
<1>5. ASSUME NEW r \in Request, U!SaveToFile(r) PROVE U!TypeOK'
  BY <1>5 DEF U!SaveToFile, U!Goto
<1>6. ASSUME NEW r \in Request, U!AddRoot(r) PROVE U!TypeOK'
  BY <1>6 DEF U!AddRoot, U!Goto
<1>7. CASE UNCHANGED U!vars
  BY <1>7 DEF U!vars
<1>8. QED
  BY <1>1, <1>2, <1>3, <1>4, <1>5, <1>6, <1>7 DEF U!Next, U!Handle

\* Every variable stays in its set, for any bounds on tokens, time and failures.
THEOREM UpgradeTypeCorrect == ASSUME UpgradeConstants PROVE U!Spec => []U!TypeOK
  BY UpgradeInitType, UpgradeStepType, PTL DEF U!Spec

\* A device that acknowledged upgrade_to_root_device stays a root, for a user
\* who arms no token while a push is being handled.
THEOREM AckedIsRootHolds == ASSUME UpgradeConstants, Waiting PROVE U!Spec => []U!AckedIsRoot
<1>1. U!Init => UpgradeInv
  <2> SUFFICES ASSUME U!Init PROVE UpgradeInv
    OBVIOUS
  <2>1. U!TypeOK
    BY UpgradeInitType
  <2>2. armed = U!NoToken /\ \A r \in Request : handler[r].pc = "sent"
    BY DEF U!Init
  <2>3. QED
    BY <2>1, <2>2 DEF UpgradeInv, Busy
<1>2. UpgradeInv /\ [U!Next]_U!vars => UpgradeInv'
  <2> SUFFICES ASSUME UpgradeInv, [U!Next]_U!vars PROVE UpgradeInv'
    OBVIOUS
  <2>0. U!TypeOK'
    BY UpgradeStepType DEF UpgradeInv
  <2> USE <2>0 DEF UpgradeInv, U!TypeOK, Busy
  <2>1. CASE U!Tick
    BY <2>1 DEF U!Tick
  <2>2. CASE U!ArmRootUpgrade
    BY <2>2 DEF U!ArmRootUpgrade
  <2>3. ASSUME NEW r \in Request, U!TakeArmedPassphrase(r) PROVE UpgradeInv'
    BY <2>3 DEF U!TakeArmedPassphrase, U!Goto
  <2>4. ASSUME NEW r \in Request, U!CheckExists(r) PROVE UpgradeInv'
    BY <2>4 DEF U!CheckExists, U!Goto
  <2>5. ASSUME NEW r \in Request, U!SaveToFile(r) PROVE UpgradeInv'
    BY <2>5 DEF U!SaveToFile, U!Goto, U!None
  <2>6. ASSUME NEW r \in Request, U!AddRoot(r) PROVE UpgradeInv'
    BY <2>6 DEF U!AddRoot, U!Goto
  <2>7. CASE UNCHANGED U!vars
    BY <2>7 DEF U!vars
  <2>8. QED
    BY <2>1, <2>2, <2>3, <2>4, <2>5, <2>6, <2>7 DEF U!Next, U!Handle
<1>3. UpgradeInv => U!AckedIsRoot
  BY DEF UpgradeInv, U!AckedIsRoot
<1>4. QED
  BY <1>1, <1>2, <1>3, PTL DEF U!Spec

----------------------------------------------------------------------------
(* Credentials: for any number of concurrent requests, keys, crashes and   *)
(* failed writes, a revocation that reached the file is never undone.      *)
(*                                                                         *)
(* RevokedStays is not inductive: a restart brings back what the file      *)
(* holds, and the file gets what a request serialised earlier.  So the     *)
(* file too holds no revoked key, the map a request writes is the one in   *)
(* memory, as the lock is held while it writes, and a key that a request   *)
(* is about to report as revoked is in the map no more, as no two ids      *)
(* have the same key.                                                      *)

CONSTANTS Op, Id, MaxKeys, MaxCrashes
VARIABLES mem, writer, op, keys, revoked, budget

C == INSTANCE Credentials

\* What the proof assumes of the constants.
NobodyIsNoRequest == C!Nobody \notin Op

\* A map gives every id a key of its own, generated and not revoked.
Clean(f) ==
    /\ \A i \in DOMAIN f : f[i] \in 1 .. keys /\ f[i] \notin revoked
    /\ \A i, j \in DOMAIN f : f[i] = f[j] => i = j

\* The step of a request, under the lock or not.
Sound(o) ==
    /\ op[o] = [pc |-> op[o].pc, drops |-> op[o].drops, image |-> op[o].image]
    /\ op[o].drops \in 0 .. keys
    /\ op[o].pc \in {"save", "write"} => \A i \in DOMAIN mem : mem[i] # op[o].drops
    /\ op[o].pc = "write" => writer = o /\ op[o].image = mem

\* The inductive invariant.
CredInv ==
    /\ keys \in Nat /\ revoked \subseteq 1 .. keys
    /\ Clean(mem) /\ Clean(file.map)
    /\ op = [o \in Op |-> op[o]]
    /\ \A o \in Op : Sound(o)

\* No credential, no request and no revocation yet.
LEMMA CredInit == C!Init => CredInv
BY DEF C!Init, C!Whole, C!Empty, C!Idle, CredInv, Clean, Sound

\* Every step of a request and a restart keep the invariant.
LEMMA CredNext == ASSUME NobodyIsNoRequest, CredInv, [C!Next]_C!vars PROVE CredInv'
<1>1. ASSUME NEW o \in Op, NEW i \in Id, C!Generate(o, i) PROVE CredInv'
  <2>1. /\ \A p \in Op : op[p].pc # "write"
        /\ i \notin DOMAIN mem /\ keys' = keys + 1 /\ mem' = C!With(mem, i, keys + 1)
        /\ op' = [op EXCEPT ![o] = C!Saving(0)] /\ file' = file /\ revoked' = revoked
    BY <1>1 DEF C!Generate, C!Locked, CredInv, Sound, NobodyIsNoRequest
  <2>2. DOMAIN mem' = DOMAIN mem \cup {i} /\ mem'[i] = keys + 1
        /\ \A j \in DOMAIN mem : mem'[j] = mem[j]
    BY <2>1 DEF C!With
  <2>3. Clean(mem)'
    BY <2>1, <2>2 DEF CredInv, Clean
  <2>4. Clean(file.map)'
    BY <2>1 DEF CredInv, Clean
  <2>5. ASSUME NEW p \in Op PROVE Sound(p)'
    BY <2>1, <2>2 DEF CredInv, Sound, C!Saving, Clean
  <2> QED BY <2>1, <2>3, <2>4, <2>5 DEF CredInv
<1>2. ASSUME NEW o \in Op, NEW i \in Id, C!Revoke(o, i) PROVE CredInv'
  <2>1. /\ \A p \in Op : op[p].pc # "write"
        /\ i \in DOMAIN mem /\ mem' = C!Without(mem, i)
        /\ op' = [op EXCEPT ![o] = C!Saving(mem[i])]
        /\ file' = file /\ revoked' = revoked /\ keys' = keys
    BY <1>2 DEF C!Revoke, C!Locked, CredInv, Sound, NobodyIsNoRequest
  <2>2. DOMAIN mem' = DOMAIN mem \ {i} /\ \A j \in DOMAIN mem \ {i} : mem'[j] = mem[j]
    BY <2>1 DEF C!Without, C!Restrict
  <2>3. Clean(mem)' /\ Clean(file.map)'
    BY <2>1, <2>2 DEF CredInv, Clean
  <2>4. ASSUME NEW p \in Op PROVE Sound(p)'
    BY <2>1, <2>2 DEF CredInv, Sound, C!Saving, Clean
  <2> QED BY <2>1, <2>3, <2>4 DEF CredInv
<1>3. ASSUME NEW o \in Op, C!Open(o) PROVE CredInv'
  <2>1. \A p \in Op : op[p].pc # "write"
    BY <1>3 DEF C!Open, C!Locked, CredInv, Sound, NobodyIsNoRequest
  <2>2. /\ op[o].pc = "save" /\ writer' = o /\ file'.map = C!Empty /\ mem' = mem
        /\ op' = [op EXCEPT ![o].pc = "write", ![o].image = mem]
        /\ revoked' = revoked /\ keys' = keys
    BY <1>3 DEF C!Open, C!Torn
  <2>3. Clean(mem)' /\ Clean(file.map)'
    BY <2>2 DEF CredInv, Clean, C!Empty
  <2>4. ASSUME NEW p \in Op PROVE Sound(p)'
    <3>1. CASE p = o
      <4>1. op'[o] = [pc |-> "write", drops |-> op[o].drops, image |-> mem]
        <5> DEFINE k == op[o].drops
                   f == op[o].image
        <5>1. op[o] = [pc |-> "save", drops |-> k, image |-> f]
          BY <2>2 DEF CredInv, Sound
        <5>2. op'[o] = [[op[o] EXCEPT !.pc = "write"] EXCEPT !.image = mem]
          BY <2>2 DEF CredInv
        <5> HIDE DEF k, f
        <5> QED BY <5>1, <5>2
      <4> QED BY <2>2, <3>1, <4>1 DEF CredInv, Sound
    <3>2. CASE p # o
      BY <2>1, <2>2, <3>2 DEF CredInv, Sound
    <3> QED BY <3>1, <3>2
  <2> QED BY <2>2, <2>3, <2>4 DEF CredInv
<1>4. ASSUME NEW o \in Op, C!FailedSave(o) \/ C!FailedWrite(o) PROVE CredInv'
  <2>1. /\ op' = [op EXCEPT ![o] = C!Idle] /\ mem' = mem /\ file' = file
        /\ revoked' = revoked /\ keys' = keys
        /\ \A p \in Op \ {o} : op[p].pc = "write" => writer' = p
    BY <1>4 DEF C!FailedSave, C!FailedWrite, CredInv, Sound
  <2>2. ASSUME NEW p \in Op PROVE Sound(p)'
    BY <2>1 DEF CredInv, Sound, C!Idle
  <2> QED BY <2>1, <2>2 DEF CredInv, Clean
<1>5. ASSUME NEW o \in Op, C!Written(o) PROVE CredInv'
  <2>1. /\ op[o].pc = "write" /\ file'.map = mem /\ mem' = mem /\ keys' = keys
        /\ revoked' = revoked \cup ({op[o].drops} \ {0})
        /\ op' = [op EXCEPT ![o] = C!Idle]
        /\ \A p \in Op \ {o} : op[p].pc # "write"
    BY <1>5 DEF C!Written, C!Whole, CredInv, Sound
  <2>2. Clean(mem)' /\ Clean(file.map)'
    BY <2>1 DEF CredInv, Clean, Sound
  <2>3. ASSUME NEW p \in Op PROVE Sound(p)'
    BY <2>1 DEF CredInv, Sound, C!Idle
  <2>4. revoked' \subseteq 1 .. keys'
    BY <2>1 DEF CredInv, Sound
  <2> QED BY <2>1, <2>2, <2>3, <2>4 DEF CredInv
<1>6. CASE C!Restart
  BY <1>6 DEF C!Restart, CredInv, Clean, Sound, C!Idle
<1>7. CASE UNCHANGED C!vars
  BY <1>7 DEF C!vars, CredInv, Clean, Sound
<1> QED BY <1>1, <1>2, <1>3, <1>4, <1>5, <1>6, <1>7 DEF C!Next

\* A credential whose revoke_credential was answered after a write that worked is
\* never trusted again, in memory or after a restart, however requests, crashes
\* and failed writes interleave.
THEOREM RevokedStaysHolds == ASSUME NobodyIsNoRequest PROVE C!Spec => []C!RevokedStays
<1>1. CredInv => C!RevokedStays
  BY DEF CredInv, Clean, C!RevokedStays, C!TrustedKeys
<1> QED BY <1>1, CredInit, CredNext, PTL DEF C!Spec

----------------------------------------------------------------------------
(* TcpProxy *)

CONSTANTS Dst, MaxSyns

VARIABLES made, entry, syn, addr, conn, accept, tcp, calling, owner

P == INSTANCE TcpProxy

\* The numbers and the steps the accept loop can hold.
Loop ==
    /\ accept \in [pc : {"accept", "remove", "insert"}, entry : 0 .. made]
    /\ owner \in 0 .. made

\* The entry the accept loop holds is nobody else's: it is in conn_map only
\* afterwards, and in syn_map only before.
Taken ==
    /\ accept.pc # "accept" => accept.entry # 0 /\ accept.entry \notin conn
    /\ accept.pc = "insert" => accept.entry # syn

\* The task with the stream has not closed yet.
Streaming ==
    owner # 0 => entry[owner].state \in {"ConnectingDst", "Connected", "ClosingSrc", "ClosingDst"}

\* The inductive invariant.
ProxyInv ==
    /\ P!TypeOK /\ Loop
    /\ Taken /\ P!AssertionsHold
    /\ Streaming /\ P!SuccessorKept

\* No entry has been made.
LEMMA ProxyInit ==
    ASSUME MaxSyns \in Nat, Dst # {}
    PROVE  P!Init => ProxyInv
BY DEF P!Init, ProxyInv, Loop, Taken, Streaming,
       P!TypeOK, P!Entry, P!AssertionsHold, P!SuccessorKept

\* Every step of the client, of the accept loop and of the tasks keeps the
\* invariant.
LEMMA ProxyNext ==
    ASSUME MaxSyns \in Nat, ProxyInv, [P!Next]_P!vars
    PROVE  ProxyInv'
<1> USE DEF ProxyInv, Loop, Taken, Streaming, P!TypeOK, P!Entry, P!AssertionsHold, P!SuccessorKept
<1>1. ASSUME NEW d \in Dst, P!PeerSyn(d)
      PROVE  ProxyInv'
  BY <1>1 DEF P!PeerSyn
<1>2. CASE P!NicAnswer
  BY <1>2 DEF P!NicAnswer
<1>3. CASE P!AcceptGet
  BY <1>3 DEF P!AcceptGet
<1>4. CASE P!AcceptRemove
  BY <1>4 DEF P!AcceptRemove
<1>5. CASE P!AcceptInsert
  BY <1>5 DEF P!AcceptInsert, P!SetState
<1>6. CASE P!SynExpire
  BY <1>6 DEF P!SynExpire, P!SetState
<1>7. ASSUME NEW e \in P!Entry, P!TaskStep(e)
      PROVE  ProxyInv'
  <2>1. CASE P!ConnectFails(e)
    <3>1. CASE owner = e
      BY <2>1, <3>1 DEF P!ConnectFails, P!SetState, P!RemoveEntry, P!DropStream
    <3>2. CASE owner # e
      BY <2>1, <3>2 DEF P!ConnectFails, P!SetState, P!RemoveEntry, P!DropStream
    <3> QED BY <3>1, <3>2
  <2>2. CASE P!ConnectDst(e)
    BY <2>2 DEF P!ConnectDst, P!SetState
  <2>3. CASE P!ShutdownSrc(e)
    BY <2>3 DEF P!ShutdownSrc, P!SetState
  <2>4. CASE P!ShutdownDst(e)
    <3>1. CASE owner = e
      BY <2>4, <3>1 DEF P!ShutdownDst, P!SetState, P!DropStream
    <3>2. CASE owner # e
      BY <2>4, <3>2 DEF P!ShutdownDst, P!SetState, P!DropStream
    <3> QED BY <3>1, <3>2
  <2>5. CASE P!Cleanup(e)
    BY <2>5 DEF P!Cleanup, P!RemoveEntry
  <2> QED BY <1>7, <2>1, <2>2, <2>3, <2>4, <2>5 DEF P!TaskStep
<1>8. ASSUME NEW e \in P!Entry, P!CopyEnds(e)
      PROVE  ProxyInv'
  BY <1>8 DEF P!CopyEnds, P!SetState
<1>9. CASE UNCHANGED P!vars
  BY <1>9 DEF P!vars
<1> QED BY <1>1, <1>2, <1>3, <1>4, <1>5, <1>6, <1>7, <1>8, <1>9 DEF P!Next

\* For any number of SYNs and destinations, the assertions of the accept loop and
\* of connect_to_nat_dst hold, and the end of a connection takes nothing from the
\* one that reuses its address.
THEOREM ProxySafe ==
    ASSUME MaxSyns \in Nat, Dst # {}
    PROVE  P!Spec => [](P!AssertionsHold /\ P!SuccessorKept)
<1>1. ProxyInv => P!AssertionsHold /\ P!SuccessorKept
  BY DEF ProxyInv
<1> QED BY ProxyInit, ProxyNext, <1>1, PTL DEF P!Spec

----------------------------------------------------------------------------
(* KeepAlive *)

CONSTANTS MaxLoss, MaxPending, ResultCap

VARIABLES
    remote, sink, since, backoff, moved, sending, waiting, results, loss, heard, pc, quiet, missed

K == INSTANCE KeepAlive

\* While the loop runs its counter is below the limit, and above the losses
\* since the last packet only if it is about to be reset or missed the packet.
Counted ==
    /\ pc \in {"recv", "reread", "closed"}
    /\ loss \in Nat /\ quiet \in 0 .. MaxLoss /\ heard \in BOOLEAN /\ missed \in BOOLEAN
    /\ pc # "closed" =>
          /\ loss < MaxLoss
          /\ missed \/ loss <= quiet \/ (pc = "recv" /\ heard)
    /\ K!ClosesOnlyQuiet

\* The loop starts with no losses.
LEMMA PingInit ==
    ASSUME MaxLoss \in Nat \ {0}
    PROVE  K!Init => Counted
<1> SUFFICES ASSUME K!Init PROVE Counted
  OBVIOUS
<1>1. heard \in BOOLEAN /\ missed \in BOOLEAN
  BY Zenon DEF K!Init
<1>2. loss = 0 /\ quiet = 0 /\ pc = "recv"
  BY Zenon DEF K!Init
<1> QED BY <1>1, <1>2 DEF Counted, K!ClosesOnlyQuiet

\* A packet that comes in resets the history, and the loop sees it or misses it.
LEMMA HeardCounted ==
    ASSUME MaxLoss \in Nat \ {0}, Counted, pc # "closed", K!Heard, UNCHANGED <<loss, pc>>
    PROVE  Counted'
<1>1. heard' \in BOOLEAN /\ missed' \in BOOLEAN /\ heard'
  BY Zenon DEF K!Heard, Counted
<1>2. missed \/ pc = "reread" => missed'
  BY Zenon DEF K!Heard, Counted
<1>3. quiet' = 0
  BY Zenon DEF K!Heard
<1> QED BY <1>1, <1>2, <1>3 DEF Counted, K!ClosesOnlyQuiet

\* Every step of the loop, of the ping tasks and of the other side keeps the
\* invariant.
LEMMA PingNext ==
    ASSUME MaxLoss \in Nat \ {0}, Counted, [K!Next]_K!vars
    PROVE  Counted'
<1> USE DEF Counted, K!ClosesOnlyQuiet
<1>1. CASE K!Tick
  BY <1>1 DEF K!Tick
<1>2. CASE K!Handle
  <2>1. heard' \in BOOLEAN /\ missed' \in BOOLEAN /\ ((missed /\ ~ heard) => missed')
    BY <1>2, Zenon DEF K!Handle
  <2> DEFINE lost == IF Head(results) THEN 0 ELSE 1
  <2>0. lost \in {0, 1}
    BY Zenon
  <2>2. /\ loss' = IF heard THEN 0 ELSE loss + lost
        /\ quiet' = IF quiet + lost < MaxLoss THEN quiet + lost ELSE MaxLoss
        /\ pc' = IF loss' >= MaxLoss THEN "closed" ELSE "reread"
    BY <1>2, Zenon DEF K!Handle, K!Least
  <2> HIDE DEF lost
  <2>3. pc = "recv"
    BY <1>2 DEF K!Handle
  <2>4. CASE heard
    BY <2>0, <2>1, <2>2, <2>4
  <2>5. CASE ~ heard /\ missed
    BY <2>0, <2>1, <2>2, <2>3, <2>5
  <2>6. CASE ~ heard /\ ~ missed
    BY <2>0, <2>1, <2>2, <2>3, <2>6
  <2> QED BY <2>4, <2>5, <2>6
<1>3. CASE K!Reread
  BY <1>3 DEF K!Reread
<1>4. CASE K!OtherPacket
  <2>1. pc # "closed" /\ UNCHANGED <<loss, pc>>
    BY <1>4, Zenon DEF K!OtherPacket
  <2> QED BY <1>4, <2>1, HeardCounted DEF K!OtherPacket
<1>5. CASE K!GoSilent \/ K!Block \/ K!Unblock \/ K!SendTimeout
  BY <1>5 DEF K!GoSilent, K!Block, K!Unblock, K!SendTimeout
<1>6. CASE K!Send
  BY <1>6 DEF K!Send
<1>7. CASE K!Answered
  <2>1. pc # "closed" /\ UNCHANGED <<loss, pc>>
    BY <1>7, Zenon DEF K!Answered, K!Report
  <2> QED BY <1>7, <2>1, HeardCounted DEF K!Answered
<1>8. CASE K!Lost
  BY <1>8 DEF K!Lost, K!Report
<1>9. CASE K!SendFails
  BY <1>9 DEF K!SendFails, K!Report
<1>10. CASE UNCHANGED K!vars
  BY <1>10 DEF K!vars
<1> QED
  BY <1>1, <1>2, <1>3, <1>4, <1>5, <1>6, <1>7, <1>8, <1>9, <1>10 DEF K!Next

\* For any loss limit and channel capacity, the pinger closes a connection only
\* after that many losses in a row with no packet in between, except for a packet
\* that came in between the two reads of rx_packets.
THEOREM ClosesOnlyQuietHolds ==
    ASSUME MaxLoss \in Nat \ {0}
    PROVE  K!Spec => []K!ClosesOnlyQuiet
<1>1. Counted => K!ClosesOnlyQuiet
  BY DEF Counted
<1> QED BY PingInit, PingNext, <1>1, PTL DEF K!Spec

----------------------------------------------------------------------------
(* Connectors: while the user removes nothing, no url the user wants is    *)
(* lost between the sets of the connector manager, even by a routine that  *)
(* panics; and it does not panic as long as nothing but the configuration  *)
(* adds urls.  The run connector_panic shows that it can otherwise.        *)

CONSTANTS
    Url, Configured, Addable, Hints, Caching, BorrowAfter, MaxAdds, MaxLists, MaxRemoves, MaxDrops

VARIABLES
    connectors, reconnecting, removed, alive, borrowed, failures, cache, routine, user, task, wanted

M == INSTANCE Connectors

\* The record of the routine or of the user's request, with nothing to remove.
Holds(a) ==
    /\ a = [pc |-> a.pc, later |-> a.later, dead |-> a.dead, ask |-> a.ask]
    /\ a.later = {} /\ a.ask = {}

\* A url in reconnecting has a task that has yet to take it out.
Working == {"direct", "hints", "hints or borrow", "borrow", "done"}

\* Nothing is being removed, and no url is lost.
NothingRemoved ==
    /\ removed = {} /\ budget.removes = 0
    /\ budget = [adds |-> budget.adds, lists |-> budget.lists, removes |-> budget.removes,
                 drops |-> budget.drops]
    /\ Holds(routine) /\ Holds(user)
    /\ task = [u \in Url |-> task[u]]
    /\ wanted \subseteq Url /\ connectors \subseteq Url
    /\ \A u \in reconnecting \cap Url : task[u] \in Working
    /\ M!Kept

\* What the routine has collected is where it was, and a url is in one set.
Apart ==
    /\ routine.pc # "panicked"
    /\ routine.pc = "move" => routine.dead \subseteq connectors
    /\ cache = {} /\ connectors \cap reconnecting = {}
    /\ \A u \in Url : task[u] # "none" => u \notin connectors

\* What the proofs assume of the constants: the user removes nothing; and, for the
\* second, nobody adds a url.
NoRemovals == Configured \subseteq Url /\ Addable \subseteq Url /\ MaxRemoves = 0
NoAdditions == Addable = {} /\ Hints = {} /\ ~ Caching

\* At first the urls of the configuration are connectors.
LEMMA UrlsInit == ASSUME NoRemovals PROVE M!Init => NothingRemoved
BY DEF NoRemovals, M!Init, NothingRemoved, Holds, M!Idle, M!Kept

\* A scan finds nothing to remove.
LEMMA ScanNothing ==
    ASSUME NothingRemoved, M!Scan
    PROVE  connectors' = connectors /\ UNCHANGED <<reconnecting, removed, alive, cache>>
BY DEF NothingRemoved, M!Scan

\* Every step of the routine, of a task and of the user keeps urls.
LEMMA UrlsNext == ASSUME NoRemovals, NothingRemoved, [M!Next]_M!vars PROVE NothingRemoved'
<1> USE DEF NothingRemoved, Holds, M!Kept
<1>1. CASE M!TickScan
  BY <1>1, ScanNothing DEF M!TickScan, M!Scanned
<1>2. CASE M!TickClear
  BY <1>2 DEF M!TickClear, M!Clear
<1>3. CASE M!TickReinsert
  BY <1>3 DEF M!TickReinsert, M!Reinsert
<1>4. CASE M!Collect
  BY <1>4 DEF M!Collect
<1>5. ASSUME NEW u \in Url, M!Move(u) PROVE NothingRemoved'
  <2>1. connectors' = connectors \ {u}
        /\ UNCHANGED <<removed, alive, borrowed, failures, cache, user, wanted, budget>>
    BY <1>5 DEF M!Move
  <2>2. CASE M!Panics(u)
    <3>1. routine' = [M!Idle EXCEPT !.pc = "panicked"] /\ UNCHANGED <<reconnecting, task>>
      BY <1>5, <2>2 DEF M!Move
    <3>2. u \notin connectors \/ task[u] \in Working
      BY <2>2 DEF M!Panics
    <3> QED BY <2>1, <3>1, <3>2 DEF M!Idle, Working
  <2>3. CASE ~ M!Panics(u)
    <3>1. /\ routine' = [routine EXCEPT !.dead = @ \ {u}]
          /\ reconnecting' = reconnecting \cup {u} /\ task' = [task EXCEPT ![u] = "direct"]
      BY <1>5, <2>3 DEF M!Move
    <3> QED BY <2>1, <3>1 DEF Working
  <2> QED BY <2>2, <2>3
<1>6. CASE M!TickDone
  BY <1>6 DEF M!TickDone, M!Idle
<1>7. ASSUME NEW u \in Url, M!ResolveFails(u) \/ M!ConnectDirect(u) \/ M!NoHint(u) \/ M!Borrow(u)
      PROVE  NothingRemoved'
  BY <1>7 DEF M!ResolveFails, M!ConnectDirect, M!NoHint, M!Borrow, M!Step, M!AtHints, Working
<1>8. ASSUME NEW u \in Url, NEW h \in Url, M!ConnectHint(u, h) PROVE NothingRemoved'
  BY <1>8 DEF M!ConnectHint, M!Step, M!AtHints, Working
<1>9. ASSUME NEW u \in Url, M!LeaveReconnecting(u) PROVE NothingRemoved'
  BY <1>9 DEF M!LeaveReconnecting, M!Step, Working
<1>10. ASSUME NEW u \in Url, M!BackToConnectors(u) PROVE NothingRemoved'
  BY <1>10 DEF M!BackToConnectors, M!Step, Working
<1>11. ASSUME NEW u \in Url, M!Drop(u) PROVE NothingRemoved'
  BY <1>11 DEF M!Drop
<1>12. ASSUME NEW u \in Addable, M!AddConnector(u) PROVE NothingRemoved'
  BY <1>12 DEF M!AddConnector, NoRemovals
<1>13. ASSUME NEW S, M!ListScan(S) PROVE NothingRemoved'
  <2>1. S = {} /\ M!Scan /\ UNCHANGED <<routine, task, wanted>>
    BY <1>13 DEF M!ListScan
  <2>2. budget' = [budget EXCEPT !.lists = @ - 1] /\ user' = [M!Scanned(user) EXCEPT !.ask = {}]
    BY <1>13, <2>1 DEF M!ListScan
  <2> QED BY <2>1, <2>2, ScanNothing DEF M!Scanned
<1>14. CASE M!ListClear
  BY <1>14 DEF M!ListClear, M!Clear
<1>15. CASE M!ListReinsert
  BY <1>15 DEF M!ListReinsert, M!Reinsert
<1>16. CASE M!ListNote
  BY <1>16 DEF M!ListNote, M!Idle
<1>17. CASE UNCHANGED M!vars
  BY <1>17 DEF M!vars
<1> QED
  BY <1>1, <1>2, <1>3, <1>4, <1>5, <1>6, <1>7, <1>8, <1>9, <1>10, <1>11, <1>12, <1>13, <1>14,
     <1>15, <1>16, <1>17
  DEF M!Next, M!Routine, M!User, M!Task

\* For any configuration, additions, hints, lost connections and failed attempts:
\* while the user removes nothing, a url the user wants is a connector, or has a
\* task that puts it back, even after the routine has panicked.
THEOREM KeptHolds == ASSUME NoRemovals PROVE M!Spec => []M!Kept
<1>1. NothingRemoved => M!Kept
  BY DEF NothingRemoved
<1> QED BY <1>1, UrlsInit, UrlsNext, PTL DEF M!Spec

\* The same steps keep the sets apart while nothing but the configuration adds urls.
LEMMA ApartNext ==
    ASSUME NoRemovals, NoAdditions, NothingRemoved, Apart, [M!Next]_M!vars
    PROVE  Apart'
<1> USE DEF NothingRemoved, Holds, Apart
<1>1. CASE M!TickScan
  BY <1>1, ScanNothing DEF M!TickScan, M!Scanned
<1>2. CASE M!TickClear
  BY <1>2 DEF M!TickClear, M!Clear
<1>3. CASE M!TickReinsert
  BY <1>3 DEF M!TickReinsert, M!Reinsert
<1>4. CASE M!Collect
  BY <1>4 DEF M!Collect, M!Dead
<1>5. ASSUME NEW u \in Url, M!Move(u) PROVE Apart'
  <2>1. ~ M!Panics(u)
    BY <1>5 DEF M!Move, M!Panics
  <2>2. /\ connectors' = connectors \ {u} /\ cache' = cache
        /\ routine' = [routine EXCEPT !.dead = @ \ {u}]
        /\ reconnecting' = reconnecting \cup {u} /\ task' = [task EXCEPT ![u] = "direct"]
    BY <1>5, <2>1 DEF M!Move
  <2> QED BY <2>2
<1>6. CASE M!TickDone
  BY <1>6 DEF M!TickDone, M!Idle
<1>7. ASSUME NEW u \in Url, M!ResolveFails(u) \/ M!ConnectDirect(u) \/ M!NoHint(u) \/ M!Borrow(u)
      PROVE  Apart'
  BY <1>7 DEF M!ResolveFails, M!ConnectDirect, M!Connected, M!NoHint, M!Borrow, M!Step, M!AtHints,
              NoAdditions
<1>8. ASSUME NEW u \in Url, NEW h \in Url, M!ConnectHint(u, h) PROVE FALSE
  BY <1>8 DEF M!ConnectHint, NoAdditions
<1>9. ASSUME NEW u \in Url, M!LeaveReconnecting(u) PROVE Apart'
  BY <1>9 DEF M!LeaveReconnecting, M!Step
<1>10. ASSUME NEW u \in Url, M!BackToConnectors(u) PROVE Apart'
  BY <1>10 DEF M!BackToConnectors, M!Step, Working
<1>11. ASSUME NEW u \in Url, M!Drop(u) PROVE Apart'
  BY <1>11 DEF M!Drop
<1>12. ASSUME NEW S, M!ListScan(S) PROVE Apart'
  BY <1>12, ScanNothing DEF M!ListScan
<1>13. CASE M!ListClear
  BY <1>13 DEF M!ListClear, M!Clear
<1>14. CASE M!ListReinsert
  BY <1>14 DEF M!ListReinsert, M!Reinsert
<1>15. CASE M!ListNote
  BY <1>15 DEF M!ListNote
<1>16. CASE UNCHANGED M!vars
  BY <1>16 DEF M!vars
<1> QED
  BY <1>1, <1>2, <1>3, <1>4, <1>5, <1>6, <1>7, <1>8, <1>9, <1>10, <1>11, <1>12, <1>13, <1>14,
     <1>15, <1>16
  DEF M!Next, M!Routine, M!User, M!Task, NoAdditions

\* With the urls of the configuration alone, however often they are listed, tried
\* and lost, the routine never meets the unwrap and the assertion that end it
\* (conn_mgr_reconn_routine).
THEOREM RoutineSurvivesHolds ==
    ASSUME NoRemovals, NoAdditions
    PROVE  M!Spec => []M!RoutineSurvives
<1>1. M!Init => Apart
  BY DEF M!Init, M!Idle, Apart
<1>2. Apart => M!RoutineSurvives
  BY DEF Apart, M!RoutineSurvives
<1> QED BY <1>1, <1>2, UrlsInit, UrlsNext, ApartNext, PTL DEF M!Spec
=============================================================================
