----------------------------- MODULE SeqWindow -----------------------------
(***************************************************************************)
(* The sliding window that recognises duplicate sequence numbers           *)
(* (ReplayWindow256), with its bitmap as a set: i \in bits says that the   *)
(* sequence number max - i has been accepted.                              *)
(***************************************************************************)
EXTENDS Integers

CONSTANT Window \* number of sequence numbers remembered (256 in the code)

ASSUME WindowAssumption == Window \in Nat \ {0}

WindowState == [valid : BOOLEAN, max : Nat, bits : SUBSET (0 .. Window - 1)]

\* ReplayWindow256::default, clear.
Unused == [valid |-> FALSE, max |-> 0, bits |-> {}]

\* Fault: bits that leave the window are kept.
ShiftUnbounded(bits, k) == {i + k : i \in bits}

\* shift_right: bit i moves to bit i + k; what leaves the window is dropped.
Shift(bits, k) == {i \in 0 .. Window - 1 : i - k \in bits}

\* can_accept: the first number, a number above all so far, or one inside the
\* window that is not marked.
CanAccept(w, s) ==
    \/ ~ w.valid
    \/ s > w.max
    \/ w.max - s < Window /\ w.max - s \notin w.bits

\* The window after accept has returned true for s.  Otherwise accept changes
\* nothing.
Marked(w, s) ==
    IF ~ w.valid THEN [valid |-> TRUE, max |-> s, bits |-> {0}]
    ELSE IF s > w.max
      THEN [valid |-> TRUE, max |-> s, bits |-> Shift(w.bits, s - w.max) \cup {0}]
      ELSE [w EXCEPT !.bits = @ \cup {w.max - s}]

\* The window w remembers, of the accepted numbers seen, the largest and which
\* of the Window numbers up to it are among them.
Represents(w, seen) ==
    /\ w \in WindowState
    /\ w.valid <=> seen # {}
    /\ w.valid =>
         /\ w.max \in seen
         /\ \A s \in seen : s <= w.max
         /\ w.bits = {i \in 0 .. Window - 1 : w.max - i \in seen}
=============================================================================
