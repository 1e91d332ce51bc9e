------------------------ MODULE SecureDatagramProofs ------------------------
(***************************************************************************)
(* Proofs about SecureDatagram for any window size and any number of       *)
(* sending and receiving threads: the types, and how far the epochs on the *)
(* wire and the packets in the hands of threads can be out of step.        *)
(*                                                                         *)
(* Senders work on an older epoch for at most Stall after the first packet *)
(* of a newer one (Numbered), and what a receiving thread commits was      *)
(* read within Lifetime and Stall (Handled).                               *)
(***************************************************************************)
EXTENDS SecureDatagram, TLAPS

\* What the proofs assume of the constants and the markers.
Constants ==
    /\ NoSlot \notin Slot
    /\ Idle \notin [epoch : 0 .. MaxEpoch, since : 1 .. MaxTime]
    /\ Idle \notin [seq : Seqs, since : 1 .. MaxTime]
    /\ MaxTime > 0

\* Epochs are numbered in order up to one stalled call.
Numbered ==
    /\ \A t \in Senders : snd[t] # Idle =>
         snd[t].epoch <= sendEpoch /\ snd[t].since <= now /\ now <= snd[t].since + Stall
    /\ \A s \in DOMAIN sent : sent[s].epoch <= sendEpoch /\ sent[s].at <= now
    /\ \A t, u \in Senders : snd[t] # Idle /\ snd[u] # Idle /\ snd[t].epoch < snd[u].epoch
         => snd[t].since <= snd[u].since
    /\ \A t \in Senders, s \in DOMAIN sent : snd[t] # Idle /\ snd[t].epoch < sent[s].epoch
         => snd[t].since <= sent[s].at
    /\ \A s, r \in DOMAIN sent : sent[s].epoch < sent[r].epoch => sent[s].at <= sent[r].at + Stall

\* What a receiving thread works on is in play.
Handled ==
    \A t \in Receivers : rcv[t] # Idle =>
        /\ rcv[t].seq \in DOMAIN sent
        /\ sent[rcv[t].seq].at <= rcv[t].since /\ rcv[t].since <= now
        /\ now <= rcv[t].since + Stall
        /\ rcv[t].since <= sent[rcv[t].seq].at + Lifetime

----------------------------------------------------------------------------
(* The window: it remembers exactly what it should, for every size. *)

\* A window that remembers the numbers accepted so far (accept, can_accept)
\* refuses a number exactly when it was accepted before or lies Window or more
\* behind the largest.
THEOREM RefusesExactly ==
    ASSUME NEW w, NEW seen \in SUBSET Nat, NEW s \in Nat, Represents(w, seen)
    PROVE  CanAccept(w, s) <=>
             s \notin seen /\ (w.valid => w.max - s < Window)
<1>1. CASE ~ w.valid
  BY <1>1 DEF Represents, CanAccept
<1>2. CASE w.valid
  <2>1. w.max \in Nat
    BY DEF Represents, WindowState
  <2>2. CASE s > w.max
    BY <1>2, <2>1, <2>2, WindowAssumption DEF Represents, CanAccept
  <2>3. CASE s <= w.max
    <3>1. w.max - (w.max - s) = s
      BY <2>1
    <3>2. CASE w.max - s < Window
      <4>1. w.max - s \in 0 .. Window - 1
        BY <2>1, <2>3, <3>2, WindowAssumption
      <4>2. w.max - s \in w.bits <=> s \in seen
        BY <1>2, <3>1, <4>1 DEF Represents
      <4> QED
        BY <1>2, <2>1, <2>3, <3>2, <4>2 DEF CanAccept
    <3>3. CASE ~ (w.max - s < Window)
      BY <1>2, <2>1, <2>3, <3>3 DEF CanAccept
    <3> QED
      BY <3>2, <3>3
  <2> QED
    BY <2>1, <2>2, <2>3
<1> QED
  BY <1>1, <1>2 DEF Represents, WindowState

\* accept keeps the window remembering exactly the accepted numbers, however far
\* it moves.
THEOREM RemembersExactly ==
    ASSUME NEW w, NEW seen \in SUBSET Nat, NEW s \in Nat,
           Represents(w, seen), CanAccept(w, s)
    PROVE  Represents(Marked(w, s), seen \cup {s})
<1> DEFINE m == Marked(w, s)
<1>0. w.max \in Nat /\ w.bits \in SUBSET (0 .. Window - 1) /\ w.valid \in BOOLEAN
  BY DEF Represents, WindowState
<1>1. CASE ~ w.valid
  <2>1. m = [valid |-> TRUE, max |-> s, bits |-> {0}]
    BY <1>1 DEF Marked
  <2>2. seen = {}
    BY <1>1 DEF Represents
  <2>3. {0} = {i \in 0 .. Window - 1 : s - i \in {s}}
    BY WindowAssumption
  <2> QED
    BY <2>1, <2>2, <2>3, WindowAssumption DEF Represents, WindowState
<1>2. CASE w.valid /\ s > w.max
  <2>1. m = [valid |-> TRUE, max |-> s, bits |-> Shift(w.bits, s - w.max) \cup {0}]
    BY <1>2 DEF Marked
  <2>2. \A i \in 0 .. Window - 1 :
          i \in m.bits <=> s - i \in seen \cup {s}
    <3> SUFFICES ASSUME NEW i \in 0 .. Window - 1
                 PROVE  i \in m.bits <=> s - i \in seen \cup {s}
      OBVIOUS
    <3>1. CASE i = 0
      BY <2>1, <3>1
    <3>2. CASE i # 0
      <4>1. i \in m.bits <=> i - (s - w.max) \in w.bits
        BY <2>1, <3>2 DEF Shift
      <4>2. s - i # s
        BY <3>2, WindowAssumption
      <4>3. CASE i - (s - w.max) < 0
        <5>1. s - i > w.max
          BY <1>0, <4>3, WindowAssumption
        <5> QED
          BY <1>0, <1>2, <4>1, <4>2, <4>3, <5>1, WindowAssumption DEF Represents
      <4>4. CASE i - (s - w.max) >= 0
        <5>1. i - (s - w.max) \in 0 .. Window - 1
          BY <1>0, <1>2, <4>4, WindowAssumption
        <5>2. w.max - (i - (s - w.max)) = s - i
          BY <1>0, WindowAssumption
        <5> QED
          BY <1>2, <4>1, <4>2, <5>1, <5>2 DEF Represents
      <4> QED
        BY <1>0, <4>3, <4>4, WindowAssumption
    <3> QED
      BY <3>1, <3>2
  <2>3. m.bits \in SUBSET (0 .. Window - 1)
    BY <2>1, WindowAssumption DEF Shift
  <2>4. \A r \in seen \cup {s} : r <= s
    BY <1>0, <1>2 DEF Represents
  <2>5. m \in WindowState /\ m.valid /\ m.max = s
    BY <2>1, <2>3 DEF WindowState
  <2>6. m.bits = {i \in 0 .. Window - 1 : m.max - i \in seen \cup {s}}
    BY <2>2, <2>3, <2>5
  <2> QED
    BY <2>4, <2>5, <2>6 DEF Represents
<1>3. CASE w.valid /\ s <= w.max
  <2>1. w.max - s \in 0 .. Window - 1
    BY <1>0, <1>3, WindowAssumption DEF CanAccept
  <2>2. m = [w EXCEPT !.bits = @ \cup {w.max - s}]
    BY <1>0, <1>3 DEF Marked
  <2>3. m \in WindowState /\ m.valid /\ m.max = w.max /\ m.bits = w.bits \cup {w.max - s}
    BY <1>3, <2>1, <2>2 DEF WindowState, Represents
  <2>4. \A i \in 0 .. Window - 1 : w.max - i = s <=> i = w.max - s
    BY <1>0, WindowAssumption
  <2>5. m.bits = {i \in 0 .. Window - 1 : m.max - i \in seen \cup {s}}
    BY <1>3, <2>1, <2>3, <2>4 DEF Represents
  <2>6. \A r \in seen \cup {s} : r <= m.max
    BY <1>3, <2>3 DEF Represents
  <2>7. m.max \in seen \cup {s}
    BY <1>3, <2>3 DEF Represents
  <2> QED
    BY <2>3, <2>5, <2>6, <2>7 DEF Represents
<1> QED
  BY <1>0, <1>1, <1>2, <1>3

\* A window in which accept has marked a number is a window.
LEMMA MarkedType == ASSUME NEW w \in WindowState, NEW s \in Nat, CanAccept(w, s)
                    PROVE  Marked(w, s) \in WindowState
<1>1. CASE ~ w.valid
  BY <1>1, WindowAssumption DEF Marked, WindowState
<1>2. CASE w.valid /\ s > w.max
  BY <1>2, WindowAssumption DEF Marked, WindowState, Shift
<1>3. CASE w.valid /\ s <= w.max
  <2>1. w.max - s \in 0 .. Window - 1
    BY <1>3, WindowAssumption DEF WindowState, CanAccept
  <2>2. Marked(w, s) = [w EXCEPT !.bits = @ \cup {w.max - s}]
    BY <1>3 DEF Marked, WindowState
  <2>3. QED
    BY <2>1, <2>2 DEF WindowState
<1>4. QED
  BY <1>1, <1>2, <1>3 DEF WindowState

\* A number that accept has marked is refused.
LEMMA MarkedRefuses == ASSUME NEW w \in WindowState, NEW s \in Nat
                       PROVE  ~ CanAccept(Marked(w, s), s)
<1>1. CASE ~ w.valid
  BY <1>1 DEF Marked, WindowState, CanAccept
<1>2. CASE w.valid /\ s > w.max
  <2>1. Marked(w, s) = [valid |-> TRUE, max |-> s, bits |-> Shift(w.bits, s - w.max) \cup {0}]
    BY <1>2 DEF Marked
  <2>2. QED
    BY <2>1 DEF CanAccept
<1>3. CASE w.valid /\ s <= w.max
  <2>1. Marked(w, s) = [w EXCEPT !.bits = @ \cup {w.max - s}]
    BY <1>3 DEF Marked, WindowState
  <2>2. QED
    BY <1>3, <2>1 DEF WindowState, CanAccept
<1>4. QED
  BY <1>1, <1>2, <1>3 DEF WindowState

\* A number that is refused stays refused when accept marks another.
LEMMA MarkedKeeps == ASSUME NEW w \in WindowState, NEW s \in Nat, NEW r \in Nat, ~ CanAccept(w, r)
                     PROVE  ~ CanAccept(Marked(w, s), r)
<1>0. w.valid /\ r <= w.max /\ (w.max - r < Window => w.max - r \in w.bits)
  BY DEF CanAccept, WindowState
<1>1. CASE s > w.max
  <2>1. Marked(w, s) = [valid |-> TRUE, max |-> s, bits |-> Shift(w.bits, s - w.max) \cup {0}]
    BY <1>0, <1>1 DEF Marked
  <2>2. ASSUME s - r < Window PROVE s - r \in Shift(w.bits, s - w.max)
    <3>1. w.max - r < Window /\ s - r \in 0 .. Window - 1 /\ (s - r) - (s - w.max) = w.max - r
      BY <1>0, <1>1, <2>2, WindowAssumption DEF WindowState
    <3>2. QED
      BY <1>0, <3>1 DEF Shift
  <2>3. ~ (r > s)
    BY <1>0, <1>1 DEF WindowState
  <2>4. QED
    BY <2>1, <2>2, <2>3 DEF CanAccept
<1>2. CASE s <= w.max
  <2>1. Marked(w, s) = [w EXCEPT !.bits = @ \cup {w.max - s}]
    BY <1>0, <1>2 DEF Marked, WindowState
  <2>2. QED
    BY <1>0, <2>1 DEF WindowState, CanAccept
<1>3. QED
  BY <1>1, <1>2 DEF WindowState

----------------------------------------------------------------------------
(* Types *)

\* The limits are numbers.
LEMMA Counts == /\ MaxAhead \in Nat /\ EvictAfter \in Nat /\ Lifetime \in Nat /\ Stall \in Nat
                /\ MaxEpoch \in Nat /\ MaxOwnEpoch \in Nat /\ MaxSeq \in Nat /\ MaxTime \in Nat
                /\ FailThreshold \in Nat
  BY DatagramAssumption

\* A slot that is opened or noted is a slot.
LEMMA SlotTypes ==
    ASSUME NEW e \in 0 .. MaxEpoch, NEW s \in Nat, NEW t \in 0 .. MaxTime
    PROVE  /\ Opened(e, s, t) \in Slot
           /\ \A slot \in Slot : Noted(slot, s, t) \in Slot
<1>1. Unused \in WindowState /\ CanAccept(Unused, s)
  BY DEF Unused, WindowState, CanAccept
<1>2. Marked(Unused, s) \in WindowState
  BY <1>1, MarkedType
<1>3. Opened(e, s, t) \in Slot
  BY <1>2 DEF Opened, Slot
<1>4. ASSUME NEW slot \in Slot PROVE Noted(slot, s, t) \in Slot
  <2> DEFINE w == IF CanAccept(slot.window, s) THEN Marked(slot.window, s) ELSE slot.window
  <2>1. w \in WindowState
    BY MarkedType DEF Slot
  <2>2. Noted(slot, s, t) = [slot EXCEPT !.last = t, !.window = w]
    BY DEF Noted, Slot
  <2> HIDE DEF w
  <2>3. [slot EXCEPT !.last = t, !.window = w] \in Slot
    BY <2>1 DEF Slot
  <2>4. QED
    BY <2>2, <2>3
<1>5. QED
  BY <1>3, <1>4

\* Eviction keeps or forgets slots; committing opens, notes or moves them.
LEMMA EvictedType ==
    ASSUME NEW slots \in [{0, 1} -> Slot \cup {NoSlot}], NEW t
    PROVE  Evicted(slots, t) \in [{0, 1} -> Slot \cup {NoSlot}]
  BY DEF Evicted

\* Committing leaves two slots.
LEMMA CommittedType ==
    ASSUME NEW slots \in [{0, 1} -> Slot \cup {NoSlot}],
           NEW e \in 0 .. MaxEpoch, NEW s \in Nat, NEW t \in 0 .. MaxTime
    PROVE  Committed(slots, e, s, t) \in [{0, 1} -> Slot \cup {NoSlot}]
<1>1. Opened(e, s, t) \in Slot
  BY SlotTypes
<1>2. \A i \in {0, 1} : slots[i] # NoSlot => Noted(slots[i], s, t) \in Slot
  BY SlotTypes
<1>3. QED
  BY <1>1, <1>2 DEF Committed, Holds

\* The initial session is well typed.
LEMMA InitType == ASSUME Constants PROVE Init => TypeOK
<1> SUFFICES ASSUME Init PROVE TypeOK
  OBVIOUS
<1>1. now \in 1 .. MaxTime /\ sendEpoch \in 0 .. MaxEpoch /\ sendSeq \in 0 .. MaxSeq + 1
  BY Counts DEF Init, Constants
<1>2. DOMAIN sent = 0 .. sendSeq - 1 /\ DOMAIN sent = {}
  BY DEF Init
<1>3. ownEpoch \in 0 .. MaxOwnEpoch /\ failCount \in Nat /\ delivered \in [Seqs -> Nat]
  BY Counts DEF Init
<1>4. invalidated \in BOOLEAN
  BY DEF Init
<1>5. /\ snd \in [Senders -> [epoch : 0 .. MaxEpoch, since : 1 .. MaxTime] \cup {Idle}]
      /\ rcv \in [Receivers -> [seq : Seqs, since : 1 .. MaxTime] \cup {Idle}]
      /\ rx \in [{0, 1} -> Slot \cup {NoSlot}]
  BY DEF Init
<1>6. QED
  BY <1>1, <1>2, <1>3, <1>4, <1>5 DEF TypeOK

\* The packet a receiving thread works on has been sent.
SentHandled == \A t \in Receivers : rcv[t] # Idle => rcv[t].seq \in DOMAIN sent

\* Every step of a sender, of a receiver and of the clock keeps every variable
\* in its set.
LEMMA StepType == ASSUME Constants, TypeOK, SentHandled, [Next]_vars PROVE TypeOK'
<1> USE Counts DEF TypeOK
<1>1. CASE Rotate
  BY <1>1 DEF Rotate
<1>2. CASE RotateOwn
  BY <1>2 DEF RotateOwn, senderVars
<1>3. ASSUME NEW t \in Senders, LoadEpoch(t) PROVE TypeOK'
  BY <1>3 DEF LoadEpoch
<1>4. ASSUME NEW t \in Senders, TakeSeq(t) PROVE TypeOK'
  <2>1. snd[t] \in [epoch : 0 .. MaxEpoch, since : 1 .. MaxTime]
    BY <1>4 DEF TakeSeq
  <2>2. sendSeq' \in 0 .. MaxSeq + 1 /\ DOMAIN sent' = 0 .. sendSeq' - 1
    BY <1>4 DEF TakeSeq
  <2>3. \A s \in DOMAIN sent' : sent'[s] \in [epoch : 0 .. MaxEpoch, at : 1 .. MaxTime]
    BY <1>4, <2>1 DEF TakeSeq
  <2>4. QED
    BY <1>4, <2>2, <2>3 DEF TakeSeq
<1>5. ASSUME NEW t \in Receivers, NEW s \in Seqs, Precheck(t, s) PROVE TypeOK'
  <2>1. rx' \in [{0, 1} -> Slot \cup {NoSlot}]
    BY <1>5, EvictedType DEF Precheck
  <2>2. rcv' \in [Receivers -> [seq : Seqs, since : 1 .. MaxTime] \cup {Idle}]
    BY <1>5 DEF Precheck
  <2>3. QED
    BY <1>5, <2>1, <2>2 DEF Precheck, senderVars
<1>6. ASSUME NEW t \in Receivers, DecryptFail(t) PROVE TypeOK'
  <2>1. invalidated' \in BOOLEAN /\ failCount' \in Nat
    BY <1>6 DEF DecryptFail
  <2>2. rcv' \in [Receivers -> [seq : Seqs, since : 1 .. MaxTime] \cup {Idle}]
    BY <1>6 DEF DecryptFail
  <2>3. QED
    BY <1>6, <2>1, <2>2 DEF DecryptFail, senderVars
<1>7. ASSUME NEW t \in Receivers, Commit(t) PROVE TypeOK'
  <2>1. rcv[t] \in [seq : Seqs, since : 1 .. MaxTime] /\ rcv[t].seq \in DOMAIN sent
    BY <1>7 DEF Commit, SentHandled
  <2>2. sent[rcv[t].seq].epoch \in 0 .. MaxEpoch /\ rcv[t].seq \in Nat /\ rcv[t].since \in 0 .. MaxTime
    BY <2>1 DEF Seqs
  <2>3. rx' \in [{0, 1} -> Slot \cup {NoSlot}]
    BY <1>7, <2>2, EvictedType, CommittedType DEF Commit
  <2>4. delivered' \in [Seqs -> Nat]
    BY <1>7, <2>1 DEF Commit
  <2>5. rcv' \in [Receivers -> [seq : Seqs, since : 1 .. MaxTime] \cup {Idle}]
    BY <1>7 DEF Commit
  <2>6. QED
    BY <1>7, <2>3, <2>4, <2>5 DEF Commit, senderVars
<1>8. CASE Tick
  BY <1>8 DEF Tick, senderVars
<1>9. CASE UNCHANGED vars
  BY <1>9 DEF vars
<1>10. QED
  BY <1>1, <1>2, <1>3, <1>4, <1>5, <1>6, <1>7, <1>8, <1>9 DEF Next

\* A packet has been sent before a thread works on it, and stays so.
LEMMA StepSentHandled == ASSUME TypeOK, SentHandled, [Next]_vars PROVE SentHandled'
<1>1. DOMAIN sent \subseteq DOMAIN sent'
  BY DEF Next, vars, senderVars, Rotate, RotateOwn, LoadEpoch, TakeSeq, Precheck, DecryptFail, Commit, Tick
<1>2. \A t \in Receivers : rcv'[t] \in {rcv[t], Idle} \/ rcv'[t].seq \in DOMAIN sent
  BY DEF TypeOK, Next, vars, Rotate, RotateOwn, LoadEpoch, TakeSeq, Precheck, DecryptFail, Commit, Tick
<1>3. QED
  BY <1>1, <1>2 DEF SentHandled

\* Every variable of a SecureDatagramSession stays in its set, for any number of
\* threads and any bounds.
THEOREM TypeCorrect == ASSUME Constants PROVE Spec => []TypeOK
<1>1. Init => TypeOK /\ SentHandled
  BY InitType DEF Init, SentHandled
<1>2. TypeOK /\ SentHandled /\ [Next]_vars => TypeOK' /\ SentHandled'
  BY StepType, StepSentHandled
<1>3. QED
  BY <1>1, <1>2, PTL DEF Spec

----------------------------------------------------------------------------
(* Senders and receivers in time *)

\* Times and epochs are numbers.
SenderTimes ==
    /\ now \in Nat /\ sendEpoch \in Nat
    /\ \A t \in Senders : snd[t] # Idle => snd[t].epoch \in Nat /\ snd[t].since \in Nat
    /\ \A s \in DOMAIN sent : sent[s].epoch \in Nat /\ sent[s].at \in Nat
ReceiverTimes == \A t \in Receivers : rcv[t] # Idle => rcv[t].seq \in Seqs /\ rcv[t].since \in 1 .. MaxTime

\* The types say so.
LEMMA Times == ASSUME TypeOK PROVE SenderTimes /\ ReceiverTimes
  BY DEF TypeOK, SenderTimes, ReceiverTimes

\* next_nonce loads the epoch and takes the number in two steps: the order of
\* epochs is kept up to one stalled call.
LEMMA StepNumbered == ASSUME Constants, TypeOK, Numbered, [Next]_vars PROVE Numbered'
<1>0. SenderTimes
  BY Times
<1> USE Counts, <1>0 DEF SenderTimes, Numbered
<1>1. CASE Rotate
  <2>1. UNCHANGED <<now, snd, sent>> /\ sendEpoch' = sendEpoch + 1
    BY <1>1 DEF Rotate
  <2>2. QED
    BY <2>1
<1>2. ASSUME NEW t \in Senders, LoadEpoch(t) PROVE Numbered'
  <2>1. \A u \in Senders : snd'[u] = IF u = t THEN [epoch |-> sendEpoch, since |-> now] ELSE snd[u]
    BY <1>2 DEF LoadEpoch, TypeOK
  <2>2. UNCHANGED <<now, sendEpoch, sent>>
    BY <1>2 DEF LoadEpoch
  <2>3. \A u \in Senders : snd'[u] # Idle =>
          \/ snd'[u].epoch = sendEpoch /\ snd'[u].since = now
          \/ snd'[u] = snd[u] /\ snd[u] # Idle
    <3> SUFFICES ASSUME NEW u \in Senders, snd'[u] # Idle
                 PROVE  \/ snd'[u].epoch = sendEpoch /\ snd'[u].since = now
                        \/ snd'[u] = snd[u] /\ snd[u] # Idle
      OBVIOUS
    <3>1. QED
      BY <2>1
  <2>4. \A u, v \in Senders : snd'[u] # Idle /\ snd'[v] # Idle /\ snd'[u].epoch < snd'[v].epoch
          => snd'[u].since <= snd'[v].since
    BY <2>3
  <2>5. QED
    BY <2>2, <2>3, <2>4
<1>3. ASSUME NEW t \in Senders, TakeSeq(t) PROVE Numbered'
  <2>1. \A u \in Senders : snd'[u] = IF u = t THEN Idle ELSE snd[u]
    BY <1>3 DEF TakeSeq, TypeOK
  <2>2. UNCHANGED <<now, sendEpoch>>
    BY <1>3 DEF TakeSeq
  <2>3. /\ snd[t] # Idle
        /\ DOMAIN sent' = DOMAIN sent \cup {sendSeq}
        /\ sendSeq \notin DOMAIN sent
    BY <1>3 DEF TakeSeq, TypeOK
  <2>4. \A s \in DOMAIN sent' :
          sent'[s] = IF s = sendSeq THEN [epoch |-> snd[t].epoch, at |-> now] ELSE sent[s]
    BY <1>3 DEF TakeSeq
  <2>5. \A u \in Senders : snd'[u] # Idle => snd'[u] = snd[u] /\ snd[u] # Idle
    BY <2>1
  <2>6. \A u \in Senders, s \in DOMAIN sent' :
          snd'[u] # Idle /\ snd'[u].epoch < sent'[s].epoch => snd'[u].since <= sent'[s].at
    BY <2>3, <2>4, <2>5
  <2>7. \A s, r \in DOMAIN sent' :
          sent'[s].epoch < sent'[r].epoch => sent'[s].at <= sent'[r].at + Stall
    BY <2>3, <2>4
  <2>8. \A s \in DOMAIN sent' : sent'[s].epoch <= sendEpoch /\ sent'[s].at <= now
    BY <2>3, <2>4
  <2>9. QED
    BY <2>2, <2>5, <2>6, <2>7, <2>8
<1>4. CASE Tick
  <2>1. /\ now' = now + 1 /\ UNCHANGED <<sendEpoch, snd, sent>>
        /\ \A t \in Senders : snd[t] # Idle => now - snd[t].since < Stall
    BY <1>4 DEF Tick, senderVars
  <2>2. QED
    BY <2>1
<1>5. CASE UNCHANGED <<now, senderVars>>
  BY <1>5 DEF senderVars
<1>6. QED
  BY <1>1, <1>2, <1>3, <1>4, <1>5
     DEF Next, vars, senderVars, RotateOwn, Precheck, DecryptFail, Commit

\* No thread works on a packet for longer than it may be in play.
LEMMA StepHandled == ASSUME Constants, TypeOK, Numbered, Handled, [Next]_vars PROVE Handled'
<1>0. SenderTimes /\ ReceiverTimes
  BY Times
<1> USE Counts, <1>0 DEF SenderTimes, ReceiverTimes, Handled
<1>1. ASSUME NEW t \in Senders, TakeSeq(t) PROVE Handled'
  <2>1. \A s \in DOMAIN sent : s \in DOMAIN sent' /\ sent'[s] = sent[s]
    BY <1>1 DEF TakeSeq, TypeOK
  <2>2. QED
    BY <1>1, <2>1 DEF TakeSeq
<1>2. ASSUME NEW t \in Receivers, NEW s \in Seqs, Precheck(t, s) PROVE Handled'
  <2>1. /\ s \in DOMAIN sent /\ now - sent[s].at <= Lifetime /\ sent[s].at <= now
        /\ UNCHANGED <<now, sent>>
    BY <1>2 DEF Precheck, Numbered, senderVars
  <2>2. \A u \in Receivers : rcv'[u] = rcv[u] \/ rcv'[u] = [seq |-> s, since |-> now]
    BY <1>2 DEF Precheck, TypeOK
  <2>3. QED
    BY <2>1, <2>2
<1>3. ASSUME NEW t \in Receivers, DecryptFail(t) \/ Commit(t) PROVE Handled'
  <2>1. UNCHANGED <<now, sent>> /\ \A u \in Receivers : rcv'[u] \in {rcv[u], Idle}
    BY <1>3 DEF DecryptFail, Commit, senderVars, TypeOK
  <2>2. QED
    BY <2>1
<1>4. CASE Tick
  <2>1. /\ now' = now + 1 /\ UNCHANGED <<rcv, sent>>
        /\ \A t \in Receivers : rcv[t] # Idle => now - rcv[t].since < Stall
    BY <1>4 DEF Tick, senderVars
  <2>2. QED
    BY <2>1
<1>5. CASE UNCHANGED <<now, sent, rcv>>
  BY <1>5
<1>6. QED
  BY <1>1, <1>2, <1>3, <1>4, <1>5
     DEF Next, vars, senderVars, Rotate, RotateOwn, LoadEpoch
=============================================================================
