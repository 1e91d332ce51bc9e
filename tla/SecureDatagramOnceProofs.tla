----------------------- MODULE SecureDatagramOnceProofs -----------------------
(***************************************************************************)
(* For any window size, any number of sending and receiving threads, any   *)
(* epochs and any losses, copies and reorderings, a packet is delivered at *)
(* most once, provided that a slot is kept for as long as a copy may be    *)
(* under way: Lifetime + 2 * Stall <= EvictAfter.                          *)
(*                                                                         *)
(* The argument.  A slot that is forgotten was idle for longer than any    *)
(* packet of a lower epoch can be under way, so no packet in play falls    *)
(* below what the remaining slot holds (Bereft), and the slots stay        *)
(* ordered.  A packet that was delivered and may still be copied is        *)
(* refused by the slot of its epoch, or its epoch is older than slot 0 and *)
(* can have no new slot (Remembered); slot 0 is recent enough to survive   *)
(* every eviction in that time.                                            *)
(***************************************************************************)
EXTENDS SecureDatagramProofs

\* What the proofs assume of the timing.
Timing == Lifetime + 2 * Stall <= EvictAfter

\* Copies of s may still be under way or in the hands of a thread.
InPlay(s) == now <= sent[s].at + Lifetime + Stall

\* Slot 0 was last used for a packet of its epoch.
Witnessed(slots) ==
    slots[0] # NoSlot =>
        \E s \in DOMAIN sent : sent[s].epoch = slots[0].epoch /\ sent[s].at <= slots[0].last

Ordered(slots) == slots[0] # NoSlot /\ slots[1] # NoSlot => slots[0].epoch > slots[1].epoch

\* When only slot 1 is left, its epoch and the older ones are out of play.
Bereft(slots) ==
    slots[0] = NoSlot /\ slots[1] # NoSlot =>
        /\ sendEpoch > slots[1].epoch
        /\ \A t \in Senders : snd[t] # Idle => snd[t].epoch > slots[1].epoch
        /\ \A s \in DOMAIN sent : InPlay(s) => sent[s].epoch > slots[1].epoch

\* The slots refuse s, and slot 0 is recent.
Remembered(slots, s) ==
    /\ slots[0] # NoSlot
    /\ slots[0].epoch >= sent[s].epoch
    /\ slots[0].last + Stall >= sent[s].at
    /\ \A i \in {0, 1} : Holds(slots[i], sent[s].epoch) => ~ CanAccept(slots[i].window, s)

Slots(slots) ==
    /\ slots \in [{0, 1} -> Slot \cup {NoSlot}]
    /\ Witnessed(slots) /\ Ordered(slots) /\ Bereft(slots)

Once(slots) ==
    \A s \in Seqs : /\ delivered[s] <= 1
                    /\ delivered[s] = 1 => s \in DOMAIN sent /\ (InPlay(s) => Remembered(slots, s))

IInv == TypeOK /\ Numbered /\ Handled /\ Slots(rx) /\ Once(rx)

----------------------------------------------------------------------------
(* The slots *)

\* Slots hold numbers and windows.
LEMMA SlotFields == ASSUME NEW slot \in Slot
                    PROVE  slot.epoch \in Nat /\ slot.last \in Nat /\ slot.window \in WindowState
  BY Counts DEF Slot

\* evict_old_rx_slots at a time t that has been read forgets nothing that matters.
LEMMA EvictedSlots ==
    ASSUME Constants, Timing, TypeOK, Numbered, NEW slots, Slots(slots), NEW t \in Nat, t <= now
    PROVE  Slots(Evicted(slots, t))
<1> DEFINE kept == Evicted(slots, t)
<1>0. SenderTimes
  BY Times
<1>1. kept \in [{0, 1} -> Slot \cup {NoSlot}]
  BY EvictedType DEF Slots
<1>2. \A i \in {0, 1} : kept[i] = IF slots[i] # NoSlot /\ t - slots[i].last > EvictAfter
                                  THEN NoSlot ELSE slots[i]
  BY DEF Evicted
<1>3. \A i \in {0, 1} : slots[i] # NoSlot => slots[i].epoch \in Nat /\ slots[i].last \in Nat
  BY SlotFields DEF Slots
<1> HIDE DEF kept
<1>4. Witnessed(kept) /\ Ordered(kept)
  BY <1>2 DEF Slots, Witnessed, Ordered
<1>5. Bereft(kept)
  <2> SUFFICES ASSUME kept[0] = NoSlot, kept[1] # NoSlot
               PROVE  /\ sendEpoch > kept[1].epoch
                      /\ \A u \in Senders : snd[u] # Idle => snd[u].epoch > kept[1].epoch
                      /\ \A s \in DOMAIN sent : InPlay(s) => sent[s].epoch > kept[1].epoch
    BY DEF Bereft
  <2>1. kept[1] = slots[1] /\ slots[1] # NoSlot
    BY <1>2
  <2>2. CASE slots[0] = NoSlot
    BY <2>1, <2>2 DEF Slots, Bereft
  <2>3. CASE slots[0] # NoSlot
    <3>1. t - slots[0].last > EvictAfter
      BY <1>2, <2>3
    <3>2. PICK r \in DOMAIN sent : sent[r].epoch = slots[0].epoch /\ sent[r].at <= slots[0].last
      BY <2>3 DEF Slots, Witnessed
    <3>3. slots[0].epoch > slots[1].epoch
      BY <2>1, <2>3 DEF Slots, Ordered
    <3>4. sent[r].at + EvictAfter < now
      BY <1>0, <1>3, <2>3, <3>1, <3>2, Counts DEF SenderTimes
    <3>5. sendEpoch > slots[1].epoch
      BY <1>0, <1>3, <2>1, <2>3, <3>2, <3>3 DEF SenderTimes, Numbered
    <3>6. ASSUME NEW u \in Senders, snd[u] # Idle PROVE snd[u].epoch > slots[1].epoch
      <4>1. snd[u].epoch < sent[r].epoch => snd[u].since <= sent[r].at
        BY <3>6 DEF Numbered
      <4>2. now <= snd[u].since + Stall
        BY <3>6 DEF Numbered
      <4>3. ~ (snd[u].epoch < sent[r].epoch)
        BY <1>0, <3>4, <3>6, <4>1, <4>2, Counts DEF SenderTimes, Timing
      <4>4. QED
        BY <1>0, <1>3, <2>1, <2>3, <3>2, <3>3, <3>6, <4>3 DEF SenderTimes
    <3>7. ASSUME NEW s \in DOMAIN sent, InPlay(s) PROVE sent[s].epoch > slots[1].epoch
      <4>1. sent[s].epoch < sent[r].epoch => sent[s].at <= sent[r].at + Stall
        BY DEF Numbered
      <4>2. ~ (sent[s].epoch < sent[r].epoch)
        BY <1>0, <3>4, <3>7, <4>1, Counts DEF SenderTimes, Timing, InPlay
      <4>3. QED
        BY <1>0, <1>3, <2>1, <2>3, <3>2, <3>3, <4>2 DEF SenderTimes
    <3>8. QED
      BY <2>1, <3>5, <3>6, <3>7
  <2>4. QED
    BY <2>2, <2>3
<1>6. QED
  BY <1>1, <1>4, <1>5 DEF Slots, kept

\* Nor does it forget a packet that may still be copied.
LEMMA EvictedRemembers ==
    ASSUME Timing, TypeOK, NEW slots, Slots(slots), NEW t \in Nat, t <= now,
           NEW s \in DOMAIN sent, InPlay(s), Remembered(slots, s)
    PROVE  Remembered(Evicted(slots, t), s)
<1> DEFINE kept == Evicted(slots, t)
<1>0. SenderTimes
  BY Times
<1>1. \A i \in {0, 1} : kept[i] = IF slots[i] # NoSlot /\ t - slots[i].last > EvictAfter
                                  THEN NoSlot ELSE slots[i]
  BY DEF Evicted
<1>2. slots[0] # NoSlot /\ slots[0].last \in Nat /\ slots[0].last + Stall >= sent[s].at
  BY SlotFields DEF Slots, Remembered
<1>3. ~ (t - slots[0].last > EvictAfter)
  BY <1>0, <1>2, Counts DEF SenderTimes, Timing, InPlay
<1>4. kept[0] = slots[0] /\ kept[1] \in {NoSlot, slots[1]}
  BY <1>1, <1>3
<1> HIDE DEF kept
<1>5. QED
  BY <1>4 DEF Remembered, Holds, kept

\* The slots after commit_replay, by what it found.
CommitCases(slots, after, e, s, t) ==
    \/ slots[0] = NoSlot /\ after[0] = Opened(e, s, t) /\ after[1] = slots[1]
    \/ Holds(slots[0], e) /\ after[0] = Noted(slots[0], s, t) /\ after[1] = slots[1]
    \/ /\ slots[0] # NoSlot /\ slots[0].epoch # e /\ Holds(slots[1], e)
       /\ after[0] = slots[0] /\ after[1] = Noted(slots[1], s, t)
    \/ /\ slots[0] # NoSlot /\ e > slots[0].epoch
       /\ after[0] = Opened(e, s, t) /\ after[1] = slots[0]
    \/ /\ slots[0] # NoSlot /\ ~ Acceptable(slots, e, s)
       /\ after[0] = slots[0] /\ after[1] = slots[1]

\* commit_replay opens, notes, moves or leaves the slots.
LEMMA CommittedCases ==
    ASSUME NEW slots \in [{0, 1} -> Slot \cup {NoSlot}], NEW e, NEW s, NEW t
    PROVE  CommitCases(slots, Committed(slots, e, s, t), e, s, t)
<1>1. CASE slots[0] = NoSlot
  BY <1>1 DEF Committed, Holds, CommitCases
<1>2. CASE Holds(slots[0], e)
  BY <1>2 DEF Committed, Holds, CommitCases
<1>3. CASE slots[0] # NoSlot /\ slots[0].epoch # e /\ Holds(slots[1], e)
  BY <1>3 DEF Committed, Holds, CommitCases
<1>4. CASE slots[0] # NoSlot /\ ~ Holds(slots[0], e) /\ ~ Holds(slots[1], e)
  <2>1. CASE NewEpochOk(slots, e)
    <3>1. e > slots[0].epoch
      BY <2>1 DEF NewEpochOk
    <3>2. Committed(slots, e, s, t) = [i \in {0, 1} |-> IF i = 0 THEN Opened(e, s, t) ELSE slots[0]]
      BY <1>4, <2>1 DEF Committed, Holds
    <3>3. QED
      BY <1>4, <3>1, <3>2 DEF CommitCases
  <2>2. CASE ~ NewEpochOk(slots, e)
    <3>1. ~ Acceptable(slots, e, s)
      BY <1>4, <2>2 DEF Acceptable
    <3>2. Committed(slots, e, s, t) = slots
      BY <1>4, <2>2 DEF Committed, Holds
    <3>3. QED
      BY <1>4, <3>1, <3>2 DEF CommitCases
  <2>3. QED
    BY <2>1, <2>2
<1>5. QED
  BY <1>1, <1>2, <1>3, <1>4 DEF Holds

\* What a slot holds after it was opened or noted.
LEMMA SlotAfter ==
    ASSUME NEW e, NEW s \in Nat, NEW t
    PROVE  /\ Opened(e, s, t).epoch = e /\ Opened(e, s, t).last = t
           /\ ~ CanAccept(Opened(e, s, t).window, s)
           /\ \A slot \in Slot :
                /\ Noted(slot, s, t).epoch = slot.epoch /\ Noted(slot, s, t).last = t
                /\ ~ CanAccept(Noted(slot, s, t).window, s)
                /\ \A r \in Nat : ~ CanAccept(slot.window, r) => ~ CanAccept(Noted(slot, s, t).window, r)
<1>1. Unused \in WindowState
  BY DEF Unused, WindowState
<1>2. ~ CanAccept(Marked(Unused, s), s)
  BY <1>1, MarkedRefuses
<1>3. Opened(e, s, t).epoch = e /\ Opened(e, s, t).last = t /\ ~ CanAccept(Opened(e, s, t).window, s)
  BY <1>2 DEF Opened
<1>4. ASSUME NEW slot \in Slot
      PROVE  /\ Noted(slot, s, t).epoch = slot.epoch /\ Noted(slot, s, t).last = t
             /\ ~ CanAccept(Noted(slot, s, t).window, s)
             /\ \A r \in Nat : ~ CanAccept(slot.window, r) => ~ CanAccept(Noted(slot, s, t).window, r)
  <2> DEFINE w == IF CanAccept(slot.window, s) THEN Marked(slot.window, s) ELSE slot.window
  <2>1. Noted(slot, s, t) = [slot EXCEPT !.last = t, !.window = w]
    BY DEF Noted, Slot
  <2>2. slot.window \in WindowState
    BY SlotFields
  <2>3. ~ CanAccept(w, s) /\ \A r \in Nat : ~ CanAccept(slot.window, r) => ~ CanAccept(w, r)
    BY <2>2, MarkedRefuses, MarkedKeeps
  <2> HIDE DEF w
  <2>4. /\ Noted(slot, s, t).epoch = slot.epoch /\ Noted(slot, s, t).last = t
        /\ Noted(slot, s, t).window = w
    BY <2>1 DEF Slot
  <2>5. QED
    BY <2>3, <2>4
<1>5. QED
  BY <1>3, <1>4

\* What commit_replay is called with: a packet in play, and the time that was read
\* before its precheck.
Committing(s, t) ==
    /\ s \in DOMAIN sent /\ s \in Nat /\ InPlay(s)
    /\ t \in 1 .. MaxTime /\ sent[s].at <= t /\ t <= now /\ now <= t + Stall

\* commit_replay keeps the slots in order.
LEMMA CommittedSlots ==
    ASSUME Constants, TypeOK, Numbered, NEW slots, Slots(slots), NEW s, NEW t, Committing(s, t)
    PROVE  Slots(Committed(slots, sent[s].epoch, s, t))
<1> DEFINE e == sent[s].epoch
           after == Committed(slots, e, s, t)
<1>0. SenderTimes
  BY Times
<1>1. slots \in [{0, 1} -> Slot \cup {NoSlot}]
  BY DEF Slots
<1>2. e \in 0 .. MaxEpoch /\ s \in Nat /\ t \in 0 .. MaxTime
  BY Counts DEF Committing, TypeOK
<1>3. after \in [{0, 1} -> Slot \cup {NoSlot}]
  BY <1>1, <1>2, CommittedType
<1>4. \A i \in {0, 1} : slots[i] # NoSlot => slots[i] \in Slot /\ slots[i].epoch \in Nat
  BY <1>1, SlotFields
<1>5. Opened(e, s, t).epoch = e /\ Opened(e, s, t).last = t
  BY <1>2, SlotAfter
<1>6. \A slot \in Slot : Noted(slot, s, t).epoch = slot.epoch /\ Noted(slot, s, t).last = t
  BY <1>2, SlotAfter
<1>7. slots[0] = NoSlot /\ slots[1] # NoSlot => e > slots[1].epoch
  BY DEF Slots, Bereft, Committing
<1>8. Opened(e, s, t) # NoSlot /\ \A slot \in Slot : Noted(slot, s, t) # NoSlot
  BY <1>2, SlotTypes DEF Constants
<1>9. sent[s].at <= t /\ s \in DOMAIN sent
  BY DEF Committing
<1>10. CommitCases(slots, after, e, s, t)
  BY <1>1, CommittedCases
<1> HIDE DEF e, after
<1>12. after[0] # NoSlot
  BY <1>4, <1>8, <1>10 DEF Holds, CommitCases
<1>13. Ordered(after)
  BY <1>1, <1>4, <1>5, <1>6, <1>7, <1>10 DEF Slots, Ordered, Holds, CommitCases
<1>14. Witnessed(after)
  <2>1. CASE after[0] = slots[0]
    BY <2>1 DEF Slots, Witnessed
  <2>2. CASE after[0].epoch = e /\ after[0].last = t
    BY <2>2, <1>9 DEF Witnessed, e
  <2>3. QED
    BY <1>4, <1>5, <1>6, <1>10, <2>1, <2>2 DEF Holds, CommitCases
<1>15. QED
  BY <1>3, <1>12, <1>13, <1>14 DEF Slots, Bereft, after, e

\* commit_replay remembers what it accepts and what was remembered before.
LEMMA CommittedRemembers ==
    ASSUME Constants, TypeOK, Numbered, NEW slots, Slots(slots), NEW s, NEW t, Committing(s, t),
           NEW r \in DOMAIN sent, r \in Nat,
           Remembered(slots, r) \/ (r = s /\ Acceptable(slots, sent[s].epoch, s))
    PROVE  Remembered(Committed(slots, sent[s].epoch, s, t), r)
<1> DEFINE e == sent[s].epoch
           after == Committed(slots, e, s, t)
           er == sent[r].epoch
<1>0. SenderTimes
  BY Times
<1>1. slots \in [{0, 1} -> Slot \cup {NoSlot}]
  BY DEF Slots
<1>2. e \in 0 .. MaxEpoch /\ s \in Nat /\ t \in Nat /\ t \in 0 .. MaxTime
  BY Counts DEF Committing, TypeOK
<1>3. /\ Opened(e, s, t).epoch = e /\ Opened(e, s, t).last = t
      /\ ~ CanAccept(Opened(e, s, t).window, s)
  BY <1>2, SlotAfter
<1>4. \A slot \in Slot :
        /\ Noted(slot, s, t).epoch = slot.epoch /\ Noted(slot, s, t).last = t
        /\ ~ CanAccept(Noted(slot, s, t).window, s)
        /\ ~ CanAccept(slot.window, r) => ~ CanAccept(Noted(slot, s, t).window, r)
  <2>1. s \in Nat /\ r \in Nat
    BY <1>2
  <2>2. ASSUME NEW slot \in Slot
        PROVE  /\ Noted(slot, s, t).epoch = slot.epoch /\ Noted(slot, s, t).last = t
               /\ ~ CanAccept(Noted(slot, s, t).window, s)
               /\ \A q \in Nat : ~ CanAccept(slot.window, q) => ~ CanAccept(Noted(slot, s, t).window, q)
    BY <2>1, SlotAfter
  <2>3. ASSUME NEW slot \in Slot
        PROVE  ~ CanAccept(slot.window, r) => ~ CanAccept(Noted(slot, s, t).window, r)
    BY <2>1, <2>2
  <2>4. QED
    BY <2>2, <2>3
<1>5. \A i \in {0, 1} : slots[i] # NoSlot => /\ slots[i] \in Slot
                                             /\ slots[i].epoch \in Nat /\ slots[i].last \in Nat
  BY <1>1, SlotFields
<1>6. Opened(e, s, t) # NoSlot /\ \A slot \in Slot : Noted(slot, s, t) # NoSlot
  BY <1>2, SlotTypes DEF Constants
<1>16. slots[0] # NoSlot =>
         /\ slots[0].epoch \in Nat /\ slots[0].last \in Nat
         /\ Noted(slots[0], s, t).epoch = slots[0].epoch /\ Noted(slots[0], s, t).last = t
         /\ ~ CanAccept(Noted(slots[0], s, t).window, s) /\ Noted(slots[0], s, t) # NoSlot
         /\ ~ CanAccept(slots[0].window, r) => ~ CanAccept(Noted(slots[0], s, t).window, r)
  BY <1>4, <1>5, <1>6
<1>17. slots[1] # NoSlot =>
         /\ slots[1].epoch \in Nat /\ slots[1].last \in Nat
         /\ Noted(slots[1], s, t).epoch = slots[1].epoch
         /\ ~ CanAccept(Noted(slots[1], s, t).window, s)
         /\ ~ CanAccept(slots[1].window, r) => ~ CanAccept(Noted(slots[1], s, t).window, r)
  BY <1>4, <1>5
<1>7. t + Stall >= sent[r].at
  <2>1. now <= t + Stall /\ sent[r].at <= now
    BY DEF Committing, Numbered
  <2>2. now \in Nat /\ sent[r].at \in Nat
    BY <1>0 DEF SenderTimes
  <2>3. QED
    BY <1>2, <2>1, <2>2, Counts
<1>8. slots[0] # NoSlot /\ slots[1] # NoSlot => slots[0].epoch > slots[1].epoch
  BY DEF Slots, Ordered
<1>9. slots[0] = NoSlot /\ slots[1] # NoSlot => e > slots[1].epoch
  BY DEF Slots, Bereft, Committing
<1>10. slots[0] # NoSlot /\ e < slots[0].epoch => slots[0].last + Stall >= sent[s].at
  <2> SUFFICES ASSUME slots[0] # NoSlot, e < slots[0].epoch PROVE slots[0].last + Stall >= sent[s].at
    OBVIOUS
  <2>1. PICK q \in DOMAIN sent : sent[q].epoch = slots[0].epoch /\ sent[q].at <= slots[0].last
    BY DEF Slots, Witnessed
  <2>2. sent[s].at <= sent[q].at + Stall
    BY <2>1 DEF Numbered, Committing
  <2>3. sent[s].at \in Nat /\ sent[q].at \in Nat /\ slots[0].last \in Nat
    BY <1>0, <1>5, <2>1 DEF SenderTimes, Committing
  <2> HIDE DEF e
  <2>4. QED
    BY <2>1, <2>2, <2>3, Counts
<1>11. CommitCases(slots, after, e, s, t)
  BY <1>1, CommittedCases
<1>12. er \in Nat /\ e \in Nat /\ sent[r].at \in Nat
  <2>1. er \in Nat /\ sent[r].at \in Nat
    BY <1>0 DEF SenderTimes
  <2>2. QED
    BY <1>2, <2>1, Counts
<1> DEFINE Refusing == /\ after[0] # NoSlot /\ after[0].epoch >= er
                       /\ after[0].last + Stall >= sent[r].at
                       /\ Holds(after[0], er) => ~ CanAccept(after[0].window, r)
                       /\ Holds(after[1], er) => ~ CanAccept(after[1].window, r)
<1> SUFFICES Refusing
  BY DEF Remembered
<1> DEFINE Before == /\ slots[0] # NoSlot /\ slots[0].epoch >= er
                     /\ slots[0].last + Stall >= sent[r].at
                     /\ Holds(slots[0], er) => ~ CanAccept(slots[0].window, r)
                     /\ Holds(slots[1], er) => ~ CanAccept(slots[1].window, r)
           Now == r = s /\ er = e /\ Acceptable(slots, e, s)
<1>18. Before \/ Now
  BY DEF Remembered
<1>19. Now => sent[r].at = sent[s].at
  OBVIOUS
<1>26. /\ slots[0] # NoSlot => slots[0].epoch \in Nat
       /\ slots[1] # NoSlot => slots[1].epoch \in Nat
  BY <1>16, <1>17
<1>27. ASSUME NEW a \in Nat, NEW b \in Nat, a > b PROVE a >= b /\ a # b
  BY <1>27
<1> HIDE DEF after, e, er
<1>20. CASE slots[0] = NoSlot /\ after[0] = Opened(e, s, t) /\ after[1] = slots[1]
  <2>1. r = s /\ er = e
    BY <1>18, <1>20
  <2>2. after[0] # NoSlot /\ after[0].epoch = e /\ after[0].last = t /\ ~ CanAccept(after[0].window, r)
    BY <1>3, <1>6, <1>20, <2>1
  <2>3. ~ Holds(after[1], er)
    <3>1. slots[1] # NoSlot => slots[1].epoch # e
      BY <1>9, <1>12, <1>20, <1>26, <1>27
    <3>2. QED
      BY <1>20, <2>1, <3>1, Zenon DEF Holds
  <2>4. after[0].epoch >= er /\ after[0].last + Stall >= sent[r].at
    BY <1>7, <1>12, <2>1, <2>2
  <2>5. QED
    BY <2>2, <2>3, <2>4
<1>21. CASE Holds(slots[0], e) /\ after[0] = Noted(slots[0], s, t) /\ after[1] = slots[1]
  <2>1. slots[0] # NoSlot /\ slots[0].epoch = e
    BY <1>21 DEF Holds
  <2>2. after[0] # NoSlot /\ after[0].epoch = e /\ after[0].last = t
    BY <1>16, <1>21, <2>1
  <2>3. after[0].last + Stall >= sent[r].at
    BY <1>7, <2>2
  <2>4. CASE Now
    <3>1. ~ Holds(after[1], er)
      <4>1. slots[1] # NoSlot => slots[1].epoch # e
        BY <1>8, <1>12, <1>26, <1>27, <2>1
      <4>2. QED
        BY <1>21, <2>4, <4>1, Zenon DEF Holds
    <3>2. ~ CanAccept(after[0].window, r)
      BY <1>16, <1>21, <2>1, <2>4
    <3>3. after[0].epoch >= er
      BY <1>12, <2>2, <2>4
    <3>4. QED
      BY <2>2, <2>3, <3>1, <3>2, <3>3
  <2>5. CASE Before
    <3>1. Holds(after[0], er) => ~ CanAccept(after[0].window, r)
      BY <1>16, <1>21, <2>1, <2>2, <2>5 DEF Holds
    <3>2. after[0].epoch >= er
      BY <2>1, <2>2, <2>5
    <3>3. QED
      BY <1>21, <2>2, <2>3, <2>5, <3>1, <3>2
  <2>6. QED
    BY <1>18, <2>4, <2>5
<1>22. CASE /\ slots[0] # NoSlot /\ slots[0].epoch # e /\ Holds(slots[1], e)
            /\ after[0] = slots[0] /\ after[1] = Noted(slots[1], s, t)
  <2>1. slots[1] # NoSlot /\ slots[1].epoch = e
    BY <1>22 DEF Holds
  <2>2. e < slots[0].epoch
    BY <1>8, <1>12, <1>22, <1>26, <2>1
  <2>3. CASE Now
    <3>1. after[0].epoch >= er /\ ~ Holds(after[0], er)
      <4>1. slots[0].epoch >= e /\ slots[0].epoch # e
        BY <1>12, <1>22, <1>26, <2>2
      <4>2. QED
        BY <1>22, <2>3, <4>1, Zenon DEF Holds
    <3>2. ~ CanAccept(after[1].window, r)
      BY <1>17, <1>22, <2>1, <2>3
    <3>3. after[0].last + Stall >= sent[r].at
      BY <1>10, <1>19, <1>22, <2>2, <2>3
    <3>4. QED
      BY <1>22, <3>1, <3>2, <3>3
  <2>4. CASE Before
    <3>1. Holds(after[1], er) => ~ CanAccept(after[1].window, r)
      BY <1>17, <1>22, <2>1, <2>4 DEF Holds
    <3>2. QED
      BY <1>22, <2>4, <3>1
  <2>5. QED
    BY <1>18, <2>3, <2>4
<1>23. CASE /\ slots[0] # NoSlot /\ e > slots[0].epoch
            /\ after[0] = Opened(e, s, t) /\ after[1] = slots[0]
  <2>1. after[0] # NoSlot /\ after[0].epoch = e /\ after[0].last = t /\ ~ CanAccept(after[0].window, s)
    BY <1>3, <1>6, <1>23
  <2>2. after[0].last + Stall >= sent[r].at
    BY <1>7, <2>1
  <2>3. CASE Now
    <3>1. after[0].epoch >= er /\ ~ Holds(after[1], er)
      <4>1. e >= e /\ slots[0].epoch # e
        BY <1>12, <1>23, <1>26
      <4>2. QED
        BY <1>23, <2>1, <2>3, <4>1, Zenon DEF Holds
    <3>2. QED
      BY <2>1, <2>2, <2>3, <3>1
  <2>4. CASE Before
    <3>1. after[0].epoch >= er /\ ~ Holds(after[0], er)
      <4>1. slots[0].epoch \in Nat /\ slots[0].epoch >= er /\ e > slots[0].epoch
        BY <1>23, <1>26, <2>4
      <4>2. e >= er /\ e # er
        BY <1>12, <4>1
      <4>3. QED
        BY <2>1, <4>2, Zenon DEF Holds
    <3>2. QED
      BY <1>23, <2>1, <2>2, <2>4, <3>1
  <2>5. QED
    BY <1>18, <2>3, <2>4
<1>24. CASE /\ slots[0] # NoSlot /\ ~ Acceptable(slots, e, s)
            /\ after[0] = slots[0] /\ after[1] = slots[1]
  BY <1>18, <1>24
<1>25. QED
  BY <1>11, <1>20, <1>21, <1>22, <1>23, <1>24 DEF CommitCases

----------------------------------------------------------------------------
(* The steps *)

\* A packet that is remembered is not accepted again.
LEMMA RememberedRefused ==
    ASSUME TypeOK, NEW slots, Slots(slots), NEW s \in DOMAIN sent, Remembered(slots, s)
    PROVE  ~ Acceptable(slots, sent[s].epoch, s)
<1>1. slots[0].epoch \in Nat /\ sent[s].epoch \in Nat
  BY SlotFields, Times DEF Slots, Remembered, SenderTimes
<1>2. ~ NewEpochOk(slots, sent[s].epoch)
  BY <1>1 DEF Remembered, NewEpochOk
<1>3. QED
  BY <1>2 DEF Remembered, Acceptable

\* A step that changes neither what was delivered nor the slots, that keeps what
\* was sent, and that lets time pass, keeps a packet remembered.
LEMMA OnceKept ==
    ASSUME TypeOK, Once(rx), UNCHANGED <<rx, delivered>>, now' \in Nat, now' >= now,
           \A s \in DOMAIN sent : s \in DOMAIN sent' /\ sent'[s] = sent[s]
    PROVE  Once(rx)'
<1>1. \A s \in DOMAIN sent : InPlay(s)' => InPlay(s)
  BY Times, Counts DEF InPlay, SenderTimes
<1>2. \A s \in DOMAIN sent : Remembered(rx, s) => Remembered(rx, s)'
  BY DEF Remembered, Holds
<1>3. QED
  BY <1>1, <1>2 DEF Once

\* Nor does a step that leaves all of that alone.
LEMMA OnceSame ==
    ASSUME Once(rx), UNCHANGED <<now, sent, rx, delivered>>
    PROVE  Once(rx)'
  BY DEF Once, Remembered, Holds, InPlay

\* Every step preserves the order of the slots and the memory of deliveries.
LEMMA StepSlots == ASSUME Constants, Timing, IInv, [Next]_vars PROVE Slots(rx)' /\ Once(rx)'
<1>0. TypeOK /\ Numbered /\ Handled /\ Slots(rx) /\ Once(rx) /\ SenderTimes /\ ReceiverTimes
  BY Times DEF IInv
<1>T. TypeOK'
  BY <1>0, StepType DEF SentHandled, Handled
<1>1. CASE Rotate
  <2>1. UNCHANGED <<now, snd, sent, rx, delivered>> /\ sendEpoch' = sendEpoch + 1
    BY <1>1 DEF Rotate
  <2>2. Slots(rx)'
    <3>1. Bereft(rx)'
      BY <1>0, <2>1, SlotFields DEF Slots, Bereft, InPlay, SenderTimes
    <3>2. Witnessed(rx)' /\ Ordered(rx)'
      BY <1>0, <2>1 DEF Slots, Witnessed, Ordered
    <3>3. QED
      BY <1>0, <2>1, <3>1, <3>2 DEF Slots
  <2>3. QED
    BY <1>0, <2>1, <2>2, OnceSame
<1>2. ASSUME NEW t \in Senders, LoadEpoch(t) PROVE Slots(rx)' /\ Once(rx)'
  <2>1. UNCHANGED <<now, sendEpoch, sent, rx, delivered>>
    BY <1>2 DEF LoadEpoch
  <2>2. \A u \in Senders : snd'[u] = snd[u] \/ snd'[u].epoch = sendEpoch
    BY <1>0, <1>2 DEF LoadEpoch, TypeOK
  <2>3. Slots(rx)'
    BY <1>0, <2>1, <2>2 DEF Slots, Witnessed, Ordered, Bereft, InPlay
  <2>4. QED
    BY <1>0, <2>1, <2>3, OnceSame
<1>3. ASSUME NEW t \in Senders, TakeSeq(t) PROVE Slots(rx)' /\ Once(rx)'
  <2>1. UNCHANGED <<now, sendEpoch, rx, delivered>> /\ snd[t] # Idle
    BY <1>3 DEF TakeSeq
  <2>2. \A s \in DOMAIN sent : s \in DOMAIN sent' /\ sent'[s] = sent[s]
    BY <1>0, <1>3 DEF TakeSeq, TypeOK
  <2>3. \A s \in DOMAIN sent' : s \in DOMAIN sent \/ sent'[s].epoch = snd[t].epoch
    BY <1>0, <1>3 DEF TakeSeq, TypeOK
  <2>4. \A u \in Senders : snd'[u] \in {snd[u], Idle}
    BY <1>0, <1>3 DEF TakeSeq, TypeOK
  <2>5. Bereft(rx)'
    <3> SUFFICES ASSUME rx[0] = NoSlot, rx[1] # NoSlot
                 PROVE  /\ (sendEpoch > rx[1].epoch)'
                        /\ \A u \in Senders : snd'[u] # Idle => snd'[u].epoch > rx[1].epoch
                        /\ \A s \in DOMAIN sent' : InPlay(s)' => sent'[s].epoch > rx[1].epoch
      BY <2>1 DEF Bereft
    <3>1. /\ sendEpoch > rx[1].epoch
          /\ \A u \in Senders : snd[u] # Idle => snd[u].epoch > rx[1].epoch
          /\ \A s \in DOMAIN sent : InPlay(s) => sent[s].epoch > rx[1].epoch
      BY <1>0 DEF Slots, Bereft
    <3>2. \A s \in DOMAIN sent' : InPlay(s)' => sent'[s].epoch > rx[1].epoch
      BY <2>1, <2>2, <2>3, <3>1 DEF InPlay
    <3>3. QED
      BY <2>1, <2>4, <3>1, <3>2
  <2>6. Witnessed(rx)' /\ Ordered(rx)'
    BY <1>0, <2>1, <2>2 DEF Slots, Witnessed, Ordered
  <2>7. QED
    <3>1. Once(rx)'
      BY <1>0, <2>1, <2>2, OnceKept DEF SenderTimes
    <3>2. QED
      BY <1>0, <2>1, <2>5, <2>6, <3>1 DEF Slots
<1>4. ASSUME NEW t \in Receivers, NEW s \in Seqs, Precheck(t, s) PROVE Slots(rx)' /\ Once(rx)'
  <2>1. rx' = Evicted(rx, now) /\ UNCHANGED <<now, sendEpoch, snd, sent, delivered>>
    BY <1>4 DEF Precheck, senderVars
  <2>2. now \in Nat /\ now <= now
    BY <1>0 DEF SenderTimes
  <2>3. Slots(Evicted(rx, now))
    BY <1>0, <2>2, EvictedSlots
  <2>4. \A r \in DOMAIN sent : InPlay(r) /\ Remembered(rx, r) => Remembered(Evicted(rx, now), r)
    BY <1>0, <2>2, EvictedRemembers
  <2>5. Slots(rx)'
    BY <2>1, <2>3 DEF Slots, Witnessed, Ordered, Bereft, InPlay
  <2>6. Once(rx)'
    BY <1>0, <2>1, <2>4 DEF Once, Remembered, Holds, InPlay
  <2>7. QED
    BY <2>5, <2>6
<1>5. ASSUME NEW t \in Receivers, Commit(t) PROVE Slots(rx)' /\ Once(rx)'
  <2> DEFINE s == rcv[t].seq
             e == sent[s].epoch
             kept == Evicted(rx, rcv[t].since)
             after == Committed(kept, e, s, rcv[t].since)
  <2>1. /\ rcv[t] # Idle /\ rx' = after
        /\ delivered' = IF Acceptable(kept, e, s)
                          THEN [delivered EXCEPT ![s] = @ + 1] ELSE delivered
        /\ UNCHANGED <<now, sendEpoch, snd, sent>>
    BY <1>5 DEF Commit, senderVars
  <2>2. rcv[t].since \in Nat /\ rcv[t].since \in 1 .. MaxTime /\ rcv[t].since <= now /\ s \in Seqs
    <3>1. rcv[t].since \in 1 .. MaxTime /\ s \in Seqs
      BY <1>0, <2>1 DEF ReceiverTimes
    <3>2. rcv[t].since <= now
      BY <1>0, <2>1 DEF Handled
    <3>3. QED
      BY <3>1, <3>2
  <2>3. Committing(s, rcv[t].since)
    <3>1. /\ s \in DOMAIN sent /\ sent[s].at <= rcv[t].since /\ now <= rcv[t].since + Stall
          /\ rcv[t].since <= sent[s].at + Lifetime
      BY <1>0, <2>1 DEF Handled
    <3>2. now \in Nat /\ sent[s].at \in Nat /\ s \in Nat
      <4>1. now \in Nat /\ sent[s].at \in Nat
        BY <1>0, <3>1 DEF SenderTimes
      <4>2. QED
        BY <2>2, <4>1 DEF Seqs
    <3>3. InPlay(s)
      BY <2>2, <3>1, <3>2, Counts DEF InPlay
    <3>4. QED
      BY <2>2, <3>1, <3>2, <3>3 DEF Committing
  <2>4. Slots(kept)
    BY <1>0, <2>2, EvictedSlots
  <2>5. \A r \in DOMAIN sent : InPlay(r) /\ Remembered(rx, r) => Remembered(kept, r)
    BY <1>0, <2>2, EvictedRemembers
  <2>6. Slots(after)
    BY <1>0, <2>3, <2>4, CommittedSlots
  <2>7. \A r \in DOMAIN sent : r \in Nat /\ (Remembered(kept, r) \/ (r = s /\ Acceptable(kept, e, s)))
          => Remembered(after, r)
    BY <1>0, <2>3, <2>4, CommittedRemembers
  <2>8. s \in DOMAIN sent /\ InPlay(s) /\ DOMAIN sent \subseteq Nat /\ Seqs \subseteq Nat
    BY <1>0, <2>3 DEF Committing, TypeOK, Seqs
  <2>9. delivered[s] = 1 => ~ Acceptable(kept, e, s)
    BY <1>0, <2>2, <2>4, <2>5, <2>8, RememberedRefused DEF Once
  <2>10. \A r \in Seqs : delivered[r] \in Nat
    BY <1>0 DEF TypeOK
  <2>11. delivered \in [Seqs -> Nat]
    BY <1>0 DEF TypeOK
  <2> HIDE DEF kept, after, e, s
  <2>12. \A r \in Seqs : delivered'[r] = IF r = s /\ Acceptable(kept, e, s)
                                        THEN delivered[r] + 1 ELSE delivered[r]
    BY <2>1, <2>2, <2>11
  <2>13. \A r \in Seqs : delivered'[r] <= 1 /\ (delivered'[r] = 1 => r \in DOMAIN sent)
    <3>1. \A r \in Seqs : delivered[r] <= 1 /\ (delivered[r] = 1 => r \in DOMAIN sent)
      BY <1>0 DEF Once
    <3> SUFFICES ASSUME NEW r \in Seqs PROVE delivered'[r] <= 1 /\ (delivered'[r] = 1 => r \in DOMAIN sent)
      OBVIOUS
    <3>2. CASE r = s /\ Acceptable(kept, e, s)
      BY <2>8, <2>9, <2>10, <2>12, <3>1, <3>2
    <3>3. CASE ~ (r = s /\ Acceptable(kept, e, s))
      BY <2>12, <3>1, <3>3
    <3>4. QED
      BY <3>2, <3>3
  <2>14. \A r \in Seqs : delivered'[r] = 1 /\ InPlay(r) => Remembered(after, r)
    <3> SUFFICES ASSUME NEW r \in Seqs, delivered'[r] = 1, InPlay(r) PROVE Remembered(after, r)
      OBVIOUS
    <3>1. r \in DOMAIN sent /\ r \in Nat
      BY <2>8, <2>13
    <3>2. CASE delivered[r] = 1
      BY <1>0, <2>5, <2>7, <3>1, <3>2 DEF Once
    <3>3. CASE delivered[r] # 1
      BY <2>7, <2>12, <3>1, <3>3
    <3>4. QED
      BY <3>2, <3>3
  <2>15. Slots(rx)'
    BY <2>1, <2>6 DEF Slots, Witnessed, Ordered, Bereft, InPlay
  <2>16. Once(rx)'
    BY <2>1, <2>13, <2>14 DEF Once, Remembered, Holds, InPlay
  <2>17. QED
    BY <2>15, <2>16
<1>6. CASE Tick
  <2>1. now' = now + 1 /\ UNCHANGED <<sendEpoch, snd, sent, rx, delivered>>
    BY <1>6 DEF Tick, senderVars
  <2>2. \A s \in DOMAIN sent : InPlay(s)' => InPlay(s)
    BY <1>0, <2>1, Counts DEF InPlay, SenderTimes
  <2>3. Slots(rx)'
    BY <1>0, <2>1, <2>2 DEF Slots, Witnessed, Ordered, Bereft
  <2>4. QED
    BY <1>0, <2>1, <2>3, OnceKept DEF SenderTimes
<1>7. CASE UNCHANGED <<now, senderVars, rx, delivered>>
  <2>1. UNCHANGED <<now, sendEpoch, snd, sent, rx, delivered>>
    BY <1>7 DEF senderVars
  <2>2. Slots(rx)'
    BY <1>0, <2>1 DEF Slots, Witnessed, Ordered, Bereft, InPlay
  <2>3. QED
    BY <1>0, <2>1, <2>2, OnceSame
<1>8. QED
  BY <1>1, <1>2, <1>3, <1>4, <1>5, <1>6, <1>7 DEF Next, vars, senderVars, RotateOwn, DecryptFail

\* The invariant holds in every behaviour.
LEMMA Invariance == ASSUME Constants, Timing PROVE Spec => []IInv
<1>1. Init => IInv
  <2> SUFFICES ASSUME Init PROVE IInv
    OBVIOUS
  <2>1. TypeOK
    BY InitType
  <2>2. DOMAIN sent = {} /\ (\A t \in Senders : snd[t] = Idle) /\ (\A t \in Receivers : rcv[t] = Idle)
    BY DEF Init
  <2>3. rx[0] = NoSlot /\ rx[1] = NoSlot /\ \A s \in Seqs : delivered[s] = 0
    BY DEF Init
  <2>4. Numbered /\ Handled
    BY <2>2 DEF Numbered, Handled
  <2>5. Slots(rx) /\ Once(rx)
    <3>1. Slots(rx)
      BY <2>1, <2>3 DEF Slots, Witnessed, Ordered, Bereft, TypeOK
    <3>2. Once(rx)
      BY <2>3 DEF Once
    <3>3. QED
      BY <3>1, <3>2
  <2>6. QED
    BY <2>1, <2>4, <2>5 DEF IInv
<1>2. IInv /\ [Next]_vars => IInv'
  <2> SUFFICES ASSUME IInv, [Next]_vars PROVE IInv'
    OBVIOUS
  <2>1. TypeOK'
    BY StepType DEF IInv, Handled, SentHandled
  <2>2. Numbered' /\ Handled'
    BY StepNumbered, StepHandled DEF IInv
  <2>3. QED
    BY <2>1, <2>2, StepSlots DEF IInv
<1>3. QED
  BY <1>1, <1>2, PTL DEF Spec

\* The newest epoch is in slot 0, and the two slots never hold the same one,
\* whatever evict_old_rx_slots forgets.
THEOREM SlotsOrderedHolds == ASSUME Constants, Timing PROVE Spec => []SlotsOrdered
<1>1. IInv => SlotsOrdered
  BY DEF IInv, Slots, Ordered, SlotsOrdered
<1>2. QED
  BY <1>1, Invariance, PTL

\* A SecureDatagramSession delivers a packet at most once, for every window size
\* and any number of threads, when slots outlive packets and calls.
THEOREM AtMostOnceHolds == ASSUME Constants, Timing PROVE Spec => []AtMostOnce
<1>1. IInv => AtMostOnce
  BY DEF IInv, Once, AtMostOnce
<1>2. QED
  BY <1>1, Invariance, PTL
=============================================================================
