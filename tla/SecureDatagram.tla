--------------------------- MODULE SecureDatagram ---------------------------
(***************************************************************************)
(* One direction of a SecureDatagramSession: threads of the sender that    *)
(* number packets by epoch and sequence number, a network that loses,      *)
(* reorders, duplicates, damages and delays them, and threads of the       *)
(* receiver that check a packet against the receive slots, decrypt it      *)
(* without holding the lock, and then check again and record it.           *)
(*                                                                         *)
(* The receiver keeps one window for the newest epoch it has seen and one  *)
(* for the epoch before, and forgets a slot that has been idle for too     *)
(* long.  Keys are a function of the epoch and are not modelled.  The      *)
(* session is not synchronised anew (sync_root_key) within a behaviour.    *)
(***************************************************************************)
EXTENDS SeqWindow, FiniteSets

CONSTANTS
    Senders,       \* sending threads
    Receivers,     \* receiving threads
    MaxAhead,      \* MAX_ACCEPTED_RX_EPOCH_AHEAD
    EvictAfter,    \* EVICT_IDLE_AFTER_MS
    FailThreshold, \* DECRYPT_FAIL_THRESHOLD
    Lifetime,      \* network: how long copies of a packet may arrive
    Stall,         \* scheduling: how long one encrypt or decrypt call may take
    MaxEpoch, MaxOwnEpoch, MaxSeq, MaxTime, \* bounds
    NoSlot,
    Idle

ASSUME DatagramAssumption ==
    /\ {MaxAhead, EvictAfter, FailThreshold, Lifetime, Stall} \subseteq Nat
    /\ {MaxEpoch, MaxOwnEpoch, MaxSeq, MaxTime} \subseteq Nat
    /\ FailThreshold > 0

VARIABLES
    now,         \* the clock
    sendEpoch,   \* send_epoch of the sender
    sendSeq,     \* send_seq of the sender
    snd,         \* snd[t]: the epoch thread t has loaded and when, or Idle
    sent,        \* sent[s]: epoch and time of the packet with number s
    ownEpoch,    \* send_epoch of the receiver, for its own direction
    rx,          \* rx[0], rx[1]: the receive slots of this direction
    rcv,         \* rcv[t]: the packet thread t is decrypting, or Idle
    failCount,   \* decrypt_fail_count
    invalidated,
    delivered    \* history: how often the packet with number s was delivered

vars == <<now, sendEpoch, sendSeq, snd, sent, ownEpoch, rx, rcv, failCount,
          invalidated, delivered>>

senderVars == <<sendEpoch, sendSeq, snd, sent>>

Slot == [epoch : 0 .. MaxEpoch, window : WindowState, last : 0 .. MaxTime]

Seqs == 0 .. MaxSeq

Init ==
    /\ now = 1
    /\ sendEpoch = 0
    /\ sendSeq = 0
    /\ snd = [t \in Senders |-> Idle]
    /\ sent = [s \in {} |-> Idle]
    /\ ownEpoch = 0
    /\ rx = [i \in {0, 1} |-> NoSlot]
    /\ rcv = [t \in Receivers |-> Idle]
    /\ failCount = 0
    /\ invalidated = FALSE
    /\ delivered = [s \in Seqs |-> 0]

----------------------------------------------------------------------------
(* Sending *)

\* maybe_rotate_epoch: after so many packets or minutes the epoch is advanced;
\* when that is due is left open.
Rotate ==
    /\ sendEpoch < MaxEpoch
    /\ sendEpoch' = sendEpoch + 1
    /\ UNCHANGED <<now, sendSeq, snd, sent, ownEpoch, rx, rcv, failCount, invalidated, delivered>>

\* next_nonce: the epoch is loaded ...
LoadEpoch(t) ==
    /\ snd[t] = Idle
    /\ snd' = [snd EXCEPT ![t] = [epoch |-> sendEpoch, since |-> now]]
    /\ UNCHANGED <<now, sendEpoch, sendSeq, sent, ownEpoch, rx, rcv, failCount, invalidated, delivered>>

\* ... and a sequence number taken; numbering goes on across epochs.
TakeSeq(t) ==
    /\ snd[t] # Idle
    /\ sendSeq <= MaxSeq
    /\ sent' = [s \in DOMAIN sent \cup {sendSeq} |->
                  IF s = sendSeq THEN [epoch |-> snd[t].epoch, at |-> now] ELSE sent[s]]
    /\ sendSeq' = sendSeq + 1
    /\ snd' = [snd EXCEPT ![t] = Idle]
    /\ UNCHANGED <<now, sendEpoch, ownEpoch, rx, rcv, failCount, invalidated, delivered>>

\* The receiver rotates the epoch of its own direction.
RotateOwn ==
    /\ ownEpoch < MaxOwnEpoch
    /\ ownEpoch' = ownEpoch + 1
    /\ UNCHANGED <<now, senderVars, rx, rcv, failCount, invalidated, delivered>>

----------------------------------------------------------------------------
(* Receiving *)

\* evict_old_rx_slots, at the time t the thread has read.
Evicted(slots, t) ==
    [i \in {0, 1} |->
       IF slots[i] # NoSlot /\ t - slots[i].last > EvictAfter THEN NoSlot ELSE slots[i]]

Holds(slot, epoch) == slot # NoSlot /\ slot.epoch = epoch

Epochs(slots) == {slots[i].epoch : i \in {j \in {0, 1} : slots[j] # NoSlot}}

\* Fault: an epoch other than the current one counts as newer.
NewEpochAny(slots, epoch) ==
    \E e \in Epochs(slots) \cup {ownEpoch} : epoch <= e + MaxAhead

\* A newer epoch is let in up to MaxAhead beyond what this side has seen or
\* uses itself.
NewEpochOk(slots, epoch) ==
    /\ epoch > slots[0].epoch
    /\ \E e \in Epochs(slots) \cup {ownEpoch} : epoch <= e + MaxAhead

\* precheck_replay after eviction; commit_replay decides by the same rules.
Acceptable(slots, epoch, s) ==
    \/ slots[0] = NoSlot
    \/ Holds(slots[0], epoch) /\ CanAccept(slots[0].window, s)
    \/ /\ slots[0] # NoSlot
       /\ ~ Holds(slots[0], epoch)
       /\ \/ Holds(slots[1], epoch) /\ CanAccept(slots[1].window, s)
          \/ ~ Holds(slots[1], epoch) /\ NewEpochOk(slots, epoch)

Opened(epoch, s, t) == [epoch |-> epoch, window |-> Marked(Unused, s), last |-> t]

Noted(slot, s, t) ==
    [slot EXCEPT !.last = t,
                 !.window = IF CanAccept(@, s) THEN Marked(@, s) ELSE @]

\* The slots commit_replay leaves: a known epoch's window is updated and its
\* idle time restarted also when the number is refused; an acceptable newer
\* epoch moves slot 0 to slot 1.
Committed(slots, epoch, s, t) ==
    CASE slots[0] = NoSlot -> [slots EXCEPT ![0] = Opened(epoch, s, t)]
      [] Holds(slots[0], epoch) -> [slots EXCEPT ![0] = Noted(@, s, t)]
      [] slots[0] # NoSlot /\ slots[0].epoch # epoch /\ Holds(slots[1], epoch) ->
           [slots EXCEPT ![1] = Noted(@, s, t)]
      [] OTHER ->
           IF NewEpochOk(slots, epoch)
             THEN [i \in {0, 1} |-> IF i = 0 THEN Opened(epoch, s, t) ELSE slots[0]]
             ELSE slots

\* A copy of packet s reaches thread t within the packet's lifetime.  The clock
\* is read, and precheck_replay evicts and lets the packet pass or drops it.
Precheck(t, s) ==
    /\ rcv[t] = Idle
    /\ ~ invalidated
    /\ s \in DOMAIN sent
    /\ now - sent[s].at <= Lifetime
    /\ rx' = Evicted(rx, now)
    /\ rcv' = IF Acceptable(rx', sent[s].epoch, s)
                THEN [rcv EXCEPT ![t] = [seq |-> s, since |-> now]] ELSE rcv
    /\ UNCHANGED <<now, senderVars, ownEpoch, failCount, invalidated, delivered>>

\* The copy was damaged on the way: decryption fails, the slots are left alone,
\* and enough failures in a row invalidate the session.
DecryptFail(t) ==
    /\ rcv[t] # Idle
    /\ rcv' = [rcv EXCEPT ![t] = Idle]
    /\ failCount' = failCount + 1
    /\ invalidated' = (invalidated \/ failCount' >= FailThreshold)
    /\ UNCHANGED <<now, senderVars, ownEpoch, rx, delivered>>

\* Fault: the packet is delivered on the strength of the first check.
CommitUnchecked(t) ==
    LET s == rcv[t].seq
        slots == Evicted(rx, rcv[t].since)
    IN
    /\ rcv[t] # Idle
    /\ rx' = Committed(slots, sent[s].epoch, s, rcv[t].since)
    /\ delivered' = [delivered EXCEPT ![s] = @ + 1]
    /\ rcv' = [rcv EXCEPT ![t] = Idle]
    /\ failCount' = 0
    /\ UNCHANGED <<now, senderVars, ownEpoch, invalidated>>

\* Decryption succeeds; commit_replay, with the time read before the precheck,
\* records the packet or refuses it after all.
Commit(t) ==
    LET s == rcv[t].seq
        slots == Evicted(rx, rcv[t].since)
    IN
    /\ rcv[t] # Idle
    /\ rx' = Committed(slots, sent[s].epoch, s, rcv[t].since)
    /\ delivered' = IF Acceptable(slots, sent[s].epoch, s)
                      THEN [delivered EXCEPT ![s] = @ + 1] ELSE delivered
    /\ rcv' = [rcv EXCEPT ![t] = Idle]
    /\ failCount' = 0
    /\ UNCHANGED <<now, senderVars, ownEpoch, invalidated>>

\* Time passes; no call of encrypt_payload or decrypt_payload takes longer than
\* Stall.
Tick ==
    /\ now < MaxTime
    /\ \A t \in Senders : snd[t] # Idle => now - snd[t].since < Stall
    /\ \A t \in Receivers : rcv[t] # Idle => now - rcv[t].since < Stall
    /\ now' = now + 1
    /\ UNCHANGED <<senderVars, ownEpoch, rx, rcv, failCount, invalidated, delivered>>

----------------------------------------------------------------------------

Next ==
    \/ Rotate
    \/ RotateOwn
    \/ \E t \in Senders : LoadEpoch(t) \/ TakeSeq(t)
    \/ \E t \in Receivers, s \in Seqs : Precheck(t, s)
    \/ \E t \in Receivers : DecryptFail(t) \/ Commit(t)
    \/ Tick

Spec == Init /\ [][Next]_vars

----------------------------------------------------------------------------
(* Properties *)

\* Every variable stays in its set.
TypeOK ==
    /\ now \in 1 .. MaxTime
    /\ sendEpoch \in 0 .. MaxEpoch
    /\ sendSeq \in 0 .. MaxSeq + 1
    /\ snd \in [Senders -> [epoch : 0 .. MaxEpoch, since : 1 .. MaxTime] \cup {Idle}]
    /\ DOMAIN sent = 0 .. sendSeq - 1
    /\ \A s \in DOMAIN sent : sent[s] \in [epoch : 0 .. MaxEpoch, at : 1 .. MaxTime]
    /\ ownEpoch \in 0 .. MaxOwnEpoch
    /\ rx \in [{0, 1} -> Slot \cup {NoSlot}]
    /\ rcv \in [Receivers -> [seq : Seqs, since : 1 .. MaxTime] \cup {Idle}]
    /\ failCount \in Nat
    /\ invalidated \in BOOLEAN
    /\ delivered \in [Seqs -> Nat]

\* A packet is delivered at most once, although copies are checked
\* concurrently, epochs are overtaken and slots are forgotten: what
\* precheck_replay, commit_replay and evict_old_rx_slots achieve together when
\* copies of a packet and the threads that handle them are not delayed by as
\* much as EVICT_IDLE_AFTER_MS.
AtMostOnce ==
    \A s \in Seqs : delivered[s] <= 1

\* The newest epoch is in slot 0, and the two slots never hold the same epoch.
SlotsOrdered ==
    rx[0] # NoSlot /\ rx[1] # NoSlot => rx[0].epoch > rx[1].epoch
=============================================================================
