----------------------------- MODULE PeerProofs -----------------------------
(***************************************************************************)
(* Proofs about what a node agrees on with a peer: the key of a session    *)
(* through relays, and who initiates the exchange of routes.  The two      *)
(* components share no state: the first section declares the constants and *)
(* the variables of its component, and a name that occurs in both is the   *)
(* same only by accident.                                                  *)
(***************************************************************************)
EXTENDS RouteElection, Integers, Sequences, TLAPS

----------------------------------------------------------------------------
(* RelayHandshake: for any limits and any losses, the entry of a peer in   *)
(* pending_handshakes is the attempt that its task waits for.  It is       *)
(* inductive together with the limits.                                     *)

CONSTANTS Senders, MaxAttempts, MaxPending, FailThreshold, Ids, Keys, MaxLost, MaxLate, MaxEvicted
VARIABLES key, bad, task, pend, reply, backoff, sending, buf, net

H == INSTANCE RelayHandshake

\* What the proofs assume of the constants: a peer makes an attempt, and a session
\* has a failure before it ends.
RelayConstants == MaxAttempts \in Nat \ {0} /\ MaxPending \in Nat /\ FailThreshold \in Nat \ {0}

\* The task t of a peer and the entry p of pending_handshakes go together.
Waits(t, p) ==
    /\ t = [pc |-> t.pc, attempt |-> t.attempt, id |-> t.id, got |-> t.got]
    /\ t.attempt \in 0 .. MaxAttempts
    /\ t.pc = "sleep" => t.attempt < MaxAttempts
    /\ p # 0 => t.pc = "wait" /\ p = t.id /\ t.got = H!None

\* The tasks and the entries of both peers.
Awaited ==
    /\ task = [n \in H!Peer |-> task[n]] /\ pend = [n \in H!Peer |-> pend[n]]
    /\ \A n \in H!Peer : Waits(task[n], pend[n])

\* The inductive invariant.
RelayInv ==
    /\ Awaited
    /\ buf \in [H!Peer -> 0 .. MaxPending] /\ bad \in [H!Peer -> 0 .. FailThreshold - 1]
    /\ \A m \in net : m.from \in H!Peer

\* A peer sends at most MaxPending buffered packets and makes at most MaxAttempts
\* attempts, and a session ends with its FailThreshold-th failure.
Bounded ==
    \A n \in H!Peer :
        buf[n] <= MaxPending /\ task[n].attempt <= MaxAttempts /\ bad[n] < FailThreshold

\* A step changes the task and the entry of one peer.
LEMMA OneWaits ==
    ASSUME Awaited, NEW n \in H!Peer, NEW t, NEW p, Waits(t, p),
           task' = [task EXCEPT ![n] = t], pend' = [pend EXCEPT ![n] = p]
    PROVE  Awaited'
<1>1. task'[n] = t /\ pend'[n] = p
  BY DEF Awaited
<1>2. \A m \in H!Peer : m # n => task'[m] = task[m] /\ pend'[m] = pend[m]
  BY DEF Awaited
<1>3. task' = [m \in H!Peer |-> task'[m]] /\ pend' = [m \in H!Peer |-> pend'[m]]
  BY DEF Awaited
<1>4. \A m \in H!Peer : Waits(task'[m], pend'[m])
  BY <1>1, <1>2 DEF Awaited
<1> QED BY <1>3, <1>4 DEF Awaited

\* A step changes the task only.
LEMMA TaskWaits ==
    ASSUME Awaited, NEW n \in H!Peer, NEW t, Waits(t, pend[n]),
           task' = [task EXCEPT ![n] = t], pend' = pend
    PROVE  Awaited'
<1>1. pend' = [pend EXCEPT ![n] = pend[n]]
  BY DEF Awaited
<1> QED BY <1>1, OneWaits

\* The entry of an attempt is removed.
LEMMA EntryGoes ==
    ASSUME Awaited, NEW n \in H!Peer, task' = task, pend' = [pend EXCEPT ![n] = 0]
    PROVE  Awaited'
<1>1. task' = [task EXCEPT ![n] = task[n]] /\ Waits(task[n], 0)
  BY DEF Awaited, Waits
<1> QED BY <1>1, OneWaits

\* A peer without a task has no entry.
LEMMA FreeWaits == ASSUME RelayConstants PROVE Waits(H!Free, 0)
<1>1. 0 \in 0 .. MaxAttempts
  BY DEF RelayConstants
<1> QED BY <1>1 DEF Waits, H!Free

\* A task is started when none runs.
LEMMA StartedWaits ==
    ASSUME RelayConstants, Awaited, NEW n \in H!Peer, task' = H!Started(n), pend' = pend
    PROVE  Awaited'
<1>1. CASE task[n].pc = "free"
  <2>1. Waits(task[n], pend[n])
    BY DEF Awaited
  <2> DEFINE t == [pc |-> "start", attempt |-> task[n].attempt, id |-> task[n].id, got |-> task[n].got]
  <2>2. [task[n] EXCEPT !.pc = "start"] = t
    BY <2>1 DEF Waits
  <2>3. task' = [task EXCEPT ![n] = t]
    BY <1>1, <2>2 DEF H!Started, Awaited
  <2>4. Waits(t, pend[n])
    BY <1>1, <2>1 DEF Waits
  <2> HIDE DEF t
  <2> QED BY <2>3, <2>4, TaskWaits
<1>2. CASE task[n].pc # "free"
  BY <1>2 DEF H!Started, Awaited
<1> QED BY <1>1, <1>2

\* An attempt waits for its own entry.
LEMMA AttemptWaits ==
    ASSUME RelayConstants, Awaited, NEW n \in H!Peer, NEW i \in 1 .. MaxAttempts, H!Attempt(n, i)
    PROVE  Awaited'
<1> DEFINE t == [pc |-> "wait", attempt |-> i, id |-> H!FreshId, got |-> H!None]
<1>1. task' = [task EXCEPT ![n] = t] /\ pend' = [pend EXCEPT ![n] = H!FreshId]
  BY DEF H!Attempt
<1>2. Waits(t, H!FreshId)
  BY DEF Waits, RelayConstants
<1> QED BY <1>1, <1>2, OneWaits

\* A failed attempt has no entry; the task sleeps or is over.
LEMMA FailedWaits ==
    ASSUME RelayConstants, Awaited, NEW n \in H!Peer, H!Failed(n),
           pend' = [pend EXCEPT ![n] = 0] \/ (pend' = pend /\ pend[n] = 0)
    PROVE  Awaited' /\ (buf \in [H!Peer -> 0 .. MaxPending] => buf' \in [H!Peer -> 0 .. MaxPending])
<1>0. pend' = [pend EXCEPT ![n] = 0] /\ task[n].attempt \in 0 .. MaxAttempts
  BY DEF Awaited, Waits
<1>1. buf' = buf \/ buf' = [buf EXCEPT ![n] = 0]
  BY DEF H!Failed
<1>2. CASE task[n].attempt < MaxAttempts
  <2> DEFINE t == [pc |-> "sleep", attempt |-> task[n].attempt, id |-> 0, got |-> H!None]
  <2>1. task' = [task EXCEPT ![n] = t]
    BY <1>2 DEF H!Failed, H!Free
  <2>2. Waits(t, 0)
    BY <1>0, <1>2 DEF Waits
  <2>3. Awaited'
    BY <1>0, <2>1, <2>2, OneWaits
  <2> QED BY <1>1, <2>3 DEF RelayConstants
<1>3. CASE ~ (task[n].attempt < MaxAttempts)
  <2>1. task' = [task EXCEPT ![n] = H!Free]
    BY <1>3 DEF H!Failed
  <2>2. Waits(H!Free, 0)
    BY FreeWaits
  <2>3. Awaited'
    BY <1>0, <2>1, <2>2, OneWaits
  <2> QED BY <1>1, <2>3 DEF RelayConstants
<1> QED BY <1>2, <1>3

\* The initial states.
LEMMA RelayInit == ASSUME RelayConstants PROVE H!Init => RelayInv
<1> SUFFICES ASSUME H!Init PROVE RelayInv
  OBVIOUS
<1>1. Waits(H!Free, 0)
  BY FreeWaits
<1>2. Awaited
  BY <1>1 DEF H!Init, Awaited
<1>3. buf \in [H!Peer -> 0 .. MaxPending] /\ bad \in [H!Peer -> 0 .. FailThreshold - 1]
  BY DEF H!Init, RelayConstants
<1> QED BY <1>2, <1>3 DEF RelayInv, H!Init

\* A message goes to the other peer.
LEMMA OtherPeer == ASSUME NEW n \in H!Peer PROVE H!Other(n) \in H!Peer
  BY DEF H!Peer, H!Other

\* A step that leaves tasks, entries, buffers and failures alone.
LEMMA RelaySame ==
    ASSUME RelayInv, UNCHANGED <<task, pend, buf, bad>>, \A m \in net' : m.from \in H!Peer
    PROVE  RelayInv'
  BY DEF RelayInv, Awaited

\* Sending packets and receiving them.
LEMMA PacketStep ==
    ASSUME RelayConstants, RelayInv,
           \/ \E n \in H!Peer : H!Send(n) \/ H!Buffer(n)
           \/ \E m \in net : H!Receive(m)
    PROVE  RelayInv'
<1>1. ASSUME NEW n \in H!Peer, H!Send(n) PROVE RelayInv'
  <2>1. pend' = pend /\ buf' = buf /\ bad' = bad /\ net' \subseteq net \cup {H!Data(n)}
    BY <1>1 DEF H!Send
  <2>2. \A m \in net' : m.from \in H!Peer
    BY <2>1 DEF RelayInv, H!Data
  <2>3. task' = task \/ task' = H!Started(n)
    BY <1>1 DEF H!Send
  <2>4. Awaited'
    <3>1. CASE task' = task
      BY <2>1, <3>1 DEF RelayInv, Awaited
    <3>2. CASE task' = H!Started(n)
      BY <2>1, <3>2, StartedWaits DEF RelayInv
    <3> QED BY <2>3, <3>1, <3>2
  <2> QED BY <2>1, <2>2, <2>4 DEF RelayInv
<1>2. ASSUME NEW n \in H!Peer, H!Buffer(n) PROVE RelayInv'
  <2>1. buf' \in [H!Peer -> 0 .. MaxPending]
    <3>1. buf \in [H!Peer -> 0 .. MaxPending] /\ MaxPending \in Nat
      BY DEF RelayInv, RelayConstants
    <3>2. (IF buf[n] < MaxPending THEN buf[n] + 1 ELSE buf[n]) \in 0 .. MaxPending
      BY <3>1
    <3>3. buf' = [buf EXCEPT ![n] = IF buf[n] < MaxPending THEN buf[n] + 1 ELSE buf[n]]
      BY <1>2, <3>1 DEF H!Buffer
    <3> QED BY <3>1, <3>2, <3>3
  <2>2. task' = task /\ pend' = pend /\ bad' = bad /\ net' = net
    BY <1>2 DEF H!Buffer
  <2> QED BY <2>1, <2>2 DEF RelayInv, Awaited
<1>3. ASSUME NEW m \in net, H!Receive(m) PROVE RelayInv'
  <2> DEFINE n == H!Other(m.from)
  <2>0. n \in H!Peer
    BY OtherPeer DEF RelayInv
  <2>1. /\ task' = task \/ task' = H!Started(n)
        /\ bad' = [bad EXCEPT ![n] = IF key[n] \in {0, m.key} \/ @ + 1 = FailThreshold
                                     THEN 0 ELSE @ + 1]
        /\ pend' = pend /\ buf' = buf /\ net' \subseteq net
    BY <1>3 DEF H!Receive
  <2> HIDE DEF n
  <2>2. bad' \in [H!Peer -> 0 .. FailThreshold - 1]
    <3>1. bad \in [H!Peer -> 0 .. FailThreshold - 1] /\ FailThreshold \in Nat \ {0}
      BY DEF RelayInv, RelayConstants
    <3>2. bad[n] \in 0 .. FailThreshold - 1
      BY <2>0, <3>1
    <3>3. (IF key[n] \in {0, m.key} \/ bad[n] + 1 = FailThreshold THEN 0 ELSE bad[n] + 1)
            \in 0 .. FailThreshold - 1
      BY <3>1, <3>2
    <3> QED BY <2>0, <2>1, <3>1, <3>3
  <2>3. Awaited'
    <3>1. CASE task' = task
      BY <2>1, <3>1 DEF RelayInv, Awaited
    <3>2. CASE task' = H!Started(n)
      BY <2>0, <2>1, <3>2, StartedWaits DEF RelayInv
    <3> QED BY <2>1, <3>1, <3>2
  <2> QED BY <2>1, <2>2, <2>3 DEF RelayInv
<1> QED BY <1>1, <1>2, <1>3

\* The buffer is emptied or left.
LEMMA BufferGoes ==
    ASSUME RelayConstants, RelayInv, NEW n \in H!Peer, buf' = buf \/ buf' = [buf EXCEPT ![n] = 0]
    PROVE  buf' \in [H!Peer -> 0 .. MaxPending]
  BY DEF RelayConstants, RelayInv

\* The packets that are flushed come from the peer.
LEMMA FlushedFrom ==
    ASSUME NEW n \in H!Peer, NEW k, NEW m \in H!Flushed(n, k)
    PROVE  m.from \in H!Peer
  BY DEF H!Flushed

\* The steps of the initiator.
LEMMA InitiatorStep ==
    ASSUME RelayConstants, RelayInv, NEW n \in H!Peer,
           \/ H!Start(n) \/ H!Retry(n) \/ H!Timeout(n) \/ H!Cancelled(n) \/ H!Finish(n)
    PROVE  RelayInv'
<1>0. /\ Awaited /\ Waits(task[n], pend[n]) /\ \A m \in net : m.from \in H!Peer
      /\ MaxAttempts \in Nat \ {0}
  BY DEF RelayInv, Awaited, RelayConstants
<1>1. ASSUME NEW i \in 1 .. MaxAttempts, H!Attempt(n, i), buf' = buf, bad' = bad PROVE RelayInv'
  <2>1. Awaited'
    BY <1>0, <1>1, AttemptWaits
  <2>2. \A m \in net' : m.from \in H!Peer
    BY <1>0, <1>1 DEF H!Attempt
  <2> QED BY <1>1, <2>1, <2>2 DEF RelayInv
<1>2. ASSUME task' = [task EXCEPT ![n] = H!Free], pend' = pend, pend[n] = 0, bad' = bad,
             buf' = buf \/ buf' = [buf EXCEPT ![n] = 0], \A m \in net' : m.from \in H!Peer
      PROVE  RelayInv'
  <2>1. Waits(H!Free, pend[n])
    BY <1>2, FreeWaits
  <2>2. Awaited'
    BY <1>0, <1>2, <2>1, TaskWaits
  <2>3. buf' \in [H!Peer -> 0 .. MaxPending]
    BY <1>2, BufferGoes
  <2> QED BY <1>2, <2>2, <2>3 DEF RelayInv
<1>3. ASSUME H!Failed(n), pend' = [pend EXCEPT ![n] = 0] \/ (pend' = pend /\ pend[n] = 0),
             bad' = bad, net' = net
      PROVE  RelayInv'
  <2>1. Awaited' /\ buf' \in [H!Peer -> 0 .. MaxPending]
    BY <1>0, <1>3, FailedWaits DEF RelayInv
  <2> QED BY <1>3, <2>1 DEF RelayInv
<1>4. CASE H!Start(n)
  <2>1. CASE key[n] # 0 \/ backoff[n]
    <3>1. pend' = pend /\ pend[n] = 0 /\ bad' = bad /\ buf' = [buf EXCEPT ![n] = 0]
      BY <1>0, <1>4, <2>1 DEF H!Start, Waits
    <3>2. task' = [task EXCEPT ![n] = H!Free]
      BY <1>4, <2>1 DEF H!Start
    <3>3. \A m \in net' : m \in net \/ m \in H!Flushed(n, key[n])
      BY <1>4, <2>1 DEF H!Start
    <3>4. \A m \in net' : m.from \in H!Peer
      BY <1>0, <3>3, FlushedFrom
    <3> QED BY <1>2, <3>1, <3>2, <3>4
  <2>2. CASE ~ (key[n] # 0 \/ backoff[n])
    <3>1. H!Attempt(n, 1) /\ buf' = buf /\ bad' = bad
      BY <1>4, <2>2 DEF H!Start
    <3>2. 1 \in 1 .. MaxAttempts
      BY <1>0
    <3> QED BY <1>1, <3>1, <3>2
  <2> QED BY <2>1, <2>2
<1>5. CASE H!Retry(n)
  <2>1. /\ task[n].pc = "sleep" /\ H!Attempt(n, task[n].attempt + 1)
        /\ buf' = buf /\ bad' = bad
    BY <1>5 DEF H!Retry
  <2>2. task[n].attempt \in 0 .. MaxAttempts /\ task[n].attempt < MaxAttempts
    BY <1>0, <2>1 DEF Waits
  <2>3. task[n].attempt + 1 \in 1 .. MaxAttempts
    BY <1>0, <2>2
  <2> QED BY <1>1, <2>1, <2>3
<1>6. CASE H!Timeout(n)
  BY <1>3, <1>6 DEF H!Timeout
<1>7. CASE H!Cancelled(n)
  BY <1>3, <1>7 DEF H!Cancelled
<1>8. CASE H!Finish(n)
  <2>1. pend' = pend /\ bad' = bad /\ pend[n] = 0
    BY <1>0, <1>8 DEF H!Finish, Waits
  <2> DEFINE m == task[n].got
             k == IF m.key = 0 THEN key[n] ELSE m.key
  <2>2. CASE m.id = task[n].id /\ k # 0
    <3>1. /\ net' = net \cup H!Flushed(n, k) /\ buf' = [buf EXCEPT ![n] = 0]
          /\ task' = [task EXCEPT ![n] = H!Free]
      BY <1>8, <2>2 DEF H!Finish
    <3> HIDE DEF m, k
    <3>2. \A x \in net' : x.from \in H!Peer
      BY <1>0, <3>1, FlushedFrom
    <3> QED BY <1>2, <2>1, <3>1, <3>2
  <2>3. CASE ~ (m.id = task[n].id /\ k # 0)
    <3>1. H!Failed(n) /\ net' = net
      BY <1>8, <2>3 DEF H!Finish
    <3> QED BY <1>3, <2>1, <3>1
  <2> QED BY <2>2, <2>3
<1> QED BY <1>4, <1>5, <1>6, <1>7, <1>8

\* The steps of the responder, and answers that arrive.
LEMMA ResponderStep ==
    ASSUME RelayConstants, RelayInv,
           \/ \E n \in H!Peer : H!Respond(n)
           \/ \E m \in net : H!ReceiveAck(m) \/ H!ReceiveMsg1(m)
    PROVE  RelayInv'
<1>0. Awaited /\ \A m \in net : m.from \in H!Peer
  BY DEF RelayInv
<1>1. ASSUME NEW n \in H!Peer, H!Respond(n) PROVE RelayInv'
  <2>1. /\ task' = task /\ pend' = pend /\ buf' = [buf EXCEPT ![n] = 0]
        /\ bad' = [bad EXCEPT ![n] = IF key[n] = 0 THEN 0 ELSE @]
    BY <1>1 DEF H!Respond
  <2>2. buf' \in [H!Peer -> 0 .. MaxPending]
    BY <2>1, BufferGoes
  <2>3. bad' \in [H!Peer -> 0 .. FailThreshold - 1]
    BY <2>1 DEF RelayInv, RelayConstants
  <2>4. \A m \in net' : m.from \in H!Peer
    <3> DEFINE k == IF key[n] = 0 THEN H!FreshKey ELSE key[n]
               join == key[n] # 0 /\ reply[n].has
    <3>1. net' = net \cup H!Flushed(n, k) \cup
                {[type |-> "msg2", from |-> n, id |-> reply[n].id, key |-> IF join THEN 0 ELSE k]}
      BY <1>1 DEF H!Respond
    <3> HIDE DEF k, join
    <3> QED BY <1>0, <3>1, FlushedFrom
  <2> QED BY <2>1, <2>2, <2>3, <2>4 DEF RelayInv, Awaited
<1>2. ASSUME NEW m \in net, H!ReceiveAck(m) PROVE RelayInv'
  <2> DEFINE n == H!Other(m.from)
  <2>0. n \in H!Peer
    BY <1>0, OtherPeer
  <2>1. buf' = buf /\ bad' = bad /\ net' \subseteq net
    BY <1>2 DEF H!ReceiveAck
  <2>2. CASE pend[n] # 0
    <3>1. Waits(task[n], pend[n])
      BY <1>0, <2>0 DEF Awaited
    <3> DEFINE t == [pc |-> task[n].pc, attempt |-> task[n].attempt, id |-> task[n].id, got |-> m]
    <3>2. [task[n] EXCEPT !.got = m] = t
      BY <3>1 DEF Waits
    <3>3. pend' = [pend EXCEPT ![n] = 0] /\ task' = [task EXCEPT ![n].got = m]
      BY <1>2, <2>2 DEF H!ReceiveAck
    <3>4. task' = [task EXCEPT ![n] = t]
      BY <1>0, <2>0, <3>2, <3>3 DEF Awaited
    <3>5. Waits(t, 0)
      BY <3>1 DEF Waits
    <3> HIDE DEF t, n
    <3>6. Awaited'
      BY <1>0, <2>0, <3>3, <3>4, <3>5, OneWaits
    <3> QED BY <2>1, <3>6 DEF RelayInv
  <2>3. CASE pend[n] = 0
    <3>1. UNCHANGED <<pend, task>>
      BY <1>2, <2>3 DEF H!ReceiveAck
    <3> QED BY <1>0, <2>1, <3>1, RelaySame
  <2> QED BY <2>2, <2>3
<1>3. ASSUME NEW m \in net, H!ReceiveMsg1(m) PROVE RelayInv'
  <2> DEFINE n == H!Other(m.from)
  <2>0. n \in H!Peer
    BY <1>0, OtherPeer
  <2>1. /\ buf' = buf /\ bad' = bad /\ net' \subseteq net /\ task' = task
        /\ pend' = [pend EXCEPT ![n] = pend[n]] \/ pend' = [pend EXCEPT ![n] = 0]
    BY <1>3 DEF H!ReceiveMsg1
  <2> HIDE DEF n
  <2>2. CASE pend' = [pend EXCEPT ![n] = 0]
    BY <1>0, <2>0, <2>1, <2>2, EntryGoes DEF RelayInv
  <2>3. CASE pend' = [pend EXCEPT ![n] = pend[n]]
    <3>1. pend' = pend
      BY <1>0, <2>3 DEF Awaited
    <3> QED BY <1>0, <2>1, <3>1, RelaySame
  <2> QED BY <2>1, <2>2, <2>3
<1> QED BY <1>1, <1>2, <1>3

\* Every step keeps the invariant.
LEMMA RelayNext == ASSUME RelayConstants, RelayInv, [H!Next]_H!vars PROVE RelayInv'
<1>1. ASSUME NEW n \in H!Peer, H!BackoffEnds(n) \/ H!EvictSession(n) PROVE RelayInv'
  <2>1. UNCHANGED <<task, pend, buf, net>>
    BY <1>1 DEF H!BackoffEnds, H!EvictSession
  <2>2. bad' = bad \/ bad' = [bad EXCEPT ![n] = 0]
    BY <1>1 DEF H!BackoffEnds, H!EvictSession
  <2>3. bad' \in [H!Peer -> 0 .. FailThreshold - 1]
    BY <2>2 DEF RelayInv, RelayConstants
  <2> QED BY <2>1, <2>3 DEF RelayInv, Awaited
<1>2. ASSUME NEW m \in net, H!Lose(m) PROVE RelayInv'
  BY <1>2, RelaySame DEF H!Lose, RelayInv
<1>3. CASE UNCHANGED H!vars
  BY <1>3, RelaySame DEF H!vars, RelayInv
<1> QED BY <1>1, <1>2, <1>3, PacketStep, InitiatorStep, ResponderStep DEF H!Next

\* However the messages of two handshakes that started at once are lost, late or
\* crossed, the entry of a peer in pending_handshakes is the attempt its task waits
\* for.
THEOREM OwnAttemptHolds == ASSUME RelayConstants PROVE H!Spec => []H!OwnAttempt
<1>1. RelayInv => H!OwnAttempt
  BY DEF RelayInv, Awaited, Waits, H!OwnAttempt
<1>2. RelayInv /\ [H!Next]_H!vars => RelayInv'
  BY RelayNext
<1> QED BY <1>1, <1>2, RelayInit, PTL DEF H!Spec

\* The buffer of a peer, its attempts (HANDSHAKE_MAX_ATTEMPTS) and the failures of a
\* session stay within their limits.
THEOREM RelayBounded == ASSUME RelayConstants PROVE H!Spec => []Bounded
<1>1. RelayInv => Bounded
  BY DEF RelayInv, Awaited, Waits, Bounded, RelayConstants
<1>2. RelayInv /\ [H!Next]_H!vars => RelayInv'
  BY RelayNext
<1> QED BY <1>1, <1>2, RelayInit, PTL DEF H!Spec

----------------------------------------------------------------------------
(* RouteElection: a node initiates at most one session, for any nodes,     *)
(* links and failures.                                                     *)
(*                                                                         *)
(* OneInitiated is not inductive: it takes that the session a node         *)
(* initiates is the one cur names, since that is the one maintain_sessions *)
(* takes the flag from when it changes its mind.                           *)

\* The flags of a session.
Shaped(r) == r = [we |-> r.we, dst |-> r.dst, need |-> r.need]

\* The sessions f of a node have flags, and only the one with c is initiated.
Sound(f, c) ==
    /\ f = [p \in DOMAIN f |-> f[p]]
    /\ \A p \in DOMAIN f : Shaped(f[p]) /\ (f[p].we => p = c)

\* The inductive invariant: cur_dst_peer_id_to_initiate names the only session a
\* node initiates.
OnlyCurrent ==
    /\ sess = [n \in Node |-> sess[n]] /\ cur = [n \in Node |-> cur[n]]
    /\ \A n \in Node : Sound(sess[n], cur[n])

\* A session is added, or its flags change.
LEMMA WithSound ==
    ASSUME NEW f, NEW c, NEW p, NEW v, Sound(f, c), Shaped(v), v.we => p = c
    PROVE  Sound(With(f, p, v), c)
BY DEF Sound, With

\* Sessions are dropped.
LEMMA WithoutSound ==
    ASSUME NEW f, NEW c, NEW S, Sound(f, c)
    PROVE  Sound(Without(f, S), c)
BY DEF Sound, Without

\* A session that is dropped may have been the one initiated.
LEMMA DroppedSound ==
    ASSUME NEW f, NEW c, NEW S, NEW d, Sound(f, c), d = c \/ c \in S
    PROVE  Sound(Without(f, S), d)
BY DEF Sound, Without

\* What is to be told, and what the other end tells, is not who initiates.
LEMMA NeedSound ==
    ASSUME NEW f, NEW c, NEW p, NEW b, Sound(f, c)
    PROVE  /\ Sound([f EXCEPT ![p].need = b], c)
           /\ Sound([f EXCEPT ![p].dst = b], c)
<1>1. CASE p \in DOMAIN f
  <2>1. Shaped([f[p] EXCEPT !.need = b]) /\ [f[p] EXCEPT !.need = b].we = f[p].we
    BY <1>1 DEF Sound, Shaped
  <2>2. Shaped([f[p] EXCEPT !.dst = b]) /\ [f[p] EXCEPT !.dst = b].we = f[p].we
    BY <1>1 DEF Sound, Shaped
  <2> QED BY <1>1, <2>1, <2>2 DEF Sound
<1>2. CASE p \notin DOMAIN f
  BY <1>2 DEF Sound
<1> QED BY <1>1, <1>2

\* Initiating towards another peer takes the flag from the session initiated before.
LEMMA SwitchedSound ==
    ASSUME NEW n \in Node, NEW p, Sound(sess[n], cur[n])
    PROVE  Sound(Switched(n, p), p)
<1> DEFINE told == [q \in SessionsOf(n) |->
                       IF q = cur[n] THEN [sess[n][q] EXCEPT !.we = FALSE, !.need = TRUE]
                                     ELSE sess[n][q]]
           v == [we |-> TRUE, need |-> TRUE, dst |-> p \in SessionsOf(n) /\ sess[n][p].dst]
<1>1. ASSUME NEW q \in SessionsOf(n) PROVE Shaped(told[q]) /\ ~ told[q].we
  <2>1. CASE q = cur[n]
    <3>1. told[q] = [sess[n][q] EXCEPT !.we = FALSE, !.need = TRUE] /\ Shaped(sess[n][q])
      BY <2>1, Zenon DEF Sound, SessionsOf
    <3> HIDE DEF told
    <3>2. told[q] = [we |-> FALSE, dst |-> sess[n][q].dst, need |-> TRUE]
      BY <3>1 DEF Shaped
    <3> QED BY <3>2 DEF Shaped
  <2>2. CASE q # cur[n]
    BY <2>2 DEF Sound, SessionsOf
  <2> QED BY <2>1, <2>2
<1>2. Sound(told, p)
  BY <1>1 DEF Sound
<1>3. Shaped(v)
  BY DEF Shaped
<1> HIDE DEF told, v
<1>4. Sound(With(told, p, v), p)
  BY <1>2, <1>3, WithSound
<1> QED BY <1>4 DEF Switched, told, v

\* A call says whether the other end initiates.
LEMMA ToldSound ==
    ASSUME NEW p \in Node, NEW n, NEW b, Sound(sess[p], cur[p])
    PROVE  Sound(Told(p, n, b), cur[p])
<1> DEFINE r == IF n \in SessionsOf(p) THEN sess[p][n] ELSE NewFlags
           v == [r EXCEPT !.dst = b]
<1>1. Shaped(r) /\ (r.we => n = cur[p])
  BY DEF Sound, SessionsOf, NewFlags, Shaped
<1>2. Shaped(v) /\ v.we = r.we
  BY <1>1 DEF Shaped
<1> HIDE DEF r, v
<1>3. Sound(With(sess[p], n, v), cur[p])
  BY <1>1, <1>2, WithSound
<1> QED BY <1>3 DEF Told, r, v

\* No node has a session.
LEMMA ElectionInit ==
    Init => OnlyCurrent
BY DEF Init, OnlyCurrent, Sound

\* A step that changes the sessions of one node, and keeps them sound.
LEMMA OneChanged ==
    ASSUME OnlyCurrent, NEW n, NEW f, NEW c, n \in Node => Sound(f, c),
           sess' = [sess EXCEPT ![n] = f], cur' = [cur EXCEPT ![n] = c]
    PROVE  OnlyCurrent'
<1>1. ASSUME NEW m \in Node PROVE Sound(sess'[m], cur'[m])
  <2>1. CASE m = n
    BY <2>1 DEF OnlyCurrent
  <2>2. CASE m # n
    BY <2>2 DEF OnlyCurrent
  <2> QED BY <2>1, <2>2
<1> QED BY <1>1 DEF OnlyCurrent

\* A round of maintain_sessions, whether or not it finds a candidate.
LEMMA MaintainSound ==
    ASSUME OnlyCurrent, NEW n \in Node, Maintain(n)
    PROVE  OnlyCurrent'
<1> DEFINE stay == IF cur[n] \in Gone(n) THEN 0 ELSE cur[n]
           p == Choice(n)
           ss == IF p = stay THEN sess[n] ELSE Switched(n, p)
<1>0. Sound(sess[n], cur[n]) /\ (stay = cur[n] \/ cur[n] \in Gone(n))
  BY DEF OnlyCurrent
<1>1. CASE Candidates(n) = {}
  <2>1. cur' = [cur EXCEPT ![n] = stay] /\ sess' = [sess EXCEPT ![n] = Without(sess[n], Gone(n))]
    BY <1>1, Zenon DEF Maintain, StopSessions
  <2> HIDE DEF stay
  <2>2. Sound(Without(sess[n], Gone(n)), stay)
    BY <1>0, DroppedSound
  <2> QED BY <2>1, <2>2, OneChanged
<1>2. CASE Candidates(n) # {}
  <2> DEFINE S == Gone(n) \cup Idle(n, ss)
  <2>1. cur' = [cur EXCEPT ![n] = p] /\ sess' = [sess EXCEPT ![n] = Without(ss, S)]
    BY <1>2, Zenon DEF Maintain, StopSessions
  <2>2. Sound(Without(ss, S), p)
    <3>1. CASE p = stay
      <4>1. ss = sess[n]
        BY <3>1
      <4>2. p = cur[n] \/ cur[n] \in S
        BY <1>0, <3>1
      <4> HIDE DEF stay, p, ss, S
      <4> QED BY <1>0, <4>1, <4>2, DroppedSound
    <3>2. CASE p # stay
      <4>1. ss = Switched(n, p)
        BY <3>2
      <4> HIDE DEF stay, p, ss, S
      <4> QED BY <1>0, <4>1, SwitchedSound, WithoutSound
    <3> QED BY <3>1, <3>2
  <2> HIDE DEF stay, p, ss, S
  <2> QED BY <2>1, <2>2, OneChanged
<1> QED BY <1>1, <1>2

\* Every step keeps the invariant.
LEMMA ElectionNext ==
    ASSUME OnlyCurrent, [Next]_vars
    PROVE  OnlyCurrent'
<1>c. ASSUME NEW n, UNCHANGED cur PROVE cur' = [cur EXCEPT ![n] = cur[n]]
  BY <1>c DEF OnlyCurrent
<1>1. ASSUME NEW n \in Node, Maintain(n) PROVE OnlyCurrent'
  BY <1>1, MaintainSound
<1>2. ASSUME UNCHANGED <<sess, cur>> PROVE OnlyCurrent'
  BY <1>2 DEF OnlyCurrent
<1>3. ASSUME NEW n \in Node, NEW p \in Node, NEW b, UNCHANGED cur,
             \/ sess' = [sess EXCEPT ![n][p].need = b]
             \/ sess' = [sess EXCEPT ![n][p].dst = b]
      PROVE  OnlyCurrent'
  <2>1. /\ Sound([sess[n] EXCEPT ![p].need = b], cur[n])
        /\ Sound([sess[n] EXCEPT ![p].dst = b], cur[n])
    BY NeedSound DEF OnlyCurrent
  <2>2. \/ sess' = [sess EXCEPT ![n] = [sess[n] EXCEPT ![p].need = b]]
        \/ sess' = [sess EXCEPT ![n] = [sess[n] EXCEPT ![p].dst = b]]
    BY <1>3
  <2> QED BY <1>c, <1>3, <2>1, <2>2, OneChanged
<1>4. ASSUME NEW p, NEW n, NEW b, UNCHANGED cur, sess' = [sess EXCEPT ![p] = Told(p, n, b)]
      PROVE  OnlyCurrent'
  <2>1. p \in Node => Sound(Told(p, n, b), cur[p])
    BY ToldSound DEF OnlyCurrent
  <2> QED BY <1>c, <1>4, <2>1, OneChanged
<1>5. ASSUME NEW n \in Node, NEW p \in Node, LearnNat(n, p) PROVE OnlyCurrent'
  BY <1>2, <1>5 DEF LearnNat
<1>6. ASSUME NEW n \in Node, NEW p \in Node, Send(n, p) PROVE OnlyCurrent'
  BY <1>3, <1>6, Zenon DEF Send
<1>7. ASSUME NEW n \in Node, NEW p \in Node, Handle(n, p) PROVE OnlyCurrent'
  BY <1>4, <1>7, Zenon DEF Handle
<1>8. ASSUME NEW n \in Node, NEW p \in Node, Answered(n, p) PROVE OnlyCurrent'
  BY <1>3, <1>8, Zenon DEF Answered
<1>9. ASSUME NEW n \in Node, NEW p \in Node, Fail(n, p) PROVE OnlyCurrent'
  BY <1>3, <1>9, Zenon DEF Fail
<1>10. ASSUME NEW m \in stray, HandleStray(m) PROVE OnlyCurrent'
  BY <1>2, <1>4, <1>10, Zenon DEF HandleStray
<1>11. ASSUME NEW l \in Flapping, Flap(l) PROVE OnlyCurrent'
  BY <1>2, <1>11 DEF Flap
<1>12. CASE UNCHANGED vars
  BY <1>2, <1>12 DEF vars
<1> QED
  BY <1>1, <1>5, <1>6, <1>7, <1>8, <1>9, <1>10, <1>11, <1>12 DEF Next

\* Facts about finite sets.
FS == INSTANCE FiniteSetTheorems

\* Both modules count the same.
LEMMA SameCount == ASSUME NEW S PROVE FS!Cardinality(S) = Cardinality(S)
  BY Zenon DEF FS!Cardinality, Cardinality

\* For any nodes and links, failing calls, late calls and links that break, a node
\* initiates at most one session (maintain_sessions).
THEOREM OneInitiatedHolds ==
    Spec => []OneInitiated
<1>1. ASSUME OnlyCurrent PROVE OneInitiated
  <2> SUFFICES ASSUME NEW n \in Node
               PROVE  Cardinality({p \in Node : Initiates(n, p)}) <= 1
    BY DEF OneInitiated
  <2>1. {p \in Node : Initiates(n, p)} \subseteq {cur[n]}
    BY <1>1 DEF OnlyCurrent, Sound, Initiates, SessionsOf
  <2>2. FS!IsFiniteSet({cur[n]}) /\ FS!Cardinality({cur[n]}) = 1
    BY FS!FS_Singleton
  <2>3. FS!Cardinality({p \in Node : Initiates(n, p)}) <= 1
    BY <2>1, <2>2, FS!FS_Subset
  <2> QED BY <2>3, SameCount
<1> QED BY ElectionInit, ElectionNext, <1>1, PTL DEF Spec
=============================================================================
